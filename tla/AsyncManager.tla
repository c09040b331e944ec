---------------------------- MODULE AsyncManager ----------------------------
(***************************************************************************)
(* logging/manager.hpp, basic_async_manager: producers push records into   *)
(* the lock-free queue of MpmcQueue, a backend thread drains it to the     *)
(* sinks and parks on an atomic token, flush waits for it by polling, and  *)
(* shutdown stops it and drains once more.                                 *)
(*                                                                         *)
(* The queue is used through what MpmcQueue shows of it: a push takes the  *)
(* next ticket at its compare-exchange and publishes its slot later; a pop *)
(* takes the oldest ticket, and only if that one is published; its slot is *)
(* free for a push when the pop has released it.  Ticket t is log[t].      *)
(* Every atomic access is a step; the list of sinks is fixed and writing   *)
(* to all of them under m_sinks_mutex is one step.                         *)
(***************************************************************************)
EXTENDS Naturals, Sequences, FiniteSets

CONSTANTS Producers,   \* threads that push and flush
          Backend,     \* the backend thread
          Closer,      \* the thread that calls shutdown
          QueueSize,   \* Config::queue_size
          MaxPushes,   \* bound: how many records all producers offer
          MaxFlushes   \* bound: how many flushes all producers begin

ASSUME SizeAssumption == QueueSize \in Nat \ {0}
ASSUME BoundsAssumption == MaxPushes \in Nat /\ MaxFlushes \in Nat
ASSUME ThreadsAssumption ==
  Backend \notin Producers /\ Closer \notin Producers \cup {Backend}

Threads == Producers \cup {Backend, Closer}
Drainers == {Backend, Closer}
NoTicket == 0

VARIABLES
  log,          \* who pushed the record of each ticket handed out
  head,         \* m_dequeue_pos: how many tickets were popped
  published,    \* the tickets whose slot holds a constructed record
  reading,      \* the popped ticket whose slot is not released yet
  signal,       \* m_signal
  stop,         \* m_stop
  dispatching,  \* m_dispatching
  pc,           \* where each thread stands
  token,        \* the backend's local token, 0 outside its scope
  last,         \* the backend is past its loop
  current,      \* the ticket popped and not yet dispatched
  ticket,       \* the ticket each producer's push holds
  seen,         \* the first of the two loads of each producer's empty_approx
  offered,      \* how many records were offered
  flushes,      \* how many flushes were begun
  written,      \* the tickets written to the sinks, in order
  durable       \* how many of those a flush of the sinks has covered

queue == <<log, head, published, reading>>
atomics == <<signal, stop, dispatching>>
backend == <<token, last, current>>
producer == <<ticket, seen, offered, flushes>>
sinks == <<written, durable>>
vars == <<queue, atomics, pc, backend, producer, sinks>>

Init ==
  /\ log = << >> /\ head = 0 /\ published = {} /\ reading = NoTicket
  /\ signal = 0 /\ stop = FALSE /\ dispatching = FALSE
  /\ pc = [t \in Threads |-> IF t = Backend THEN "check" ELSE "idle"]
  /\ token = 0 /\ last = FALSE /\ current = NoTicket
  /\ ticket = [p \in Producers |-> NoTicket]
  /\ seen = [p \in Producers |-> << >>]
  /\ offered = 0
  /\ flushes = 0
  /\ written = << >> /\ durable = 0

Goto(t, label) == pc' = [pc EXCEPT ![t] = label]
Tail_ == Len(log)                       \* m_enqueue_pos
Ready == head + 1 \in published         \* try_pop would succeed

\* What notify_one leaves of a backend parked on m_signal; it then looks again.
Notify(t, label) ==
  pc' = [pc EXCEPT ![t] = label,
                   ![Backend] = IF @ = "parked" THEN "wait" ELSE @]

(***************************************************************************)
(* Wrong variants of single steps, for checking that the properties below  *)
(* watch them; no specification uses them.                                 *)
(***************************************************************************)

\* drain_queue does not raise the dispatching flag.
MarkNothing(d) ==
  /\ pc[d] = "mark"
  /\ Goto(d, "pop")
  /\ UNCHANGED <<queue, atomics, backend, producer, sinks>>

\* The backend waits on the value m_signal has when it is done.
WaitOnFreshToken ==
  /\ pc[Backend] = "wait"
  /\ Goto(Backend, "parked")
  /\ UNCHANGED <<queue, atomics, backend, producer, sinks>>

\* shutdown drains without having joined the backend.
DrainWithoutJoin ==
  /\ pc[Closer] = "join"
  /\ Goto(Closer, "mark")
  /\ UNCHANGED <<queue, atomics, backend, producer, sinks>>

\* shutdown does not bump the token.
StopSilently ==
  /\ pc[Closer] = "signal"
  /\ Goto(Closer, "join")
  /\ UNCHANGED <<queue, atomics, backend, producer, sinks>>

(***************************************************************************)
(* push and push_blocking.                                                 *)
(***************************************************************************)

\* The slot of the next ticket is free: the ticket QueueSize before it was popped
\* and its slot released.
HasRoom ==
  /\ Tail_ < head + QueueSize
  /\ reading # NoTicket => Tail_ + 1 # reading + QueueSize

\* The queue's compare-exchange succeeds, in a first attempt or while spinning.
PushClaim(p) ==
  /\ pc[p] \in {"idle", "spin"}
  /\ pc[p] = "idle" => offered < MaxPushes
  /\ HasRoom
  /\ offered' = IF pc[p] = "idle" THEN offered + 1 ELSE offered
  /\ log' = Append(log, p)
  /\ ticket' = [ticket EXCEPT ![p] = Len(log')]
  /\ Goto(p, "publish")
  /\ UNCHANGED <<head, published, reading, atomics, backend, seen, flushes, sinks>>

\* push on a full queue: the record is dropped and counted.
PushDrop(p) ==
  /\ pc[p] = "idle"
  /\ offered < MaxPushes
  /\ ~HasRoom
  /\ offered' = offered + 1
  /\ UNCHANGED <<queue, atomics, pc, backend, ticket, seen, flushes, sinks>>

\* push_blocking on a full queue: it keeps the record and tries again.
PushSpin(p) ==
  /\ pc[p] = "idle"
  /\ offered < MaxPushes
  /\ ~HasRoom
  /\ offered' = offered + 1
  /\ Goto(p, "spin")
  /\ UNCHANGED <<queue, atomics, backend, ticket, seen, flushes, sinks>>

PushYield(p) == pc[p] = "spin" /\ ~HasRoom /\ UNCHANGED vars

PushPublish(p) ==
  /\ pc[p] = "publish"
  /\ published' = published \cup {ticket[p]}
  /\ Goto(p, "signal")
  /\ UNCHANGED <<log, head, reading, atomics, backend, producer, sinks>>

\* wake_backend: m_signal.fetch_add ...
PushSignal(p) ==
  /\ pc[p] = "signal"
  /\ signal' = signal + 1
  /\ Goto(p, "notify")
  /\ UNCHANGED <<queue, stop, dispatching, backend, producer, sinks>>

\* ... and notify_one; the push returns.
PushNotify(p) ==
  /\ pc[p] = "notify"
  /\ Notify(p, "idle")
  /\ ticket' = [ticket EXCEPT ![p] = NoTicket]
  /\ UNCHANGED <<queue, atomics, backend, seen, offered, flushes, sinks>>

(***************************************************************************)
(* flush.                                                                  *)
(***************************************************************************)
\* empty_approx loads both positions relaxed, in either order.
FlushLoad(p) ==
  /\ seen[p] = << >>
  /\ \/ seen' = [seen EXCEPT ![p] = <<"head", head>>]
     \/ seen' = [seen EXCEPT ![p] = <<"tail", Tail_>>]

FlushBegin(p) ==
  /\ pc[p] = "idle"
  /\ flushes < MaxFlushes
  /\ flushes' = flushes + 1
  /\ FlushLoad(p)
  /\ Goto(p, "flush_size")
  /\ UNCHANGED <<queue, atomics, backend, ticket, offered, sinks>>

FlushAgain(p) ==
  /\ pc[p] = "flush_again"
  /\ FlushLoad(p)
  /\ Goto(p, "flush_size")
  /\ UNCHANGED <<queue, atomics, backend, ticket, offered, flushes, sinks>>

\* The second load: the queue looks empty, or the loop goes round.
FlushSize(p) ==
  LET empty == IF seen[p][1] = "head" THEN Tail_ <= seen[p][2] ELSE seen[p][2] <= head IN
  /\ pc[p] = "flush_size"
  /\ seen' = [seen EXCEPT ![p] = << >>]
  /\ Goto(p, IF empty THEN "flush_flag" ELSE "flush_again")
  /\ UNCHANGED <<queue, atomics, backend, ticket, offered, flushes, sinks>>

FlushFlag(p) ==
  /\ pc[p] = "flush_flag"
  /\ Goto(p, IF dispatching THEN "flush_again" ELSE "flush_sinks")
  /\ UNCHANGED <<queue, atomics, backend, producer, sinks>>

FlushSinks(p) ==
  /\ pc[p] = "flush_sinks"
  /\ durable' = Len(written)
  /\ Goto(p, "idle")
  /\ UNCHANGED <<queue, atomics, backend, producer, written>>

ProducerStep(p) ==
  \/ pc[p] = "spin" /\ PushClaim(p)
  \/ PushPublish(p) \/ PushSignal(p) \/ PushNotify(p)
  \/ FlushAgain(p) \/ FlushSize(p) \/ FlushFlag(p) \/ FlushSinks(p)

(***************************************************************************)
(* drain_queue, by the backend or, after the join, by shutdown.            *)
(***************************************************************************)
DrainMark(d) ==
  /\ pc[d] = "mark"
  /\ dispatching' = TRUE
  /\ Goto(d, "pop")
  /\ UNCHANGED <<queue, signal, stop, backend, producer, sinks>>

\* try_pop's compare-exchange.
DrainPop(d) ==
  /\ pc[d] = "pop"
  /\ Ready
  /\ head' = head + 1
  /\ reading' = head + 1
  /\ current' = head + 1
  /\ Goto(d, "release")
  /\ UNCHANGED <<log, published, atomics, token, last, producer, sinks>>

\* try_pop frees the slot and returns the record.
DrainRelease(d) ==
  /\ pc[d] = "release"
  /\ reading' = NoTicket
  /\ Goto(d, "dispatch")
  /\ UNCHANGED <<log, head, published, atomics, backend, producer, sinks>>

Dispatch(d) ==
  /\ pc[d] = "dispatch"
  /\ written' = Append(written, current)
  /\ current' = NoTicket
  /\ Goto(d, "pop")
  /\ UNCHANGED <<queue, atomics, token, last, producer, durable>>

\* try_pop returns nothing: no ticket is left, or the oldest is not published.
DrainEmpty(d) ==
  /\ pc[d] = "pop"
  /\ ~Ready
  /\ Goto(d, "unmark")
  /\ UNCHANGED <<queue, atomics, backend, producer, sinks>>

DrainUnmark(d) ==
  /\ pc[d] = "unmark"
  /\ dispatching' = FALSE
  /\ Goto(d, IF d = Closer THEN "flush_sinks" ELSE IF last THEN "gone" ELSE "recheck")
  /\ UNCHANGED <<queue, signal, stop, backend, producer, sinks>>

DrainStep(d) ==
  DrainMark(d) \/ DrainPop(d) \/ DrainRelease(d) \/ Dispatch(d) \/ DrainEmpty(d) \/ DrainUnmark(d)

(***************************************************************************)
(* backend_loop.                                                           *)
(***************************************************************************)
\* m_stop, before a round and again after its drain; a stop ends the loop and one
\* more drain follows.
BackendCheck ==
  /\ pc[Backend] \in {"check", "recheck"}
  /\ last' = stop
  /\ token' = IF stop THEN 0 ELSE token
  /\ Goto(Backend, IF stop THEN "mark" ELSE IF pc[Backend] = "check" THEN "token" ELSE "wait")
  /\ UNCHANGED <<queue, atomics, current, producer, sinks>>

BackendToken ==
  /\ pc[Backend] = "token"
  /\ token' = signal
  /\ Goto(Backend, "mark")
  /\ UNCHANGED <<queue, atomics, last, current, producer, sinks>>

\* m_signal.wait: it blocks only while the value is still the token.
BackendWait ==
  /\ pc[Backend] = "wait"
  /\ IF signal = token
     THEN Goto(Backend, "parked") /\ UNCHANGED token
     ELSE Goto(Backend, "check") /\ token' = 0
  /\ UNCHANGED <<queue, atomics, last, current, producer, sinks>>

BackendStep == BackendCheck \/ BackendToken \/ BackendWait \/ DrainStep(Backend)

(***************************************************************************)
(* shutdown.  A second call returns at its exchange and changes nothing.   *)
(***************************************************************************)
ShutdownStop ==
  /\ pc[Closer] = "idle"
  /\ stop' = TRUE
  /\ Goto(Closer, "signal")
  /\ UNCHANGED <<queue, signal, dispatching, backend, producer, sinks>>

ShutdownSignal ==
  /\ pc[Closer] = "signal"
  /\ signal' = signal + 1
  /\ Goto(Closer, "notify")
  /\ UNCHANGED <<queue, stop, dispatching, backend, producer, sinks>>

ShutdownNotify ==
  /\ pc[Closer] = "notify"
  /\ Notify(Closer, "join")
  /\ UNCHANGED <<queue, atomics, backend, producer, sinks>>

ShutdownJoin ==
  /\ pc[Closer] = "join"
  /\ pc[Backend] = "gone"
  /\ Goto(Closer, "mark")
  /\ UNCHANGED <<queue, atomics, backend, producer, sinks>>

ShutdownFlush ==
  /\ pc[Closer] = "flush_sinks"
  /\ durable' = Len(written)
  /\ Goto(Closer, "done")
  /\ UNCHANGED <<queue, atomics, backend, producer, written>>

ShutdownStep ==
  ShutdownSignal \/ ShutdownNotify \/ ShutdownJoin \/ DrainStep(Closer) \/ ShutdownFlush

\* Everything was called and has returned.
Finished ==
  /\ pc[Closer] = "done"
  /\ \A p \in Producers : pc[p] = "idle"
  /\ UNCHANGED vars

Next ==
  \/ \E p \in Producers :
       \/ PushClaim(p) \/ PushDrop(p) \/ PushSpin(p) \/ PushYield(p)
       \/ FlushBegin(p)
       \/ ProducerStep(p)
  \/ BackendStep
  \/ ShutdownStop \/ ShutdownStep
  \/ Finished

Spec == Init /\ [][Next]_vars

(***************************************************************************)
(* Threads inside a call run on; nothing makes a producer call or anybody  *)
(* shut the manager down.                                                  *)
(***************************************************************************)
Fairness ==
  /\ \A p \in Producers : WF_vars(ProducerStep(p))
  /\ WF_vars(BackendStep)
  /\ WF_vars(ShutdownStep)

FairSpec == Spec /\ Fairness

-----------------------------------------------------------------------------
(***************************************************************************)
(* Properties.                                                             *)
(***************************************************************************)

\* Every variable has its type, and no ticket is handed out while its slot is in use.
TypeOK ==
  /\ log \in Seq(Producers)
  /\ head \in 0..Len(log) /\ Len(log) <= head + QueueSize
  /\ published \subseteq 1..Len(log)
  /\ reading \in 0..head
  /\ reading # NoTicket => Len(log) < reading + QueueSize
  /\ signal \in Nat /\ stop \in BOOLEAN /\ dispatching \in BOOLEAN
  /\ pc \in [Threads -> {"idle", "spin", "publish", "signal", "notify", "flush_again",
                         "flush_size", "flush_flag", "flush_sinks", "check", "token",
                         "recheck", "wait", "parked", "gone", "mark", "pop", "release",
                         "dispatch", "unmark", "join", "done"}]
  /\ token \in 0..signal /\ last \in BOOLEAN
  /\ current \in 0..head
  /\ ticket \in [Producers -> 0..Len(log)]
  /\ seen \in [Producers -> {<< >>} \cup ({"head", "tail"} \X Nat)]
  /\ offered \in 0..MaxPushes /\ flushes \in 0..MaxFlushes
  /\ written \in Seq(Nat) /\ durable \in 0..Len(written)

\* Every variable has its type, and the sinks get every popped record once, in ticket
\* order, whoever drains: the written tickets and the one in flight are 1, 2, ..., head.
DispatchedInOrder ==
  /\ TypeOK
  /\ \A i \in 1..Len(written) : written[i] = i
  /\ head = Len(written) + (IF current = NoTicket THEN 0 ELSE 1)

\* flush's postcondition: every record the calling thread had enqueued is in the sinks
\* when they are flushed, also one that was popped and not yet written when flush looked.
FlushCovers ==
  [][\A p \in Producers : FlushSinks(p) =>
       \A t \in 1..Len(log) : log[t] = p => t <= durable']_vars

\* No lost wakeup: a record whose push has returned is written without any further
\* push, unless a shutdown intervenes.
NothingStranded ==
  \A t \in 1..MaxPushes : t \in published ~> (stop \/ t <= Len(written))

\* A shutdown that has begun returns, wherever the backend is, parked included.
ShutdownCompletes == stop ~> pc[Closer] = "done"
=============================================================================
