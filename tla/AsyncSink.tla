----------------------------- MODULE AsyncSink ------------------------------
(***************************************************************************)
(* logging/async_sink.hpp: a sink that queues records under a mutex for a  *)
(* worker thread, which writes them to the wrapped ("inner") sink.         *)
(*                                                                         *)
(* Everything shared is guarded by m_mu, so a critical section is one      *)
(* step; the notify calls, which the code makes after unlocking, and the   *)
(* calls of the inner sink are steps of their own.  A thread that waits on *)
(* a condition variable is "parked" until a notify or a spurious wakeup    *)
(* makes it "woken"; it then locks again and re-evaluates its predicate.   *)
(*                                                                         *)
(* A call that began before the destructor may still be inside while the   *)
(* destructor runs.  The level filter of sink::write is left out: a record *)
(* here is one that passes it.                                             *)
(***************************************************************************)
EXTENDS Naturals, Sequences

CONSTANTS Producers,   \* threads that call write
          Flushers,    \* threads that call flush
          Limit,       \* queue_size_limit
          MaxWrites,   \* bound: how many records each producer writes
          MaxFlushes   \* bound: how many times each flusher calls flush

ASSUME LimitAssumption == Limit \in Nat \ {0}
ASSUME BoundsAssumption == MaxWrites \in Nat /\ MaxFlushes \in Nat
ASSUME CallersAssumption == Producers \cap Flushers = {}

Callers == Producers \cup Flushers
Record == Producers \X (1..MaxWrites)
OverflowAction == {"block", "drop_oldest", "drop_newest"}

VARIABLES
  policy,       \* m_cfg.on_overflow
  queue,        \* m_queue
  stop,         \* m_stop
  processing,   \* m_processing
  pc,           \* where each caller stands in write_out or flush_out
  worker,       \* where the worker stands in run
  dtor,         \* where the destructor stands
  current,      \* the worker's local r, as a sequence of at most one record
  calls,        \* how many calls each caller has begun
  written,      \* what the inner sink has written, in order
  durable,      \* how many of those its flush has covered
  accepted,     \* history: every record ever pushed, in order
  dropped,      \* history: the records that drop_oldest popped
  covers,       \* history: for each flusher inside flush, what was accepted at its call
  owed,         \* history: what was accepted and not displaced when the destructor set m_stop
  raced         \* history: whether a write was inside and had not locked by then

shared == <<queue, stop, processing>>
inner == <<written, durable>>
atStop == <<owed, raced>>
history == <<accepted, dropped, covers, atStop>>
vars == <<policy, shared, pc, worker, dtor, current, calls, inner, history>>

Init ==
  /\ policy \in OverflowAction
  /\ queue = << >>
  /\ stop = FALSE
  /\ processing = FALSE
  /\ pc = [t \in Callers |-> "idle"]
  /\ worker = "check"
  /\ dtor = "alive"
  /\ current = << >>
  /\ calls = [t \in Callers |-> 0]
  /\ written = << >>
  /\ durable = 0
  /\ accepted = << >>
  /\ dropped = {}
  /\ covers = [f \in Flushers |-> {}]
  /\ owed = {}
  /\ raced = FALSE

Full == Len(queue) >= Limit
Drained == queue = << >> /\ ~processing
Arg(p) == <<p, calls[p]>>
RecordsIn(s) == {s[i] : i \in 1..Len(s)}

Goto(t, label) == pc' = [pc EXCEPT ![t] = label]

\* What notify_one and notify_all leave of the callers T that are parked.
WakeOne(T) ==
  \/ \E t \in T : pc[t] = "parked" /\ Goto(t, "woken")
  \/ (\A t \in T : pc[t] # "parked") /\ UNCHANGED pc

WakeAll(T) ==
  pc' = [t \in Callers |-> IF t \in T /\ pc[t] = "parked" THEN "woken" ELSE pc[t]]

(***************************************************************************)
(* Wrong variants of single steps, for checking that the properties below  *)
(* watch them; no specification uses them.                                 *)
(***************************************************************************)

\* A stop request ends the worker with records still queued.
ExitOnStop ==
  /\ worker = "check"
  /\ stop
  /\ worker' = "gone"
  /\ UNCHANGED <<policy, shared, pc, dtor, current, calls, inner, history>>

\* The record in flight is not announced.
TakeUnannounced ==
  /\ worker = "check"
  /\ queue # << >>
  /\ current' = <<Head(queue)>>
  /\ queue' = Tail(queue)
  /\ worker' = "notify"
  /\ UNCHANGED <<policy, stop, processing, pc, dtor, calls, inner, history>>

\* The record is read but stays at the front.
TakeWithoutPop ==
  /\ worker = "check"
  /\ queue # << >>
  /\ current' = <<Head(queue)>>
  /\ processing' = TRUE
  /\ worker' = "notify"
  /\ UNCHANGED <<policy, queue, stop, pc, dtor, calls, inner, history>>

\* Nobody is told that a place became free.
NotifyNobody ==
  /\ worker = "notify"
  /\ worker' = "write"
  /\ UNCHANGED <<policy, shared, pc, dtor, current, calls, inner, history>>

\* The destructor wakes the producers only.
DtorWakesProducersOnly ==
  /\ dtor = "wake_worker"
  /\ dtor' = "wake_producers"
  /\ UNCHANGED <<policy, shared, pc, worker, current, calls, inner, history>>

(***************************************************************************)
(* write_out.                                                              *)
(***************************************************************************)
WriteBegin(p) ==
  /\ dtor = "alive"
  /\ pc[p] = "idle"
  /\ calls[p] < MaxWrites
  /\ calls' = [calls EXCEPT ![p] = @ + 1]
  /\ Goto(p, "enter")
  /\ UNCHANGED <<policy, shared, worker, dtor, current, inner, history>>

\* Policy block: m_not_full.wait; the lock is held when it looks again.
WritePark(p) ==
  /\ pc[p] \in {"enter", "woken"}
  /\ policy = "block" /\ Full /\ ~stop
  /\ Goto(p, "parked")
  /\ UNCHANGED <<policy, shared, worker, dtor, current, calls, inner, history>>

\* Policy drop_newest: a full queue swallows the record.
WriteDropNewest(p) ==
  /\ pc[p] = "enter"
  /\ policy = "drop_newest" /\ Full
  /\ Goto(p, "idle")
  /\ UNCHANGED <<policy, shared, worker, dtor, current, calls, inner, history>>

\* Policy drop_oldest: a full queue loses its head, and then the record is pushed
\* unless the sink is stopping.
WriteDropOldest(p) ==
  /\ pc[p] = "enter"
  /\ policy = "drop_oldest" /\ Full
  /\ dropped' = dropped \cup {Head(queue)}
  /\ IF stop
     THEN queue' = Tail(queue) /\ Goto(p, "idle") /\ UNCHANGED accepted
     ELSE /\ queue' = Append(Tail(queue), Arg(p))
          /\ accepted' = Append(accepted, Arg(p))
          /\ Goto(p, "notify")
  /\ UNCHANGED <<policy, stop, processing, worker, dtor, current, calls, inner, covers, atStop>>

\* The sink is stopping: the record is not queued.
WriteClosed(p) ==
  /\ pc[p] \in {"enter", "woken"}
  /\ stop
  /\ policy = "block" \/ ~Full
  /\ Goto(p, "idle")
  /\ UNCHANGED <<policy, shared, worker, dtor, current, calls, inner, history>>

WritePush(p) ==
  /\ pc[p] \in {"enter", "woken"}
  /\ ~Full /\ ~stop
  /\ queue' = Append(queue, Arg(p))
  /\ accepted' = Append(accepted, Arg(p))
  /\ Goto(p, "notify")
  /\ UNCHANGED <<policy, stop, processing, worker, dtor, current, calls, inner, dropped, covers, atStop>>

\* m_not_empty.notify_one, after unlocking.
WriteNotify(p) ==
  /\ pc[p] = "notify"
  /\ worker' = IF worker = "parked" THEN "check" ELSE worker
  /\ Goto(p, "idle")
  /\ UNCHANGED <<policy, shared, dtor, current, calls, inner, history>>

WriteStep(p) ==
  \/ WritePark(p) \/ WriteDropNewest(p) \/ WriteDropOldest(p) \/ WriteClosed(p)
  \/ WritePush(p) \/ WriteNotify(p)

(***************************************************************************)
(* flush_out.                                                              *)
(***************************************************************************)
FlushBegin(f) ==
  /\ dtor = "alive"
  /\ pc[f] = "idle"
  /\ calls[f] < MaxFlushes
  /\ calls' = [calls EXCEPT ![f] = @ + 1]
  /\ covers' = [covers EXCEPT ![f] = RecordsIn(accepted)]
  /\ Goto(f, "enter")
  /\ UNCHANGED <<policy, shared, worker, dtor, current, inner, accepted, dropped, atStop>>

FlushPark(f) ==
  /\ pc[f] \in {"enter", "woken"}
  /\ ~Drained /\ ~stop
  /\ Goto(f, "parked")
  /\ UNCHANGED <<policy, shared, worker, dtor, current, calls, inner, history>>

\* The wait is over: everything was written, or a shutdown cuts it short.
FlushProceed(f) ==
  /\ pc[f] \in {"enter", "woken"}
  /\ Drained \/ stop
  /\ Goto(f, IF Drained THEN "flush" ELSE "flush_early")
  /\ UNCHANGED <<policy, shared, worker, dtor, current, calls, inner, history>>

\* m_inner->flush, outside the lock.
FlushInner(f) ==
  /\ pc[f] \in {"flush", "flush_early"}
  /\ durable' = Len(written)
  /\ covers' = [covers EXCEPT ![f] = {}]
  /\ Goto(f, "idle")
  /\ UNCHANGED <<policy, shared, worker, dtor, current, calls, written, accepted, dropped, atStop>>

FlushStep(f) == FlushPark(f) \/ FlushProceed(f) \/ FlushInner(f)

(***************************************************************************)
(* run: the worker thread.                                                 *)
(***************************************************************************)
WorkerPark ==
  /\ worker = "check"
  /\ queue = << >> /\ ~stop
  /\ worker' = "parked"
  /\ UNCHANGED <<policy, shared, pc, dtor, current, calls, inner, history>>

WorkerTake ==
  /\ worker = "check"
  /\ queue # << >>
  /\ current' = <<Head(queue)>>
  /\ queue' = Tail(queue)
  /\ processing' = TRUE
  /\ worker' = "notify"
  /\ UNCHANGED <<policy, stop, pc, dtor, calls, inner, history>>

WorkerExit ==
  /\ worker = "check"
  /\ queue = << >> /\ stop
  /\ worker' = "gone"
  /\ UNCHANGED <<policy, shared, pc, dtor, current, calls, inner, history>>

\* m_not_full.notify_one.
WorkerNotify ==
  /\ worker = "notify"
  /\ WakeOne(Producers)
  /\ worker' = "write"
  /\ UNCHANGED <<policy, shared, dtor, current, calls, inner, history>>

\* m_inner->write.
WorkerWrite ==
  /\ worker = "write"
  /\ written' = written \o current
  /\ current' = << >>
  /\ worker' = "finish"
  /\ UNCHANGED <<policy, shared, pc, dtor, calls, durable, history>>

WorkerFinish ==
  /\ worker = "finish"
  /\ processing' = FALSE
  /\ IF queue = << >> THEN WakeAll(Flushers) ELSE UNCHANGED pc
  /\ worker' = "check"
  /\ UNCHANGED <<policy, queue, stop, dtor, current, calls, inner, history>>

WorkerStep ==
  WorkerPark \/ WorkerTake \/ WorkerExit \/ WorkerNotify \/ WorkerWrite \/ WorkerFinish

(***************************************************************************)
(* The destructor.                                                         *)
(***************************************************************************)
DtorStop ==
  /\ dtor = "alive"
  /\ stop' = TRUE
  /\ dtor' = "wake_worker"
  /\ owed' = RecordsIn(accepted) \ dropped
  /\ raced' = \E p \in Producers : pc[p] = "enter"
  /\ UNCHANGED <<policy, queue, processing, pc, worker, current, calls, inner>>
  /\ UNCHANGED <<accepted, dropped, covers>>

\* m_not_empty.notify_all
DtorWakeWorker ==
  /\ dtor = "wake_worker"
  /\ worker' = IF worker = "parked" THEN "check" ELSE worker
  /\ dtor' = "wake_producers"
  /\ UNCHANGED <<policy, shared, pc, current, calls, inner, history>>

\* m_not_full.notify_all
DtorWakeProducers ==
  /\ dtor = "wake_producers"
  /\ WakeAll(Producers)
  /\ dtor' = "join"
  /\ UNCHANGED <<policy, shared, worker, current, calls, inner, history>>

DtorJoin ==
  /\ dtor = "join"
  /\ worker = "gone"
  /\ dtor' = "flush"
  /\ UNCHANGED <<policy, shared, pc, worker, current, calls, inner, history>>

DtorFlush ==
  /\ dtor = "flush"
  /\ durable' = Len(written)
  /\ dtor' = "done"
  /\ UNCHANGED <<policy, shared, pc, worker, current, calls, written, history>>

DtorStep == DtorWakeWorker \/ DtorWakeProducers \/ DtorJoin \/ DtorFlush

\* A condition variable may wake a waiter for no reason.
SpuriousWakeup ==
  /\ \/ \E t \in Callers : pc[t] = "parked" /\ Goto(t, "woken") /\ UNCHANGED worker
     \/ worker = "parked" /\ worker' = "check" /\ UNCHANGED pc
  /\ UNCHANGED <<policy, shared, dtor, current, calls, inner, history>>

\* The sink is gone and every call has returned.
Gone ==
  /\ dtor = "done"
  /\ \A t \in Callers : pc[t] = "idle"
  /\ UNCHANGED vars

Next ==
  \/ \E p \in Producers : WriteBegin(p) \/ WriteStep(p)
  \/ \E f \in Flushers : FlushBegin(f) \/ FlushStep(f)
  \/ WorkerStep
  \/ DtorStop \/ DtorStep
  \/ SpuriousWakeup
  \/ Gone

Spec == Init /\ [][Next]_vars

(***************************************************************************)
(* Threads that can run do run.  Nothing forces a caller to call, the      *)
(* owner to destroy the sink or a condition variable to wake spuriously.   *)
(***************************************************************************)
Fairness ==
  /\ \A p \in Producers : WF_vars(WriteStep(p))
  /\ \A f \in Flushers : WF_vars(FlushStep(f))
  /\ WF_vars(WorkerStep)
  /\ WF_vars(DtorStep)

FairSpec == Spec /\ Fairness

-----------------------------------------------------------------------------
(***************************************************************************)
(* Properties.                                                             *)
(***************************************************************************)

TypeOK ==
  /\ policy \in OverflowAction
  /\ queue \in Seq(Record) /\ Len(queue) <= Limit
  /\ stop \in BOOLEAN
  /\ processing \in BOOLEAN
  /\ pc \in [Callers -> {"idle", "enter", "parked", "woken", "notify", "flush", "flush_early"}]
  /\ worker \in {"check", "parked", "notify", "write", "finish", "gone"}
  /\ dtor \in {"alive", "wake_worker", "wake_producers", "join", "flush", "done"}
  /\ current \in Seq(Record) /\ Len(current) <= 1
  /\ calls \in [Callers -> Nat]
  /\ written \in Seq(Record)
  /\ durable \in 0..Len(written)
  /\ accepted \in Seq(Record)
  /\ dropped \subseteq Record
  /\ covers \in [Flushers -> SUBSET Record]
  /\ owed \subseteq Record
  /\ raced \in BOOLEAN

\* The sequence out is acc without the records lost: no record of acc twice, out has
\* those not lost, and in the order of acc.
Survives(out, acc, lost) ==
  /\ \A m, n \in DOMAIN acc : acc[m] = acc[n] => m = n
  /\ RecordsIn(out) = RecordsIn(acc) \ lost
  /\ \A i, j \in DOMAIN out : \A m, n \in DOMAIN acc :
       i < j /\ out[i] = acc[m] /\ out[j] = acc[n] => m < n

\* Every variable has its type, and the queue never exceeds queue_size_limit: a
\* woken producer looks again before it pushes.  What the inner sink gets is what was
\* accepted, once each and in the order of acceptance, with only the records missing
\* that drop_oldest displaced: written, in flight and queued records together are the
\* rest of the accepted ones.
InOrder ==
  /\ TypeOK
  /\ Survives(written \o current \o queue, accepted, dropped)
  /\ dropped # {} => policy = "drop_oldest"

\* The destructor is a graceful drain: when it is done, every record that write ever
\* queued and drop_oldest did not displace is written and flushed.  Of the records that
\* were queued, in flight or written when it set m_stop none is missing, but for one:
\* under drop_oldest a write that was inside by then pops the head of a full queue (line
\* 185) before it looks at m_stop (line 191), and stores nothing in its place.  That
\* loses a record against "every record already queued is written" (line 134), and
\* as nothing is pushed behind the stop it cannot happen twice.
GracefulShutdown ==
  LET lost == owed \ RecordsIn(written) IN
  dtor = "done" =>
    /\ RecordsIn(written) = RecordsIn(accepted) \ dropped
    /\ durable = Len(written)
    /\ lost # {} => policy = "drop_oldest" /\ raced
    /\ \A r, s \in lost : r = s

\* A flush that was not cut short by a shutdown has flushed every record accepted
\* before it was called, unless drop_oldest displaced it.
FlushCovers ==
  [][\A f \in Flushers : FlushInner(f) /\ pc[f] = "flush" =>
       covers[f] \subseteq RecordsIn(SubSeq(written, 1, durable')) \cup dropped]_vars

\* No call hangs: a producer parked by the block policy is let in or released by
\* the shutdown, and a flush returns.
CallsReturn == \A t \in Callers : pc[t] # "idle" ~> pc[t] = "idle"

\* A destructor that has begun gets through its join.
ShutdownCompletes == (dtor # "alive") ~> (dtor = "done")

\* flush_out's comment: it returns early if a shutdown is in progress.  At least it
\* returns: no flush stays parked behind the destructor.
FlushReturns == \A f \in Flushers : pc[f] # "idle" ~> pc[f] = "idle"
=============================================================================
