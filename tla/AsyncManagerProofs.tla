------------------------- MODULE AsyncManagerProofs -------------------------
(***************************************************************************)
(* Proofs about AsyncManager, for any set of producers, any queue size and *)
(* any number of pushes and flushes.                                       *)
(***************************************************************************)
EXTENDS AsyncManager, SequenceTheorems, TLAPS

(***************************************************************************)
(* The inductive invariant.                                                *)
(***************************************************************************)
Draining == {"mark", "pop", "release", "dispatch", "unmark"}

\* Where each thread can be.
Places ==
  /\ \A p \in Producers :
       pc[p] \in {"idle", "spin", "publish", "signal", "notify", "flush_again",
                  "flush_size", "flush_flag", "flush_sinks"}
  /\ pc[Backend] \in {"check", "token", "recheck", "wait", "parked", "gone"} \cup Draining
  /\ pc[Closer] \in {"idle", "signal", "notify", "join", "flush_sinks", "done"} \cup Draining

\* The closer drains only when the backend is gone.
OneDrainer == pc[Closer] \in Draining \cup {"flush_sinks", "done"} => pc[Backend] = "gone"

\* A record is in flight between its pop and its dispatch, and m_dispatching is up
\* then.
InFlight ==
  /\ current \in {NoTicket, head}
  /\ current # NoTicket <=> \E d \in Drainers : pc[d] \in {"release", "dispatch"}
  /\ \A d \in Drainers : pc[d] \in {"pop", "release", "dispatch", "unmark"} => dispatching

\* The tickets of p are at most n.
OwnUpTo(p, n) == \A t \in 1..Len(log) : log[t] = p => t <= n

\* A push holds a ticket when it publishes, and this is what a flush has learned of the
\* records of its own thread.
Knows(p) ==
  /\ pc[p] = "publish" => ticket[p] # NoTicket
  /\ pc[p] = "flush_size" =>
       \/ seen[p][1] = "head" /\ seen[p][2] \in 0..head
       \/ seen[p][1] = "tail" /\ seen[p][2] \in Nat /\ OwnUpTo(p, seen[p][2])
  /\ pc[p] = "flush_flag" => OwnUpTo(p, head)
  /\ pc[p] = "flush_sinks" => OwnUpTo(p, Len(written))

Knowledge == \A p \in Producers : Knows(p)

Inv == DispatchedInOrder /\ Places /\ OneDrainer /\ InFlight /\ Knowledge

-----------------------------------------------------------------------------
(***************************************************************************)
(* Frames.                                                                 *)
(***************************************************************************)
Labels == {"idle", "spin", "publish", "signal", "notify", "flush_again", "flush_size", "flush_flag",
           "flush_sinks", "check", "token", "recheck", "wait", "parked", "gone", "mark", "pop",
           "release", "dispatch", "unmark", "join", "done"}

\* What a step of thread t to label l does to the program counters.
LEMMA GotoMoves ==
  ASSUME TypeOK, NEW t \in Threads, NEW l \in Labels, Goto(t, l)
  PROVE  /\ pc' \in [Threads -> Labels] /\ pc'[t] = l
         /\ \A u \in Threads : u # t => pc'[u] = pc[u]
BY DEF TypeOK, Goto, Labels

\* The three kinds of threads are distinct.
LEMMA DistinctThreads ==
  /\ Producers \subseteq Threads /\ Backend \in Threads /\ Closer \in Threads
  /\ Backend # Closer /\ Drainers = {Backend, Closer}
  /\ \A p \in Producers : p # Backend /\ p # Closer
BY ThreadsAssumption DEF Threads, Drainers

\* What typing says in every proof below.
LEMMA InvTypes ==
  ASSUME Inv
  PROVE  /\ TypeOK /\ Places /\ OneDrainer /\ InFlight
         /\ \A q \in Producers : Knows(q)
         /\ log \in Seq(Producers) /\ Len(log) \in Nat
         /\ written \in Seq(Nat) /\ Len(written) \in Nat
         /\ head \in Nat /\ reading \in Nat
<1>1. TypeOK /\ Places /\ OneDrainer /\ InFlight /\ \A q \in Producers : Knows(q)
  BY DEF Inv, DispatchedInOrder, Knowledge
<1>2. log \in Seq(Producers) /\ written \in Seq(Nat) /\ head \in 0..Len(log) /\ reading \in 0..head
  BY <1>1 DEF TypeOK
<1>3. Len(log) \in Nat /\ Len(written) \in Nat
  BY <1>2, LenProperties
<1> QED BY <1>1, <1>2, <1>3

\* A step after which producer q stands where it stood, with nothing undone and no new
\* record of q, keeps what q knows.
LEMMA KnowledgeStays ==
  ASSUME Inv, NEW q \in Producers, pc'[q] = pc[q], ticket'[q] = ticket[q], seen'[q] = seen[q],
         log' = log \/ \E p \in Producers \ {q} : log' = Append(log, p),
         head' \in Nat, head <= head', Len(written) <= Len(written'), Len(written') \in Nat
  PROVE  Knows(q)'
<1>0. Knows(q) /\ head \in Nat /\ log \in Seq(Producers) /\ Len(log) \in Nat /\ Len(written) \in Nat
  BY InvTypes
<1>1. \A t \in 1..Len(log') : log'[t] = q => t \in 1..Len(log) /\ log[t] = q
  <2>1. ASSUME NEW p \in Producers \ {q}, log' = Append(log, p), NEW t \in 1..Len(log'), log'[t] = q
        PROVE  t \in 1..Len(log) /\ log[t] = q
    <3>1. /\ Len(log') = Len(log) + 1 /\ \A i \in 1..Len(log) : log'[i] = log[i]
          /\ log'[Len(log) + 1] = p
      BY <1>0, <2>1, AppendProperties
    <3>2. t \in 1..Len(log)
      BY <1>0, <2>1, <3>1
    <3> QED BY <2>1, <3>1, <3>2
  <2> QED BY <2>1
<1>2. ASSUME NEW m \in Nat, NEW n \in Nat, m <= n, OwnUpTo(q, m)
      PROVE  \A t \in 1..Len(log') : log'[t] = q => t <= n
  BY <1>0, <1>1, <1>2 DEF OwnUpTo
<1>3. pc'[q] = "publish" => ticket'[q] # NoTicket
  BY <1>0 DEF Knows
<1>4. pc'[q] = "flush_size" =>
        \/ seen'[q][1] = "head" /\ seen'[q][2] \in 0..head'
        \/ /\ seen'[q][1] = "tail" /\ seen'[q][2] \in Nat
           /\ \A t \in 1..Len(log') : log'[t] = q => t <= seen'[q][2]
  <2> HAVE pc'[q] = "flush_size"
  <2> PICK v : v = seen[q] /\ seen'[q] = v
    OBVIOUS
  <2> PICK kind, n : kind = v[1] /\ n = v[2]
    OBVIOUS
  <2>1. \/ kind = "head" /\ n \in 0..head
        \/ kind = "tail" /\ n \in Nat /\ OwnUpTo(q, n)
    <3>1. pc[q] = "flush_size"
      OBVIOUS
    <3>2. \/ seen[q][1] = "head" /\ seen[q][2] \in 0..head
          \/ seen[q][1] = "tail" /\ seen[q][2] \in Nat /\ OwnUpTo(q, seen[q][2])
      BY <1>0, <3>1 DEF Knows
    <3> QED BY <3>2
  <2>2. CASE kind = "head" /\ n \in 0..head
    <3>1. n \in 0..head'
      BY <1>0, <2>2
    <3> QED BY <2>2, <3>1
  <2>3. CASE kind = "tail" /\ n \in Nat /\ OwnUpTo(q, n)
    <3>1. \A t \in 1..Len(log') : log'[t] = q => t <= n
      BY <1>2, <2>3
    <3> QED BY <2>3, <3>1
  <2> QED BY <2>1, <2>2, <2>3
<1>5. pc'[q] = "flush_flag" => \A t \in 1..Len(log') : log'[t] = q => t <= head'
  BY <1>0, <1>2 DEF Knows
<1>6. pc'[q] = "flush_sinks" => \A t \in 1..Len(log') : log'[t] = q => t <= Len(written')
  BY <1>0, <1>2 DEF Knows
<1> QED BY <1>3, <1>4, <1>5, <1>6 DEF Knows, OwnUpTo

\* A step of producer p, to label l, that moves no drainer, except that it may wake the
\* backend.
ProducerMoves(p, l) ==
  /\ pc' \in [Threads -> Labels]
  /\ pc'[p] = l
  /\ \A q \in Producers \ {p} : pc'[q] = pc[q]
  /\ pc'[Closer] = pc[Closer]
  /\ pc'[Backend] = IF pc[Backend] = "parked" /\ l = "idle" /\ pc[p] = "notify"
                     THEN "wait" ELSE pc[Backend]

LEMMA DrainersStay ==
  ASSUME Inv, NEW p \in Producers,
         NEW l \in {"idle", "spin", "publish", "signal", "notify", "flush_again",
                    "flush_size", "flush_flag", "flush_sinks"},
         ProducerMoves(p, l), UNCHANGED <<current, dispatching, head>>
  PROVE  Places' /\ OneDrainer' /\ InFlight'
<1>0. Places /\ OneDrainer /\ InFlight
  BY DEF Inv
<1>1. Places' /\ OneDrainer'
  BY <1>0 DEF Places, OneDrainer, ProducerMoves, Draining
<1>2. \A d \in Drainers : pc[d] \in {"pop", "release", "dispatch", "unmark"} <=>
                           pc'[d] \in {"pop", "release", "dispatch", "unmark"}
  BY DistinctThreads DEF ProducerMoves
<1>3. \A d \in Drainers : pc[d] \in {"release", "dispatch"} <=> pc'[d] \in {"release", "dispatch"}
  BY DistinctThreads DEF ProducerMoves
<1>4. InFlight'
  BY <1>0, <1>2, <1>3 DEF InFlight
<1> QED BY <1>1, <1>4

\* From what a step of producer p leaves alone, Inv needs no more than the type and
\* what p itself knows.
LEMMA ProducerStepKeeps ==
  ASSUME Inv, NEW p \in Producers,
         NEW l \in {"idle", "spin", "publish", "signal", "notify", "flush_again",
                    "flush_size", "flush_flag", "flush_sinks"},
         ProducerMoves(p, l),
         UNCHANGED <<current, dispatching, head, written>>,
         \A q \in Producers \ {p} : ticket'[q] = ticket[q] /\ seen'[q] = seen[q],
         log' = log \/ log' = Append(log, p),
         TypeOK', Knows(p)'
  PROVE  Inv'
<1>1. Places' /\ OneDrainer' /\ InFlight'
  BY DrainersStay
<1>2. DispatchedInOrder'
  BY DEF Inv, DispatchedInOrder
<1>3. head' \in Nat /\ head <= head' /\ Len(written) <= Len(written') /\ Len(written') \in Nat
  BY InvTypes DEF TypeOK
<1>4. \A q \in Producers \ {p} : pc'[q] = pc[q]
  BY DEF ProducerMoves
<1>5. \A q \in Producers \ {p} : Knows(q)'
  BY <1>3, <1>4, KnowledgeStays
<1>6. Knowledge'
  BY <1>5 DEF Knowledge
<1> QED BY <1>1, <1>2, <1>6 DEF Inv

-----------------------------------------------------------------------------
(***************************************************************************)
(* The steps of a producer.                                                *)
(***************************************************************************)
LEMMA ProducerGoto ==
  ASSUME TypeOK, NEW p \in Producers, NEW l \in Labels, Goto(p, l), l # "idle" \/ pc[p] # "notify"
  PROVE  ProducerMoves(p, l)
BY GotoMoves, DistinctThreads DEF ProducerMoves

LEMMA PushClaimStep ==
  ASSUME Inv, NEW p \in Producers, PushClaim(p)
  PROVE  Inv'
<1>0. /\ TypeOK /\ log \in Seq(Producers) /\ Len(log) \in Nat /\ head \in Nat /\ reading \in Nat
      /\ reading # NoTicket => Len(log) < reading + QueueSize
  BY InvTypes DEF TypeOK
<1>1. /\ log' = Append(log, p) /\ ticket' = [ticket EXCEPT ![p] = Len(log')]
      /\ Goto(p, "publish") /\ HasRoom
      /\ offered' = IF pc[p] = "idle" THEN offered + 1 ELSE offered
      /\ pc[p] = "idle" => offered < MaxPushes
      /\ UNCHANGED <<head, published, reading, atomics, backend, seen, flushes, sinks>>
  BY DEF PushClaim
<1>2. log' \in Seq(Producers) /\ Len(log') = Len(log) + 1
  BY <1>0, <1>1, AppendProperties
<1>3. /\ Len(log) < head + QueueSize
      /\ reading # NoTicket => Len(log) + 1 < reading + QueueSize
  BY <1>0, <1>1, SizeAssumption DEF HasRoom, Tail_
<1>4. ProducerMoves(p, "publish")
  BY <1>0, <1>1, ProducerGoto DEF Labels
<1>5. ticket' \in [Producers -> 0..Len(log')] /\ ticket'[p] # NoTicket
  BY <1>0, <1>1, <1>2 DEF TypeOK, NoTicket
<1>6. offered' \in 0..MaxPushes
  BY <1>0, <1>1, BoundsAssumption DEF TypeOK
<1>7. TypeOK'
  BY <1>0, <1>1, <1>2, <1>3, <1>4, <1>5, <1>6, SizeAssumption
     DEF TypeOK, ProducerMoves, Labels, atomics, backend, sinks
<1>8. Knows(p)'
  BY <1>4, <1>5 DEF Knows, ProducerMoves
<1> QED BY <1>0, <1>1, <1>4, <1>7, <1>8, ProducerStepKeeps DEF TypeOK, atomics, backend, sinks

\* The push that is refused: it is dropped, or it spins.
LEMMA PushRefusedStep ==
  ASSUME Inv, NEW p \in Producers, PushDrop(p) \/ PushSpin(p)
  PROVE  Inv'
<1>0. TypeOK
  BY DEF Inv, DispatchedInOrder
<1>1. PICK l \in {"idle", "spin"} :
        /\ ProducerMoves(p, l) /\ offered' = offered + 1 /\ offered < MaxPushes
        /\ UNCHANGED <<queue, atomics, backend, ticket, seen, flushes, sinks>>
  <2>1. CASE PushDrop(p)
    BY <1>0, <2>1, DistinctThreads DEF PushDrop, ProducerMoves, TypeOK, Labels
  <2>2. CASE PushSpin(p)
    BY <1>0, <2>2, ProducerGoto DEF PushSpin, Labels
  <2> QED BY <2>1, <2>2
<1> USE DEF queue, atomics, backend, sinks
<1>2. offered' \in 0..MaxPushes
  BY <1>0, <1>1, BoundsAssumption DEF TypeOK
<1>3. TypeOK'
  BY <1>0, <1>1, <1>2 DEF TypeOK, ProducerMoves, Labels
<1>4. Knows(p)'
  BY <1>1 DEF Knows, ProducerMoves
<1> QED BY <1>1, <1>3, <1>4, ProducerStepKeeps

LEMMA PushPublishStep ==
  ASSUME Inv, NEW p \in Producers, PushPublish(p)
  PROVE  Inv'
<1>0. TypeOK /\ Knows(p)
  BY DEF Inv, DispatchedInOrder, Knowledge
<1>1. /\ ProducerMoves(p, "signal") /\ published' = published \cup {ticket[p]} /\ pc[p] = "publish"
      /\ UNCHANGED <<log, head, reading, atomics, backend, producer, sinks>>
  BY <1>0, ProducerGoto DEF PushPublish, Labels
<1> USE DEF atomics, backend, producer, sinks
<1>2. published' \subseteq 1..Len(log)
  <2>1. ticket[p] \in 0..Len(log) /\ ticket[p] # 0
    BY <1>0, <1>1 DEF TypeOK, Knows, NoTicket
  <2>2. Len(log) \in Nat /\ published \subseteq 1..Len(log)
    BY <1>0, LenProperties DEF TypeOK
  <2>3. ticket[p] \in 1..Len(log)
    BY <2>1, <2>2
  <2> QED BY <1>1, <2>2, <2>3
<1>3. TypeOK'
  BY <1>0, <1>1, <1>2 DEF TypeOK, ProducerMoves, Labels
<1>4. Knows(p)'
  BY <1>1 DEF Knows, ProducerMoves
<1> QED BY <1>1, <1>3, <1>4, ProducerStepKeeps

LEMMA PushSignalStep ==
  ASSUME Inv, NEW p \in Producers, PushSignal(p)
  PROVE  Inv'
<1>0. TypeOK
  BY DEF Inv, DispatchedInOrder
<1>1. /\ ProducerMoves(p, "notify") /\ signal' = signal + 1
      /\ UNCHANGED <<queue, stop, dispatching, backend, producer, sinks>>
  BY <1>0, ProducerGoto DEF PushSignal, Labels
<1> USE DEF queue, backend, producer, sinks
<1>2. signal' \in Nat /\ token' \in 0..signal'
  BY <1>0, <1>1 DEF TypeOK
<1>3. TypeOK'
  BY <1>0, <1>1, <1>2 DEF TypeOK, ProducerMoves, Labels
<1>4. Knows(p)'
  BY <1>1 DEF Knows, ProducerMoves
<1> QED BY <1>1, <1>3, <1>4, ProducerStepKeeps

LEMMA PushNotifyStep ==
  ASSUME Inv, NEW p \in Producers, PushNotify(p)
  PROVE  Inv'
<1>0. TypeOK
  BY DEF Inv, DispatchedInOrder
<1>1. /\ pc[p] = "notify" /\ Notify(p, "idle") /\ ticket' = [ticket EXCEPT ![p] = NoTicket]
      /\ UNCHANGED <<queue, atomics, backend, seen, offered, flushes, sinks>>
  BY DEF PushNotify
<1>2. ProducerMoves(p, "idle")
  BY <1>0, <1>1, DistinctThreads DEF Notify, ProducerMoves, TypeOK, Labels
<1> USE DEF queue, atomics, backend, sinks
<1>3. ticket' \in [Producers -> 0..Len(log)]
  BY <1>0, <1>1, LenProperties DEF TypeOK, NoTicket
<1>4. TypeOK'
  BY <1>0, <1>1, <1>2, <1>3 DEF TypeOK, ProducerMoves, Labels
<1>5. Knows(p)'
  BY <1>2 DEF Knows, ProducerMoves
<1>6. \A q \in Producers \ {p} : ticket'[q] = ticket[q]
  BY <1>0, <1>1 DEF TypeOK
<1> QED BY <1>1, <1>2, <1>4, <1>5, <1>6, ProducerStepKeeps

\* The first load of empty_approx: of the head, or of the tail, which no later record
\* of p is under.
LEMMA FlushLoadStep ==
  ASSUME Inv, NEW p \in Producers, FlushBegin(p) \/ FlushAgain(p)
  PROVE  Inv'
<1>0. TypeOK /\ Len(log) \in Nat /\ head \in Nat
  BY InvTypes
<1>1. /\ FlushLoad(p) /\ Goto(p, "flush_size")
      /\ flushes' \in {flushes, flushes + 1} /\ (flushes' # flushes => flushes < MaxFlushes)
      /\ UNCHANGED <<queue, atomics, backend, ticket, offered, sinks>>
  BY DEF FlushBegin, FlushAgain
<1>2. ProducerMoves(p, "flush_size")
  BY <1>0, <1>1, ProducerGoto DEF Labels
<1>3. PICK x \in {"head", "tail"} :
        /\ seen' = [seen EXCEPT ![p] = <<x, IF x = "head" THEN head ELSE Len(log)>>]
  BY <1>1 DEF FlushLoad, Tail_
<1> USE DEF queue, atomics, backend, sinks
<1>4. /\ \A q \in Producers \ {p} : seen'[q] = seen[q]
      /\ seen'[p] = <<x, IF x = "head" THEN head ELSE Len(log)>>
  BY <1>0, <1>3 DEF TypeOK
<1>5. seen' \in [Producers -> {<< >>} \cup ({"head", "tail"} \X Nat)]
  BY <1>0, <1>3 DEF TypeOK
<1>6. flushes' \in 0..MaxFlushes
  BY <1>0, <1>1, BoundsAssumption DEF TypeOK
<1>7. TypeOK'
  BY <1>0, <1>1, <1>2, <1>5, <1>6 DEF TypeOK, ProducerMoves, Labels
<1>8. Knows(p)'
  BY <1>0, <1>1, <1>2, <1>4 DEF Knows, OwnUpTo, ProducerMoves
<1> QED BY <1>1, <1>2, <1>4, <1>7, <1>8, ProducerStepKeeps

\* The second load: if the queue looks empty, every record of p was popped.
LEMMA FlushSizeStep ==
  ASSUME Inv, NEW p \in Producers, FlushSize(p)
  PROVE  Inv'
<1>0. TypeOK /\ Knows(p) /\ Len(log) \in Nat /\ head \in Nat
  BY InvTypes
<1> DEFINE empty == IF seen[p][1] = "head" THEN Len(log) <= seen[p][2] ELSE seen[p][2] <= head
<1>1. /\ pc[p] = "flush_size" /\ seen' = [seen EXCEPT ![p] = << >>]
      /\ Goto(p, IF empty THEN "flush_flag" ELSE "flush_again")
      /\ UNCHANGED <<queue, atomics, backend, ticket, offered, flushes, sinks>>
  BY DEF FlushSize, Tail_
<1>2. empty => OwnUpTo(p, head)
  BY <1>0, <1>1 DEF Knows, OwnUpTo
<1> HIDE DEF empty
<1>3. PICK l \in {"flush_flag", "flush_again"} : ProducerMoves(p, l) /\ (l = "flush_flag" => empty)
  BY <1>0, <1>1, ProducerGoto DEF Labels
<1> USE DEF queue, atomics, backend, sinks
<1>4. seen' \in [Producers -> {<< >>} \cup ({"head", "tail"} \X Nat)]
      /\ \A q \in Producers \ {p} : seen'[q] = seen[q]
  BY <1>0, <1>1 DEF TypeOK
<1>5. TypeOK'
  BY <1>0, <1>1, <1>3, <1>4 DEF TypeOK, ProducerMoves, Labels
<1>6. Knows(p)'
  BY <1>1, <1>2, <1>3 DEF Knows, OwnUpTo, ProducerMoves
<1> QED BY <1>1, <1>3, <1>4, <1>5, <1>6, ProducerStepKeeps

\* With m_dispatching down no record is in flight: what was popped was written.
LEMMA NothingInFlight ==
  ASSUME Inv, ~dispatching
  PROVE  current = NoTicket /\ head = Len(written)
<1>1. current = NoTicket
  BY DEF Inv, InFlight
<1>2. head \in Nat /\ Len(written) \in Nat
  BY InvTypes
<1> QED BY <1>1, <1>2 DEF Inv, DispatchedInOrder

LEMMA FlushFlagStep ==
  ASSUME Inv, NEW p \in Producers, FlushFlag(p)
  PROVE  Inv'
<1>0. TypeOK /\ Knows(p)
  BY DEF Inv, DispatchedInOrder, Knowledge
<1>1. /\ pc[p] = "flush_flag" /\ Goto(p, IF dispatching THEN "flush_again" ELSE "flush_sinks")
      /\ UNCHANGED <<queue, atomics, backend, producer, sinks>>
  BY DEF FlushFlag
<1>2. PICK l \in {"flush_again", "flush_sinks"} :
        ProducerMoves(p, l) /\ (l = "flush_sinks" => ~dispatching)
  BY <1>0, <1>1, ProducerGoto DEF Labels
<1> USE DEF queue, atomics, backend, producer, sinks
<1>3. TypeOK'
  BY <1>0, <1>1, <1>2 DEF TypeOK, ProducerMoves, Labels
<1>4. Knows(p)'
  BY <1>0, <1>1, <1>2, NothingInFlight DEF Knows, OwnUpTo, ProducerMoves
<1> QED BY <1>1, <1>2, <1>3, <1>4, ProducerStepKeeps

LEMMA FlushSinksStep ==
  ASSUME Inv, NEW p \in Producers, FlushSinks(p)
  PROVE  Inv'
<1>0. TypeOK /\ Len(written) \in Nat
  BY InvTypes
<1>1. /\ ProducerMoves(p, "idle") /\ durable' = Len(written)
      /\ UNCHANGED <<queue, atomics, backend, producer, written>>
  BY <1>0, ProducerGoto DEF FlushSinks, Labels
<1> USE DEF queue, atomics, backend, producer
<1>2. TypeOK'
  BY <1>0, <1>1 DEF TypeOK, ProducerMoves, Labels
<1>3. Knows(p)'
  BY <1>1 DEF Knows, ProducerMoves
<1> QED BY <1>1, <1>2, <1>3, ProducerStepKeeps

-----------------------------------------------------------------------------
(***************************************************************************)
(* The steps of the drainers.                                              *)
(***************************************************************************)

\* A step of a drainer keeps what the producers know.
LEMMA DrainerStepKeeps ==
  ASSUME Inv, \A p \in Producers : pc'[p] = pc[p], UNCHANGED <<log, ticket, seen>>,
         head' \in Nat, head <= head', Len(written) <= Len(written'), Len(written') \in Nat,
         DispatchedInOrder', Places', OneDrainer', InFlight'
  PROVE  Inv'
<1>1. Knowledge'
  BY KnowledgeStays DEF Knowledge
<1> QED BY <1>1 DEF Inv

\* A drainer at work is the only one, so the other holds no record.
LEMMA DrainerAlone ==
  ASSUME Inv, NEW d \in Drainers, pc[d] \in Draining, NEW e \in Drainers, e # d
  PROVE  pc[e] \notin Draining
BY DistinctThreads DEF Inv, OneDrainer, Places, Draining

\* A step of drainer d to label l within drain_queue or out of it.
LEMMA DrainerGoto ==
  ASSUME Inv, NEW d \in Drainers, pc[d] \in Draining,
         NEW l \in Draining \cup {"flush_sinks", "gone", "recheck"}, Goto(d, l),
         l = "flush_sinks" => d = Closer, l \in {"gone", "recheck"} => d = Backend
  PROVE  /\ pc' \in [Threads -> Labels] /\ pc'[d] = l
         /\ \A u \in Threads : u # d => pc'[u] = pc[u]
         /\ \A p \in Producers : pc'[p] = pc[p]
         /\ \A e \in Drainers : e # d => pc'[e] = pc[e] /\ pc[e] \notin Draining
         /\ Places' /\ OneDrainer'
<1>0. TypeOK /\ Places /\ OneDrainer
  BY DEF Inv, DispatchedInOrder
<1>1. d \in Threads /\ l \in Labels
  BY DistinctThreads DEF Draining, Labels
<1>2. /\ pc' \in [Threads -> Labels] /\ pc'[d] = l
      /\ \A u \in Threads : u # d => pc'[u] = pc[u]
  BY <1>0, <1>1, GotoMoves
<1>3. \A p \in Producers : pc'[p] = pc[p]
  BY <1>2, DistinctThreads
<1>4. \A e \in Drainers : e # d => pc'[e] = pc[e] /\ pc[e] \notin Draining
  BY <1>2, DistinctThreads, DrainerAlone
<1>5. Places' /\ OneDrainer'
  BY <1>0, <1>2, <1>3, <1>4, DistinctThreads DEF Places, OneDrainer, Draining
<1> QED BY <1>2, <1>3, <1>4, <1>5

\* DrainMark, DrainEmpty and DrainUnmark move no record.
LEMMA DrainFlagStep ==
  ASSUME Inv, NEW d \in Drainers, DrainMark(d) \/ DrainEmpty(d) \/ DrainUnmark(d)
  PROVE  Inv'
<1>0. TypeOK /\ InFlight /\ head \in Nat /\ Len(written) \in Nat
  BY InvTypes
<1>1. PICK l \in {"pop", "unmark", "flush_sinks", "gone", "recheck"} :
        /\ Goto(d, l) /\ pc[d] \in {"mark", "pop", "unmark"}
        /\ UNCHANGED <<queue, signal, stop, backend, producer, sinks>>
        /\ (l = "flush_sinks" => d = Closer) /\ (l \in {"gone", "recheck"} => d = Backend)
        /\ dispatching' \in BOOLEAN /\ (l \in {"pop", "unmark"} => dispatching')
  <2>1. CASE DrainMark(d)
    BY <2>1 DEF DrainMark
  <2>2. CASE DrainEmpty(d)
    BY <1>0, <2>2 DEF DrainEmpty, atomics, InFlight, TypeOK
  <2>3. CASE DrainUnmark(d)
    <3>1. d = Closer \/ d = Backend
      BY DistinctThreads
    <3> QED BY <2>3, <3>1, DistinctThreads DEF DrainUnmark
  <2> QED BY <2>1, <2>2, <2>3
<1>2. /\ pc' \in [Threads -> Labels] /\ pc'[d] = l
      /\ \A p \in Producers : pc'[p] = pc[p]
      /\ \A e \in Drainers : e # d => pc'[e] = pc[e] /\ pc[e] \notin Draining
      /\ Places' /\ OneDrainer'
  BY <1>1, DrainerGoto DEF Draining
<1> USE DEF queue, backend, producer, sinks
<1>3. TypeOK'
  BY <1>0, <1>1, <1>2 DEF TypeOK, Labels
<1>4. DispatchedInOrder'
  BY <1>1, <1>3 DEF Inv, DispatchedInOrder
<1>5. InFlight'
  BY <1>0, <1>1, <1>2 DEF InFlight, Draining
<1> QED BY <1>0, <1>1, <1>2, <1>4, <1>5, DrainerStepKeeps

LEMMA DrainPopStep ==
  ASSUME Inv, NEW d \in Drainers, DrainPop(d)
  PROVE  Inv'
<1>0. /\ TypeOK /\ InFlight /\ head \in Nat /\ Len(written) \in Nat /\ Len(log) \in Nat
      /\ published \subseteq 1..Len(log) /\ Len(log) <= head + QueueSize
  BY InvTypes DEF TypeOK
<1>1. /\ pc[d] = "pop" /\ Goto(d, "release") /\ Ready
      /\ head' = head + 1 /\ reading' = head + 1 /\ current' = head + 1
      /\ UNCHANGED <<log, published, atomics, token, last, producer, sinks>>
  BY DEF DrainPop
<1>2. /\ pc' \in [Threads -> Labels] /\ pc'[d] = "release"
      /\ \A p \in Producers : pc'[p] = pc[p]
      /\ \A e \in Drainers : e # d => pc'[e] = pc[e] /\ pc[e] \notin Draining
      /\ Places' /\ OneDrainer'
  BY <1>1, DrainerGoto DEF Draining
<1>3. current = NoTicket
  BY <1>0, <1>1, <1>2 DEF InFlight, Draining
<1>4. head + 1 \in 1..Len(log)
  BY <1>0, <1>1 DEF Ready
<1> USE DEF atomics, producer, sinks
<1>5. /\ head' \in 0..Len(log') /\ Len(log') <= head' + QueueSize /\ current' \in 0..head'
      /\ reading' \in 0..head' /\ Len(log') < reading' + QueueSize
  BY <1>0, <1>1, <1>4, SizeAssumption
<1>6. TypeOK'
  BY <1>0, <1>1, <1>2, <1>5 DEF TypeOK, Labels
<1>7. DispatchedInOrder'
  <2>1. head' = Len(written') + 1 /\ current' # NoTicket
    BY <1>0, <1>1, <1>3 DEF Inv, DispatchedInOrder, NoTicket
  <2> QED BY <1>1, <1>6, <2>1 DEF Inv, DispatchedInOrder
<1>8. InFlight'
  BY <1>0, <1>1, <1>2 DEF InFlight, Draining, NoTicket
<1> QED BY <1>0, <1>1, <1>2, <1>7, <1>8, DrainerStepKeeps

LEMMA DrainReleaseStep ==
  ASSUME Inv, NEW d \in Drainers, DrainRelease(d)
  PROVE  Inv'
<1>0. TypeOK /\ InFlight /\ head \in Nat /\ Len(written) \in Nat
  BY InvTypes
<1>1. /\ pc[d] = "release" /\ Goto(d, "dispatch") /\ reading' = NoTicket
      /\ UNCHANGED <<log, head, published, atomics, backend, producer, sinks>>
  BY DEF DrainRelease
<1>2. /\ pc' \in [Threads -> Labels] /\ pc'[d] = "dispatch"
      /\ \A p \in Producers : pc'[p] = pc[p]
      /\ \A e \in Drainers : e # d => pc'[e] = pc[e] /\ pc[e] \notin Draining
      /\ Places' /\ OneDrainer'
  BY <1>1, DrainerGoto DEF Draining
<1> USE DEF atomics, backend, producer, sinks
<1>3. reading' \in 0..head' /\ (reading' = NoTicket)
  BY <1>0, <1>1 DEF NoTicket
<1>4. TypeOK'
  BY <1>0, <1>1, <1>2, <1>3 DEF TypeOK, Labels
<1>5. DispatchedInOrder'
  BY <1>1, <1>4 DEF Inv, DispatchedInOrder
<1>6. InFlight'
  BY <1>0, <1>1, <1>2 DEF InFlight, Draining
<1> QED BY <1>0, <1>1, <1>2, <1>5, <1>6, DrainerStepKeeps

LEMMA DispatchStep ==
  ASSUME Inv, NEW d \in Drainers, Dispatch(d)
  PROVE  Inv'
<1>0. /\ TypeOK /\ InFlight /\ head \in Nat /\ written \in Seq(Nat) /\ Len(written) \in Nat
      /\ durable \in 0..Len(written)
  BY InvTypes DEF TypeOK
<1>1. /\ pc[d] = "dispatch" /\ Goto(d, "pop") /\ written' = Append(written, current)
      /\ current' = NoTicket
      /\ UNCHANGED <<queue, atomics, token, last, producer, durable>>
  BY DEF Dispatch
<1>2. /\ pc' \in [Threads -> Labels] /\ pc'[d] = "pop"
      /\ \A p \in Producers : pc'[p] = pc[p]
      /\ \A e \in Drainers : e # d => pc'[e] = pc[e] /\ pc[e] \notin Draining
      /\ Places' /\ OneDrainer'
  BY <1>1, DrainerGoto DEF Draining
<1>3. current = head /\ current # NoTicket
  BY <1>0, <1>1 DEF InFlight
<1>4. head = Len(written) + 1
  BY <1>3 DEF Inv, DispatchedInOrder
<1>5. /\ written' \in Seq(Nat) /\ Len(written') = Len(written) + 1
      /\ \A i \in 1..Len(written) : written'[i] = written[i]
      /\ written'[Len(written) + 1] = head
  BY <1>0, <1>1, <1>3, AppendProperties
<1> USE DEF queue, atomics, producer
<1>6. TypeOK'
  <2>1. durable' \in 0..Len(written') /\ current' \in 0..head'
    BY <1>0, <1>1, <1>5 DEF NoTicket
  <2> QED BY <1>0, <1>1, <1>2, <1>5, <2>1 DEF TypeOK, Labels
<1>7. DispatchedInOrder'
  <2>0. \A i \in 1..Len(written) : written[i] = i
    BY DEF Inv, DispatchedInOrder
  <2>1. \A i \in 1..Len(written') : written'[i] = i
    BY <1>0, <1>4, <1>5, <2>0
  <2>2. head' = Len(written') + 0 /\ current' = NoTicket
    BY <1>0, <1>1, <1>4, <1>5
  <2> QED BY <1>6, <2>1, <2>2 DEF DispatchedInOrder
<1>8. InFlight'
  BY <1>0, <1>1, <1>2 DEF InFlight, Draining
<1> QED BY <1>0, <1>1, <1>2, <1>5, <1>7, <1>8, DrainerStepKeeps

LEMMA DrainStepKeeps ==
  ASSUME Inv, NEW d \in Drainers, DrainStep(d)
  PROVE  Inv'
<1>1. CASE DrainMark(d) \/ DrainEmpty(d) \/ DrainUnmark(d)
  BY <1>1, DrainFlagStep
<1>2. CASE DrainPop(d)
  BY <1>2, DrainPopStep
<1>3. CASE DrainRelease(d)
  BY <1>3, DrainReleaseStep
<1>4. CASE Dispatch(d)
  BY <1>4, DispatchStep
<1> QED BY <1>1, <1>2, <1>3, <1>4 DEF DrainStep

-----------------------------------------------------------------------------
(***************************************************************************)
(* The loop of the backend and the shutdown.                               *)
(***************************************************************************)

\* The steps that touch neither the records nor the flag.
LEMMA ControlStepKeeps ==
  ASSUME Inv, UNCHANGED <<queue, dispatching, current, producer, written>>,
         pc' \in [Threads -> Labels], \A p \in Producers : pc'[p] = pc[p],
         \A d \in Drainers : pc'[d] \notin Draining \/ pc'[d] = "mark" \/ pc'[d] = pc[d],
         \A d \in Drainers : pc[d] \notin Draining \/ pc'[d] = pc[d],
         signal' \in Nat, token' \in 0..signal', stop' \in BOOLEAN, last' \in BOOLEAN,
         durable' \in {durable, Len(written)},
         Places', OneDrainer'
  PROVE  Inv'
<1>0. TypeOK /\ InFlight /\ head \in Nat /\ Len(written) \in Nat
  BY InvTypes
<1> USE DEF queue, producer
<1>1. TypeOK'
  BY <1>0 DEF TypeOK, Labels
<1>2. DispatchedInOrder'
  BY <1>1 DEF Inv, DispatchedInOrder
<1>3. InFlight'
  BY <1>0 DEF InFlight, Draining
<1> QED BY <1>0, <1>2, <1>3, DrainerStepKeeps

LEMMA BackendLoopStep ==
  ASSUME Inv, BackendCheck \/ BackendToken \/ BackendWait
  PROVE  Inv'
<1>0. /\ TypeOK /\ Places /\ OneDrainer /\ signal \in Nat /\ token \in 0..signal
      /\ stop \in BOOLEAN /\ last \in BOOLEAN
  BY DEF Inv, DispatchedInOrder, TypeOK
<1>1. PICK l \in {"mark", "token", "wait", "parked", "check"} :
        /\ Goto(Backend, l) /\ pc[Backend] \in {"check", "recheck", "token", "wait"}
        /\ UNCHANGED <<queue, atomics, current, producer, sinks>>
        /\ token' \in {0, token, signal}
  BY DEF BackendCheck, BackendToken, BackendWait
<1>2. last' \in BOOLEAN
  BY <1>0 DEF BackendCheck, BackendToken, BackendWait
<1> USE DEF atomics, sinks
<1>3. token' \in 0..signal' /\ signal' \in Nat /\ stop' \in BOOLEAN
  BY <1>0, <1>1
<1>4. /\ pc' \in [Threads -> Labels] /\ pc'[Backend] = l
      /\ \A u \in Threads : u # Backend => pc'[u] = pc[u]
  BY <1>0, <1>1, GotoMoves, DistinctThreads DEF Labels
<1>5. \A p \in Producers : pc'[p] = pc[p]
  BY <1>4, DistinctThreads
<1>6. \A d \in Drainers :
        /\ pc'[d] \notin Draining \/ pc'[d] = "mark" \/ pc'[d] = pc[d]
        /\ pc[d] \notin Draining \/ pc'[d] = pc[d]
  BY <1>1, <1>4, DistinctThreads DEF Draining
<1>7. Places' /\ OneDrainer'
  BY <1>0, <1>1, <1>4, <1>5, DistinctThreads DEF Places, OneDrainer, Draining
<1> QED BY <1>1, <1>2, <1>3, <1>4, <1>5, <1>6, <1>7, ControlStepKeeps

LEMMA ShutdownControlStep ==
  ASSUME Inv, ShutdownStop \/ ShutdownSignal \/ ShutdownNotify \/ ShutdownJoin \/ ShutdownFlush
  PROVE  Inv'
<1>0. /\ TypeOK /\ Places /\ OneDrainer /\ signal \in Nat /\ token \in 0..signal
      /\ stop \in BOOLEAN /\ last \in BOOLEAN
  BY DEF Inv, DispatchedInOrder, TypeOK
<1>1. PICK l \in {"signal", "notify", "join", "mark", "done"} :
        /\ pc' = [pc EXCEPT ![Closer] = l,
                           ![Backend] = IF @ = "parked" /\ l = "join" THEN "wait" ELSE @]
        /\ pc[Closer] \in {"idle", "signal", "notify", "join", "flush_sinks"}
        /\ UNCHANGED <<queue, dispatching, backend, producer, written>>
        /\ signal' \in {signal, signal + 1}
        /\ durable' \in {durable, Len(written)}
        /\ l \in {"mark", "done"} => pc[Backend] = "gone"
  <2>0. pc \in [Threads -> Labels] /\ Closer \in Threads /\ Backend \in Threads /\ Backend # Closer
    BY <1>0, DistinctThreads DEF TypeOK, Labels
  <2>1. ASSUME NEW l \in {"signal", "notify", "mark", "done"}, Goto(Closer, l)
        PROVE  pc' = [pc EXCEPT ![Closer] = l,
                               ![Backend] = IF @ = "parked" /\ l = "join" THEN "wait" ELSE @]
    BY <2>0, <2>1 DEF Goto
  <2>2. CASE ShutdownStop
    BY <2>1, <2>2 DEF ShutdownStop, sinks
  <2>3. CASE ShutdownSignal
    BY <2>1, <2>3 DEF ShutdownSignal, sinks
  <2>4. CASE ShutdownNotify
    BY <2>4 DEF ShutdownNotify, Notify, atomics, sinks
  <2>5. CASE ShutdownJoin
    BY <2>1, <2>5 DEF ShutdownJoin, atomics, sinks
  <2>6. CASE ShutdownFlush
    BY <1>0, <2>1, <2>6 DEF ShutdownFlush, atomics, OneDrainer
  <2> QED BY <2>2, <2>3, <2>4, <2>5, <2>6
<1>2. stop' \in BOOLEAN
  BY <1>0 DEF ShutdownStop, ShutdownSignal, ShutdownNotify, ShutdownJoin, ShutdownFlush, atomics
<1> USE DEF backend
<1>3. token' \in 0..signal' /\ signal' \in Nat /\ last' \in BOOLEAN
  BY <1>0, <1>1
<1>4. /\ pc' \in [Threads -> Labels] /\ pc'[Closer] = l
      /\ pc'[Backend] = IF pc[Backend] = "parked" /\ l = "join" THEN "wait" ELSE pc[Backend]
      /\ \A p \in Producers : pc'[p] = pc[p]
  BY <1>0, <1>1, DistinctThreads DEF TypeOK, Labels
<1>5. \A d \in Drainers :
        /\ pc'[d] \notin Draining \/ pc'[d] = "mark" \/ pc'[d] = pc[d]
        /\ pc[d] \notin Draining \/ pc'[d] = pc[d]
  BY <1>1, <1>4, DistinctThreads DEF Draining
<1>6. Places' /\ OneDrainer'
  BY <1>0, <1>1, <1>4, DistinctThreads DEF Places, OneDrainer, Draining
<1> QED BY <1>1, <1>2, <1>3, <1>4, <1>5, <1>6, ControlStepKeeps

LEMMA InvStutter ==
  ASSUME Inv, UNCHANGED vars
  PROVE  Inv'
<1>0. /\ TypeOK /\ Places /\ OneDrainer /\ signal \in Nat /\ token \in 0..signal
      /\ stop \in BOOLEAN /\ last \in BOOLEAN /\ pc \in [Threads -> Labels]
  BY DEF Inv, DispatchedInOrder, TypeOK, Labels
<1> USE DEF vars, atomics, backend, sinks
<1>1. Places' /\ OneDrainer'
  BY <1>0 DEF Places, OneDrainer
<1>2. stop' \in BOOLEAN /\ last' \in BOOLEAN
  BY <1>0
<1> QED BY <1>0, <1>1, <1>2, ControlStepKeeps

LEMMA InvInit == Init => Inv
<1> SUFFICES ASSUME Init PROVE Inv
  OBVIOUS
<1> USE DEF Init
<1>1. << >> \in Seq(Producers) /\ << >> \in Seq(Nat) /\ Len(<< >>) = 0
  BY EmptySeq
<1>2. /\ pc \in [Threads -> Labels] /\ pc[Backend] = "check" /\ pc[Closer] = "idle"
      /\ \A p \in Producers : pc[p] = "idle"
  BY DistinctThreads DEF Labels
<1>3. stop \in BOOLEAN /\ dispatching \in BOOLEAN /\ last \in BOOLEAN
  OBVIOUS
<1>4. /\ ticket \in [Producers -> 0..Len(log)]
      /\ seen \in [Producers -> {<< >>} \cup ({"head", "tail"} \X Nat)]
  BY <1>1 DEF NoTicket
<1>5. /\ head = 0 /\ reading = 0 /\ current = 0 /\ signal = 0 /\ token = 0 /\ offered = 0 /\ flushes = 0
      /\ durable = 0 /\ log = << >> /\ written = << >> /\ published = {}
  BY DEF NoTicket
<1> HIDE DEF Init
<1>6. TypeOK
  BY <1>1, <1>2, <1>3, <1>4, <1>5, SizeAssumption, BoundsAssumption DEF TypeOK, Labels, NoTicket
<1>7. DispatchedInOrder
  BY <1>1, <1>5, <1>6 DEF DispatchedInOrder, NoTicket
<1>8. Places /\ OneDrainer
  BY <1>2 DEF Places, OneDrainer, Draining
<1>9. InFlight
  BY <1>2, <1>5, DistinctThreads DEF InFlight, NoTicket
<1>10. Knowledge
  BY <1>2 DEF Knowledge, Knows
<1> QED BY <1>7, <1>8, <1>9, <1>10 DEF Inv

-----------------------------------------------------------------------------
(***************************************************************************)
(* Theorems.                                                               *)
(***************************************************************************)

\* Inv holds in every reachable state.
THEOREM InvariantHolds == Spec => []Inv
<1>1. Inv /\ [Next]_vars => Inv'
  <2> SUFFICES ASSUME Inv, [Next]_vars PROVE Inv'
    OBVIOUS
  <2>1. ASSUME NEW p \in Producers, PushClaim(p) \/ PushDrop(p) \/ PushSpin(p) PROVE Inv'
    BY <2>1, PushClaimStep, PushRefusedStep
  <2>2. ASSUME NEW p \in Producers, FlushBegin(p) \/ ProducerStep(p) PROVE Inv'
    BY <2>2, PushClaimStep, PushPublishStep, PushSignalStep, PushNotifyStep, FlushLoadStep,
       FlushSizeStep, FlushFlagStep, FlushSinksStep DEF ProducerStep
  <2>3. CASE BackendStep
    BY <2>3, BackendLoopStep, DrainStepKeeps, DistinctThreads DEF BackendStep
  <2>4. CASE ShutdownStop \/ ShutdownStep
    BY <2>4, ShutdownControlStep, DrainStepKeeps, DistinctThreads DEF ShutdownStep
  <2>5. ASSUME (\E p \in Producers : PushYield(p)) \/ Finished \/ UNCHANGED vars PROVE Inv'
    BY <2>5, InvStutter DEF PushYield, Finished
  <2> QED BY <2>1, <2>2, <2>3, <2>4, <2>5 DEF Next
<1> QED BY <1>1, InvInit, PTL DEF Spec

\* The sinks get every popped record once and in ticket order, also across the hand-over
\* from the backend to the draining shutdown.
THEOREM RecordsDispatchedInOrder == Spec => []DispatchedInOrder
<1>1. Inv => DispatchedInOrder
  BY DEF Inv
<1> QED BY <1>1, InvariantHolds, PTL

\* A flush covers every record its thread had enqueued, also one that was popped and
\* not yet written when the queue first looked empty.
THEOREM FlushIsABarrier == Spec => FlushCovers
<1> DEFINE Covered == \A p \in Producers : FlushSinks(p) =>
             \A t \in 1..Len(log) : log[t] = p => t <= durable'
<1>1. Inv => [Covered]_vars
  BY DEF Inv, Knowledge, Knows, OwnUpTo, FlushSinks
<1>2. [][Covered]_vars => FlushCovers
  BY PTL DEF FlushCovers
<1> QED BY <1>1, <1>2, InvariantHolds, PTL
=============================================================================
