-------------------------- MODULE AsyncSinkProofs ---------------------------
(***************************************************************************)
(* Proofs about AsyncSink, for any sets of producers and flushers, any     *)
(* queue_size_limit and any number of calls.                               *)
(***************************************************************************)
EXTENDS AsyncSink, SequenceTheorems, TLAPS

(***************************************************************************)
(* The inductive invariant.                                                *)
(***************************************************************************)

\* A producer inside write_out has begun one of its calls.
CallsCounted ==
  \A p \in Producers : calls[p] <= MaxWrites /\ (pc[p] # "idle" => calls[p] >= 1)

\* The record a producer is about to push was not pushed before.
RecordsFresh ==
  \A p \in Producers : \A k \in 1..MaxWrites :
    <<p, k>> \in RecordsIn(accepted) =>
      /\ k <= calls[p]
      /\ pc[p] \in {"enter", "parked", "woken"} => k < calls[p]

\* Only a queued record is dropped, and only by drop_oldest.
DroppedWereAccepted ==
  /\ dropped \subseteq RecordsIn(accepted)
  /\ dropped # {} => policy = "drop_oldest"

\* m_processing is up as long as the worker holds a record or has just written one.
InFlight ==
  /\ current # << >> <=> worker \in {"notify", "write"}
  /\ processing <=> worker \in {"notify", "write", "finish"}

\* The worker leaves run only behind a stop and an empty queue, and the destructor
\* passes its join only behind the worker.
Ending ==
  /\ stop <=> dtor # "alive"
  /\ worker = "gone" => stop /\ queue = << >>
  /\ dtor \in {"flush", "done"} => worker = "gone"
  /\ dtor = "done" => durable = Len(written)

\* What a flush waits for was accepted, and written or dropped when it goes on.
FlushWaited ==
  \A f \in Flushers :
    /\ covers[f] \subseteq RecordsIn(accepted)
    /\ pc[f] = "flush" => covers[f] \subseteq RecordsIn(written) \cup dropped

\* A record displaced behind the stop is the only one: its place in the queue stays free.
StopLosses ==
  /\ owed \subseteq RecordsIn(accepted)
  /\ ~stop => owed = {}
  /\ stop /\ (\E p \in Producers : pc[p] = "enter") => raced
  /\ owed \cap dropped # {} => stop /\ raced /\ Len(queue) < Limit
  /\ \A r, s \in owed \cap dropped : r = s

Inv ==
  /\ TypeOK
  /\ Survives(written \o current \o queue, accepted, dropped)
  /\ CallsCounted /\ RecordsFresh /\ DroppedWereAccepted
  /\ InFlight /\ Ending /\ FlushWaited /\ StopLosses

-----------------------------------------------------------------------------
(***************************************************************************)
(* Surviving records.                                                      *)
(***************************************************************************)

\* Appending a new record to both sequences keeps one a survivor of the other.
LEMMA SurvivesAppend ==
  ASSUME NEW S, NEW out \in Seq(S), NEW acc \in Seq(S), NEW lost, NEW r \in S,
         Survives(out, acc, lost), r \notin RecordsIn(acc), lost \subseteq RecordsIn(acc)
  PROVE  Survives(Append(out, r), Append(acc, r), lost)
<1> DEFINE O == Append(out, r)
           A == Append(acc, r)
<1>1. /\ Len(O) = Len(out) + 1 /\ \A i \in 1..Len(out) : O[i] = out[i]
      /\ O[Len(out) + 1] = r /\ DOMAIN O = 1..Len(O)
  BY AppendProperties, LenProperties
<1>2. /\ Len(A) = Len(acc) + 1 /\ \A i \in 1..Len(acc) : A[i] = acc[i]
      /\ A[Len(acc) + 1] = r /\ DOMAIN A = 1..Len(A)
  BY AppendProperties, LenProperties
<1>3. DOMAIN out = 1..Len(out) /\ DOMAIN acc = 1..Len(acc) /\ Len(out) \in Nat /\ Len(acc) \in Nat
  BY LenProperties
<1> HIDE DEF O, A
<1>4. \A m \in 1..Len(acc) : acc[m] # r
  BY DEF RecordsIn
<1>5. \A i \in 1..Len(out) : out[i] # r
  BY <1>3 DEF Survives, RecordsIn
<1>6. \A m, n \in DOMAIN A : A[m] = A[n] => m = n
  BY <1>2, <1>3, <1>4 DEF Survives
<1>7. RecordsIn(O) = RecordsIn(out) \cup {r} /\ RecordsIn(A) = RecordsIn(acc) \cup {r}
  BY <1>1, <1>2, <1>3 DEF RecordsIn
<1>8. RecordsIn(O) = RecordsIn(A) \ lost
  BY <1>7 DEF Survives
<1>9. ASSUME NEW i \in DOMAIN O, NEW j \in DOMAIN O, NEW m \in DOMAIN A, NEW n \in DOMAIN A,
             i < j, O[i] = A[m], O[j] = A[n]
      PROVE  m < n
  BY <1>1, <1>2, <1>3, <1>4, <1>5, <1>9 DEF Survives
<1> QED BY <1>6, <1>8, <1>9 DEF Survives, O, A

\* Removing one record from the survivors adds it to the lost ones.
LEMMA SurvivesRemove ==
  ASSUME NEW S, NEW a \in Seq(S), NEW q \in Seq(S), NEW acc \in Seq(S), NEW lost,
         q # << >>, Survives(a \o q, acc, lost)
  PROVE  Survives(a \o Tail(q), acc, lost \cup {Head(q)})
<1> DEFINE O == a \o q
           T == a \o Tail(q)
           k == Len(a)
           Shift(i) == IF i <= k THEN i ELSE i + 1
<1>1. k \in Nat /\ Len(q) \in Nat \ {0} /\ Tail(q) \in Seq(S) /\ Len(Tail(q)) = Len(q) - 1
  BY HeadTailProperties, LenProperties, EmptySeq
<1>2. /\ Len(O) = k + Len(q) /\ DOMAIN O = 1..Len(O)
      /\ \A i \in 1..Len(O) : O[i] = IF i <= k THEN a[i] ELSE q[i - k]
  BY <1>1, ConcatProperties, LenProperties
<1>3. /\ Len(T) = k + Len(q) - 1 /\ DOMAIN T = 1..Len(T)
      /\ \A i \in 1..Len(T) : T[i] = IF i <= k THEN a[i] ELSE Tail(q)[i - k]
  BY <1>1, ConcatProperties, LenProperties
<1>4. \A i \in 1..Len(T) : T[i] = O[Shift(i)] /\ Shift(i) \in 1..Len(O) /\ Shift(i) # k + 1
  BY <1>1, <1>2, <1>3, HeadTailProperties
<1>5. O[k + 1] = Head(q) /\ k + 1 \in 1..Len(O)
  BY <1>1, <1>2
<1>6. \A i \in 1..Len(O) : i # k + 1 => \E j \in 1..Len(T) : Shift(j) = i
  <2> TAKE i \in 1..Len(O)
  <2> HAVE i # k + 1
  <2>1. CASE i <= k
    BY <2>1, <1>1, <1>2, <1>3
  <2>2. CASE i > k + 1
    <3>1. i - 1 \in 1..Len(T) /\ Shift(i - 1) = i
      BY <2>2, <1>1, <1>2, <1>3
    <3> QED BY <3>1
  <2> QED BY <2>1, <2>2, <1>1
<1>7. \A i, j \in 1..Len(T) : i < j => Shift(i) < Shift(j)
  BY <1>1
<1> HIDE DEF O, T, k, Shift
<1>8. Survives(O, acc, lost)
  BY DEF O
<1>9. \A i, j \in 1..Len(O) : O[i] = O[j] => i = j
  <2>0. Len(O) \in Nat
    BY <1>1, <1>2
  <2>1. ASSUME NEW i \in 1..Len(O), NEW j \in 1..Len(O), i < j, O[i] = O[j] PROVE FALSE
    <3>1. O[i] \in RecordsIn(acc)
      BY <1>8 DEF Survives, RecordsIn
    <3>2. PICK m \in DOMAIN acc : O[i] = acc[m]
      BY <3>1, LenProperties DEF RecordsIn
    <3>3. m < m
      BY <2>1, <3>2, <1>2, <1>8 DEF Survives
    <3> QED BY <3>3, LenProperties
  <2> QED BY <2>0, <2>1
<1>10. RecordsIn(T) = RecordsIn(O) \ {Head(q)}
  <2>1. \A i \in 1..Len(T) : T[i] \in RecordsIn(O) /\ T[i] # Head(q)
    BY <1>4, <1>5, <1>9 DEF RecordsIn
  <2>2. \A i \in 1..Len(O) : O[i] # Head(q) => O[i] \in RecordsIn(T)
    BY <1>4, <1>5, <1>6 DEF RecordsIn
  <2> QED BY <2>1, <2>2 DEF RecordsIn
<1>11. RecordsIn(T) = RecordsIn(acc) \ (lost \cup {Head(q)})
  BY <1>8, <1>10 DEF Survives
<1>12. ASSUME NEW i \in DOMAIN T, NEW j \in DOMAIN T, NEW m \in DOMAIN acc, NEW n \in DOMAIN acc,
              i < j, T[i] = acc[m], T[j] = acc[n]
       PROVE  m < n
  BY <1>2, <1>3, <1>4, <1>7, <1>8, <1>12 DEF Survives
<1>13. \A m, n \in DOMAIN acc : acc[m] = acc[n] => m = n
  BY <1>8 DEF Survives
<1> QED BY <1>11, <1>12, <1>13 DEF Survives, T

-----------------------------------------------------------------------------
(***************************************************************************)
(* The steps.                                                              *)
(***************************************************************************)

\* What Inv says of the three sequences a record passes through.
LEMMA Passage ==
  ASSUME Inv
  PROVE  /\ written \in Seq(Record) /\ current \in Seq(Record) /\ queue \in Seq(Record)
         /\ written \o current \in Seq(Record) /\ accepted \in Seq(Record)
         /\ queue # << >> => /\ Head(queue) \in RecordsIn(accepted) /\ Head(queue) \in Record
                            /\ Tail(queue) \in Seq(Record) /\ Len(Tail(queue)) = Len(queue) - 1
<1>1. /\ written \in Seq(Record) /\ current \in Seq(Record) /\ queue \in Seq(Record)
      /\ written \o current \in Seq(Record) /\ accepted \in Seq(Record)
  BY ConcatProperties DEF Inv, TypeOK
<1>2. ASSUME queue # << >>
      PROVE  Head(queue) \in RecordsIn(accepted)
  <2> DEFINE a == written \o current
             i == Len(a) + 1
  <2>1. Len(queue) \in Nat \ {0} /\ Len(a) \in Nat
    BY <1>1, <1>2, EmptySeq, LenProperties
  <2>2. i \in 1..Len(a \o queue) /\ (a \o queue)[i] = queue[1]
    BY <1>1, <2>1, ConcatProperties
  <2>3. queue[1] \in RecordsIn(a \o queue)
    BY <2>2 DEF RecordsIn
  <2> QED BY <2>3 DEF Inv, Survives
<1> QED BY <1>1, <1>2, HeadTailProperties

\* The sink starts with all the parts of Inv.
LEMMA InvInit == Init => Inv
<1> SUFFICES ASSUME Init PROVE Inv
  OBVIOUS
<1> USE LimitAssumption DEF Init
<1>1. << >> \in Seq(Record) /\ Len(<< >>) = 0
  BY EmptySeq
<1>2. TypeOK
  <2>1. /\ pc \in [Callers -> {"idle"}] /\ calls \in [Callers -> Nat]
        /\ covers \in [Flushers -> SUBSET Record]
    OBVIOUS
  <2>2. pc \in [Callers -> {"idle", "enter", "parked", "woken", "notify", "flush", "flush_early"}]
    BY <2>1
  <2>3. stop \in BOOLEAN /\ processing \in BOOLEAN
    OBVIOUS
  <2>4. queue \in Seq(Record) /\ Len(queue) <= Limit /\ current \in Seq(Record) /\ Len(current) <= 1
    BY <1>1
  <2>5. durable \in 0..Len(written)
    BY <1>1
  <2>6. worker \in {"check", "parked", "notify", "write", "finish", "gone"} /\ written \in Seq(Record) /\ accepted \in Seq(Record)
    BY <1>1
  <2>7. dtor \in {"alive", "wake_worker", "wake_producers", "join", "flush", "done"} /\ dropped \subseteq Record
    OBVIOUS
  <2>8. policy \in OverflowAction
    OBVIOUS
  <2>9. owed \subseteq Record /\ raced \in BOOLEAN
    OBVIOUS
  <2> QED BY <2>1, <2>2, <2>3, <2>4, <2>5, <2>6, <2>7, <2>8, <2>9 DEF TypeOK
<1>3. Survives(written \o current \o queue, accepted, dropped)
  BY <1>1, ConcatEmptySeq DEF Survives, RecordsIn
<1>4. CallsCounted /\ RecordsFresh
  BY BoundsAssumption DEF CallsCounted, RecordsFresh, RecordsIn, Callers
<1>5. DroppedWereAccepted /\ InFlight /\ Ending /\ FlushWaited /\ StopLosses
  BY DEF DroppedWereAccepted, InFlight, Ending, FlushWaited, StopLosses, Callers
<1> QED BY <1>2, <1>3, <1>4, <1>5 DEF Inv

\* A step that leaves the records where they are.
LEMMA RecordsStay ==
  ASSUME Inv, UNCHANGED <<policy, written, current, queue, accepted, dropped>>
  PROVE  Survives(written \o current \o queue, accepted, dropped)' /\ DroppedWereAccepted'
<1>1. Survives(written \o current \o queue, accepted, dropped) /\ DroppedWereAccepted
  BY DEF Inv
<1>2. DroppedWereAccepted'
  BY <1>1 DEF DroppedWereAccepted
<1>3. Survives(written \o current \o queue, accepted, dropped)'
  BY <1>1
<1> QED BY <1>2, <1>3

\* A step that displaces nothing, and behind the stop neither fills the queue nor lets
\* a write in.
LEMMA LossesStay ==
  ASSUME Inv, UNCHANGED <<stop, dropped, atStop>>, RecordsIn(accepted) \subseteq RecordsIn(accepted'),
         \/ ~stop
         \/ /\ \A p \in Producers : pc'[p] = "enter" => pc[p] = "enter"
            /\ Len(queue') \in Nat /\ Len(queue') <= Len(queue)
  PROVE  StopLosses'
<1>1. StopLosses /\ TypeOK
  BY DEF Inv
<1>2. UNCHANGED <<stop, dropped, owed, raced>>
  BY DEF atStop
<1>3. CASE ~stop
  <2>1. owed = {}
    BY <1>1, <1>3 DEF StopLosses
  <2> QED BY <1>2, <1>3, <2>1 DEF StopLosses
<1>4. CASE stop
  <2>1. \A p \in Producers : pc'[p] = "enter" => pc[p] = "enter"
    BY <1>4
  <2>2. owed' \subseteq RecordsIn(accepted') /\ (~stop' => owed' = {})
    BY <1>1, <1>2, <1>4 DEF StopLosses
  <2>3. stop' /\ (\E p \in Producers : pc'[p] = "enter") => raced'
    BY <1>1, <1>2, <1>4, <2>1 DEF StopLosses
  <2>4. owed' \cap dropped' # {} => stop' /\ raced' /\ Len(queue') < Limit
    BY <1>1, <1>2, <1>4, LimitAssumption, LenProperties DEF StopLosses, TypeOK
  <2>5. \A r, s \in owed' \cap dropped' : r = s
    BY <1>1, <1>2 DEF StopLosses
  <2> QED BY <2>2, <2>3, <2>4, <2>5 DEF StopLosses
<1> QED BY <1>3, <1>4

\* The steps of write_out that move no record.
LEMMA WriteBeginStep ==
  ASSUME Inv, NEW p \in Producers, WriteBegin(p)
  PROVE  Inv'
<1>0. TypeOK /\ CallsCounted /\ RecordsFresh /\ InFlight /\ Ending /\ FlushWaited
  BY DEF Inv
<1> USE DEF shared, inner, history, atStop, Goto, WriteBegin
<1>1. TypeOK'
  BY <1>0 DEF TypeOK, Callers
<1>2. CallsCounted'
  BY <1>0, BoundsAssumption DEF TypeOK, CallsCounted, Callers
<1>3. RecordsFresh'
  BY <1>0, BoundsAssumption DEF TypeOK, CallsCounted, RecordsFresh, Callers
<1>4. InFlight' /\ Ending' /\ FlushWaited'
  BY <1>0, CallersAssumption DEF TypeOK, InFlight, Ending, FlushWaited, Callers
<1>5. StopLosses'
  BY <1>0, LossesStay DEF Ending
<1> QED BY <1>1, <1>2, <1>3, <1>4, <1>5, RecordsStay DEF Inv

LEMMA WriteQuietStep ==
  ASSUME Inv, NEW p \in Producers,
         WritePark(p) \/ WriteDropNewest(p) \/ WriteClosed(p) \/ WriteNotify(p)
  PROVE  Inv'
<1>0. TypeOK /\ CallsCounted /\ RecordsFresh /\ InFlight /\ Ending /\ FlushWaited
  BY DEF Inv
<1>1. /\ UNCHANGED <<policy, shared, dtor, current, calls, inner, history>>
      /\ pc[p] # "idle"
      /\ \/ Goto(p, "idle")
         \/ pc[p] \in {"enter", "woken"} /\ Goto(p, "parked")
      /\ worker' = worker \/ (worker = "parked" /\ worker' = "check")
  BY DEF WritePark, WriteDropNewest, WriteClosed, WriteNotify
<1> USE DEF shared, inner, history, atStop, Goto
<1>2. TypeOK'
  BY <1>0, <1>1 DEF TypeOK, Callers
<1>3. CallsCounted' /\ RecordsFresh'
  BY <1>0, <1>1 DEF TypeOK, CallsCounted, RecordsFresh, Callers
<1>4. InFlight' /\ Ending' /\ FlushWaited'
  BY <1>0, <1>1, CallersAssumption DEF TypeOK, InFlight, Ending, FlushWaited, Callers
<1>5. StopLosses'
  BY <1>0, <1>1, LossesStay, LenProperties DEF TypeOK, Callers
<1> QED BY <1>1, <1>2, <1>3, <1>4, <1>5, RecordsStay DEF Inv

\* The record a producer pushes is new, so it is appended to what survives.
LEMMA PushedRecord ==
  ASSUME Inv, NEW p \in Producers, pc[p] \in {"enter", "woken"}
  PROVE  Arg(p) \in Record /\ Arg(p) \notin RecordsIn(accepted)
BY BoundsAssumption DEF Inv, TypeOK, CallsCounted, RecordsFresh, Arg, Record, Callers

\* What an append adds to the set of records.
LEMMA RecordsInAppend ==
  ASSUME NEW S, NEW s \in Seq(S), NEW r \in S
  PROVE  RecordsIn(Append(s, r)) = RecordsIn(s) \cup {r}
BY AppendProperties, LenProperties DEF RecordsIn

\* A pushed record is the one its producer's call is about, and that call does not
\* push again.
LEMMA PushedFreshness ==
  ASSUME TypeOK, CallsCounted, RecordsFresh, NEW p \in Producers,
         pc[p] # "idle", pc' = [pc EXCEPT ![p] = "notify"], calls' = calls,
         RecordsIn(accepted') = RecordsIn(accepted) \cup {Arg(p)}
  PROVE  CallsCounted' /\ RecordsFresh'
<1>1. DOMAIN pc = Callers /\ Producers \subseteq Callers /\ calls \in [Callers -> Nat]
  BY DEF TypeOK, Callers
<1>2. pc'[p] = "notify" /\ \A q \in Producers : q # p => pc'[q] = pc[q]
  BY <1>1
<1>3. CallsCounted'
  BY <1>1, <1>2 DEF CallsCounted
<1>4. ASSUME NEW q \in Producers, NEW k \in 1..MaxWrites, <<q, k>> \in RecordsIn(accepted')
      PROVE  k <= calls[q] /\ (pc'[q] \in {"enter", "parked", "woken"} => k < calls[q])
  <2>1. CASE <<q, k>> = Arg(p)
    BY <1>1, <1>2, <2>1 DEF Arg
  <2>2. CASE <<q, k>> \in RecordsIn(accepted)
    BY <1>2, <2>2 DEF RecordsFresh
  <2> QED BY <1>4, <2>1, <2>2
<1>5. \A q \in Producers : \A k \in 1..MaxWrites :
        <<q, k>> \in RecordsIn(accepted') =>
          k <= calls'[q] /\ (pc'[q] \in {"enter", "parked", "woken"} => k < calls'[q])
  BY <1>4
<1> QED BY <1>3, <1>5 DEF RecordsFresh

LEMMA WritePushStep ==
  ASSUME Inv, NEW p \in Producers, WritePush(p)
  PROVE  Inv'
<1>0. TypeOK /\ CallsCounted /\ RecordsFresh /\ DroppedWereAccepted /\ InFlight /\ Ending /\ FlushWaited
  BY DEF Inv
<1>1. Arg(p) \in Record /\ Arg(p) \notin RecordsIn(accepted)
  BY PushedRecord DEF WritePush
<1>2. /\ queue' = Append(queue, Arg(p)) /\ accepted' = Append(accepted, Arg(p))
      /\ pc' = [pc EXCEPT ![p] = "notify"] /\ pc[p] # "idle"
      /\ UNCHANGED <<policy, stop, processing, worker, dtor, current, calls, written, durable>>
      /\ UNCHANGED <<dropped, covers, owed, raced>>
      /\ Len(queue) < Limit /\ stop = FALSE
  BY <1>0, LenProperties, LimitAssumption DEF WritePush, Goto, inner, atStop, Full, TypeOK
<1>3. queue' \in Seq(Record) /\ Len(queue') = Len(queue) + 1 /\ accepted' \in Seq(Record)
  BY <1>0, <1>1, <1>2, AppendProperties DEF TypeOK
<1>4. RecordsIn(accepted') = RecordsIn(accepted) \cup {Arg(p)}
  BY <1>0, <1>1, <1>2, RecordsInAppend DEF TypeOK
<1>5. TypeOK'
  BY <1>0, <1>2, <1>3, LimitAssumption, LenProperties DEF TypeOK, Callers
<1>6. Survives(written \o current \o queue, accepted, dropped)'
  <2>1. written \o current \in Seq(Record) /\ queue \in Seq(Record) /\ accepted \in Seq(Record)
        /\ written \o current \o queue \in Seq(Record)
    BY Passage, ConcatProperties
  <2>2. written \o current \o Append(queue, Arg(p)) = Append(written \o current \o queue, Arg(p))
    BY <1>1, <2>1
  <2>3. Survives(Append(written \o current \o queue, Arg(p)), Append(accepted, Arg(p)), dropped)
    BY <1>1, <2>1, SurvivesAppend DEF Inv, DroppedWereAccepted
  <2> QED BY <1>2, <2>2, <2>3
<1>7. CallsCounted' /\ RecordsFresh'
  BY <1>0, <1>2, <1>4, PushedFreshness
<1>8. DroppedWereAccepted' /\ InFlight' /\ Ending'
  BY <1>0, <1>2, <1>4 DEF DroppedWereAccepted, InFlight, Ending
<1>9. FlushWaited'
  BY <1>0, <1>2, <1>4, CallersAssumption DEF TypeOK, FlushWaited, Callers
<1>10. StopLosses'
  BY <1>2 DEF Inv, StopLosses
<1> QED BY <1>5, <1>6, <1>7, <1>8, <1>9, <1>10 DEF Inv

\* drop_oldest: the head of the queue is lost first, and then as above.
LEMMA WriteDropOldestStep ==
  ASSUME Inv, NEW p \in Producers, WriteDropOldest(p)
  PROVE  Inv'
<1> DEFINE gone == dropped \cup {Head(queue)}
<1>0. TypeOK /\ CallsCounted /\ RecordsFresh /\ DroppedWereAccepted /\ InFlight /\ Ending /\ FlushWaited
  BY DEF Inv
<1>1. Arg(p) \in Record /\ Arg(p) \notin RecordsIn(accepted)
  BY PushedRecord DEF WriteDropOldest
<1>2. /\ dropped' = gone /\ policy = "drop_oldest" /\ pc[p] = "enter"
      /\ UNCHANGED <<policy, stop, processing, worker, dtor, current, calls, written, durable, covers>>
      /\ UNCHANGED <<owed, raced>>
      /\ Len(queue) >= Limit
  BY DEF WriteDropOldest, inner, atStop, Full
<1>3. queue # << >>
  BY <1>2, LimitAssumption, EmptySeq
<1>4. /\ written \o current \in Seq(Record) /\ queue \in Seq(Record) /\ accepted \in Seq(Record)
      /\ Head(queue) \in RecordsIn(accepted) /\ Head(queue) \in Record
      /\ Tail(queue) \in Seq(Record) /\ Len(Tail(queue)) = Len(queue) - 1
  BY <1>3, Passage
<1>5. Survives(written \o current \o Tail(queue), accepted, gone)
  BY <1>3, <1>4, SurvivesRemove DEF Inv
<1>6. gone \subseteq RecordsIn(accepted) /\ gone \subseteq Record
  BY <1>0, <1>4 DEF DroppedWereAccepted, TypeOK
<1> HIDE DEF gone
<1>7. dropped \subseteq gone
  BY DEF gone
<1>8. CASE stop
  <2>1. queue' = Tail(queue) /\ pc' = [pc EXCEPT ![p] = "idle"] /\ accepted' = accepted
    BY <1>8 DEF WriteDropOldest, Goto
  <2>2. TypeOK'
    BY <1>0, <1>2, <1>4, <1>6, <2>1, LimitAssumption, LenProperties DEF TypeOK, Callers
  <2>3. Survives(written \o current \o queue, accepted, dropped)'
    BY <1>2, <1>5, <2>1
  <2>4. CallsCounted' /\ RecordsFresh'
    BY <1>0, <1>2, <2>1 DEF TypeOK, CallsCounted, RecordsFresh, Callers
  <2>5. DroppedWereAccepted' /\ InFlight'
    BY <1>0, <1>2, <1>6, <2>1 DEF DroppedWereAccepted, InFlight
  <2>6. Ending'
    BY <1>0, <1>2, <1>3, <2>1 DEF Ending
  <2>7. FlushWaited'
    BY <1>0, <1>2, <1>7, <2>1, CallersAssumption DEF TypeOK, FlushWaited, Callers
  <2>8. StopLosses'
    <3>1. owed \cap dropped = {}
      BY <1>2, <1>4, LimitAssumption, LenProperties DEF Inv, StopLosses
    <3>2. owed' \cap dropped' \subseteq {Head(queue)}
      BY <1>2, <3>1 DEF gone
    <3>3. Len(queue') < Limit
      BY <1>0, <1>4, <2>1, LimitAssumption, LenProperties DEF TypeOK
    <3>4. stop' /\ raced' /\ owed' \subseteq RecordsIn(accepted')
      BY <1>2, <1>8, <2>1 DEF Inv, StopLosses
    <3> QED BY <3>2, <3>3, <3>4 DEF StopLosses
  <2> QED BY <2>2, <2>3, <2>4, <2>5, <2>6, <2>7, <2>8 DEF Inv
<1>9. CASE ~stop
  <2>1. /\ queue' = Append(Tail(queue), Arg(p)) /\ accepted' = Append(accepted, Arg(p))
        /\ pc' = [pc EXCEPT ![p] = "notify"]
    BY <1>9 DEF WriteDropOldest, Goto
  <2>2. queue' \in Seq(Record) /\ Len(queue') = Len(queue) /\ accepted' \in Seq(Record)
    BY <1>1, <1>4, <2>1, AppendProperties, LenProperties
  <2>3. RecordsIn(accepted') = RecordsIn(accepted) \cup {Arg(p)}
    BY <1>1, <1>4, <2>1, RecordsInAppend
  <2>4. TypeOK'
    BY <1>0, <1>2, <1>6, <2>1, <2>2 DEF TypeOK, Callers
  <2>5. Survives(written \o current \o queue, accepted, dropped)'
    <3>1. written \o current \o Tail(queue) \in Seq(Record)
      BY <1>4, ConcatProperties
    <3>2. written \o current \o Append(Tail(queue), Arg(p)) = Append(written \o current \o Tail(queue), Arg(p))
      BY <1>1, <1>4
    <3>3. Survives(Append(written \o current \o Tail(queue), Arg(p)), Append(accepted, Arg(p)), gone)
      BY <1>1, <1>4, <1>5, <1>6, <3>1, SurvivesAppend
    <3> QED BY <1>2, <2>1, <3>2, <3>3
  <2>6. CallsCounted' /\ RecordsFresh'
    BY <1>0, <1>2, <2>1, <2>3, PushedFreshness
  <2>7. DroppedWereAccepted' /\ InFlight'
    BY <1>0, <1>2, <1>6, <2>1, <2>3 DEF DroppedWereAccepted, InFlight
  <2>8. Ending'
    BY <1>0, <1>2, <1>9, <2>1 DEF Ending
  <2>9. FlushWaited'
    BY <1>0, <1>2, <1>7, <2>1, <2>3, CallersAssumption DEF TypeOK, FlushWaited, Callers
  <2>10. StopLosses'
    BY <1>2, <1>9 DEF Inv, StopLosses
  <2> QED BY <2>4, <2>5, <2>6, <2>7, <2>8, <2>9, <2>10 DEF Inv
<1> QED BY <1>8, <1>9

\* flush_out: the call, its wait and the inner sink's flush.
LEMMA FlushBeginStep ==
  ASSUME Inv, NEW f \in Flushers, FlushBegin(f)
  PROVE  Inv'
<1>0. TypeOK /\ CallsCounted /\ RecordsFresh /\ InFlight /\ Ending /\ FlushWaited
  BY DEF Inv
<1>1. /\ UNCHANGED <<policy, shared, worker, dtor, current, inner, accepted, dropped, atStop>>
      /\ calls' = [calls EXCEPT ![f] = @ + 1] /\ pc' = [pc EXCEPT ![f] = "enter"]
      /\ covers' = [covers EXCEPT ![f] = RecordsIn(accepted)]
  BY DEF FlushBegin, Goto
<1>2. RecordsIn(accepted) \subseteq Record
  BY <1>0, LenProperties DEF TypeOK, RecordsIn
<1> USE DEF shared, inner, atStop
<1>3. TypeOK'
  BY <1>0, <1>1, <1>2 DEF TypeOK, Callers
<1>4. CallsCounted' /\ RecordsFresh'
  BY <1>0, <1>1, CallersAssumption DEF TypeOK, CallsCounted, RecordsFresh, Callers
<1>5. InFlight' /\ Ending' /\ FlushWaited'
  BY <1>0, <1>1 DEF TypeOK, InFlight, Ending, FlushWaited, Callers
<1>6. StopLosses'
  BY <1>0, <1>1, CallersAssumption, LossesStay, LenProperties DEF TypeOK, Callers
<1> QED BY <1>1, <1>3, <1>4, <1>5, <1>6, RecordsStay DEF Inv

\* With nothing queued or in flight, what was written is what was accepted and kept.
LEMMA DrainedMeansWritten ==
  ASSUME Inv, queue = << >>, current = << >>
  PROVE  RecordsIn(written) = RecordsIn(accepted) \ dropped
<1>1. written \o current \o queue = written
  BY Passage, ConcatEmptySeq
<1> QED BY <1>1 DEF Inv, Survives

LEMMA FlushQuietStep ==
  ASSUME Inv, NEW f \in Flushers, FlushPark(f) \/ FlushProceed(f)
  PROVE  Inv'
<1>0. TypeOK /\ CallsCounted /\ RecordsFresh /\ InFlight /\ Ending /\ FlushWaited
  BY DEF Inv
<1>1. PICK l \in {"parked", "flush", "flush_early"} :
        /\ UNCHANGED <<policy, shared, worker, dtor, current, calls, inner, history>>
        /\ pc' = [pc EXCEPT ![f] = l]
        /\ l = "flush" => Drained
  BY DEF FlushPark, FlushProceed, Goto
<1> USE DEF shared, inner, history, atStop
<1>2. TypeOK'
  BY <1>0, <1>1 DEF TypeOK, Callers
<1>3. CallsCounted' /\ RecordsFresh'
  BY <1>0, <1>1, CallersAssumption DEF TypeOK, CallsCounted, RecordsFresh, Callers
<1>4. InFlight' /\ Ending'
  BY <1>0, <1>1 DEF InFlight, Ending
<1>5. FlushWaited'
  <2>1. l = "flush" => RecordsIn(accepted) \subseteq RecordsIn(written) \cup dropped
    BY <1>0, <1>1, DrainedMeansWritten DEF InFlight, Drained
  <2> QED BY <1>0, <1>1, <2>1 DEF TypeOK, FlushWaited, Callers
<1>6. StopLosses'
  BY <1>0, <1>1, CallersAssumption, LossesStay, LenProperties DEF TypeOK, Callers
<1> QED BY <1>1, <1>2, <1>3, <1>4, <1>5, <1>6, RecordsStay DEF Inv

LEMMA FlushInnerStep ==
  ASSUME Inv, NEW f \in Flushers, FlushInner(f)
  PROVE  Inv'
<1>0. TypeOK /\ CallsCounted /\ RecordsFresh /\ InFlight /\ Ending /\ FlushWaited
  BY DEF Inv
<1>1. /\ UNCHANGED <<policy, shared, worker, dtor, current, calls, written, accepted, dropped, atStop>>
      /\ pc' = [pc EXCEPT ![f] = "idle"] /\ durable' = Len(written)
      /\ covers' = [covers EXCEPT ![f] = {}]
  BY DEF FlushInner, Goto
<1> USE DEF shared, atStop
<1>2. TypeOK'
  BY <1>0, <1>1, LenProperties DEF TypeOK, Callers
<1>3. CallsCounted' /\ RecordsFresh'
  BY <1>0, <1>1, CallersAssumption DEF TypeOK, CallsCounted, RecordsFresh, Callers
<1>4. InFlight' /\ Ending' /\ FlushWaited'
  BY <1>0, <1>1 DEF TypeOK, InFlight, Ending, FlushWaited, Callers
<1>5. StopLosses'
  BY <1>0, <1>1, CallersAssumption, LossesStay, LenProperties DEF TypeOK, Callers
<1> QED BY <1>1, <1>2, <1>3, <1>4, <1>5, RecordsStay DEF Inv

\* The worker thread moves the head of the queue to the inner sink.
LEMMA WorkerTakeStep ==
  ASSUME Inv, WorkerTake
  PROVE  Inv'
<1>0. TypeOK /\ CallsCounted /\ RecordsFresh /\ DroppedWereAccepted /\ InFlight /\ Ending /\ FlushWaited
  BY DEF Inv
<1>1. /\ worker = "check" /\ queue # << >>
      /\ current' = <<Head(queue)>> /\ queue' = Tail(queue) /\ processing' = TRUE /\ worker' = "notify"
      /\ UNCHANGED <<policy, stop, pc, dtor, calls, inner, history>>
  BY DEF WorkerTake
<1>2. current = << >>
  BY <1>0, <1>1 DEF InFlight
<1>3. /\ written \in Seq(Record) /\ queue \in Seq(Record) /\ Head(queue) \in Record
      /\ Tail(queue) \in Seq(Record) /\ Len(Tail(queue)) = Len(queue) - 1
  BY <1>1, Passage
<1>4. written \o <<Head(queue)>> \o Tail(queue) = written \o << >> \o queue
  BY <1>1, <1>3
<1>5. Survives(written \o current \o queue, accepted, dropped)'
  BY <1>1, <1>2, <1>4 DEF Inv, inner, history
<1> USE DEF inner, history, atStop
<1>6. <<Head(queue)>> \in Seq(Record) /\ Len(<<Head(queue)>>) = 1 /\ <<Head(queue)>> # << >>
  BY <1>3
<1>7. TypeOK'
  BY <1>0, <1>1, <1>3, <1>6, LimitAssumption, LenProperties DEF TypeOK
<1>8. CallsCounted' /\ RecordsFresh' /\ DroppedWereAccepted' /\ FlushWaited'
  BY <1>0, <1>1 DEF CallsCounted, RecordsFresh, DroppedWereAccepted, FlushWaited
<1>9. InFlight' /\ Ending'
  BY <1>0, <1>1, <1>6 DEF InFlight, Ending
<1>10. StopLosses'
  BY <1>0, <1>1, <1>3, LossesStay, LenProperties DEF TypeOK
<1> QED BY <1>5, <1>7, <1>8, <1>9, <1>10 DEF Inv

LEMMA WorkerWriteStep ==
  ASSUME Inv, WorkerWrite
  PROVE  Inv'
<1>0. TypeOK /\ CallsCounted /\ RecordsFresh /\ DroppedWereAccepted /\ InFlight /\ Ending /\ FlushWaited
  BY DEF Inv
<1>1. /\ worker = "write" /\ worker' = "finish"
      /\ written' = written \o current /\ current' = << >>
      /\ UNCHANGED <<policy, shared, pc, dtor, calls, durable, history>>
  BY DEF WorkerWrite
<1>2. /\ written \in Seq(Record) /\ current \in Seq(Record) /\ queue \in Seq(Record)
      /\ written \o current \in Seq(Record)
  BY Passage
<1>3. written \o current \o << >> = written \o current
  BY <1>2, ConcatEmptySeq
<1>4. Survives(written \o current \o queue, accepted, dropped)'
  BY <1>1, <1>3 DEF Inv, shared, history
<1> USE DEF shared, history, atStop
<1>5. Len(written) <= Len(written \o current) /\ RecordsIn(written) \subseteq RecordsIn(written \o current)
  BY <1>2, ConcatProperties, LenProperties DEF RecordsIn
<1>6. TypeOK'
  BY <1>0, <1>1, <1>2, <1>5, EmptySeq, LenProperties DEF TypeOK
<1>7. CallsCounted' /\ RecordsFresh' /\ DroppedWereAccepted'
  BY <1>0, <1>1 DEF CallsCounted, RecordsFresh, DroppedWereAccepted
<1>8. FlushWaited'
  BY <1>0, <1>1, <1>5 DEF FlushWaited
<1>9. InFlight' /\ Ending'
  BY <1>0, <1>1 DEF InFlight, Ending
<1>10. StopLosses'
  BY <1>0, <1>1, LossesStay, LenProperties DEF TypeOK
<1> QED BY <1>4, <1>6, <1>7, <1>8, <1>9, <1>10 DEF Inv

\* A notify or a spurious wakeup sends parked callers back to their predicate, no more.
Waken ==
  /\ pc' = [t \in Callers |-> pc'[t]]
  /\ \A t \in Callers : pc'[t] = pc[t] \/ (pc[t] = "parked" /\ pc'[t] = "woken")

LEMMA WakesWaken ==
  ASSUME TypeOK, NEW T \in SUBSET Callers, WakeOne(T) \/ WakeAll(T) \/ UNCHANGED pc
  PROVE  Waken
<1>1. CASE WakeOne(T)
  BY <1>1 DEF TypeOK, WakeOne, Waken, Goto
<1>2. CASE WakeAll(T)
  BY <1>2 DEF TypeOK, WakeAll, Waken
<1>3. CASE UNCHANGED pc
  BY <1>3 DEF TypeOK, Waken
<1> QED BY <1>1, <1>2, <1>3

\* Waking callers lets no write in and displaces nothing.
LEMMA WakenLosesNothing ==
  ASSUME Inv, Waken, UNCHANGED <<stop, queue, accepted, dropped, covers, atStop>>
  PROVE  StopLosses'
<1>1. \A p \in Producers : pc'[p] = "enter" => pc[p] = "enter"
  BY DEF Waken, Callers
<1>2. Len(queue) \in Nat
  BY LenProperties DEF Inv, TypeOK
<1> QED BY <1>1, <1>2, LossesStay

\* A step that only wakes callers and moves the worker or the destructor on.
LEMMA WakingStep ==
  ASSUME Inv, Waken, UNCHANGED <<policy, queue, current, calls, written, accepted, dropped, covers>>,
         stop' \in BOOLEAN, processing' \in BOOLEAN, durable' \in {durable, Len(written)},
         worker' \in {"check", "parked", "notify", "write", "finish", "gone"},
         dtor' \in {"alive", "wake_worker", "wake_producers", "join", "flush", "done"},
         owed' \subseteq Record, raced' \in BOOLEAN,
         InFlight', Ending', StopLosses'
  PROVE  Inv'
<1>0. TypeOK /\ CallsCounted /\ RecordsFresh /\ FlushWaited
  BY DEF Inv
<1>1. pc' \in [Callers -> {"idle", "enter", "parked", "woken", "notify", "flush", "flush_early"}]
  <2>1. \A t \in Callers :
          pc'[t] \in {"idle", "enter", "parked", "woken", "notify", "flush", "flush_early"}
    BY <1>0 DEF TypeOK, Waken
  <2>2. pc' = [t \in Callers |-> pc'[t]]
    BY DEF Waken
  <2> QED BY <2>1, <2>2
<1>2. TypeOK'
  BY <1>0, <1>1, LenProperties DEF TypeOK
<1>3. CallsCounted' /\ RecordsFresh' /\ FlushWaited'
  BY <1>0 DEF CallsCounted, RecordsFresh, FlushWaited, Waken, Callers
<1> QED BY <1>2, <1>3, RecordsStay DEF Inv

LEMMA WorkerQuietStep ==
  ASSUME Inv, WorkerPark \/ WorkerExit \/ WorkerNotify \/ WorkerFinish
  PROVE  Inv'
<1>0. TypeOK /\ InFlight /\ Ending /\ Producers \subseteq Callers /\ Flushers \subseteq Callers
  BY DEF Inv, Callers
<1>1. /\ UNCHANGED <<policy, queue, stop, dtor, current, calls, inner, history>>
      /\ worker \in {"check", "notify", "finish"}
      /\ worker' \in {"check", "parked", "write", "gone"}
  BY DEF WorkerPark, WorkerExit, WorkerNotify, WorkerFinish, shared
<1>2. Waken
  BY <1>0, WakesWaken DEF WorkerPark, WorkerExit, WorkerNotify, WorkerFinish
<1>3. processing' \in BOOLEAN /\ stop' \in BOOLEAN
  <2>1. CASE WorkerFinish
    BY <1>0, <2>1 DEF WorkerFinish, TypeOK
  <2>2. CASE WorkerPark \/ WorkerExit \/ WorkerNotify
    BY <1>0, <2>2 DEF WorkerPark, WorkerExit, WorkerNotify, TypeOK, shared
  <2> QED BY <2>1, <2>2
<1>4. InFlight' /\ Ending'
  BY <1>0 DEF WorkerPark, WorkerExit, WorkerNotify, WorkerFinish, shared, inner, InFlight, Ending
<1>5. StopLosses'
  BY <1>0, <1>1, <1>2, WakenLosesNothing DEF history
<1> QED BY <1>0, <1>1, <1>2, <1>3, <1>4, <1>5, WakingStep DEF inner, history, atStop, TypeOK

\* The destructor.
LEMMA DtorStopStep ==
  ASSUME Inv, DtorStop
  PROVE  Inv'
<1>0. TypeOK /\ InFlight /\ Ending
  BY DEF Inv
<1>1. stop' \in BOOLEAN /\ processing' \in BOOLEAN /\ Waken
  BY <1>0, WakesWaken DEF DtorStop, TypeOK
<1>2. InFlight' /\ Ending'
  BY <1>0 DEF DtorStop, inner, InFlight, Ending
<1>3. RecordsIn(accepted) \subseteq Record
  BY <1>0, LenProperties DEF TypeOK, RecordsIn
<1>4. owed' \subseteq Record /\ raced' \in BOOLEAN
  BY <1>3 DEF DtorStop
<1>5. StopLosses'
  BY DEF DtorStop, StopLosses
<1> QED BY <1>0, <1>1, <1>2, <1>4, <1>5, WakingStep DEF DtorStop, inner, TypeOK

LEMMA DtorAdvanceStep ==
  ASSUME Inv, DtorStep
  PROVE  Inv'
<1>0. TypeOK /\ InFlight /\ Ending /\ Producers \subseteq Callers
  BY DEF Inv, Callers
<1>1. /\ UNCHANGED <<policy, shared, current, calls, written, history>>
      /\ durable' \in {durable, Len(written)}
      /\ worker' = worker \/ (worker = "parked" /\ worker' = "check")
      /\ dtor' \in {"alive", "wake_worker", "wake_producers", "join", "flush", "done"}
  BY DEF DtorStep, DtorWakeWorker, DtorWakeProducers, DtorJoin, DtorFlush, inner
<1>2. stop' \in BOOLEAN /\ processing' \in BOOLEAN
  BY <1>0, <1>1 DEF shared, TypeOK
<1>3. Waken
  BY <1>0, WakesWaken DEF DtorStep, DtorWakeWorker, DtorWakeProducers, DtorJoin, DtorFlush
<1>4. InFlight' /\ Ending'
  BY <1>0 DEF DtorStep, DtorWakeWorker, DtorWakeProducers, DtorJoin, DtorFlush, shared, inner, InFlight, Ending
<1>5. StopLosses'
  BY <1>0, <1>1, <1>3, WakenLosesNothing DEF history, shared
<1> QED BY <1>0, <1>1, <1>2, <1>3, <1>4, <1>5, WakingStep DEF shared, history, atStop, TypeOK

LEMMA SpuriousStep ==
  ASSUME Inv, SpuriousWakeup
  PROVE  Inv'
<1>0. TypeOK /\ InFlight /\ Ending
  BY DEF Inv
<1>1. stop' \in BOOLEAN /\ processing' \in BOOLEAN
  BY <1>0 DEF SpuriousWakeup, shared, TypeOK
<1>2. Waken
  BY <1>0, WakesWaken DEF SpuriousWakeup, WakeOne
<1>3. InFlight' /\ Ending'
  BY <1>0 DEF SpuriousWakeup, shared, inner, InFlight, Ending
<1>4. StopLosses'
  BY <1>0, <1>2, WakenLosesNothing DEF SpuriousWakeup, history, shared
<1> QED BY <1>0, <1>1, <1>2, <1>3, <1>4, WakingStep DEF SpuriousWakeup, shared, inner, history, atStop, TypeOK

LEMMA InvStutter ==
  ASSUME Inv, UNCHANGED vars
  PROVE  Inv'
<1>0. TypeOK /\ CallsCounted /\ RecordsFresh /\ InFlight /\ Ending /\ FlushWaited
  BY DEF Inv
<1> USE DEF vars, shared, inner, history, atStop
<1>1. TypeOK'
  BY <1>0 DEF TypeOK
<1>2. CallsCounted' /\ RecordsFresh' /\ InFlight' /\ Ending' /\ FlushWaited'
  BY <1>0 DEF CallsCounted, RecordsFresh, InFlight, Ending, FlushWaited
<1>3. StopLosses'
  BY <1>0, LossesStay, LenProperties DEF TypeOK
<1> QED BY <1>1, <1>2, <1>3, RecordsStay DEF Inv

-----------------------------------------------------------------------------
(***************************************************************************)
(* Theorems.                                                               *)
(***************************************************************************)

\* Inv holds in every reachable state, whatever the interleaving of producers,
\* flushers, the worker, spurious wakeups and the destructor.
THEOREM InvariantHolds == Spec => []Inv
<1>1. Inv /\ [Next]_vars => Inv'
  <2> SUFFICES ASSUME Inv, [Next]_vars PROVE Inv'
    OBVIOUS
  <2>1. ASSUME NEW p \in Producers, WriteBegin(p) \/ WriteStep(p) PROVE Inv'
    BY <2>1, WriteBeginStep, WriteQuietStep, WriteDropOldestStep, WritePushStep DEF WriteStep
  <2>2. ASSUME NEW f \in Flushers, FlushBegin(f) \/ FlushStep(f) PROVE Inv'
    BY <2>2, FlushBeginStep, FlushQuietStep, FlushInnerStep DEF FlushStep
  <2>3. CASE WorkerStep
    BY <2>3, WorkerQuietStep, WorkerTakeStep, WorkerWriteStep DEF WorkerStep
  <2>4. CASE DtorStop \/ DtorStep
    BY <2>4, DtorStopStep, DtorAdvanceStep
  <2>5. CASE SpuriousWakeup
    BY <2>5, SpuriousStep
  <2>6. CASE Gone \/ UNCHANGED vars
    BY <2>6, InvStutter DEF Gone
  <2> QED BY <2>1, <2>2, <2>3, <2>4, <2>5, <2>6 DEF Next
<1> QED BY <1>1, InvInit, PTL DEF Spec

\* The wrapped sink gets what was accepted, once each and in the order of acceptance;
\* only drop_oldest loses any of it, and only what it popped.
THEOREM RecordsInOrder == Spec => []InOrder
<1>1. Inv => InOrder
  BY DEF Inv, InOrder, DroppedWereAccepted
<1> QED BY <1>1, InvariantHolds, PTL

\* When the destructor is done, every accepted record that was not displaced is written
\* and flushed, and of those not displaced by the time it set m_stop at most one is
\* missing: under drop_oldest, to a write that was inside then.
THEOREM ShutdownIsGraceful == Spec => []GracefulShutdown
<1>1. Inv => GracefulShutdown
  <2> SUFFICES ASSUME Inv, dtor = "done"
               PROVE  /\ RecordsIn(written) = RecordsIn(accepted) \ dropped
                      /\ durable = Len(written)
                      /\ owed \ RecordsIn(written) # {} => policy = "drop_oldest" /\ raced
                      /\ \A r, s \in owed \ RecordsIn(written) : r = s
    BY DEF GracefulShutdown
  <2>1. queue = << >> /\ current = << >> /\ durable = Len(written)
    BY DEF Inv, Ending, InFlight
  <2>2. RecordsIn(written) = RecordsIn(accepted) \ dropped
    BY <2>1, DrainedMeansWritten
  <2>3. owed \ RecordsIn(written) = owed \cap dropped
    BY <2>2 DEF Inv, StopLosses
  <2>4. /\ owed \cap dropped # {} => policy = "drop_oldest" /\ raced
        /\ \A r, s \in owed \cap dropped : r = s
    BY DEF Inv, StopLosses, DroppedWereAccepted
  <2> QED BY <2>1, <2>2, <2>3, <2>4
<1> QED BY <1>1, InvariantHolds, PTL

\* A flush that no shutdown cut short covers every record accepted before its call
\* that was not displaced.
THEOREM FlushIsABarrier == Spec => FlushCovers
<1> DEFINE Covered == \A f \in Flushers : FlushInner(f) /\ pc[f] = "flush" =>
             covers[f] \subseteq RecordsIn(SubSeq(written, 1, durable')) \cup dropped
<1>1. Inv => Covered
  <2> SUFFICES ASSUME Inv, NEW f \in Flushers, FlushInner(f), pc[f] = "flush"
               PROVE  covers[f] \subseteq RecordsIn(SubSeq(written, 1, durable')) \cup dropped
    OBVIOUS
  <2>1. SubSeq(written, 1, durable') = written
    BY Passage, SubSeqFull DEF FlushInner
  <2> QED BY <2>1 DEF Inv, FlushWaited
<1>2. Inv => [Covered]_vars
  BY <1>1
<1>3. [][Covered]_vars => FlushCovers
  BY PTL DEF FlushCovers
<1> QED BY <1>2, <1>3, InvariantHolds, PTL
=============================================================================
