---------------------------- MODULE DeviceProofs ----------------------------
(***************************************************************************)
(* Proofs about the components that face a device: GpioEvents and the      *)
(* SpscQueue in it, for every ring size, kernel buffer, period and number  *)
(* of edges; and the alarm and the rotating file, for every clock, choice  *)
(* of periods, limit, number of backups and of failures, as they run in    *)
(* MCDevices.                                                              *)
(***************************************************************************)
EXTENDS MCDevices, SequenceTheorems, FiniteSetTheorems, TLAPS

(***************************************************************************)
(* The ring.                                                               *)
(***************************************************************************)

\* The index of the ring wraps once.
LEMMA WrapOnce ==
  ASSUME NEW a \in 0..(2 * N - 1)
  PROVE  a % N = IF a < N THEN a ELSE a - N
<1>1. /\ a = N * (a \div N) + (a % N) /\ a \div N \in Int /\ a % N \in 0..(N - 1)
  BY SlotsAssumption
<1> DEFINE q == a \div N
           r == a % N
<1>2. q \in Int /\ r \in 0..(N - 1) /\ a = N * q + r
  BY <1>1
<1> HIDE DEF q, r
<1>3. q >= 0
  <2>1. SUFFICES ASSUME q <= -1 PROVE FALSE
    BY <1>2
  <2>2. N * q <= -N
    BY <2>1, <1>2, SlotsAssumption
  <2> QED BY <2>2, <1>2, SlotsAssumption
<1>4. q <= 1
  <2>1. SUFFICES ASSUME q >= 2 PROVE FALSE
    BY <1>2
  <2>2. N * q >= N * 2
    BY <2>1, <1>2, SlotsAssumption
  <2> QED BY <2>2, <1>2, SlotsAssumption
<1>5. q = 0 \/ q = 1
  BY <1>2, <1>3, <1>4
<1>6. N * 0 = 0 /\ N * 1 = N
  BY SlotsAssumption
<1>7. r = IF a < N THEN a ELSE a - N
  BY <1>2, <1>5, <1>6, SlotsAssumption
<1> QED BY <1>7 DEF r

Wrap(a) == IF a < N THEN a ELSE a - N

\* The two indices and the stations of the two sides.
Stations ==
  /\ head \in Slots /\ tail \in Slots /\ DOMAIN storage = Slots
  /\ pushing \in {"idle", "construct", "publish"}
  /\ popping \in {"idle", "take", "release", "return"}
  /\ pushing # "idle" => NextSlot(tail) # head
  /\ popping \in {"take", "release"} => head # tail
  /\ pushing = "publish" => storage[tail] = arg

\* What the two sides hold, and what is queued between them, comes from E.
Holds(E) ==
  /\ pushing # "idle" => arg \in E
  /\ IF popping \in {"release", "return"} THEN value \in E ELSE value = NoItem
  /\ Queued \in Seq(E)

LEMMA NextIsWrap == \A i \in Slots : NextSlot(i) = Wrap(i + 1) /\ NextSlot(i) \in Slots
<1> TAKE i \in Slots
<1>1. i + 1 \in 0..(2 * N - 1)
  BY SlotsAssumption DEF Slots
<1> QED BY <1>1, WrapOnce, SlotsAssumption DEF NextSlot, Wrap, Slots

\* The queue between a first index f and the tail t, in the slots s.
Count(f, t) == IF t >= f THEN t - f ELSE t + N - f
QueueOf(f, t, s) == [k \in 1..Count(f, t) |-> s[Wrap(f + k - 1)]]

LEMMA CountInRing ==
  ASSUME NEW f \in Slots, NEW t \in Slots
  PROVE  /\ Count(f, t) \in 0..(N - 1)
         /\ \A k \in 1..Count(f, t) : Wrap(f + k - 1) \in Slots /\ Wrap(f + k - 1) # t
         /\ Wrap(f + Count(f, t)) = t
BY SlotsAssumption DEF Slots, Count, Wrap

LEMMA ModularQueue ==
  ASSUME NEW f \in Slots, NEW t \in Slots, NEW s
  PROVE  [k \in 1..((t + N - f) % N) |-> s[(f + k - 1) % N]] = QueueOf(f, t, s)
<1>1. t + N - f \in 0..(2 * N - 1)
  BY SlotsAssumption DEF Slots
<1>2. (t + N - f) % N = Count(f, t)
  BY <1>1, WrapOnce, SlotsAssumption DEF Slots, Count
<1>3. ASSUME NEW k \in 1..Count(f, t)
      PROVE  (f + k - 1) % N = Wrap(f + k - 1)
  <2>1. f + k - 1 \in 0..(2 * N - 1)
    BY CountInRing, SlotsAssumption DEF Slots
  <2> QED BY <2>1, WrapOnce DEF Wrap
<1> QED BY <1>2, <1>3 DEF QueueOf

\* An element more at the tail, and one less at the front.
LEMMA QueueGrows ==
  ASSUME NEW f \in Slots, NEW t \in Slots, NEW s, NEW E, QueueOf(f, t, s) \in Seq(E), s[t] \in E,
         Wrap(t + 1) # f
  PROVE  /\ QueueOf(f, Wrap(t + 1), s) = Append(QueueOf(f, t, s), s[t])
         /\ Len(QueueOf(f, t, s)) < N - 1
<1> DEFINE c == Count(f, t)
           q == QueueOf(f, t, s)
           r == QueueOf(f, Wrap(t + 1), s)
<1>1. c \in Nat /\ c < N - 1 /\ Count(f, Wrap(t + 1)) = c + 1 /\ Wrap(f + (c + 1) - 1) = t
  BY SlotsAssumption DEF Slots, Count, Wrap
<1> HIDE DEF c
<1>2. q = [k \in 1..c |-> s[Wrap(f + k - 1)]] /\ r = [k \in 1..(c + 1) |-> s[Wrap(f + k - 1)]]
  BY <1>1 DEF QueueOf, c
<1>3. Len(q) = c
  BY <1>1, <1>2
<1>4. /\ Append(q, s[t]) \in Seq(E) /\ Len(Append(q, s[t])) = c + 1
      /\ \A k \in 1..c : Append(q, s[t])[k] = q[k]
      /\ Append(q, s[t])[c + 1] = s[t]
  BY <1>3, AppendProperties
<1>5. \A k \in 1..(c + 1) : r[k] = Append(q, s[t])[k]
  BY <1>1, <1>2, <1>4
<1>6. Append(q, s[t]) = [k \in 1..(c + 1) |-> Append(q, s[t])[k]]
  BY <1>1, <1>4, LenProperties
<1>7. r = Append(q, s[t])
  BY <1>1, <1>2, <1>5, <1>6
<1> QED BY <1>1, <1>3, <1>7

LEMMA QueueShrinks ==
  ASSUME NEW f \in Slots, NEW t \in Slots, NEW s, NEW E, QueueOf(f, t, s) \in Seq(E), f # t
  PROVE  /\ QueueOf(f, t, s) # << >> /\ Head(QueueOf(f, t, s)) = s[f]
         /\ QueueOf(Wrap(f + 1), t, s) = Tail(QueueOf(f, t, s))
<1> DEFINE c == Count(f, t)
           g == Wrap(f + 1)
           q == QueueOf(f, t, s)
           r == QueueOf(g, t, s)
<1>1. /\ c \in Nat \ {0} /\ Count(g, t) = c - 1 /\ Wrap(f + 1 - 1) = f
      /\ \A k \in 1..(c - 1) : Wrap(g + k - 1) = Wrap(f + (k + 1) - 1)
  BY SlotsAssumption DEF Slots, Count, Wrap
<1> HIDE DEF c, g
<1>2. q = [k \in 1..c |-> s[Wrap(f + k - 1)]] /\ r = [k \in 1..(c - 1) |-> s[Wrap(g + k - 1)]]
  BY <1>1 DEF QueueOf, c
<1>3. Len(q) = c /\ q # << >> /\ q[1] = s[f]
  BY <1>1, <1>2
<1>4. /\ Tail(q) \in Seq(E) /\ Len(Tail(q)) = c - 1
      /\ \A k \in 1..(c - 1) : Tail(q)[k] = q[k + 1]
  BY <1>1, <1>3, HeadTailProperties
<1>5. \A k \in 1..(c - 1) : r[k] = Tail(q)[k]
  BY <1>1, <1>2, <1>4
<1>6. Tail(q) = [k \in 1..(c - 1) |-> Tail(q)[k]]
  BY <1>1, <1>4, LenProperties
<1>7. r = Tail(q)
  BY <1>1, <1>2, <1>5, <1>6
<1> QED BY <1>3, <1>7 DEF g

\* What is written outside the queue does not change it.
LEMMA QueueUntouched ==
  ASSUME NEW f \in Slots, NEW t \in Slots, NEW s, NEW u,
         \A i \in Slots : (\E k \in 1..Count(f, t) : Wrap(f + k - 1) = i) => s[i] = u[i]
  PROVE  QueueOf(f, t, u) = QueueOf(f, t, s)
BY CountInRing DEF QueueOf

LEMMA QueuedNow ==
  /\ Stations => First \in Slots /\ Queued = QueueOf(First, tail, storage)
  /\ Stations' => First' \in Slots /\ Queued' = QueueOf(First', tail', storage')
<1>1. Stations => First \in Slots /\ tail \in Slots
  BY NextIsWrap DEF First, Stations
<1>2. Stations' => First' \in Slots /\ tail' \in Slots
  BY NextIsWrap DEF First, Stations, NextSlot
<1> QED BY <1>1, <1>2, ModularQueue DEF Queued

\* emplace's releasing store appends the element it constructed.
LEMMA PublishAppends ==
  ASSUME Stations, NEW E, Holds(E), PushPublish
  PROVE  /\ Queued' = Append(Queued, arg) /\ Len(Queued) < N - 1 /\ arg \in E
         /\ Stations' /\ Holds(E)'
<1>1. /\ tail' = Wrap(tail + 1) /\ tail' \in Slots /\ tail' # head /\ storage[tail] = arg /\ arg \in E
      /\ pushing' = "idle" /\ UNCHANGED <<head, storage, popping, value>>
      /\ head \in Slots /\ tail \in Slots
  BY NextIsWrap DEF PushPublish, Stations, Holds, consumerVars
<1>2. Stations'
  BY <1>1 DEF Stations
<1>3. First' = First /\ First \in Slots
  BY <1>1, QueuedNow DEF First
<1>4. Wrap(tail + 1) # First
  BY <1>1, NextIsWrap, SlotsAssumption DEF First, Stations, Wrap, Slots
<1>5. Queued' = Append(Queued, arg) /\ Len(Queued) < N - 1
  BY <1>1, <1>2, <1>3, <1>4, QueuedNow, QueueGrows DEF Holds
<1>6. Holds(E)'
  BY <1>1, <1>5, AppendProperties DEF Holds
<1> QED BY <1>1, <1>2, <1>5, <1>6

\* The move-out of try_pop takes the oldest element.
LEMMA TakeRemoves ==
  ASSUME Stations, NEW E, Holds(E), PopTake
  PROVE  /\ Queued # << >> /\ value' = Head(Queued) /\ Queued' = Tail(Queued)
         /\ Stations' /\ Holds(E)'
<1>1. /\ popping = "take" /\ popping' = "release" /\ value' = storage[head]
      /\ storage' = [storage EXCEPT ![head] = NoItem]
      /\ UNCHANGED <<head, tail, pushing, arg>>
      /\ head \in Slots /\ tail \in Slots /\ head # tail /\ First = head /\ First' = Wrap(head + 1)
  BY NextIsWrap DEF PopTake, Stations, First, producerVars
<1>2. Stations'
  BY <1>1 DEF Stations
<1>3. /\ Queued # << >> /\ Head(Queued) = storage[head]
      /\ Tail(Queued) = QueueOf(Wrap(head + 1), tail, storage)
  BY <1>1, QueuedNow, QueueShrinks DEF Holds
<1>4. PICK g \in Slots : g = Wrap(head + 1)
  BY <1>1, SlotsAssumption DEF Wrap, Slots
<1>5. \A k \in 1..Count(g, tail) : Wrap(g + k - 1) # head
  BY <1>1, <1>4, SlotsAssumption DEF Wrap, Slots, Count
<1>6. QueueOf(g, tail, storage') = QueueOf(g, tail, storage)
  <2>1. \A i \in Slots : (\E k \in 1..Count(g, tail) : Wrap(g + k - 1) = i) => storage[i] = storage'[i]
    BY <1>1, <1>5 DEF Stations
  <2>2. tail \in Slots
    BY <1>1
  <2> QED BY <2>1, <2>2, QueueUntouched
<1>7. Queued' = Tail(Queued)
  BY <1>1, <1>2, <1>3, <1>4, <1>6, QueuedNow
<1>8. Holds(E)'
  BY <1>1, <1>3, <1>7, HeadTailProperties DEF Holds
<1> QED BY <1>1, <1>2, <1>3, <1>7, <1>8

\* The other steps of the ring leave the queue as it is.
LEMMA ConstructKeeps ==
  ASSUME Stations, NEW E, Holds(E), PushConstruct
  PROVE  Queued' = Queued /\ Stations' /\ Holds(E)'
<1>1. /\ pushing = "construct" /\ pushing' = "publish" /\ storage' = [storage EXCEPT ![tail] = arg]
      /\ UNCHANGED <<head, tail, arg, popping, value>> /\ First' = First
  BY DEF PushConstruct, consumerVars, First
<1>2. Stations'
  BY <1>1 DEF Stations
<1>3. First \in Slots /\ tail \in Slots
  BY QueuedNow DEF Stations
<1>4. \A k \in 1..Count(First, tail) : Wrap(First + k - 1) # tail
  BY <1>3, CountInRing
<1>5. QueueOf(First, tail, storage') = QueueOf(First, tail, storage)
  <2>1. \A i \in Slots : (\E k \in 1..Count(First, tail) : Wrap(First + k - 1) = i)
                         => storage[i] = storage'[i]
    BY <1>1, <1>4 DEF Stations
  <2> QED BY <1>3, <2>1, QueueUntouched
<1>6. Queued' = Queued
  BY <1>1, <1>2, <1>5, QueuedNow
<1> QED BY <1>1, <1>2, <1>6 DEF Holds

LEMMA OtherRingStepsKeep ==
  ASSUME Stations, NEW E, Holds(E),
         \/ \E item \in E : PushAccepted(item)
         \/ PopFound \/ PopRelease \/ PopReturn \/ UNCHANGED queueVars
  PROVE  Queued' = Queued /\ Stations' /\ Holds(E)'
<1>1. CASE \E item \in E : PushAccepted(item)
  BY <1>1 DEF PushAccepted, consumerVars, Stations, Holds, Queued, First
<1>2. CASE PopFound \/ PopReturn \/ UNCHANGED queueVars
  BY <1>2 DEF PopFound, PopReturn, queueVars, producerVars, Stations, Holds, Queued, First
<1>3. CASE PopRelease
  <2>1. /\ popping = "release" /\ popping' = "return" /\ head' = NextSlot(head) /\ head' \in Slots
        /\ UNCHANGED <<tail, storage, pushing, arg, value>> /\ First' = First
    BY <1>3, NextIsWrap DEF PopRelease, producerVars, First, Stations
  <2>2. Queued' = Queued
    BY <2>1 DEF Queued
  <2>3. pushing # "idle" => NextSlot(tail) # head'
    BY <2>1, NextIsWrap, SlotsAssumption DEF Stations, Wrap, Slots
  <2>4. Stations'
    BY <2>1, <2>3 DEF Stations
  <2> QED BY <2>1, <2>2, <2>4 DEF Holds
<1> QED BY <1>1, <1>2, <1>3

-----------------------------------------------------------------------------
(***************************************************************************)
(* The inductive invariant of the pipeline.                                *)
(***************************************************************************)
Event == [sequence : Nat \ {0}, time : Nat, physical : BOOLEAN]
Report == [delivered : Nat, rejected : Nat]

\* The events on their way, oldest first: what try_pop is returning, what is queued,
\* what the drain carries, what the kernel keeps.
Returning == IF popping \in {"release", "return"} THEN <<value>> ELSE << >>
Carried == IF drain = "push" THEN <<got>> ELSE IF drain = "pushing" THEN <<arg>> ELSE << >>
Ahead == Returning \o Queued \o Carried
OnTheWay == Ahead \o kernel

\* Sequence numbers increase along s, from above lo to at most hi.
Numbered(s, lo, hi) ==
  /\ \A i, j \in DOMAIN s : i < j => s[i].sequence < s[j].sequence
  /\ \A i \in DOMAIN s : lo < s[i].sequence /\ s[i].sequence <= hi

\* The drain is inside the ring's emplace exactly when it is pushing, and all it and
\* the kernel hold comes from E.
DrainHolds(E) ==
  /\ drain \in {"idle", "wait", "push", "pushing"}
  /\ drain = "pushing" <=> pushing # "idle"
  /\ drain = "push" => got \in E
  /\ drain = "idle" => report = NoReport
  /\ kernel \in Seq(E)

Counters ==
  /\ edges \in [sequence : Nat, time : Nat, physical : BOOLEAN]
  /\ overrun \in Nat /\ sinkDropped \in Nat
  /\ report \in Report /\ reported \in Report /\ unreported \in Report

\* The tracker stands at the last event it was fed, below all that is on the way.
Tracking ==
  /\ tracker \in [last : Nat, dropped : Nat]
  /\ fed \in Seq(Event)
  /\ tracker.last <= edges.sequence
  /\ fed = << >> => tracker = NewTracker
  /\ fed # << >> => tracker.last >= 1
  /\ GapsExact

\* The candidate level has been fed without a break since the time noted for it.
Debouncing ==
  /\ debounce \in [hasStable : BOOLEAN, stable : BOOLEAN, hasCandidate : BOOLEAN,
                   candidate : BOOLEAN, since : Nat]
  /\ settled \in Seq(Event)
  /\ debounce.hasStable <=> settled # << >>
  /\ settled # << >> => debounce.stable = settled[Len(settled)].physical
  /\ debounce.hasCandidate =>
       /\ Period # 0
       /\ \E i \in 1..Len(fed) :
            /\ fed[i].time = debounce.since
            /\ \A m \in i..Len(fed) : fed[m].physical = debounce.candidate

Inv(E) ==
  /\ Stations /\ Holds(E) /\ DrainHolds(E)
  /\ Counters /\ Accounted
  /\ Numbered(OnTheWay, tracker.last, edges.sequence)
  /\ Tracking
  /\ Debouncing /\ SettledHeld

-----------------------------------------------------------------------------
(***************************************************************************)
(* Increasing sequence numbers.                                            *)
(***************************************************************************)

\* The next number fits behind.
LEMMA NumberedAppend ==
  ASSUME NEW S, NEW s \in Seq(S), NEW e \in S, NEW lo \in Nat, NEW hi \in Nat, lo <= hi,
         \A x \in S : x.sequence \in Nat, Numbered(s, lo, hi), e.sequence = hi + 1
  PROVE  Numbered(Append(s, e), lo, hi + 1)
<1>1. /\ Len(Append(s, e)) = Len(s) + 1 /\ \A i \in 1..Len(s) : Append(s, e)[i] = s[i]
      /\ Append(s, e)[Len(s) + 1] = e /\ DOMAIN Append(s, e) = 1..(Len(s) + 1)
      /\ DOMAIN s = 1..Len(s) /\ Len(s) \in Nat
  BY AppendProperties, LenProperties
<1>2. \A i \in 1..Len(s) : s[i].sequence \in Nat
  BY <1>1, ElementOfSeq
<1> PICK a : a = Append(s, e)
  OBVIOUS
<1> PICK n \in Nat : n = Len(s)
  BY <1>1
<1>3. \A i \in 1..n : a[i].sequence = s[i].sequence /\ lo < s[i].sequence /\ s[i].sequence <= hi
  BY <1>1 DEF Numbered
<1>4. a[n + 1].sequence = hi + 1
  BY <1>1
<1>5. \A i \in 1..n + 1 : i \in 1..n \/ i = n + 1
  OBVIOUS
<1>6. ASSUME NEW i \in 1..n + 1, NEW j \in 1..n + 1, i < j
      PROVE  a[i].sequence < a[j].sequence
  <2>1. i \in 1..n
    BY <1>6
  <2>2. CASE j = n + 1
    BY <1>2, <1>3, <1>4, <2>1, <2>2
  <2>3. CASE j \in 1..n
    <3>1. s[i].sequence < s[j].sequence
      BY <1>1, <1>6, <2>1, <2>3 DEF Numbered
    <3> QED BY <1>3, <2>1, <2>3, <3>1
  <2> QED BY <1>5, <2>2, <2>3
<1>7. \A i \in 1..n + 1 : lo < a[i].sequence /\ a[i].sequence <= hi + 1
  <2> TAKE i \in 1..n + 1
  <2>1. CASE i \in 1..n
    BY <1>2, <1>3, <2>1
  <2>2. CASE i = n + 1
    BY <1>4, <2>2
  <2> QED BY <1>5, <2>1, <2>2
<1>8. DOMAIN a = 1..n + 1
  BY <1>1
<1> QED BY <1>6, <1>7, <1>8 DEF Numbered

\* Dropping an event keeps the order.
LEMMA NumberedRemove ==
  ASSUME NEW S, NEW a \in Seq(S), NEW q \in Seq(S), q # << >>, NEW lo, NEW hi,
         Numbered(a \o q, lo, hi)
  PROVE  Numbered(a \o Tail(q), lo, hi)
<1> DEFINE O == a \o q
           T == a \o Tail(q)
           k == Len(a)
           Shift(i) == IF i <= k THEN i ELSE i + 1
<1>1. k \in Nat /\ Len(q) \in Nat \ {0} /\ Tail(q) \in Seq(S) /\ Len(Tail(q)) = Len(q) - 1
  BY HeadTailProperties, LenProperties, EmptySeq
<1>2. /\ Len(O) = k + Len(q) /\ DOMAIN O = 1..Len(O)
      /\ \A i \in 1..Len(O) : O[i] = IF i <= k THEN a[i] ELSE q[i - k]
  BY <1>1, ConcatProperties, LenProperties
<1>3. /\ Len(T) = k + Len(q) - 1 /\ DOMAIN T = 1..Len(T)
      /\ \A i \in 1..Len(T) : T[i] = IF i <= k THEN a[i] ELSE Tail(q)[i - k]
  BY <1>1, ConcatProperties, LenProperties
<1>4. \A i \in 1..Len(T) : T[i] = O[Shift(i)] /\ Shift(i) \in 1..Len(O)
  BY <1>1, <1>2, <1>3, HeadTailProperties
<1>5. \A i, j \in 1..Len(T) : i < j => Shift(i) < Shift(j)
  BY <1>1
<1> HIDE DEF O, T, k, Shift
<1>6. Numbered(O, lo, hi)
  BY DEF O
<1>7. Numbered(T, lo, hi)
  BY <1>2, <1>3, <1>4, <1>5, <1>6 DEF Numbered
<1> QED BY <1>7 DEF T

\* Behind the first event all numbers are above its own.
LEMMA NumberedTail ==
  ASSUME NEW S, NEW x \in S, NEW r \in Seq(S), NEW lo, NEW hi, Numbered(<<x>> \o r, lo, hi)
  PROVE  /\ Numbered(r, x.sequence, hi)
         /\ lo < x.sequence /\ x.sequence <= hi
<1> DEFINE O == <<x>> \o r
<1>1. /\ Len(O) = Len(r) + 1 /\ DOMAIN O = 1..(Len(r) + 1) /\ O[1] = x
      /\ \A i \in 1..Len(r) : O[i + 1] = r[i]
      /\ DOMAIN r = 1..Len(r) /\ Len(r) \in Nat
  BY ConcatProperties, LenProperties
<1>2. Numbered(O, lo, hi)
  OBVIOUS
<1> HIDE DEF O
<1>3. lo < x.sequence /\ x.sequence <= hi
  BY <1>1, <1>2 DEF Numbered
<1>4. \A i \in 1..Len(r) : x.sequence < r[i].sequence /\ r[i].sequence <= hi
  <2> TAKE i \in 1..Len(r)
  <2>1. 1 \in DOMAIN O /\ i + 1 \in DOMAIN O /\ 1 < i + 1
    BY <1>1
  <2> QED BY <1>1, <1>2, <2>1 DEF Numbered
<1>5. \A i, j \in 1..Len(r) : i < j => r[i].sequence < r[j].sequence
  <2> TAKE i, j \in 1..Len(r)
  <2>1. i + 1 \in DOMAIN O /\ j + 1 \in DOMAIN O /\ (i < j => i + 1 < j + 1)
    BY <1>1
  <2> QED BY <1>1, <1>2, <2>1 DEF Numbered
<1> QED BY <1>1, <1>3, <1>4, <1>5 DEF Numbered

-----------------------------------------------------------------------------
(***************************************************************************)
(* Frames.                                                                 *)
(***************************************************************************)
LEMMA WayTypes ==
  ASSUME NEW E, Inv(E)
  PROVE  /\ Returning \in Seq(E) /\ Queued \in Seq(E) /\ Carried \in Seq(E) /\ kernel \in Seq(E)
         /\ Ahead \in Seq(E) /\ OnTheWay \in Seq(E)
<1>1. Returning \in Seq(E) /\ Queued \in Seq(E) /\ kernel \in Seq(E)
  BY DEF Inv, Holds, DrainHolds, Returning
<1>2. Carried \in Seq(E)
  BY DEF Inv, Holds, DrainHolds, Carried
<1>3. Returning \o Queued \in Seq(E)
  BY <1>1, ConcatProperties
<1>4. Ahead \in Seq(E)
  BY <1>2, <1>3, ConcatProperties DEF Ahead
<1> QED BY <1>1, <1>2, <1>4, ConcatProperties DEF OnTheWay

\* A step that feeds nothing to the consumer's objects.
LEMMA SeenStay ==
  ASSUME NEW E, Inv(E), UNCHANGED seenVars, edges.sequence <= edges'.sequence, edges'.sequence \in Nat
  PROVE  Tracking' /\ Debouncing' /\ SettledHeld'
<1>1. Tracking /\ Debouncing /\ SettledHeld /\ edges.sequence \in Nat /\ tracker.last \in Nat
  BY DEF Inv, Counters, Tracking
<1> USE DEF seenVars
<1>2. Tracking'
  BY <1>1 DEF Tracking, GapsExact
<1>3. Debouncing' /\ SettledHeld'
  BY <1>1 DEF Debouncing, SettledHeld
<1> QED BY <1>2, <1>3

\* Sums of reports.
LEMMA PlusTypes ==
  /\ NoReport \in Report
  /\ \A r, s \in Report : Plus(r, s) \in Report
  /\ Moved = [delivered |-> reported.delivered + unreported.delivered + report.delivered,
              rejected |-> reported.rejected + unreported.rejected + report.rejected]
BY DEF NoReport, Report, Plus, Moved

-----------------------------------------------------------------------------
(***************************************************************************)
(* The steps.                                                              *)
(***************************************************************************)

\* A new edge goes to the end of the way; a full kernel buffer loses its oldest.
LEMMA EdgeStep ==
  ASSUME NEW E \in SUBSET Event, Inv(E), Edge, edges' \in E
  PROVE  Inv(E)'
<1> DEFINE hi == edges.sequence
<1>0. /\ Stations /\ Holds(E) /\ DrainHolds(E) /\ Counters /\ Accounted /\ Tracking
      /\ hi \in Nat /\ tracker.last \in Nat /\ tracker.last <= hi /\ kernel \in Seq(E) /\ Len(kernel) \in Nat
  BY LenProperties DEF Inv, Counters, Tracking, DrainHolds
<1>1. edges'.sequence = hi + 1
  BY <1>0 DEF Edge
<1>2. UNCHANGED queueVars /\ UNCHANGED drainVars /\ UNCHANGED seenVars
  BY DEF Edge
<1>3. Queued' = Queued /\ Stations' /\ Holds(E)'
  BY <1>0, <1>2, OtherRingStepsKeep
<1>4. Ahead' = Ahead
  BY <1>2, <1>3 DEF Ahead, Returning, Carried, queueVars, drainVars
<1>5. \A x \in E : x.sequence \in Nat
  BY DEF Event
<1>6. Ahead \in Seq(E) /\ OnTheWay \in Seq(E)
  BY WayTypes
<1>7. /\ kernel' \in Seq(E) /\ Numbered(OnTheWay', tracker.last, hi + 1)
      /\ Len(kernel') + overrun' = Len(kernel) + overrun + 1 /\ overrun' \in Nat
  <2>1. CASE Len(kernel) < KernelCapacity
    <3>1. kernel' = Append(kernel, edges') /\ overrun' = overrun
      BY <2>1 DEF Edge
    <3>2. OnTheWay' = Append(OnTheWay, edges')
      BY <1>0, <1>4, <1>6, <3>1 DEF OnTheWay
    <3>3. Numbered(OnTheWay, tracker.last, hi)
      BY DEF Inv
    <3>4. Numbered(OnTheWay', tracker.last, hi + 1)
      BY <1>0, <1>1, <1>5, <1>6, <3>2, <3>3, NumberedAppend
    <3>5. kernel' \in Seq(E) /\ Len(kernel') = Len(kernel) + 1 /\ overrun \in Nat
      BY <1>0, <3>1, AppendProperties DEF Counters
    <3> QED BY <1>0, <3>1, <3>4, <3>5
  <2>2. CASE ~(Len(kernel) < KernelCapacity)
    <3>1. kernel' = Append(Tail(kernel), edges') /\ overrun' = overrun + 1
      BY <2>2 DEF Edge
    <3>2. kernel # << >> /\ Tail(kernel) \in Seq(E) /\ Len(Tail(kernel)) = Len(kernel) - 1
      BY <1>0, <2>2, KernelAssumption, EmptySeq, HeadTailProperties
    <3>3. Ahead \o Tail(kernel) \in Seq(E)
      BY <1>6, <3>2, ConcatProperties
    <3>4. OnTheWay' = Append(Ahead \o Tail(kernel), edges')
      BY <1>4, <1>6, <3>1, <3>2 DEF OnTheWay
    <3>5. Numbered(Ahead \o Tail(kernel), tracker.last, hi)
      BY <1>0, <1>6, <3>2, NumberedRemove DEF Inv, OnTheWay
    <3>6. Numbered(OnTheWay', tracker.last, hi + 1)
      BY <1>0, <1>1, <1>5, <3>3, <3>4, <3>5, NumberedAppend
    <3>7. kernel' \in Seq(E) /\ Len(kernel') = Len(Tail(kernel)) + 1
      BY <1>0, <3>1, <3>2, AppendProperties
    <3>8. overrun \in Nat /\ Len(kernel) \in Nat
      BY <1>0, LenProperties DEF Counters
    <3>9. Len(kernel') + overrun' = Len(kernel) + overrun + 1 /\ overrun' \in Nat
      BY <3>1, <3>2, <3>7, <3>8
    <3> QED BY <3>6, <3>7, <3>9
  <2> QED BY <2>1, <2>2
<1>8. DrainHolds(E)'
  BY <1>0, <1>2, <1>7 DEF DrainHolds, drainVars, queueVars
<1>9. Counters'
  BY <1>0, <1>2, <1>7 DEF Counters, drainVars, Event
<1>10. Accounted'
  <2>1. InFlight' = InFlight /\ Moved' = Moved /\ sinkDropped' = sinkDropped
    BY <1>2 DEF InFlight, Moved, drainVars
  <2>2. Moved.delivered \in Nat /\ Moved.rejected \in Nat /\ InFlight \in Nat /\ overrun \in Nat
    BY <1>0, PlusTypes DEF Counters, Report, InFlight
  <2> PICK l, k, i, d, r \in Nat : /\ l = Len(kernel) /\ k = overrun /\ i = InFlight
                                   /\ d = Moved.delivered /\ r = Moved.rejected
    BY <1>0, <2>2, LenProperties
  <2>3. Len(kernel') \in Nat /\ overrun' \in Nat /\ Len(kernel') + overrun' = l + k + 1
    BY <1>7, LenProperties
  <2> PICK a, b \in Nat : a = Len(kernel') /\ b = overrun'
    BY <2>3
  <2>4. hi = l + k + i + d + r /\ sinkDropped = r
    BY <1>0 DEF Accounted
  <2>5. edges'.sequence = a + b + i + d + r
    <3>1. a + b = l + k + 1
      BY <2>3
    <3>2. l + k + i + d + r + 1 = (l + k + 1) + i + d + r
      OBVIOUS
    <3>3. edges'.sequence = l + k + i + d + r + 1
      BY <1>1, <2>4
    <3> QED BY <3>1, <3>2, <3>3
  <2>6. InFlight' = i /\ Moved'.delivered = d /\ Moved'.rejected = r /\ sinkDropped' = r
    BY <2>1, <2>4
  <2> QED BY <2>5, <2>6 DEF Accounted
<1>11. Tracking' /\ Debouncing' /\ SettledHeld'
  BY <1>0, <1>1, <1>2, SeenStay
<1>12. Numbered(OnTheWay, tracker.last, edges.sequence)'
  BY <1>1, <1>2, <1>7 DEF seenVars
<1> QED BY <1>3, <1>8, <1>9, <1>10, <1>11, <1>12 DEF Inv

\* drain_events ends or fails: its report moves to one of the two sums.
LEMMA DrainRestStep ==
  ASSUME NEW E \in SUBSET Event, Inv(E), DrainBegin \/ WaitMiss \/ WaitError
  PROVE  Inv(E)'
<1>0. /\ Stations /\ Holds(E) /\ DrainHolds(E) /\ Counters /\ Accounted
      /\ Numbered(OnTheWay, tracker.last, edges.sequence) /\ edges.sequence \in Nat
  BY DEF Inv, Counters
<1>1. /\ UNCHANGED <<head, tail, storage, pushing, arg, popping, value>>
      /\ UNCHANGED <<edges, kernel, overrun, got, sinkDropped>> /\ UNCHANGED seenVars
      /\ drain \in {"idle", "wait"} /\ drain' \in {"idle", "wait"} /\ report' = NoReport
  BY DEF DrainBegin, WaitMiss, WaitError, queueVars, kernelVars
<1>2. Queued' = Queued /\ Stations' /\ Holds(E)'
  BY <1>0, <1>1, OtherRingStepsKeep DEF queueVars
<1>3. OnTheWay' = OnTheWay
  BY <1>1, <1>2 DEF OnTheWay, Ahead, Returning, Carried
<1>4. DrainHolds(E)'
  BY <1>0, <1>1 DEF DrainHolds
<1>5. /\ reported' \in Report /\ unreported' \in Report
      /\ reported'.delivered + unreported'.delivered =
           reported.delivered + unreported.delivered + report.delivered
      /\ reported'.rejected + unreported'.rejected =
           reported.rejected + unreported.rejected + report.rejected
  <2>1. CASE DrainBegin
    BY <1>0, <2>1 DEF DrainBegin, DrainHolds, NoReport, Counters, Report
  <2>2. CASE WaitMiss
    BY <1>0, <2>2 DEF WaitMiss, Plus, Counters, Report
  <2>3. CASE WaitError
    BY <1>0, <2>3 DEF WaitError, Plus, Counters, Report
  <2> QED BY <2>1, <2>2, <2>3
<1>6. Counters'
  BY <1>0, <1>1, <1>5, PlusTypes DEF Counters
<1>7. Accounted'
  <2>1. Moved' = Moved
    BY <1>0, <1>1, <1>5 DEF Moved, Plus, NoReport, Counters, Report
  <2>2. InFlight' = InFlight
    BY <1>1 DEF InFlight
  <2> QED BY <1>0, <1>1, <2>1, <2>2 DEF Accounted
<1>8. Tracking' /\ Debouncing' /\ SettledHeld'
  BY <1>0, <1>1, SeenStay
<1>9. Numbered(OnTheWay, tracker.last, edges.sequence)'
  BY <1>0, <1>1, <1>3 DEF seenVars
<1> QED BY <1>2, <1>4, <1>6, <1>7, <1>8, <1>9 DEF Inv

\* The kernel's oldest event passes to the drain.
LEMMA WaitEventStep ==
  ASSUME NEW E \in SUBSET Event, Inv(E), WaitEvent
  PROVE  Inv(E)'
<1>0. /\ Stations /\ Holds(E) /\ DrainHolds(E) /\ Counters /\ Accounted
      /\ Numbered(OnTheWay, tracker.last, edges.sequence) /\ edges.sequence \in Nat
      /\ kernel \in Seq(E) /\ kernel # << >>
  BY DEF Inv, Counters, DrainHolds, WaitEvent
<1>1. /\ UNCHANGED <<head, tail, storage, pushing, arg, popping, value>>
      /\ UNCHANGED <<edges, overrun, report, reported, unreported, sinkDropped>> /\ UNCHANGED seenVars
      /\ drain = "wait" /\ drain' = "push" /\ got' = Head(kernel) /\ kernel' = Tail(kernel)
  BY DEF WaitEvent, queueVars
<1>2. Queued' = Queued /\ Stations' /\ Holds(E)'
  BY <1>0, <1>1, OtherRingStepsKeep DEF queueVars
<1>3. /\ Head(kernel) \in E /\ Tail(kernel) \in Seq(E) /\ Len(Tail(kernel)) = Len(kernel) - 1
      /\ kernel = <<Head(kernel)>> \o Tail(kernel)
  BY <1>0, HeadTailProperties
<1>4. OnTheWay' = OnTheWay
  <2>1. Returning' = Returning /\ Carried = << >> /\ Carried' = <<Head(kernel)>>
    BY <1>1 DEF Returning, Carried
  <2>2. Returning \in Seq(E) /\ Queued \in Seq(E)
    BY WayTypes
  <2>3. Ahead = Returning \o Queued /\ Ahead' = Ahead \o <<Head(kernel)>> /\ Ahead \in Seq(E)
    BY <1>2, <2>1, <2>2 DEF Ahead
  <2> QED BY <1>1, <1>3, <2>3 DEF OnTheWay
<1>5. DrainHolds(E)'
  BY <1>0, <1>1, <1>3 DEF DrainHolds
<1>6. Counters'
  BY <1>0, <1>1 DEF Counters
<1>7. Accounted'
  <2>1. Moved' = Moved /\ InFlight' = 1 /\ InFlight = 0
    BY <1>1 DEF InFlight, Moved
  <2>2. Moved.delivered \in Nat /\ Moved.rejected \in Nat /\ overrun \in Nat /\ Len(kernel) \in Nat
    BY <1>0, PlusTypes, LenProperties DEF Counters, Report
  <2> QED BY <1>0, <1>1, <1>3, <2>1, <2>2 DEF Accounted
<1>8. Tracking' /\ Debouncing' /\ SettledHeld'
  BY <1>0, <1>1, SeenStay
<1>9. Numbered(OnTheWay, tracker.last, edges.sequence)'
  BY <1>0, <1>1, <1>4 DEF seenVars
<1> QED BY <1>2, <1>5, <1>6, <1>7, <1>8, <1>9 DEF Inv

\* A full ring: the event the drain carries is counted and gone.
LEMMA SinkRejectsStep ==
  ASSUME NEW E \in SUBSET Event, Inv(E), SinkRejects
  PROVE  Inv(E)'
<1>0. /\ Stations /\ Holds(E) /\ DrainHolds(E) /\ Counters /\ Accounted
      /\ Numbered(OnTheWay, tracker.last, edges.sequence) /\ edges.sequence \in Nat
  BY DEF Inv, Counters
<1>1. /\ UNCHANGED <<head, tail, storage, pushing, arg, popping, value>>
      /\ UNCHANGED <<edges, kernel, overrun, reported, unreported>> /\ UNCHANGED seenVars
      /\ drain = "push" /\ drain' = "wait" /\ got' = NoItem /\ pushing = "idle"
      /\ sinkDropped' = sinkDropped + 1 /\ report' = [report EXCEPT !.rejected = @ + 1]
  BY DEF SinkRejects, PushRefused, Rejected, queueVars, kernelVars
<1>2. Queued' = Queued /\ Stations' /\ Holds(E)'
  BY <1>0, <1>1, OtherRingStepsKeep DEF queueVars
<1>3. Numbered(OnTheWay', tracker.last, edges.sequence)
  <2>1. Returning' = Returning /\ Carried = <<got>> /\ Carried' = << >> /\ got \in E
    BY <1>0, <1>1 DEF Returning, Carried, DrainHolds
  <2>2. PICK r : r = Returning \o Queued
    OBVIOUS
  <2>3. r \in Seq(E) /\ kernel \in Seq(E)
    BY <2>2, WayTypes, ConcatProperties
  <2>4. PICK q : q = <<got>> \o kernel
    OBVIOUS
  <2>5. q \in Seq(E) /\ q # << >> /\ Tail(q) = kernel
    BY <2>1, <2>3, <2>4
  <2>6. OnTheWay = r \o q
    BY <2>1, <2>2, <2>3, <2>4 DEF OnTheWay, Ahead
  <2>7. OnTheWay' = r \o kernel
    BY <1>1, <1>2, <2>1, <2>2, <2>3 DEF OnTheWay, Ahead
  <2> QED BY <1>0, <2>3, <2>5, <2>6, <2>7, NumberedRemove
<1>4. DrainHolds(E)'
  BY <1>0, <1>1 DEF DrainHolds
<1>5. Counters'
  BY <1>0, <1>1 DEF Counters, Report
<1>6. Accounted'
  <2>1. InFlight' = 0 /\ InFlight = 1
    BY <1>1 DEF InFlight
  <2>2. /\ Moved.delivered \in Nat /\ Moved.rejected \in Nat /\ overrun \in Nat /\ Len(kernel) \in Nat
    BY <1>0, PlusTypes, LenProperties DEF Counters, Report, DrainHolds
  <2>3. Moved'.delivered = Moved.delivered /\ Moved'.rejected = Moved.rejected + 1
    BY <1>0, <1>1 DEF Moved, Plus, Counters, Report
  <2>4. sinkDropped' = Moved'.rejected
    BY <1>0, <1>1, <2>3 DEF Accounted
  <2>5. edges'.sequence = Len(kernel') + overrun' + InFlight' + Moved'.delivered + Moved'.rejected
    <3>1. UNCHANGED <<edges, kernel, overrun>>
      BY <1>1
    <3>2. edges.sequence = Len(kernel) + overrun + InFlight + Moved.delivered + Moved.rejected
      BY <1>0 DEF Accounted
    <3> QED BY <2>1, <2>2, <2>3, <3>1, <3>2
  <2> QED BY <2>4, <2>5 DEF Accounted
<1>7. Tracking' /\ Debouncing' /\ SettledHeld'
  BY <1>0, <1>1, SeenStay
<1>8. Numbered(OnTheWay, tracker.last, edges.sequence)'
  BY <1>1, <1>3 DEF seenVars
<1> QED BY <1>2, <1>4, <1>5, <1>6, <1>7, <1>8 DEF Inv

\* The event passes from the drain's hands to emplace's argument, and is constructed.
LEMMA SinkHoldsStep ==
  ASSUME NEW E \in SUBSET Event, Inv(E), SinkAccepts \/ SinkConstructs
  PROVE  Inv(E)'
<1>0. /\ Stations /\ Holds(E) /\ DrainHolds(E) /\ Counters /\ Accounted
      /\ Numbered(OnTheWay, tracker.last, edges.sequence) /\ edges.sequence \in Nat
  BY DEF Inv, Counters
<1>1. /\ UNCHANGED <<popping, value>>
      /\ UNCHANGED <<edges, kernel, overrun, report, reported, unreported, sinkDropped>>
      /\ UNCHANGED seenVars /\ drain \in {"push", "pushing"} /\ drain' = "pushing" /\ pushing' # "idle"
  BY <1>0 DEF SinkAccepts, SinkConstructs, PushAccepted, PushConstruct, consumerVars, kernelVars,
              drainVars, DrainHolds
<1>2. Queued' = Queued /\ Stations' /\ Holds(E)' /\ Carried' = Carried
  <2>1. CASE SinkAccepts
    <3>1. drain = "push" /\ got \in E /\ PushAccepted(got)
      BY <1>0, <2>1 DEF SinkAccepts, DrainHolds
    <3>2. Queued' = Queued /\ Stations' /\ Holds(E)'
      BY <1>0, <3>1, OtherRingStepsKeep
    <3>3. Carried' = Carried
      BY <1>1, <3>1 DEF Carried, PushAccepted
    <3> QED BY <3>2, <3>3
  <2>2. CASE SinkConstructs
    <3>1. PushConstruct /\ UNCHANGED <<arg, drain, got>>
      BY <2>2 DEF SinkConstructs, PushConstruct, drainVars
    <3>2. Queued' = Queued /\ Stations' /\ Holds(E)'
      BY <1>0, <3>1, ConstructKeeps
    <3>3. Carried' = Carried
      BY <3>1 DEF Carried
    <3> QED BY <3>2, <3>3
  <2> QED BY <2>1, <2>2
<1>3. OnTheWay' = OnTheWay
  BY <1>1, <1>2 DEF OnTheWay, Ahead, Returning
<1>4. DrainHolds(E)'
  BY <1>0, <1>1 DEF DrainHolds
<1>5. Counters'
  BY <1>0, <1>1 DEF Counters
<1>6. Accounted'
  <2>1. Moved' = Moved /\ InFlight' = InFlight
    BY <1>1 DEF InFlight, Moved
  <2> QED BY <1>0, <1>1, <2>1 DEF Accounted
<1>7. Tracking' /\ Debouncing' /\ SettledHeld'
  BY <1>0, <1>1, SeenStay
<1>8. Numbered(OnTheWay, tracker.last, edges.sequence)'
  BY <1>0, <1>1, <1>3 DEF seenVars
<1> QED BY <1>2, <1>4, <1>5, <1>6, <1>7, <1>8 DEF Inv

\* The event is queued and counted as delivered.
LEMMA SinkAcceptedStep ==
  ASSUME NEW E \in SUBSET Event, Inv(E), SinkAccepted
  PROVE  Inv(E)'
<1>0. /\ Stations /\ Holds(E) /\ DrainHolds(E) /\ Counters /\ Accounted
      /\ Numbered(OnTheWay, tracker.last, edges.sequence) /\ edges.sequence \in Nat
  BY DEF Inv, Counters
<1>1. /\ PushPublish /\ pushing = "publish" /\ pushing' = "idle" /\ UNCHANGED <<popping, value>>
      /\ UNCHANGED <<edges, kernel, overrun, got, reported, unreported, sinkDropped>>
      /\ UNCHANGED seenVars /\ drain' = "wait" /\ report' = [report EXCEPT !.delivered = @ + 1]
  BY DEF SinkAccepted, PushPublish, consumerVars, kernelVars
<1>2. drain = "pushing" /\ kernel \in Seq(E)
  BY <1>0, <1>1 DEF DrainHolds
<1>3. Queued' = Append(Queued, arg) /\ arg \in E /\ Stations' /\ Holds(E)'
  BY <1>0, <1>1, PublishAppends
<1>4. OnTheWay' = OnTheWay
  <2>1. Returning' = Returning /\ Carried = <<arg>> /\ Carried' = << >>
    BY <1>1, <1>2 DEF Returning, Carried
  <2>2. Returning \in Seq(E) /\ Queued \in Seq(E)
    BY WayTypes
  <2>3. Ahead' = Ahead
    BY <1>3, <2>1, <2>2 DEF Ahead
  <2> QED BY <1>1, <2>3 DEF OnTheWay
<1>5. DrainHolds(E)'
  BY <1>0, <1>1 DEF DrainHolds
<1>6. Counters'
  BY <1>0, <1>1 DEF Counters, Report
<1>7. Accounted'
  <2>1. InFlight' = 0 /\ InFlight = 1
    BY <1>1, <1>2 DEF InFlight
  <2>2. /\ Moved.delivered \in Nat /\ Moved.rejected \in Nat /\ overrun \in Nat /\ Len(kernel) \in Nat
    BY <1>0, <1>2, PlusTypes, LenProperties DEF Counters, Report
  <2>3. Moved'.delivered = Moved.delivered + 1 /\ Moved'.rejected = Moved.rejected
    BY <1>0, <1>1 DEF Moved, Plus, Counters, Report
  <2> QED BY <1>0, <1>1, <2>1, <2>2, <2>3 DEF Accounted
<1>8. Tracking' /\ Debouncing' /\ SettledHeld'
  BY <1>0, <1>1, SeenStay
<1>9. Numbered(OnTheWay, tracker.last, edges.sequence)'
  BY <1>0, <1>1, <1>4 DEF seenVars
<1> QED BY <1>3, <1>5, <1>6, <1>7, <1>8, <1>9 DEF Inv

\* try_pop moves an event from the ring into its result.
LEMMA ConsumerPopsStep ==
  ASSUME NEW E \in SUBSET Event, Inv(E), ConsumerPops
  PROVE  Inv(E)'
<1>0. /\ Stations /\ Holds(E) /\ DrainHolds(E) /\ Counters /\ Accounted
      /\ Numbered(OnTheWay, tracker.last, edges.sequence) /\ edges.sequence \in Nat
  BY DEF Inv, Counters
<1>1. /\ PopEmpty \/ PopFound \/ PopTake \/ PopRelease
      /\ UNCHANGED kernelVars /\ UNCHANGED drainVars /\ UNCHANGED seenVars
  BY DEF ConsumerPops
<1>2. UNCHANGED <<pushing, arg>>
  BY <1>1 DEF PopEmpty, PopFound, PopTake, PopRelease, queueVars, producerVars
<1>3. Stations' /\ Holds(E)' /\ Returning' \o Queued' = Returning \o Queued
  <2>1. CASE PopEmpty \/ PopFound \/ PopRelease
    <3>1. Queued' = Queued /\ Stations' /\ Holds(E)'
      BY <1>0, <2>1, OtherRingStepsKeep DEF PopEmpty
    <3>2. Returning' = Returning
      BY <2>1 DEF Returning, PopEmpty, PopFound, PopRelease, queueVars
    <3> QED BY <3>1, <3>2
  <2>2. CASE PopTake
    <3>1. /\ Queued # << >> /\ value' = Head(Queued) /\ Queued' = Tail(Queued)
          /\ Stations' /\ Holds(E)' /\ Queued \in Seq(E)
      BY <1>0, <2>2, TakeRemoves DEF Holds
    <3>2. Returning = << >> /\ Returning' = <<Head(Queued)>>
      BY <2>2, <3>1 DEF Returning, PopTake
    <3>3. PICK q \in Seq(E) : q = Queued
      BY <3>1
    <3>4. q # << >> /\ << >> \o q = q /\ <<Head(q)>> \o Tail(q) = q
      BY <3>1, <3>3, HeadTailProperties
    <3> QED BY <3>1, <3>2, <3>3, <3>4
  <2> QED BY <1>1, <2>1, <2>2
<1>4. OnTheWay' = OnTheWay
  BY <1>1, <1>2, <1>3 DEF OnTheWay, Ahead, Carried, kernelVars, drainVars
<1>5. DrainHolds(E)'
  BY <1>0, <1>1, <1>2 DEF DrainHolds, drainVars, kernelVars
<1>6. Counters'
  BY <1>0, <1>1 DEF Counters, drainVars, kernelVars
<1>7. Accounted'
  BY <1>0, <1>1 DEF Accounted, Moved, InFlight, drainVars, kernelVars
<1>8. Tracking' /\ Debouncing' /\ SettledHeld'
  BY <1>0, <1>1, SeenStay DEF kernelVars
<1>9. Numbered(OnTheWay, tracker.last, edges.sequence)'
  BY <1>0, <1>1, <1>4 DEF seenVars, kernelVars
<1> QED BY <1>3, <1>5, <1>6, <1>7, <1>8, <1>9 DEF Inv

\* What feed makes of a number above the last.
LEMMA TrackedAbove ==
  ASSUME NEW t \in [last : Nat, dropped : Nat], NEW k \in Nat, k > t.last
  PROVE  Tracked(t, k) = [last |-> k,
                          dropped |-> IF t.last = 0 THEN t.dropped ELSE t.dropped + (k - t.last - 1)]
<1>1. CASE t.last = 0
  <2>1. Tracked(t, k) = [t EXCEPT !.last = k]
    BY <1>1, Zenon DEF Tracked
  <2> QED BY <1>1, <2>1
<1>2. CASE t.last # 0
  <2>1. ~(t.last = 0 \/ k <= t.last)
    BY <1>2
  <2> QED BY <1>2, <2>1 DEF Tracked, Gap
<1> QED BY <1>1, <1>2

\* The tracker counts the numbers between its last event and the next one.
LEMMA TrackerFeeds ==
  ASSUME Tracking, NEW e \in Event, tracker.last < e.sequence, e.sequence <= edges'.sequence,
         tracker' = Tracked(tracker, e.sequence), fed' = Append(fed, e)
  PROVE  Tracking' /\ tracker'.last = e.sequence
<1>1. /\ tracker \in [last : Nat, dropped : Nat]
      /\ tracker.last \in Nat /\ tracker.dropped \in Nat /\ e.sequence \in Nat \ {0}
      /\ fed \in Seq(Event) /\ Len(fed) \in Nat
      /\ fed = << >> => tracker.last = 0 /\ tracker.dropped = 0
      /\ fed # << >> => tracker.last >= 1
  BY LenProperties DEF Tracking, NewTracker, Event
<1>2. /\ fed' \in Seq(Event) /\ Len(fed') = Len(fed) + 1 /\ fed'[Len(fed) + 1] = e
      /\ \A i \in 1..Len(fed) : fed'[i] = fed[i]
  BY <1>1, AppendProperties
<1>3. CASE fed = << >>
  <2>1. tracker'.last = e.sequence /\ tracker'.dropped = 0 /\ tracker' \in [last : Nat, dropped : Nat]
    <3>1. PICK t : t = tracker
      OBVIOUS
    <3>2. /\ t \in [last : Nat, dropped : Nat] /\ t.last = 0 /\ t.dropped = 0
          /\ e.sequence \in Nat /\ e.sequence > t.last /\ tracker' = Tracked(t, e.sequence)
      BY <1>1, <1>3, <3>1
    <3>3. tracker' = [last |-> e.sequence, dropped |-> 0]
      BY <3>2, TrackedAbove
    <3> QED BY <1>1, <3>3
  <2>2. Len(fed') = 1 /\ fed'[1] = e /\ fed' # << >>
    BY <1>2, <1>3
  <2>3. GapsExact'
    BY <1>1, <2>1, <2>2 DEF GapsExact
  <2> QED BY <1>1, <1>2, <2>1, <2>2, <2>3 DEF Tracking
<1>4. CASE fed # << >>
  <2>1. /\ tracker'.last = e.sequence /\ tracker'.dropped = tracker.dropped + (e.sequence - tracker.last - 1)
        /\ tracker' \in [last : Nat, dropped : Nat]
    <3>1. PICK t : t = tracker
      OBVIOUS
    <3>2. /\ t \in [last : Nat, dropped : Nat] /\ t.last # 0
          /\ e.sequence \in Nat /\ e.sequence > t.last /\ tracker' = Tracked(t, e.sequence)
      BY <1>1, <1>4, <3>1
    <3>3. tracker' = [last |-> e.sequence, dropped |-> t.dropped + (e.sequence - t.last - 1)]
      BY <3>2, TrackedAbove
    <3> QED BY <1>1, <3>1, <3>3
  <2>2. Len(fed) >= 1 /\ fed'[1] = fed[1] /\ fed[1].sequence \in Nat /\ fed' # << >>
    <3>1. Len(fed) >= 1
      BY <1>1, <1>4, EmptySeq
    <3>2. fed[1] \in Event
      BY <1>1, <3>1, ElementOfSeq
    <3> QED BY <1>2, <3>1, <3>2 DEF Event
  <2>3. tracker.dropped = (tracker.last - fed[1].sequence + 1) - Len(fed)
    BY <1>4 DEF Tracking, GapsExact
  <2>4. tracker'.dropped = (tracker'.last - fed'[1].sequence + 1) - Len(fed')
    <3>1. PICK f \in Nat : f = fed[1].sequence
      BY <2>2
    <3>2. tracker.dropped = (tracker.last - f + 1) - Len(fed) /\ fed'[1].sequence = f
      BY <2>2, <2>3, <3>1
    <3>3. PICK c, g \in Nat : c = e.sequence /\ g = tracker.last
      BY <1>1
    <3>4. tracker'.dropped = ((g - f + 1) - Len(fed)) + (c - g - 1)
      BY <2>1, <3>2, <3>3
    <3>5. tracker'.dropped = (c - f + 1) - (Len(fed) + 1)
      BY <1>1, <3>4
    <3> QED BY <1>2, <2>1, <3>2, <3>3, <3>5
  <2>5. GapsExact'
    BY <1>2, <2>1, <2>4 DEF GapsExact
  <2> QED BY <1>1, <1>2, <2>1, <2>2, <2>5 DEF Tracking
<1> QED BY <1>3, <1>4

\* The debouncer promotes a level, or waits for one it keeps the beginning of.
LEMMA DebounceFeeds ==
  ASSUME Debouncing, SettledHeld, fed \in Seq(Event), NEW e \in Event,
         debounce' = Debounced(debounce, e), fed' = Append(fed, e),
         settled' = IF Promotes(debounce, e) THEN Append(settled, e) ELSE settled
  PROVE  Debouncing' /\ SettledHeld'
<1> DEFINE d == debounce
           n == Len(fed)
<1>0. /\ d \in [hasStable : BOOLEAN, stable : BOOLEAN, hasCandidate : BOOLEAN,
                candidate : BOOLEAN, since : Nat]
      /\ e.physical \in BOOLEAN /\ e.time \in Nat /\ n \in Nat /\ settled \in Seq(Event)
      /\ Len(settled) \in Nat
  BY LenProperties DEF Debouncing, Event
<1>1. /\ Len(fed') = n + 1 /\ fed'[n + 1] = e /\ \A i \in 1..n : fed'[i] = fed[i]
  BY <1>0, AppendProperties
<1>2. /\ settled' \in Seq(Event) /\ \A k \in 1..Len(settled) : settled'[k] = settled[k]
      /\ IF Promotes(d, e) THEN Len(settled') = Len(settled) + 1 /\ settled'[Len(settled) + 1] = e
                           ELSE settled' = settled
  BY <1>0, AppendProperties
<1>3. \A k \in 2..Len(settled) :
        /\ settled'[k].physical # settled'[k - 1].physical
        /\ \E i, j \in 1..Len(fed') :
             /\ fed'[j] = settled'[k]
             /\ fed'[j].time - fed'[i].time >= Period
             /\ \A m \in i..j : fed'[m].physical = fed'[j].physical
  <2> TAKE k \in 2..Len(settled)
  <2>1. /\ settled[k].physical # settled[k - 1].physical
        /\ settled'[k] = settled[k] /\ settled'[k - 1] = settled[k - 1]
    BY <1>0, <1>2 DEF SettledHeld
  <2>2. PICK i, j \in 1..n :
          /\ fed[j] = settled[k]
          /\ fed[j].time - fed[i].time >= Period
          /\ \A m \in i..j : fed[m].physical = fed[j].physical
    BY DEF SettledHeld
  <2>3. /\ i \in 1..Len(fed') /\ j \in 1..Len(fed') /\ fed'[i] = fed[i] /\ fed'[j] = fed[j]
        /\ \A m \in i..j : fed'[m] = fed[m]
    BY <1>0, <1>1
  <2>4. fed'[j] = settled'[k] /\ fed'[j].time - fed'[i].time >= Period
    BY <2>1, <2>2, <2>3
  <2>5. \A m \in i..j : fed'[m].physical = fed'[j].physical
    BY <2>2, <2>3
  <2> QED BY <2>1, <2>3, <2>4, <2>5
<1>4. d.hasCandidate =>
        /\ Period # 0
        /\ \E i \in 1..n : /\ fed[i].time = d.since
                           /\ \A m \in i..n : fed[m].physical = d.candidate
  BY DEF Debouncing
<1>5. CASE ~Promotes(d, e)
  <2>1. SettledHeld'
    BY <1>2, <1>3, <1>5 DEF SettledHeld
  <2>2. /\ d.hasStable /\ (e.physical # d.stable => Period # 0)
        /\ debounce' = Waits(d, e)
    BY <1>5 DEF Debounced, Promotes
  <2>3. debounce'.hasStable = d.hasStable /\ debounce'.stable = d.stable
    BY <1>0, <2>2 DEF Waits, Cancelled
  <2>4. debounce' \in [hasStable : BOOLEAN, stable : BOOLEAN, hasCandidate : BOOLEAN,
                       candidate : BOOLEAN, since : Nat]
    BY <1>0, <2>2 DEF Waits, Cancelled
  <2>5. debounce'.hasCandidate =>
          /\ Period # 0
          /\ \E i \in 1..(n + 1) :
               /\ fed'[i].time = debounce'.since
               /\ \A m \in i..(n + 1) : fed'[m].physical = debounce'.candidate
    <3>1. CASE e.physical = d.stable
      BY <1>0, <2>2, <3>1 DEF Waits, Cancelled
    <3>2. CASE e.physical # d.stable /\ d.hasCandidate /\ e.physical = d.candidate
      <4>1. debounce' = d
        BY <2>2, <3>2 DEF Waits
      <4>2. PICK i \in 1..n : /\ fed[i].time = d.since
                              /\ \A m \in i..n : fed[m].physical = d.candidate
        BY <1>4, <3>2
      <4>3. i \in 1..(n + 1) /\ fed'[i].time = d.since
        BY <1>0, <1>1, <4>2
      <4>4. \A m \in i..(n + 1) : fed'[m].physical = d.candidate
        <5> TAKE m \in i..(n + 1)
        <5>1. CASE m = n + 1
          BY <1>1, <3>2, <5>1
        <5>2. CASE m # n + 1
          <6>0. n \in Nat
            BY <1>0
          <6>1. m \in i..n /\ m \in 1..n
            BY <5>2, <6>0
          <6> QED BY <1>1, <4>2, <6>1
        <5> QED BY <5>1, <5>2
      <4> QED BY <1>4, <3>2, <4>1, <4>3, <4>4
    <3>3. CASE e.physical # d.stable /\ ~(d.hasCandidate /\ e.physical = d.candidate)
      <4>1. debounce'.candidate = e.physical /\ debounce'.since = e.time
        BY <1>0, <2>2, <3>3 DEF Waits
      <4>2. \A m \in (n + 1)..(n + 1) : m = n + 1
        BY <1>0
      <4>3. n + 1 \in 1..(n + 1)
        BY <1>0
      <4> QED BY <1>1, <2>2, <3>3, <4>1, <4>2, <4>3
    <3> QED BY <3>1, <3>2, <3>3
  <2>6. settled' = settled
    BY <1>2, <1>5
  <2> QED BY <1>0, <1>1, <2>1, <2>3, <2>4, <2>5, <2>6 DEF Debouncing
<1>6. CASE Promotes(d, e)
  <2>1. debounce' = Promoted(d, e) /\ Len(settled') = Len(settled) + 1 /\ settled'[Len(settled) + 1] = e
    BY <1>2, <1>6 DEF Debounced
  <2>2. debounce'.hasStable /\ debounce'.stable = e.physical /\ (debounce'.hasCandidate => d.hasCandidate /\ Period = 0)
    BY <1>0, <1>6, <2>1 DEF Promoted, Promotes
  <2>3. debounce' \in [hasStable : BOOLEAN, stable : BOOLEAN, hasCandidate : BOOLEAN,
                       candidate : BOOLEAN, since : Nat]
    BY <1>0, <2>1 DEF Promoted
  <2>4. ~debounce'.hasCandidate
    BY <1>4, <2>2
  <2>5. Debouncing'
    BY <1>0, <1>2, <2>1, <2>2, <2>3, <2>4 DEF Debouncing
  <2>6. ASSUME Len(settled) >= 1
        PROVE  /\ e.physical # settled[Len(settled)].physical
               /\ \E i, j \in 1..Len(fed') :
                    /\ fed'[j] = e
                    /\ fed'[j].time - fed'[i].time >= Period
                    /\ \A m \in i..j : fed'[m].physical = fed'[j].physical
    <3>1. d.hasStable /\ d.stable = settled[Len(settled)].physical
      BY <2>6, EmptySeq DEF Debouncing
    <3>2. /\ e.physical # d.stable
          /\ Period = 0 \/ (d.hasCandidate /\ e.physical = d.candidate /\ e.time - d.since >= Period)
      BY <1>6, <3>1 DEF Promotes
    <3>3. CASE Period = 0
      <4>1. n + 1 \in 1..Len(fed') /\ e.time - e.time >= Period /\ \A m \in (n + 1)..(n + 1) : m = n + 1
        BY <1>0, <1>1, <3>3
      <4> QED BY <1>1, <3>1, <3>2, <4>1
    <3>4. CASE Period # 0
      <4>1. PICK i \in 1..n : /\ fed[i].time = d.since
                              /\ \A m \in i..n : fed[m].physical = d.candidate
        BY <1>4, <3>2, <3>4
      <4>2. i \in 1..Len(fed') /\ n + 1 \in 1..Len(fed') /\ fed'[i].time = d.since
        BY <1>0, <1>1, <4>1
      <4>3. \A m \in i..(n + 1) : fed'[m].physical = e.physical
        <5> TAKE m \in i..(n + 1)
        <5>1. CASE m = n + 1
          BY <1>1, <5>1
        <5>2. CASE m # n + 1
          <6>0. n \in Nat
            BY <1>0
          <6>1. m \in i..n /\ m \in 1..n
            BY <5>2, <6>0
          <6>2. fed'[m] = fed[m] /\ fed[m].physical = d.candidate
            BY <1>1, <4>1, <6>1
          <6> QED BY <3>2, <3>4, <6>2
        <5> QED BY <5>1, <5>2
      <4>4. fed'[n + 1] = e /\ fed'[n + 1].time - fed'[i].time >= Period
        BY <1>1, <3>2, <3>4, <4>2
      <4>5. \A m \in i..(n + 1) : fed'[m].physical = fed'[n + 1].physical
        BY <4>3, <4>4
      <4>6. e.physical # settled[Len(settled)].physical
        BY <3>1, <3>2
      <4> QED BY <4>2, <4>4, <4>5, <4>6
    <3> QED BY <3>3, <3>4
  <2>7. SettledHeld'
    <3>1. ASSUME NEW k \in 2..Len(settled')
          PROVE  /\ settled'[k].physical # settled'[k - 1].physical
                 /\ \E i, j \in 1..Len(fed') :
                      /\ fed'[j] = settled'[k]
                      /\ fed'[j].time - fed'[i].time >= Period
                      /\ \A m \in i..j : fed'[m].physical = fed'[j].physical
      <4>1. CASE k \in 2..Len(settled)
        BY <1>3, <4>1
      <4>2. CASE k = Len(settled) + 1
        <5>1. Len(settled) >= 1 /\ settled'[k] = e /\ settled'[k - 1] = settled[Len(settled)]
          <6>1. Len(settled) >= 1 /\ Len(settled) \in 1..Len(settled) /\ k - 1 = Len(settled)
            BY <1>0, <2>1, <4>2
          <6> QED BY <1>2, <2>1, <4>2, <6>1
        <5>2. PICK i, j \in 1..Len(fed') :
                /\ fed'[j] = e
                /\ fed'[j].time - fed'[i].time >= Period
                /\ \A m \in i..j : fed'[m].physical = fed'[j].physical
          BY <2>6, <5>1
        <5>3. fed'[j] = settled'[k]
          BY <5>1, <5>2
        <5>4. settled'[k].physical # settled'[k - 1].physical
          BY <2>6, <5>1
        <5> QED BY <5>2, <5>3, <5>4
      <4>3. k \in 2..Len(settled) \/ k = Len(settled) + 1
        BY <1>0, <2>1
      <4> QED BY <4>1, <4>2, <4>3
    <3> QED BY <3>1 DEF SettledHeld
  <2> QED BY <2>5, <2>7
<1> QED BY <1>5, <1>6

\* try_pop returns, and the event is fed to the tracker and the debouncer.
LEMMA ConsumerFeedsStep ==
  ASSUME NEW E \in SUBSET Event, Inv(E), ConsumerFeeds
  PROVE  Inv(E)'
<1>0. /\ Stations /\ Holds(E) /\ DrainHolds(E) /\ Counters /\ Accounted /\ Tracking
      /\ Debouncing /\ SettledHeld /\ fed \in Seq(Event)
      /\ Numbered(OnTheWay, tracker.last, edges.sequence) /\ edges.sequence \in Nat
  BY DEF Inv, Counters, Tracking
<1>1. /\ PopReturn /\ UNCHANGED kernelVars /\ UNCHANGED drainVars
      /\ UNCHANGED <<pushing, arg>> /\ popping = "return" /\ popping' = "idle"
  BY DEF ConsumerFeeds, PopReturn, producerVars
<1>2. value \in E /\ value \in Event /\ value.sequence \in Nat
  BY <1>0, <1>1 DEF Holds, Event
<1>3. Queued' = Queued /\ Stations' /\ Holds(E)'
  BY <1>0, <1>1, OtherRingStepsKeep
<1>4. PICK r \in Seq(E) : OnTheWay = <<value>> \o r /\ OnTheWay' = r
  <2>1. Returning = <<value>> /\ Returning' = << >> /\ Carried' = Carried /\ kernel' = kernel
    BY <1>1 DEF Returning, Carried, drainVars, kernelVars
  <2>2. Queued \in Seq(E) /\ Carried \in Seq(E) /\ kernel \in Seq(E)
    BY WayTypes
  <2>3. PICK q : q = Queued
    OBVIOUS
  <2>4. PICK c : c = Carried
    OBVIOUS
  <2>5. PICK k : k = kernel
    OBVIOUS
  <2>6. q \in Seq(E) /\ c \in Seq(E) /\ k \in Seq(E)
    BY <2>2, <2>3, <2>4, <2>5
  <2>7. OnTheWay = ((<<value>> \o q) \o c) \o k
    BY <2>1, <2>3, <2>4, <2>5 DEF OnTheWay, Ahead
  <2>8. OnTheWay' = ((<< >> \o q) \o c) \o k
    BY <1>3, <2>1, <2>3, <2>4, <2>5 DEF OnTheWay, Ahead
  <2>9. (q \o c) \o k \in Seq(E) /\ (<< >> \o q) = q
    BY <2>6, ConcatProperties
  <2>10. ((<<value>> \o q) \o c) \o k = <<value>> \o ((q \o c) \o k)
    BY <1>2, <2>6
  <2> QED BY <2>7, <2>8, <2>9, <2>10
<1>5. /\ Numbered(r, value.sequence, edges.sequence)
      /\ tracker.last < value.sequence /\ value.sequence <= edges.sequence
  BY <1>0, <1>2, <1>4, NumberedTail
<1>6. edges' = edges
  BY <1>1 DEF kernelVars
<1>7. Tracking' /\ tracker'.last = value.sequence
  BY <1>0, <1>2, <1>5, <1>6, TrackerFeeds DEF ConsumerFeeds
<1>8. Debouncing' /\ SettledHeld'
  BY <1>0, <1>2, DebounceFeeds DEF ConsumerFeeds
<1>9. DrainHolds(E)' /\ Counters'
  BY <1>0, <1>1 DEF DrainHolds, Counters, drainVars, kernelVars
<1>10. Accounted'
  BY <1>0, <1>1 DEF Accounted, Moved, InFlight, drainVars, kernelVars
<1>11. Numbered(OnTheWay, tracker.last, edges.sequence)'
  BY <1>4, <1>5, <1>6, <1>7
<1> QED BY <1>3, <1>7, <1>8, <1>9, <1>10, <1>11 DEF Inv

\* A reset forgets what was fed: everything on the way is above number 0.
LEMMA ConsumerResetsStep ==
  ASSUME NEW E \in SUBSET Event, Inv(E), ConsumerResets
  PROVE  Inv(E)'
<1>0. /\ Stations /\ Holds(E) /\ DrainHolds(E) /\ Counters /\ Accounted /\ Tracking
      /\ Numbered(OnTheWay, tracker.last, edges.sequence) /\ edges.sequence \in Nat /\ tracker.last \in Nat
  BY DEF Inv, Counters, Tracking
<1>1. /\ UNCHANGED queueVars /\ UNCHANGED kernelVars /\ UNCHANGED drainVars
      /\ tracker' = NewTracker /\ debounce' = NewDebounce /\ fed' = << >> /\ settled' = << >>
  BY DEF ConsumerResets
<1>2. Queued' = Queued /\ Stations' /\ Holds(E)'
  BY <1>0, <1>1, OtherRingStepsKeep
<1>3. OnTheWay' = OnTheWay
  BY <1>1, <1>2 DEF OnTheWay, Ahead, Returning, Carried, queueVars, drainVars, kernelVars
<1>4. Numbered(OnTheWay, 0, edges.sequence)
  <2>1. OnTheWay \in Seq(E)
    BY WayTypes
  <2>2. \A i \in DOMAIN OnTheWay : OnTheWay[i].sequence \in Nat
    <3> TAKE i \in DOMAIN OnTheWay
    <3>1. OnTheWay[i] \in E
      BY <2>1, ElementOfSeq, LenProperties
    <3> QED BY <3>1 DEF Event
  <2> QED BY <1>0, <2>2 DEF Numbered
<1>5. Numbered(OnTheWay, tracker.last, edges.sequence)'
  BY <1>1, <1>3, <1>4 DEF NewTracker, kernelVars
<1>6. DrainHolds(E)' /\ Counters'
  BY <1>0, <1>1 DEF DrainHolds, Counters, drainVars, kernelVars, queueVars
<1>7. Accounted'
  BY <1>0, <1>1 DEF Accounted, Moved, InFlight, drainVars, kernelVars
<1>8. Tracking'
  BY <1>0, <1>1 DEF Tracking, NewTracker, GapsExact, kernelVars
<1>9. Debouncing'
  BY <1>1 DEF Debouncing, NewDebounce
<1>10. SettledHeld'
  BY <1>1 DEF SettledHeld
<1> QED BY <1>2, <1>5, <1>6, <1>7, <1>8, <1>9, <1>10 DEF Inv

LEMMA StutterStep ==
  ASSUME NEW E \in SUBSET Event, Inv(E), UNCHANGED vars
  PROVE  Inv(E)'
<1>0. /\ Stations /\ Holds(E) /\ DrainHolds(E) /\ Counters /\ Accounted
      /\ Numbered(OnTheWay, tracker.last, edges.sequence) /\ edges.sequence \in Nat
  BY DEF Inv, Counters
<1>1. UNCHANGED queueVars /\ UNCHANGED kernelVars /\ UNCHANGED drainVars /\ UNCHANGED seenVars
  BY DEF vars
<1>2. Queued' = Queued /\ Stations' /\ Holds(E)'
  BY <1>0, <1>1, OtherRingStepsKeep
<1>3. OnTheWay' = OnTheWay
  BY <1>1, <1>2 DEF OnTheWay, Ahead, Returning, Carried, queueVars, drainVars, kernelVars
<1>4. DrainHolds(E)' /\ Counters'
  BY <1>0, <1>1 DEF DrainHolds, Counters, drainVars, kernelVars, queueVars
<1>5. Accounted'
  BY <1>0, <1>1 DEF Accounted, Moved, InFlight, drainVars, kernelVars
<1>6. Tracking' /\ Debouncing' /\ SettledHeld'
  BY <1>0, <1>1, SeenStay DEF kernelVars
<1>7. Numbered(OnTheWay, tracker.last, edges.sequence)'
  BY <1>0, <1>1, <1>3 DEF seenVars, kernelVars
<1> QED BY <1>2, <1>4, <1>5, <1>6, <1>7 DEF Inv

LEMMA InitInv == Init => \A E \in SUBSET Event : Inv(E)
<1> SUFFICES ASSUME Init, NEW E \in SUBSET Event PROVE Inv(E)
  OBVIOUS
<1> USE DEF Init
<1>1. /\ head = 0 /\ tail = 0 /\ storage = [i \in Slots |-> NoItem] /\ pushing = "idle"
      /\ popping = "idle" /\ value = NoItem /\ 0 \in Slots
  BY SlotsAssumption DEF QueueInit, Slots
<1>2. Stations
  BY <1>1 DEF Stations
<1>3. Queued = << >>
  <2>1. First = 0 /\ Count(0, 0) = 0
    BY <1>1 DEF First, Count
  <2>2. Queued = QueueOf(0, 0, storage)
    BY <1>1, <1>2, <2>1, QueuedNow
  <2> QED BY <2>1, <2>2 DEF QueueOf
<1>4. Holds(E)
  BY <1>1, <1>3 DEF Holds
<1>5. DrainHolds(E) /\ Counters
  BY <1>1 DEF DrainHolds, Counters, NoReport, Report
<1>6. Accounted
  BY DEF Accounted, Moved, InFlight, Plus, NoReport
<1>7. OnTheWay = << >>
  BY <1>1, <1>3 DEF OnTheWay, Ahead, Returning, Carried
<1>8. Numbered(OnTheWay, tracker.last, edges.sequence)
  BY <1>7 DEF Numbered
<1>9. Tracking /\ Debouncing /\ SettledHeld
  BY DEF Tracking, Debouncing, SettledHeld, GapsExact, NewTracker, NewDebounce
<1> QED BY <1>2, <1>4, <1>5, <1>6, <1>8, <1>9 DEF Inv

LEMMA NextKeepsInv ==
  ASSUME NEW E \in SUBSET Event, Inv(E), [Next]_vars, Edge => edges' \in E
  PROVE  Inv(E)'
BY EdgeStep, DrainRestStep, WaitEventStep, SinkRejectsStep, SinkHoldsStep, SinkAcceptedStep,
   ConsumerPopsStep, ConsumerFeedsStep, ConsumerResetsStep, StutterStep DEF Next, Drain

-----------------------------------------------------------------------------
(***************************************************************************)
(* The theorems.                                                           *)
(***************************************************************************)

\* The invariant of the whole path, from the kernel's buffer over the ring's stations to
\* the consumer's objects.
THEOREM InvariantHolds == Spec => []Inv(Event)
<1>1. Init => Inv(Event)
  BY InitInv
<1>2. Inv(Event) /\ [Next]_vars => Inv(Event)'
  <2> SUFFICES ASSUME Inv(Event), [Next]_vars PROVE Inv(Event)'
    OBVIOUS
  <2>1. Edge => edges' \in Event
    <3> SUFFICES ASSUME Edge PROVE edges' \in Event
      OBVIOUS
    <3>1. PICK gap \in Gaps : edges' = [sequence |-> edges.sequence + 1, time |-> edges.time + gap,
                                        physical |-> ~edges.physical]
      BY DEF Edge
    <3>2. edges.sequence + 1 \in Nat \ {0} /\ edges.time + gap \in Nat
      BY PeriodAssumption DEF Inv, Counters
    <3> QED BY <3>1, <3>2 DEF Event
  <2> QED BY <2>1, NextKeepsInv
<1> QED BY <1>1, <1>2, PTL DEF Spec

\* Every edge of the line is in one place or in one count: the kernel's buffer, its
\* overruns, the drain's hands, the reports and queue_sink's m_dropped.
THEOREM EveryEdgeIsAccounted == Spec => []Accounted
<1>1. Inv(Event) => Accounted
  BY DEF Inv
<1> QED BY <1>1, InvariantHolds, PTL

\* sequence_tracker counts exactly the events lost anywhere before the consumer.
THEOREM TrackerIsExact == Spec => []GapsExact
<1>1. Inv(Event) => GapsExact
  BY DEF Inv, Tracking
<1> QED BY <1>1, InvariantHolds, PTL

\* event_debounce lets a change through only when it was fed nothing else for a period.
THEOREM DebouncedWasHeld == Spec => []SettledHeld
<1>1. Inv(Event) => SettledHeld
  BY DEF Inv
<1> QED BY <1>1, InvariantHolds, PTL

\* The abstract queue does not see a step that leaves the queue and try_pop's result.
LEMMA RingInvisible ==
  ASSUME Queued' = Queued, value' = value
  PROVE  UNCHANGED Fifo!fifoVars
<1>1. [c \in {"consumer"} |-> value'] = [c \in {"consumer"} |-> value]
  OBVIOUS
<1> QED BY <1>1 DEF Fifo!fifoVars

\* A step of the pipeline is a step of the abstract queue, or invisible to it.
LEMMA PipelineRefines ==
  ASSUME NEW E \in SUBSET (Event \cap Item), Inv(E), [Next]_vars
  PROVE  [Fifo!FifoNext]_(Fifo!fifoVars)
<1>0. Stations /\ Holds(E) /\ DrainHolds(E)
  BY DEF Inv
<1>1. CASE SinkAccepted
  <2>1. PushPublish /\ value' = value
    BY <1>1 DEF SinkAccepted, PushPublish, consumerVars
  <2>2. Queued' = Append(Queued, arg) /\ Len(Queued) < N - 1 /\ arg \in E
    BY <1>0, <2>1, PublishAppends
  <2>3. [c \in {"consumer"} |-> value'] = [c \in {"consumer"} |-> value]
    BY <2>1
  <2>4. Fifo!Enqueue(arg)
    BY <2>2, <2>3 DEF Fifo!Enqueue
  <2> QED BY <2>2, <2>4 DEF Fifo!FifoNext
<1>2. CASE ConsumerPops /\ PopTake
  <2>1. Queued # << >> /\ value' = Head(Queued) /\ Queued' = Tail(Queued)
    BY <1>0, <1>2, TakeRemoves
  <2>2. value = NoItem
    BY <1>0, <1>2 DEF Holds, PopTake
  <2>3. /\ [c \in {"consumer"} |-> value]["consumer"] = NoItem
        /\ [c \in {"consumer"} |-> value'] =
             [[c \in {"consumer"} |-> value] EXCEPT !["consumer"] = Head(Queued)]
    BY <2>1, <2>2
  <2>4. Fifo!Dequeue("consumer")
    BY <2>1, <2>3 DEF Fifo!Dequeue
  <2> QED BY <2>4 DEF Fifo!FifoNext
<1>3. CASE ConsumerFeeds
  <2>1. PopReturn /\ value' = NoItem /\ popping = "return"
    BY <1>3 DEF ConsumerFeeds, PopReturn
  <2>2. Queued' = Queued
    BY <1>0, <2>1, OtherRingStepsKeep
  <2>3. value # NoItem
    BY <1>0, <2>1, NoItemAssumption DEF Holds
  <2>4. /\ [c \in {"consumer"} |-> value]["consumer"] # NoItem
        /\ [c \in {"consumer"} |-> value'] =
             [[c \in {"consumer"} |-> value] EXCEPT !["consumer"] = NoItem]
    BY <2>1, <2>3
  <2>5. Fifo!Deliver("consumer")
    BY <2>2, <2>4 DEF Fifo!Deliver
  <2> QED BY <2>5 DEF Fifo!FifoNext
<1>4. CASE SinkConstructs
  <2>1. Queued' = Queued
    BY <1>0, <1>4, ConstructKeeps DEF SinkConstructs
  <2>2. value' = value
    BY <1>4 DEF SinkConstructs, PushConstruct, consumerVars
  <2> QED BY <2>1, <2>2, RingInvisible
<1>5. CASE SinkAccepts
  <2>1. got \in E /\ PushAccepted(got) /\ value' = value
    BY <1>0, <1>5 DEF SinkAccepts, DrainHolds, PushAccepted, consumerVars
  <2>2. Queued' = Queued
    BY <1>0, <2>1, OtherRingStepsKeep
  <2> QED BY <2>1, <2>2, RingInvisible
<1>6. CASE ConsumerPops /\ (PopFound \/ PopRelease)
  <2>1. Queued' = Queued
    BY <1>0, <1>6, OtherRingStepsKeep
  <2>2. value' = value
    BY <1>6 DEF PopFound, PopRelease
  <2> QED BY <2>1, <2>2, RingInvisible
<1>7. CASE UNCHANGED queueVars
  <2>1. Queued' = Queued /\ value' = value
    BY <1>7 DEF queueVars, Queued, First
  <2> QED BY <2>1, RingInvisible
<1>8. /\ Edge \/ DrainBegin \/ WaitEvent \/ WaitMiss \/ WaitError \/ SinkRejects => UNCHANGED queueVars
      /\ ConsumerPops /\ PopEmpty => UNCHANGED queueVars
      /\ ConsumerResets \/ UNCHANGED vars => UNCHANGED queueVars
      /\ ConsumerPops => PopEmpty \/ PopFound \/ PopTake \/ PopRelease
  BY DEF Edge, DrainBegin, WaitEvent, WaitMiss, WaitError, SinkRejects, PushRefused, ConsumerPops,
         PopEmpty, ConsumerResets, vars
<1> QED BY <1>1, <1>2, <1>3, <1>4, <1>5, <1>6, <1>7, <1>8 DEF Next, Drain

\* Where the line's last edge can be.
EdgeFits(span) == edges.sequence <= MaxEdges /\ edges.time <= span * edges.sequence

\* The SPSC ring between the drain's thread and the consumer's is a bounded queue of
\* N - 1 places, whatever of their steps interleave.
THEOREM RingIsAFifo ==
  ASSUME NEW span \in Nat, EventsFit(span)
  PROVE  Spec => RefinesFifo
<1> DEFINE E == Event \cap Item
           J == Inv(E) /\ EdgeFits(span)
<1>1. Init => J
  <2>1. Init => EdgeFits(span)
    BY KernelAssumption DEF Init, EdgeFits
  <2> QED BY <2>1, InitInv
<1>2. J /\ [Next]_vars => J'
  <2> SUFFICES ASSUME Inv(E), EdgeFits(span), [Next]_vars PROVE Inv(E)' /\ EdgeFits(span)'
    OBVIOUS
  <2>1. edges.sequence \in Nat /\ edges.time \in Nat /\ edges.physical \in BOOLEAN
    BY DEF Inv, Counters
  <2>2. CASE Edge
    <3>1. PICK gap \in Gaps : edges' = [sequence |-> edges.sequence + 1, time |-> edges.time + gap,
                                        physical |-> ~edges.physical]
      BY <2>2 DEF Edge
    <3>2. PICK n \in Nat : n = edges.sequence
      BY <2>1
    <3>3. PICK t \in Nat : t = edges.time
      BY <2>1
    <3>4. n + 1 <= MaxEdges /\ gap \in Nat /\ gap <= span /\ t <= span * n
      BY <2>2, <3>2, <3>3, KernelAssumption DEF Edge, EdgeFits, EventsFit
    <3>5. span * (n + 1) = span * n + span /\ span * (n + 1) <= span * MaxEdges
      BY <3>4, KernelAssumption, SMTT(30)
    <3>6. span * n \in Nat /\ span * MaxEdges \in Nat
      BY KernelAssumption
    <3>7. t + gap <= span * (n + 1) /\ t + gap <= span * MaxEdges /\ t + gap \in Nat
      BY <3>4, <3>5, <3>6
    <3>8. EdgeFits(span)'
      BY <3>1, <3>2, <3>3, <3>4, <3>7 DEF EdgeFits
    <3>9. edges' \in E
      <4>1. edges' \in Event
        BY <3>1, <3>2, <3>3, <3>7 DEF Event
      <4>2. edges' \in [sequence : 1..MaxEdges, time : 0..span * MaxEdges, physical : BOOLEAN]
        <5>1. n + 1 \in 1..MaxEdges /\ t + gap \in 0..span * MaxEdges
          BY <3>4, <3>6, <3>7, KernelAssumption
        <5> QED BY <3>1, <3>2, <3>3, <5>1
      <4> QED BY <4>1, <4>2 DEF EventsFit
    <3>10. Inv(E)'
      BY <3>9, NextKeepsInv
    <3> QED BY <3>8, <3>10
  <2>3. CASE ~Edge
    <3>1. edges' = edges
      BY <2>3 DEF Next, Drain, DrainBegin, WaitEvent, WaitMiss, WaitError, SinkRejects, SinkAccepts,
                  SinkConstructs, SinkAccepted, ConsumerPops, ConsumerFeeds, ConsumerResets, kernelVars,
                  vars
    <3>2. Inv(E)'
      BY <2>3, NextKeepsInv
    <3> QED BY <3>1, <3>2 DEF EdgeFits
  <2> QED BY <2>2, <2>3
<1>3. Init => Fifo!FifoInit
  <2> SUFFICES ASSUME Init PROVE Fifo!FifoInit
    OBVIOUS
  <2>1. Inv({})
    BY InitInv
  <2>2. Queued \in Seq({}) /\ value = NoItem
    BY <2>1 DEF Inv, Holds, Init, QueueInit
  <2>3. Queued = << >>
    BY <2>2, EmptySeq, HeadTailProperties
  <2> QED BY <2>2, <2>3 DEF Fifo!FifoInit
<1>4. J /\ [Next]_vars => [Fifo!FifoNext]_(Fifo!fifoVars)
  BY PipelineRefines
<1> QED BY <1>1, <1>2, <1>3, <1>4, PTL DEF Spec, RefinesFifo, Fifo!FifoSpec

-----------------------------------------------------------------------------
(***************************************************************************)
(* The alarm.                                                              *)
(***************************************************************************)

\* The boundary that poll skipped when the callback of a periodic fire made this arming.
Skipped == IF late THEN 1 ELSE 0

\* How many boundaries lie before the one in m_next: the callback that is running has been
\* counted, and its boundary is still the next.
Pending ==
  /\ armed /\ ~Timer!Polling => next = first + (served + Skipped) * period
  /\ armed /\ Timer!Polling /\ served = 0 => next = first /\ ~late
  /\ armed /\ Timer!Polling /\ served > 0 =>
       firing = "periodic" /\ next = first + (served - 1 + Skipped) * period /\ next <= polled

\* An armed alarm is wanted, and only a periodic one has a period.
Arming ==
  /\ armed => wanted
  /\ armed /\ mode = "one_shot" => period = 0
  /\ armed /\ period > 0 => first >= 0

AlarmInv == Timer!TypeOK /\ Pending /\ Arming

\* What CatchesUp says of a step.
Due(k) == first' + (k + Skipped') * period'
FireIsDue == Timer!Fires => wanted /\ next' = Due(served' - 1) /\ next' <= polled'
AllServed ==
  Timer!PeriodicReturns /\ ~Timer!Polling' /\ armed'
    => served' = Cardinality({k \in 0..MaxTime : Due(k) <= polled})

\* A period further.
LEMMA OneMore ==
  ASSUME NEW n \in Int, NEW p \in Int
  PROVE  /\ n * p \in Int /\ (n + 1) * p = n * p + p
         /\ n = 0 => n * p = 0
         /\ n = 1 => n * p = p
OBVIOUS

\* Periods add up to no less than their number, and to more the more there are.
LEMMA Monotone ==
  ASSUME NEW m \in Nat, NEW n \in Nat, m <= n, NEW p \in Nat, p > 0
  PROVE  m * p <= n * p /\ m <= m * p /\ m * p \in Nat /\ n * p \in Nat
<1>1. PICK d \in Nat : n = m + d
  <2>1. n - m \in Nat /\ n = m + (n - m)
    OBVIOUS
  <2> QED BY <2>1
<1>2. PICK q \in Nat : p = 1 + q
  <2>1. p - 1 \in Nat /\ p = 1 + (p - 1)
    OBVIOUS
  <2> QED BY <2>1
<1>3. n * p = m * p + d * p
  BY <1>1
<1>4. m * p = m + m * q
  BY <1>2
<1>5. m * p \in Nat /\ d * p \in Nat /\ m * q \in Nat /\ n * p \in Nat
  OBVIOUS
<1> QED BY <1>3, <1>4, <1>5

\* How many numbers there are below n.
LEMMA BelowCount ==
  ASSUME NEW n \in Nat
  PROVE  Cardinality({k \in Nat : k < n}) = n
<1>1. 0 \in Int /\ n - 1 \in Int
  OBVIOUS
<1>2. Cardinality(0..(n - 1)) = IF 0 > n - 1 THEN 0 ELSE (n - 1) - 0 + 1
  BY <1>1, FS_Interval
<1>3. (IF 0 > n - 1 THEN 0 ELSE (n - 1) - 0 + 1) = n
  OBVIOUS
<1>4. {k \in Nat : k < n} = 0..(n - 1)
  OBVIOUS
<1> QED BY <1>2, <1>3, <1>4

LEMMA AlarmInit ==
  ASSUME Timer!Init
  PROVE  AlarmInv
<1>1. Timer!TypeOK
  <2>1. clock = 0 /\ next = 0 /\ period = 0 /\ polled = -1 /\ first = 0 /\ served = 0 /\ arms = 0
    BY DEF Timer!Init, Timer!NoPoll
  <2>2. clock \in 0..MaxTime /\ next \in Int /\ polled \in 0..clock \cup {-1}
        /\ first \in Int /\ served \in Nat /\ arms \in 0..MaxArms
    BY <2>1, TimerAssumed DEF Timer!AlarmAssumption
  <2>3. armed \in BOOLEAN /\ late \in BOOLEAN /\ wanted \in BOOLEAN
        /\ mode \in {"one_shot", "periodic"} /\ firing \in {"one_shot", "periodic"}
    BY DEF Timer!Init
  <2> QED BY <2>1, <2>2, <2>3 DEF Timer!TypeOK, Timer!NoPoll
<1>2. Pending /\ Arming
  BY DEF Timer!Init, Pending, Arming
<1> QED BY <1>1, <1>2 DEF AlarmInv

LEMMA AlarmArms ==
  ASSUME AlarmInv, NEW newMode \in {"one_shot", "periodic"}, NEW when \in Int,
         NEW newPeriod \in Periods \cup {0}, Timer!Arm(newMode, when, newPeriod),
         newMode = "one_shot" => newPeriod = 0, newPeriod > 0 => when >= 0
  PROVE  AlarmInv'
<1>1. newPeriod \in Int
  BY TimerAssumed DEF Timer!AlarmAssumption
<1>2. arms \in 0..MaxArms /\ MaxArms \in Nat
  BY TimerAssumed DEF Timer!AlarmAssumption, AlarmInv, Timer!TypeOK
<1>3. /\ arms < MaxArms /\ arms' = arms + 1
      /\ armed' = TRUE /\ mode' = newMode /\ next' = when /\ period' = newPeriod
      /\ first' = when /\ served' = 0 /\ late' = FALSE /\ wanted' = TRUE
      /\ UNCHANGED <<clock, polled, firing>>
  BY DEF Timer!Arm, Timer!call
<1>4. Timer!TypeOK'
  <2>1. arms' \in 0..MaxArms /\ served' \in Nat
    BY <1>2, <1>3
  <2>2. armed' \in BOOLEAN /\ late' \in BOOLEAN /\ wanted' \in BOOLEAN
    BY <1>3
  <2>3. UNCHANGED <<clock, polled, firing>>
    BY <1>3
  <2>4. mode' \in {"one_shot", "periodic"} /\ next' \in Int /\ period' \in Periods \cup {0}
        /\ first' \in Int
    BY <1>3
  <2> QED BY <2>1, <2>2, <2>3, <2>4 DEF AlarmInv, Timer!TypeOK
<1>5. Pending'
  <2>1. Skipped' = 0 /\ (0 + 0) * newPeriod = 0
    BY <1>1, <1>3 DEF Skipped
  <2> QED BY <1>1, <1>3, <2>1 DEF Pending, Timer!Polling, Timer!NoPoll
<1>6. Arming'
  BY <1>3 DEF Arming
<1> QED BY <1>4, <1>5, <1>6 DEF AlarmInv

LEMMA AlarmPolls ==
  ASSUME AlarmInv, Timer!Poll
  PROVE  AlarmInv' /\ FireIsDue
<1>1. /\ polled = -1 /\ armed /\ clock >= next
      /\ polled' = clock /\ firing' = mode /\ (armed' <=> mode = "periodic")
      /\ served' = served + 1 /\ (wanted' <=> mode = "periodic")
      /\ armed' \in BOOLEAN /\ wanted' \in BOOLEAN
      /\ UNCHANGED <<clock, mode, next, period, first, late, arms>>
  BY DEF Timer!Poll, Timer!Fire, Timer!Polling, Timer!NoPoll
<1>2. /\ clock \in Nat /\ next \in Int /\ served \in Nat /\ first \in Int /\ period \in Int
      /\ mode \in {"one_shot", "periodic"} /\ Skipped \in Nat
  BY TimerAssumed DEF Timer!AlarmAssumption, AlarmInv, Timer!TypeOK, Skipped
<1>3. Timer!TypeOK'
  BY <1>1, <1>2, TimerAssumed DEF Timer!AlarmAssumption, AlarmInv, Timer!TypeOK, Timer!NoPoll
<1>4. next = first + (served + Skipped) * period /\ wanted
  BY <1>1 DEF AlarmInv, Pending, Arming, Timer!Polling, Timer!NoPoll
<1>5. next' = first' + (served' - 1 + Skipped') * period' /\ next' <= polled' /\ served' > 0
  <2>1. Skipped' = Skipped /\ served' - 1 = served
    BY <1>1, <1>2 DEF Skipped
  <2> QED BY <1>1, <1>2, <1>4, <2>1
<1>6. Pending'
  BY <1>1, <1>2, <1>5 DEF Pending, Timer!Polling, Timer!NoPoll
<1>7. Arming'
  BY <1>1 DEF AlarmInv, Arming
<1>8. FireIsDue
  BY <1>4, <1>5 DEF FireIsDue, Due
<1> QED BY <1>3, <1>6, <1>7, <1>8 DEF AlarmInv

LEMMA AlarmReturns ==
  ASSUME AlarmInv, Timer!PeriodicReturns
  PROVE  AlarmInv' /\ FireIsDue /\ AllServed
<1> DEFINE again == period > 0 /\ armed /\ polled >= next'
<1>1. /\ polled # -1 /\ firing = "periodic" /\ next' = next + period
      /\ (late' <=> late \/ served = 0) /\ late' \in BOOLEAN /\ armed' \in BOOLEAN
      /\ UNCHANGED <<clock, mode, period, first, wanted, arms>>
      /\ again => /\ polled' = polled /\ firing' = mode /\ (armed' <=> mode = "periodic")
                  /\ served' = served + 1
      /\ ~again => /\ polled' = -1 /\ (armed' <=> armed /\ period > 0)
                   /\ UNCHANGED <<firing, served>>
  BY DEF Timer!PeriodicReturns, Timer!Fire, Timer!Polling, Timer!NoPoll, Timer!Boundary
<1>2. /\ clock \in 0..MaxTime /\ polled \in 0..clock /\ MaxTime \in Nat
      /\ next \in Int /\ served \in Nat /\ first \in Int /\ period \in Int
      /\ mode \in {"one_shot", "periodic"} /\ Skipped \in Nat /\ Skipped' \in Nat
      /\ armed \in BOOLEAN /\ late \in BOOLEAN
  BY <1>1, TimerAssumed DEF Timer!AlarmAssumption, AlarmInv, Timer!TypeOK, Timer!NoPoll, Skipped
<1>3. Timer!TypeOK'
  <2>1. next' \in Int /\ served' \in Nat /\ firing' \in {"one_shot", "periodic"}
        /\ polled' \in 0..clock' \cup {-1} /\ armed' \in BOOLEAN /\ late' \in BOOLEAN
    BY <1>1, <1>2
  <2> QED BY <1>1, <2>1 DEF AlarmInv, Timer!TypeOK, Timer!NoPoll
<1>4. armed /\ served > 0 =>
        Skipped' = Skipped /\ next = first + (served - 1 + Skipped) * period /\ next <= polled
  BY <1>1, <1>2 DEF AlarmInv, Pending, Timer!Polling, Timer!NoPoll, Skipped
<1>5. armed => next' = first + (served + Skipped') * period
  <2>1. CASE armed /\ served > 0
    <3>1. ((served - 1 + Skipped) + 1) * period = (served - 1 + Skipped) * period + period
      BY <1>2, OneMore
    <3>2. (served - 1 + Skipped) + 1 = served + Skipped'
      BY <1>2, <1>4, <2>1
    <3> QED BY <1>1, <1>2, <1>4, <2>1, <3>1, <3>2, OneMore
  <2>2. CASE armed /\ served = 0
    <3>1. next = first /\ Skipped' = 1
      BY <1>1, <2>2 DEF AlarmInv, Pending, Timer!Polling, Timer!NoPoll, Skipped
    <3>2. (served + Skipped') * period = period
      BY <1>2, <2>2, <3>1, OneMore
    <3> QED BY <1>1, <3>1, <3>2
  <2> QED BY <1>2, <2>1, <2>2
<1>6. again => mode = "periodic" /\ armed' /\ wanted
  BY <1>1, <1>2 DEF AlarmInv, Arming
<1>7. again => /\ next' = first' + (served' - 1 + Skipped') * period' /\ next' <= polled'
               /\ served' > 0
  <2> SUFFICES ASSUME again
               PROVE  /\ next' = first' + (served' - 1 + Skipped') * period' /\ next' <= polled'
                      /\ served' > 0
    OBVIOUS
  <2>1. served' - 1 + Skipped' = served + Skipped' /\ first' = first /\ period' = period
    BY <1>1, <1>2
  <2>2. next' \in Int /\ polled' = polled /\ polled \in Int /\ served' > 0
    BY <1>1, <1>2
  <2> QED BY <1>5, <2>1, <2>2
<1>8. Pending'
  <2>1. CASE again
    <3>1. polled' # -1 /\ firing' = "periodic"
      BY <1>1, <1>6, <2>1
    <3>2. served' # 0
      BY <1>7, <2>1
    <3> QED BY <1>7, <2>1, <3>1, <3>2 DEF Pending, Timer!Polling, Timer!NoPoll
  <2>2. CASE ~again
    <3>1. polled' = -1 /\ served' = served /\ first' = first /\ period' = period /\ (armed' => armed)
      BY <1>1, <2>2
    <3> QED BY <1>5, <3>1 DEF Pending, Timer!Polling, Timer!NoPoll
  <2> QED BY <2>1, <2>2
<1>9. Arming'
  <2>1. armed' => armed
    BY <1>1
  <2> QED BY <1>1, <2>1 DEF AlarmInv, Arming
<1>10. FireIsDue
  <2>1. Timer!Fires => polled' # -1
    BY <1>1, <1>2 DEF Timer!Fires, Timer!Poll, Timer!Polling, Timer!NoPoll
  <2>2. Timer!Fires => again
    BY <1>1, <2>1
  <2> QED BY <1>6, <1>7, <2>2 DEF FireIsDue, Due
<1>11. AllServed
  <2> SUFFICES ASSUME polled' = -1, armed'
               PROVE  served' = Cardinality({k \in 0..MaxTime : Due(k) <= polled})
    BY DEF AllServed, Timer!Polling, Timer!NoPoll
  <2>1. ~again /\ served' = served /\ armed /\ period > 0 /\ period \in Nat
    BY <1>1, <1>2
  <2>2. polled < next' /\ next' \in Int
    BY <1>1, <1>2, <2>1
  <2>3. \A k \in Nat : Due(k) = first + (k + Skipped') * period /\ Due(k) \in Int
    <3> SUFFICES ASSUME NEW k \in Nat
                 PROVE  Due(k) = first + (k + Skipped') * period /\ Due(k) \in Int
      OBVIOUS
    <3>1. k + Skipped' \in Int /\ (k + Skipped') * period \in Int
      BY <1>2, <2>1, OneMore
    <3> QED BY <1>1, <1>2, <3>1 DEF Due
  <2>4. \A k \in Nat : k < served => Due(k) <= polled /\ k <= MaxTime
    <3> SUFFICES ASSUME NEW k \in Nat, k < served PROVE Due(k) <= polled /\ k <= MaxTime
      OBVIOUS
    <3> DEFINE m == k + Skipped
               n == served - 1 + Skipped
    <3>1. m \in Nat /\ n \in Nat /\ m <= n /\ k <= m
      BY <1>2
    <3>2. m * period <= n * period /\ m <= m * period /\ m * period \in Nat /\ n * period \in Nat
      BY <2>1, <3>1, Monotone
    <3>3. Skipped' = Skipped /\ next = first + n * period /\ next <= polled
      BY <1>2, <1>4, <2>1
    <3>4. Due(k) = first + m * period
      BY <2>3, <3>3
    <3>5. first >= 0
      BY <2>1 DEF AlarmInv, Arming
    <3> HIDE DEF m, n
    <3> QED BY <1>2, <3>1, <3>2, <3>3, <3>4, <3>5
  <2>5. \A k \in Nat : k >= served => ~(Due(k) <= polled)
    <3> SUFFICES ASSUME NEW k \in Nat, k >= served PROVE ~(Due(k) <= polled)
      OBVIOUS
    <3> DEFINE m == served + Skipped'
               n == k + Skipped'
    <3>1. m \in Nat /\ n \in Nat /\ m <= n
      <4>1. PICK s \in Nat : s = Skipped'
        BY <1>2
      <4>2. served \in Nat /\ served + s <= k + s /\ served + s \in Nat /\ k + s \in Nat
        BY <1>2
      <4> QED BY <4>1, <4>2
    <3>2. m * period <= n * period /\ m * period \in Nat /\ n * period \in Nat
      BY <2>1, <3>1, Monotone
    <3>3. next' = first + m * period /\ Due(k) = first + n * period
      BY <1>5, <2>1, <2>3
    <3> HIDE DEF m, n
    <3> QED BY <1>2, <2>2, <3>2, <3>3
  <2>6. {k \in 0..MaxTime : Due(k) <= polled} = {k \in Nat : k < served}
    <3>1. \A k : k \in {j \in 0..MaxTime : Due(j) <= polled} => k \in {j \in Nat : j < served}
      BY <1>2, <2>5
    <3>2. \A k : k \in {j \in Nat : j < served} => k \in {j \in 0..MaxTime : Due(j) <= polled}
      BY <1>2, <2>4
    <3> QED BY <3>1, <3>2
  <2> QED BY <1>2, <2>1, <2>6, BelowCount
<1> QED BY <1>3, <1>8, <1>9, <1>10, <1>11 DEF AlarmInv

\* The other steps.
LEMMA AlarmRests ==
  ASSUME AlarmInv, Timer!Tick \/ Timer!Disarm \/ Timer!OneShotReturns \/ Timer!Throws
  PROVE  AlarmInv'
<1>1. /\ clock \in 0..MaxTime /\ polled \in 0..clock \cup {-1} /\ MaxTime \in Nat
      /\ next \in Int /\ served \in Nat /\ first \in Int /\ period \in Int
      /\ Skipped \in Nat /\ firing \in {"one_shot", "periodic"}
  BY TimerAssumed DEF Timer!AlarmAssumption, AlarmInv, Timer!TypeOK, Timer!NoPoll, Skipped
<1>2. CASE Timer!Tick
  <2>1. clock' = clock + 1 /\ clock < MaxTime
        /\ UNCHANGED <<armed, mode, next, period, polled, firing, first, served, late, wanted, arms>>
    BY <1>2 DEF Timer!Tick, Timer!timer, Timer!call, Timer!told
  <2>2. Timer!TypeOK'
    BY <1>1, <2>1 DEF AlarmInv, Timer!TypeOK, Timer!NoPoll
  <2>3. Pending' /\ Arming'
    BY <2>1 DEF AlarmInv, Pending, Arming, Skipped, Timer!Polling, Timer!NoPoll
  <2> QED BY <2>2, <2>3 DEF AlarmInv
<1>3. CASE Timer!Disarm
  <2>1. armed' = FALSE /\ period' = 0 /\ wanted' = FALSE
        /\ UNCHANGED <<clock, mode, next, polled, firing, first, served, late, arms>>
    BY <1>3 DEF Timer!Disarm, Timer!call
  <2>2. Timer!TypeOK'
    BY <2>1 DEF AlarmInv, Timer!TypeOK, Timer!NoPoll
  <2>3. Pending' /\ Arming'
    BY <2>1 DEF Pending, Arming
  <2> QED BY <2>2, <2>3 DEF AlarmInv
<1>4. CASE Timer!OneShotReturns
  <2>1. /\ polled # -1 /\ firing = "one_shot" /\ polled' = -1
        /\ UNCHANGED <<clock, armed, mode, next, period, firing, first, served, late, wanted, arms>>
    BY <1>4 DEF Timer!OneShotReturns, Timer!timer, Timer!told, Timer!Polling, Timer!NoPoll
  <2>2. Timer!TypeOK'
    BY <2>1 DEF AlarmInv, Timer!TypeOK, Timer!NoPoll
  <2>3. Arming'
    BY <2>1 DEF AlarmInv, Arming
  <2>4. armed => served = 0 /\ next = first /\ ~late
    BY <1>1, <2>1 DEF AlarmInv, Pending, Timer!Polling, Timer!NoPoll
  <2>5. armed' => next' = first' + (served' + Skipped') * period'
    <3> SUFFICES ASSUME armed PROVE next = first + (served + Skipped') * period
      BY <2>1
    <3>1. served + Skipped' = 0
      BY <2>1, <2>4 DEF Skipped
    <3> QED BY <1>1, <2>4, <3>1, OneMore
  <2>6. Pending'
    BY <2>1, <2>5 DEF Pending, Timer!Polling, Timer!NoPoll
  <2> QED BY <2>2, <2>3, <2>6 DEF AlarmInv
<1>5. CASE Timer!Throws
  <2>1. /\ polled # -1 /\ polled' = -1
        /\ served' = IF firing = "periodic" /\ served > 0 THEN served - 1 ELSE served
        /\ UNCHANGED <<clock, armed, mode, next, period, firing, first, late, wanted, arms>>
    BY <1>5 DEF Timer!Throws, Timer!timer, Timer!Polling, Timer!NoPoll
  <2>2. Timer!TypeOK'
    BY <1>1, <2>1 DEF AlarmInv, Timer!TypeOK, Timer!NoPoll
  <2>3. Arming'
    BY <2>1 DEF AlarmInv, Arming
  <2>4. armed => next = first + (served' + Skipped) * period
    <3>1. CASE armed /\ served > 0
      BY <1>1, <2>1, <3>1 DEF AlarmInv, Pending, Timer!Polling, Timer!NoPoll
    <3>2. CASE armed /\ served = 0
      <4>1. next = first /\ served' + Skipped = 0
        BY <2>1, <3>2 DEF AlarmInv, Pending, Timer!Polling, Timer!NoPoll, Skipped
      <4> QED BY <1>1, <4>1, OneMore
    <3> QED BY <1>1, <3>1, <3>2
  <2>5. Pending'
    BY <2>1, <2>4 DEF Pending, Skipped, Timer!Polling, Timer!NoPoll
  <2> QED BY <2>2, <2>3, <2>5 DEF AlarmInv
<1> QED BY <1>2, <1>3, <1>4, <1>5

LEMMA AlarmNext ==
  ASSUME AlarmInv, Timer!Next
  PROVE  AlarmInv' /\ FireIsDue /\ AllServed
<1>1. CASE Timer!PeriodicReturns
  BY <1>1, AlarmReturns
<1>2. CASE ~Timer!PeriodicReturns /\ Timer!Poll
  BY <1>2, AlarmPolls DEF AllServed
<1>3. CASE ~Timer!PeriodicReturns /\ ~Timer!Poll
  <2>1. FireIsDue /\ AllServed
    BY <1>3 DEF FireIsDue, AllServed, Timer!Fires
  <2>2. clock \in Nat
    BY TimerAssumed DEF Timer!AlarmAssumption, AlarmInv, Timer!TypeOK
  <2>3. CASE \E when \in 0..MaxTime : Timer!ArmAt(when)
    <3>1. PICK when \in 0..MaxTime : Timer!ArmAt(when)
      BY <2>3
    <3>2. when \in Int /\ Timer!Arm("one_shot", when, 0)
      BY <3>1, TimerAssumed DEF Timer!ArmAt, Timer!AlarmAssumption
    <3> QED BY <2>1, <3>2, AlarmArms
  <2>4. CASE \E delay \in Periods : Timer!ArmAfter(delay) \/ Timer!ArmPeriodic(delay)
    <3>1. PICK delay \in Periods : Timer!ArmAfter(delay) \/ Timer!ArmPeriodic(delay)
      BY <2>4
    <3>2. delay \in Int /\ clock + delay \in Int
      BY <2>2, TimerAssumed DEF Timer!AlarmAssumption
    <3>3. CASE Timer!ArmAfter(delay)
      BY <2>1, <3>2, <3>3, AlarmArms DEF Timer!ArmAfter, Timer!ArmAt
    <3>4. CASE Timer!ArmPeriodic(delay)
      <4>1. delay > 0 => clock + delay >= 0
        BY <2>2, <3>2
      <4>2. Timer!Arm("periodic", clock + delay, delay)
        BY <3>4 DEF Timer!ArmPeriodic
      <4> QED BY <2>1, <3>2, <4>1, <4>2, AlarmArms
    <3> QED BY <3>1, <3>3, <3>4
  <2>5. CASE Timer!Tick \/ Timer!Disarm \/ Timer!OneShotReturns \/ Timer!Throws
    BY <2>1, <2>5, AlarmRests
  <2> QED BY <1>3, <2>3, <2>4, <2>5 DEF Timer!Next
<1> QED BY <1>1, <1>2, <1>3

\* In a behaviour of MCDevices the alarm takes its own steps or none.
LEMMA AlarmAlone == MCSpec => Timer!Spec
<1>1. MCInit => Timer!Init
  BY DEF MCInit
<1>2. [MCNext]_<<which, vars, fileVars, alarmVars>> => [Timer!Next]_(Timer!vars)
  <2>1. UNCHANGED alarmVars => UNCHANGED Timer!vars
    BY DEF alarmVars, Timer!vars, Timer!timer, Timer!call, Timer!told
  <2> QED BY <2>1 DEF MCNext
<1> QED BY <1>1, <1>2, PTL DEF MCSpec, Timer!Spec

\* The invariant of the alarm is inductive.
THEOREM AlarmInvariantHolds == Timer!Spec => []AlarmInv
<1>1. Timer!Init => AlarmInv
  BY AlarmInit
<1>2. AlarmInv /\ [Timer!Next]_(Timer!vars) => AlarmInv'
  <2>1. AlarmInv /\ UNCHANGED Timer!vars => AlarmInv'
    BY DEF AlarmInv, Timer!TypeOK, Timer!Polling, Pending, Arming, Skipped, Timer!vars,
           Timer!timer, Timer!call, Timer!told
  <2> QED BY <2>1, AlarmNext
<1> QED BY <1>1, <1>2, PTL DEF Timer!Spec

\* alarm::poll calls back for every boundary up to its time, once and in order, and never
\* for an arming that was disarmed; but for the first of an arming that the callback of a
\* periodic fire made.
THEOREM AlarmCatchesUp == MCSpec => CatchesUp
<1> DEFINE
  Step ==
    LET skipped == IF late' THEN 1 ELSE 0
        due(k) == first' + (k + skipped) * period'
    IN  /\ Timer!Fires => /\ wanted
                          /\ next' = due(served' - 1) /\ next' <= polled'
        /\ Timer!PeriodicReturns /\ ~Timer!Polling' /\ armed'
             => served' = Timer!Cardinality({k \in 0..MaxTime : due(k) <= polled})
<1>1. AlarmInv => Timer!TypeOK
  BY DEF AlarmInv
<1>2. AlarmInv /\ [Timer!Next]_(Timer!vars) => [Step]_(Timer!vars)
  <2>1. FireIsDue /\ AllServed => Step
    <3>1. \A S : Timer!Cardinality(S) = Cardinality(S)
      BY DEF Timer!Cardinality, Cardinality
    <3> QED BY <3>1 DEF FireIsDue, AllServed, Due, Skipped
  <2> HIDE DEF Step
  <2> QED BY <2>1, AlarmNext
<1> HIDE DEF Step
<1>3. Timer!Spec => []Timer!TypeOK /\ [][Step]_(Timer!vars)
  BY <1>1, <1>2, AlarmInvariantHolds, PTL DEF Timer!Spec
<1> QED BY <1>3, AlarmAlone, PTL DEF CatchesUp, Timer!CatchesUp, Step
-----------------------------------------------------------------------------
(***************************************************************************)
(* The rotating file: the size of records.                                 *)
(***************************************************************************)
Spots(ln, s) == UNION {{i} \X (1..ln[s[i]]) : i \in 1..Len(s)}
Total(ln, s) == Cardinality(Spots(ln, s))

LEMMA SpotsAre ==
  ASSUME NEW ln, NEW s
  PROVE  \A x : x \in Spots(ln, s) <=> \E i \in 1..Len(s) : x \in {i} \X (1..ln[s[i]])
BY DEF Spots

LEMMA SpotsOfOne ==
  ASSUME NEW i, NEW n \in Nat
  PROVE  IsFiniteSet({i} \X (1..n)) /\ Cardinality({i} \X (1..n)) = n
<1>1. IsFiniteSet({i}) /\ Cardinality({i}) = 1
  BY FS_Singleton
<1>2. 1 \in Int /\ n \in Int
  OBVIOUS
<1>3. IsFiniteSet(1..n) /\ Cardinality(1..n) = IF 1 > n THEN 0 ELSE n - 1 + 1
  BY <1>2, FS_Interval
<1>4. Cardinality(1..n) = n
  BY <1>3
<1>5. IsFiniteSet({i} \X (1..n)) /\ Cardinality({i} \X (1..n)) = Cardinality({i}) * Cardinality(1..n)
  BY <1>1, <1>3, FS_Product
<1> QED BY <1>1, <1>4, <1>5

LEMMA TotalType ==
  ASSUME NEW D, NEW s \in Seq(D), NEW ln, \A d \in D : ln[d] \in Nat
  PROVE  IsFiniteSet(Spots(ln, s)) /\ Total(ln, s) \in Nat
<1>1. Len(s) \in Nat /\ \A i \in 1..Len(s) : ln[s[i]] \in Nat
  BY LenProperties, ElementOfSeq
<1> DEFINE T == {{i} \X (1..ln[s[i]]) : i \in 1..Len(s)}
           f == [i \in 1..Len(s) |-> {i} \X (1..ln[s[i]])]
<1>2. f \in Surjection(1..Len(s), T)
  BY DEF Surjection
<1>3. IsFiniteSet(1..Len(s))
  <2>1. 1 \in Int /\ Len(s) \in Int
    BY <1>1
  <2> QED BY <2>1, FS_Interval
<1> HIDE DEF T, f
<1>5. IsFiniteSet(T)
  BY <1>2, <1>3, FS_Surjection
<1>6. \A t \in T : IsFiniteSet(t)
  BY <1>1, SpotsOfOne DEF T
<1>7. IsFiniteSet(UNION T)
  BY <1>5, <1>6, FS_UNION
<1> QED BY <1>7, FS_CardinalityType DEF Spots, Total, T

LEMMA TotalEmpty ==
  ASSUME NEW ln
  PROVE  Total(ln, << >>) = 0
<1>1. Spots(ln, << >>) = {}
  BY DEF Spots
<1> QED BY <1>1, FS_EmptySet DEF Total

LEMMA TotalAppend ==
  ASSUME NEW D, NEW s \in Seq(D), NEW r \in D, NEW ln, \A d \in D : ln[d] \in Nat
  PROVE  Total(ln, Append(s, r)) = Total(ln, s) + ln[r]
<1> DEFINE n == Len(s)
           t == Append(s, r)
           one == {n + 1} \X (1..ln[r])
<1>1. n \in Nat /\ Len(t) = n + 1 /\ t[n + 1] = r /\ \A i \in 1..n : t[i] = s[i]
  BY LenProperties, AppendProperties
<1>2. IsFiniteSet(Spots(ln, s)) /\ Total(ln, s) \in Nat
  BY TotalType
<1>3. IsFiniteSet(one) /\ Cardinality(one) = ln[r]
  BY SpotsOfOne
<1>4. Spots(ln, t) = Spots(ln, s) \cup one
  <2>1. \A i : i \in 1..(n + 1) <=> i \in 1..n \/ i = n + 1
    BY <1>1
  <2> HIDE DEF t, n
  <2>2. \A x : x \in Spots(ln, t) <=> \E i \in 1..(n + 1) : x \in {i} \X (1..ln[t[i]])
    BY <1>1, SpotsAre
  <2>3. \A x : x \in Spots(ln, s) <=> \E i \in 1..n : x \in {i} \X (1..ln[s[i]])
    BY SpotsAre DEF n
  <2>4. \A x : x \in Spots(ln, t) <=> x \in Spots(ln, s) \/ x \in one
    BY <1>1, <2>1, <2>2, <2>3
  <2> QED BY <2>4
<1>5. Spots(ln, s) \cap one = {}
  <2>1. \A x \in Spots(ln, s) : x[1] \in 1..n
    BY SpotsAre
  <2>2. \A x \in one : x[1] = n + 1
    OBVIOUS
  <2> QED BY <1>1, <2>1, <2>2
<1>6. Cardinality(Spots(ln, s) \cap one) = 0
  BY <1>5, FS_EmptySet
<1> HIDE DEF one, t
<1>7. Cardinality(Spots(ln, s) \cup one)
        = Cardinality(Spots(ln, s)) + Cardinality(one) - Cardinality(Spots(ln, s) \cap one)
  BY <1>2, <1>3, FS_Union
<1>8. ln[r] \in Nat
  OBVIOUS
<1> QED BY <1>2, <1>3, <1>4, <1>6, <1>7, <1>8 DEF Total, t

\* What is before a record is no larger with it.
LEMMA TotalPrefix ==
  ASSUME NEW D, NEW s \in Seq(D), NEW t \in Seq(D), NEW ln, \A d \in D : ln[d] \in Nat,
         Len(t) <= Len(s), \A i \in 1..Len(t) : t[i] = s[i]
  PROVE  Total(ln, t) <= Total(ln, s)
<1>1. IsFiniteSet(Spots(ln, s))
  BY TotalType
<1>2. Len(s) \in Nat /\ Len(t) \in Nat
  BY LenProperties
<1>3. Spots(ln, t) \subseteq Spots(ln, s)
  <2>1. \A i \in 1..Len(t) : i \in 1..Len(s) /\ t[i] = s[i]
    BY <1>2
  <2> QED BY <2>1, SpotsAre
<1> QED BY <1>1, <1>3, FS_Subset DEF Total

\* Records have a length.
LEMMA TotalZero ==
  ASSUME NEW D, NEW s \in Seq(D), NEW ln, \A d \in D : ln[d] \in Nat \ {0}, Total(ln, s) = 0
  PROVE  s = << >>
<1>1. IsFiniteSet(Spots(ln, s))
  BY TotalType
<1>2. Spots(ln, s) = {}
  BY <1>1, FS_EmptySet DEF Total
<1> SUFFICES ASSUME s # << >> PROVE FALSE
  OBVIOUS
<1>3. Len(s) \in Nat \ {0}
  BY EmptySeq
<1>4. 1 \in 1..Len(s) /\ s[1] \in D
  BY <1>3, ElementOfSeq
<1>5. 1 \in 1..ln[s[1]]
  BY <1>4
<1>6. <<1, 1>> \in {1} \X (1..ln[s[1]])
  BY <1>5
<1>7. <<1, 1>> \in Spots(ln, s)
  BY <1>4, <1>6, SpotsAre
<1> QED BY <1>2, <1>7

LEMMA TotalSame ==
  ASSUME NEW D, NEW s \in Seq(D), NEW ln, NEW lm, \A d \in D : ln[d] = lm[d]
  PROVE  Total(ln, s) = Total(lm, s)
<1>1. \A i \in 1..Len(s) : ln[s[i]] = lm[s[i]]
  BY ElementOfSeq
<1>2. Spots(ln, s) = Spots(lm, s)
  BY <1>1 DEF Spots
<1> QED BY <1>2 DEF Total

-----------------------------------------------------------------------------
(***************************************************************************)
(* The rotating file: the order of records.                                *)
(***************************************************************************)
Entries(s) == {s[i] : i \in 1..Len(s)}

\* The log of files 0 to m with contents C and the buffer b, as RotatingFile writes it.
Ordered(m, C, b) ==
  /\ \A n \in 0..m : File!Ascend(C[n]) /\ File!Before(C[n], b)
  /\ \A k, n \in 0..m : k < n => File!Before(C[n], C[k])
  /\ File!Ascend(b)
Records(m, C, b) == (UNION {Entries(C[n]) : n \in 0..m}) \cup Entries(b)

\* A log of records out of S.
LogOf(S, m, C, b) ==
  /\ S \subseteq Nat /\ m \in Nat /\ C \in [0..m -> Seq(S)] /\ b \in Seq(S)
  /\ Ordered(m, C, b)

With(f, k, v) == [f EXCEPT ![k] = v]

LEMMA EntriesAre ==
  ASSUME NEW s
  PROVE  \A x : x \in Entries(s) <=> \E i \in 1..Len(s) : x = s[i]
BY DEF Entries

LEMMA RecordsAre ==
  ASSUME NEW m, NEW C, NEW b
  PROVE  \A x : x \in Records(m, C, b) <=> x \in Entries(b) \/ \E n \in 0..m : x \in Entries(C[n])
BY DEF Records

LEMMA BeforeEntries ==
  ASSUME NEW s, NEW t
  PROVE  File!Before(s, t) <=> \A x \in Entries(s), y \in Entries(t) : x < y
BY DEF File!Before, Entries

\* A list in two parts.
LEMMA Cut ==
  ASSUME NEW S, NEW h \in Seq(S), NEW n \in 0..Len(h)
  PROVE  /\ SubSeq(h, 1, n) \in Seq(S) /\ SubSeq(h, n + 1, Len(h)) \in Seq(S)
         /\ Len(SubSeq(h, 1, n)) = n /\ Len(SubSeq(h, n + 1, Len(h))) = Len(h) - n
         /\ \A i \in 1..n : SubSeq(h, 1, n)[i] = h[i]
         /\ \A i \in 1..Len(h) - n : SubSeq(h, n + 1, Len(h))[i] = h[n + i]
         /\ \A c \in Seq(S) : (c \o SubSeq(h, 1, n)) \o SubSeq(h, n + 1, Len(h)) = c \o h
<1> DEFINE u == SubSeq(h, 1, n)
           v == SubSeq(h, n + 1, Len(h))
<1>1. Len(h) \in Nat /\ n \in Int /\ n + 1 \in Int /\ 1 \in Int /\ n <= Len(h)
  BY LenProperties
<1>2. \A i \in 1..n : h[i] \in S
  BY <1>1, ElementOfSeq
<1>3. \A i \in n + 1..Len(h) : h[i] \in S
  BY <1>1, ElementOfSeq
<1>4. /\ u \in Seq(S) /\ Len(u) = (IF 1 <= n THEN n - 1 + 1 ELSE 0)
      /\ \A i \in 1..n - 1 + 1 : u[i] = h[1 + i - 1]
  BY <1>1, <1>2, SubSeqProperties
<1>5. /\ v \in Seq(S) /\ Len(v) = (IF n + 1 <= Len(h) THEN Len(h) - (n + 1) + 1 ELSE 0)
      /\ \A i \in 1..Len(h) - (n + 1) + 1 : v[i] = h[n + 1 + i - 1]
  BY <1>1, <1>3, SubSeqProperties
<1> HIDE DEF u, v
<1>6. Len(u) = n /\ Len(v) = Len(h) - n
  BY <1>1, <1>4, <1>5
<1>7. \A i \in 1..n : u[i] = h[i]
  BY <1>1, <1>4
<1>8. \A i \in 1..Len(h) - n : v[i] = h[n + i]
  BY <1>1, <1>5
<1>9. ASSUME NEW c \in Seq(S) PROVE (c \o u) \o v = c \o h
  <2>1. (c \o u) \o v = c \o (u \o v)
    BY <1>4, <1>5, ConcatAssociative
  <2>2. Len(u \o v) = Len(h) /\ u \o v \in Seq(S)
    <3>1. u \o v \in Seq(S) /\ Len(u \o v) = Len(u) + Len(v)
      BY <1>4, <1>5, ConcatProperties
    <3> QED BY <1>1, <1>6, <3>1
  <2>3. \A i \in 1..Len(h) : (u \o v)[i] = h[i]
    <3> SUFFICES ASSUME NEW i \in 1..Len(h) PROVE (u \o v)[i] = h[i]
      OBVIOUS
    <3>1. (u \o v)[i] = IF i <= n THEN u[i] ELSE v[i - n]
      BY <1>1, <1>4, <1>5, <1>6, ConcatProperties
    <3>2. CASE i <= n
      BY <1>1, <1>7, <3>1, <3>2
    <3>3. CASE ~(i <= n)
      <4>1. i - n \in 1..Len(h) - n /\ n + (i - n) = i
        BY <1>1, <3>3
      <4> QED BY <1>8, <3>1, <3>3, <4>1
    <3> QED BY <3>2, <3>3
  <2>4. u \o v = h
    BY <2>2, <2>3, SeqEqual
  <2> QED BY <2>1, <2>4
<1> QED BY <1>4, <1>5, <1>6, <1>7, <1>8, <1>9 DEF u, v

\* The first n of what is held go to the end of the active file.
LEMMA WriteThrough ==
  ASSUME NEW S, NEW m, NEW C, NEW h, LogOf(S, m, C, h), NEW n \in 0..Len(h)
  PROVE  LET D == With(C, 0, C[0] \o SubSeq(h, 1, n))
             b == SubSeq(h, n + 1, Len(h))
         IN  LogOf(S, m, D, b) /\ Records(m, D, b) = Records(m, C, h)
<1>0. S \subseteq Nat /\ m \in Nat /\ C \in [0..m -> Seq(S)] /\ h \in Seq(S) /\ Ordered(m, C, h)
  BY DEF LogOf
<1> DEFINE u == SubSeq(h, 1, n)
           b == SubSeq(h, n + 1, Len(h))
           D == [C EXCEPT ![0] = @ \o u]
           d == C[0] \o u
<1>1. /\ u \in Seq(S) /\ b \in Seq(S) /\ Len(u) = n /\ Len(b) = Len(h) - n
      /\ \A i \in 1..n : u[i] = h[i]
      /\ \A i \in 1..Len(h) - n : b[i] = h[n + i]
  BY <1>0, Cut
<1>2. Len(h) \in Nat /\ n \in Nat /\ n <= Len(h)
  <2>1. Len(h) \in Nat
    BY <1>0, LenProperties
  <2> QED BY <2>1
<1>3. 0 \in 0..m /\ C[0] \in Seq(S) /\ Len(C[0]) \in Nat
  BY <1>0, LenProperties
<1> HIDE DEF u, b
<1>4. /\ Len(d) = Len(C[0]) + n
      /\ \A i \in 1..Len(C[0]) + n : d[i] = IF i <= Len(C[0]) THEN C[0][i] ELSE h[i - Len(C[0])]
  <2>1. /\ Len(d) = Len(C[0]) + Len(u)
        /\ \A i \in 1..Len(C[0]) + Len(u) : d[i] = IF i <= Len(C[0]) THEN C[0][i] ELSE u[i - Len(C[0])]
    BY <1>1, <1>3, ConcatProperties
  <2>2. \A i \in 1..Len(C[0]) + n : ~(i <= Len(C[0])) => i - Len(C[0]) \in 1..n
    BY <1>2, <1>3
  <2> QED BY <1>1, <2>1, <2>2
<1>5. D[0] = d /\ \A k \in 0..m : k # 0 => D[k] = C[k]
  BY <1>0, <1>3
<1> HIDE DEF D, d
<1>6. Entries(h) = Entries(u) \cup Entries(b)
  <2>1. \A x : x \in Entries(h) => x \in Entries(u) \cup Entries(b)
    <3> SUFFICES ASSUME NEW i \in 1..Len(h) PROVE h[i] \in Entries(u) \cup Entries(b)
      BY DEF Entries
    <3>1. CASE i <= n
      BY <1>1, <1>2, <3>1 DEF Entries
    <3>2. CASE ~(i <= n)
      <4>1. i - n \in 1..Len(h) - n /\ n + (i - n) = i
        BY <1>2, <3>2
      <4> QED BY <1>1, <4>1 DEF Entries
    <3> QED BY <3>1, <3>2
  <2>2. \A x : x \in Entries(u) \cup Entries(b) => x \in Entries(h)
    <3>1. \A i \in 1..n : i \in 1..Len(h)
      BY <1>2
    <3>2. \A i \in 1..Len(h) - n : n + i \in 1..Len(h)
      BY <1>2
    <3>3. \A i \in 1..n : u[i] \in Entries(h)
      BY <1>1, <3>1 DEF Entries
    <3>4. \A i \in 1..Len(h) - n : b[i] \in Entries(h)
      BY <1>1, <3>2 DEF Entries
    <3>5. \A x \in Entries(u) : x \in Entries(h)
      BY <1>1, <3>3 DEF Entries
    <3>6. \A x \in Entries(b) : x \in Entries(h)
      BY <1>1, <3>4 DEF Entries
    <3> QED BY <3>5, <3>6
  <2> QED BY <2>1, <2>2
<1>7. Entries(d) = Entries(C[0]) \cup Entries(u)
  <2>1. \A x : x \in Entries(d) => x \in Entries(C[0]) \cup Entries(u)
    <3> SUFFICES ASSUME NEW i \in 1..Len(C[0]) + n PROVE d[i] \in Entries(C[0]) \cup Entries(u)
      BY <1>4, EntriesAre
    <3>1. CASE i <= Len(C[0])
      BY <1>3, <1>4, <3>1, EntriesAre
    <3>2. CASE ~(i <= Len(C[0]))
      <4>1. i - Len(C[0]) \in 1..n
        BY <1>2, <1>3, <3>2
      <4> QED BY <1>1, <1>4, <3>2, <4>1, EntriesAre
    <3> QED BY <3>1, <3>2
  <2>2. \A i \in 1..Len(C[0]) : i \in 1..Len(C[0]) + n /\ d[i] = C[0][i]
    BY <1>2, <1>3, <1>4
  <2>3. \A i \in 1..n : Len(C[0]) + i \in 1..Len(C[0]) + n /\ d[Len(C[0]) + i] = u[i]
    <3> SUFFICES ASSUME NEW i \in 1..n
                 PROVE  Len(C[0]) + i \in 1..Len(C[0]) + n /\ d[Len(C[0]) + i] = u[i]
      OBVIOUS
    <3>1. Len(C[0]) + i \in 1..Len(C[0]) + n /\ ~(Len(C[0]) + i <= Len(C[0]))
          /\ (Len(C[0]) + i) - Len(C[0]) = i
      BY <1>2, <1>3
    <3> QED BY <1>1, <1>4, <3>1
  <2>4. \A x : x \in Entries(C[0]) \cup Entries(u) => x \in Entries(d)
    <3>1. \A i \in 1..Len(C[0]) : C[0][i] \in Entries(d)
      BY <1>4, <2>2 DEF Entries
    <3>2. \A i \in 1..n : u[i] \in Entries(d)
      BY <1>4, <2>3 DEF Entries
    <3>3. \A x \in Entries(C[0]) : x \in Entries(d)
      BY <3>1 DEF Entries
    <3>4. \A x \in Entries(u) : x \in Entries(d)
      BY <1>1, <3>2 DEF Entries
    <3> QED BY <3>3, <3>4
  <2> QED BY <2>1, <2>4
<1>8. Records(m, D, b) = Records(m, C, h)
  <2>1. ASSUME NEW x PROVE (\E k \in 0..m : x \in Entries(D[k])) <=>
                             (\E k \in 0..m : x \in Entries(C[k])) \/ x \in Entries(u)
    BY <1>3, <1>5, <1>7
  <2>2. ASSUME NEW x PROVE x \in Entries(h) <=> x \in Entries(u) \/ x \in Entries(b)
    BY <1>6
  <2>3. ASSUME NEW x PROVE x \in Records(m, D, b) <=> x \in Records(m, C, h)
    <3>1. x \in Records(m, D, b) <=> x \in Entries(b) \/ \E k \in 0..m : x \in Entries(D[k])
      BY RecordsAre
    <3>2. x \in Records(m, C, h) <=> x \in Entries(h) \/ \E k \in 0..m : x \in Entries(C[k])
      BY RecordsAre
    <3> QED BY <2>1, <2>2, <3>1, <3>2
  <2> QED BY <2>3
<1>9. File!Ascend(b)
  <2> SUFFICES ASSUME NEW i \in 1..Len(h) - n, NEW j \in 1..Len(h) - n, i < j PROVE b[i] < b[j]
    BY <1>1 DEF File!Ascend
  <2>1. n + i < n + j /\ n + i \in 1..Len(h) /\ n + j \in 1..Len(h)
    BY <1>2
  <2> QED BY <1>0, <1>1, <2>1 DEF Ordered, File!Ascend
<1>10. File!Ascend(d)
  <2> SUFFICES ASSUME NEW i \in 1..Len(C[0]) + n, NEW j \in 1..Len(C[0]) + n, i < j
               PROVE  d[i] < d[j]
    BY <1>4 DEF File!Ascend
  <2> DEFINE l == Len(C[0])
  <2>0. l \in Nat /\ n \in Nat /\ i \in Nat /\ j \in Nat /\ n <= Len(h)
    BY <1>2, <1>3
  <2>1. d[i] = IF i <= l THEN C[0][i] ELSE h[i - l]
    BY <1>4
  <2>2. d[j] = IF j <= l THEN C[0][j] ELSE h[j - l]
    BY <1>4
  <2>3. CASE j <= l
    <3>1. i \in 1..l /\ j \in 1..l
      BY <2>0, <2>3
    <3> QED BY <1>0, <1>3, <2>1, <2>2, <2>3, <3>1 DEF Ordered, File!Ascend
  <2>4. CASE i <= l /\ ~(j <= l)
    <3>1. i \in 1..l /\ j - l \in 1..Len(h)
      BY <1>2, <2>0, <2>4
    <3> QED BY <1>0, <1>3, <2>1, <2>2, <2>4, <3>1 DEF Ordered, File!Before
  <2>5. CASE ~(i <= l)
    <3>1. i - l \in 1..Len(h) /\ j - l \in 1..Len(h) /\ i - l < j - l /\ ~(j <= l)
      BY <1>2, <2>0, <2>5
    <3> QED BY <1>0, <2>1, <2>2, <2>5, <3>1 DEF Ordered, File!Ascend
  <2> QED BY <2>0, <2>3, <2>4, <2>5
<1>11. File!Before(u, b)
  <2>1. \A i \in 1..n, j \in 1..Len(h) - n : i \in 1..Len(h) /\ n + j \in 1..Len(h) /\ i < n + j
    BY <1>2
  <2> QED BY <1>0, <1>1, <2>1 DEF Ordered, File!Ascend, File!Before
<1>12. ASSUME NEW k \in 0..m PROVE File!Ascend(D[k]) /\ File!Before(D[k], b)
  <2>1. File!Before(C[k], b) /\ File!Ascend(C[k])
    BY <1>0, <1>6, BeforeEntries DEF Ordered
  <2> QED BY <1>5, <1>7, <1>10, <1>11, <2>1, BeforeEntries
<1>13. ASSUME NEW k \in 0..m, NEW l \in 0..m, k < l PROVE File!Before(D[l], D[k])
  <2>1. l # 0 /\ D[l] = C[l] /\ File!Before(C[l], C[k]) /\ File!Before(C[l], u)
    BY <1>0, <1>5, <1>6, <1>13, BeforeEntries DEF Ordered
  <2> QED BY <1>5, <1>7, <2>1, BeforeEntries
<1>14. Ordered(m, D, b)
  BY <1>9, <1>12, <1>13 DEF Ordered
<1>15. D \in [0..m -> Seq(S)]
  <2>1. d \in Seq(S)
    BY <1>1, <1>3, ConcatProperties DEF d
  <2> QED BY <1>0, <1>3, <2>1 DEF D, d
<1>16. D = With(C, 0, C[0] \o u)
  BY DEF D, With
<1> HIDE DEF D
<1> QED BY <1>0, <1>1, <1>8, <1>14, <1>15, <1>16 DEF u, b, LogOf

\* The next record is held.
LEMMA Hold ==
  ASSUME NEW S, NEW m, NEW C, NEW b, LogOf(S, m, C, b),
         NEW r \in S, \A x \in Records(m, C, b) : x < r
  PROVE  LogOf(S, m, C, Append(b, r)) /\ Records(m, C, Append(b, r)) = Records(m, C, b) \cup {r}
<1>0. S \subseteq Nat /\ m \in Nat /\ C \in [0..m -> Seq(S)] /\ b \in Seq(S) /\ Ordered(m, C, b)
  BY DEF LogOf
<1> DEFINE h == Append(b, r)
<1>1. /\ Len(b) \in Nat /\ Len(h) = Len(b) + 1 /\ h[Len(b) + 1] = r
      /\ \A i \in 1..Len(b) : h[i] = b[i]
  BY <1>0, LenProperties, AppendProperties
<1>2. \A i : i \in 1..Len(b) + 1 <=> i \in 1..Len(b) \/ i = Len(b) + 1
  BY <1>1
<1> HIDE DEF h
<1>3. Entries(h) = Entries(b) \cup {r}
  <2>1. \A x : x \in Entries(h) <=> x \in Entries(b) \cup {r}
    BY <1>1, <1>2 DEF Entries
  <2> QED BY <2>1
<1>4. Records(m, C, h) = Records(m, C, b) \cup {r}
  <2>1. \A x : x \in Records(m, C, h) <=> x \in Records(m, C, b) \cup {r}
    BY <1>3, RecordsAre
  <2> QED BY <2>1
<1>5. \A n \in 0..m : File!Before(C[n], h)
  <2> SUFFICES ASSUME NEW n \in 0..m PROVE File!Before(C[n], h)
    OBVIOUS
  <2>1. \A x \in Entries(C[n]) : x < r
    BY RecordsAre
  <2>2. \A x \in Entries(C[n]), y \in Entries(b) : x < y
    BY <1>0, BeforeEntries DEF Ordered
  <2> QED BY <1>3, <2>1, <2>2, BeforeEntries
<1>6. File!Ascend(h)
  <2> SUFFICES ASSUME NEW i \in 1..Len(b) + 1, NEW j \in 1..Len(b) + 1, i < j PROVE h[i] < h[j]
    BY <1>1 DEF File!Ascend
  <2>1. i \in 1..Len(b)
    BY <1>0, <1>1
  <2>2. CASE j \in 1..Len(b)
    BY <1>0, <1>1, <2>1, <2>2 DEF Ordered, File!Ascend
  <2>3. CASE j = Len(b) + 1
    <3>1. b[i] \in Records(m, C, b)
      BY <2>1, EntriesAre, RecordsAre
    <3> QED BY <1>1, <2>1, <2>3, <3>1
  <2> QED BY <1>2, <2>2, <2>3
<1>7. Ordered(m, C, h)
  BY <1>0, <1>5, <1>6 DEF Ordered
<1>8. h \in Seq(S)
  BY <1>0, AppendProperties DEF h
<1> QED BY <1>0, <1>4, <1>7, <1>8 DEF h, LogOf

\* A file is deleted.
LEMMA Delete ==
  ASSUME NEW m \in Nat, NEW C, DOMAIN C = 0..m, NEW b, NEW k \in 0..m, Ordered(m, C, b)
  PROVE  LET D == With(C, k, << >>)
         IN  /\ Ordered(m, D, b) /\ Records(m, D, b) \subseteq Records(m, C, b)
             /\ Records(m, C, b) \ Records(m, D, b) \subseteq Entries(C[k])
<1> DEFINE D == With(C, k, << >>)
<1>1. D[k] = << >> /\ \A n \in 0..m : n # k => D[n] = C[n]
  BY DEF With
<1> HIDE DEF D
<1>2. Entries(<< >>) = {} /\ File!Ascend(<< >>)
  BY DEF Entries, File!Ascend
<1>3. Ordered(m, D, b)
  <2>1. \A n \in 0..m : Entries(D[n]) \subseteq Entries(C[n]) /\ File!Ascend(D[n])
    BY <1>1, <1>2 DEF Ordered
  <2> QED BY <2>1, BeforeEntries DEF Ordered
<1>4. \A x \in Records(m, C, b) : x \in Records(m, D, b) \/ x \in Entries(C[k])
  BY <1>1, RecordsAre
<1>5. \A x \in Records(m, D, b) : x \in Records(m, C, b)
  BY <1>1, <1>2, RecordsAre
<1> QED BY <1>3, <1>4, <1>5 DEF D

\* A file takes the place of the next older one.
LEMMA Rename ==
  ASSUME NEW m \in Nat, NEW C, DOMAIN C = 0..m, NEW b, NEW k \in 1..m, Ordered(m, C, b)
  PROVE  LET D == With(With(C, k, C[k - 1]), k - 1, << >>)
         IN  /\ Ordered(m, D, b) /\ Records(m, D, b) \subseteq Records(m, C, b)
             /\ Records(m, C, b) \ Records(m, D, b) \subseteq Entries(C[k])
<1> DEFINE D == With(With(C, k, C[k - 1]), k - 1, << >>)
<1>0. k \in 0..m /\ k - 1 \in 0..m /\ k - 1 # k /\ k - 1 < k /\ k \in Nat
  OBVIOUS
<1>1. D[k] = C[k - 1] /\ D[k - 1] = << >> /\ \A n \in 0..m : n # k /\ n # k - 1 => D[n] = C[n]
  BY <1>0 DEF With
<1> HIDE DEF D
<1>2. Entries(<< >>) = {} /\ File!Ascend(<< >>)
  BY DEF Entries, File!Ascend
<1>3. \A n \in 0..m : File!Ascend(D[n]) /\ File!Before(D[n], b)
  BY <1>0, <1>1, <1>2, BeforeEntries DEF Ordered
<1>4. ASSUME NEW l \in 0..m, NEW n \in 0..m, l < n PROVE File!Before(D[n], D[l])
  <2>1. CASE n = k - 1 \/ l = k - 1
    BY <1>1, <1>2, <2>1, BeforeEntries
  <2>2. CASE n # k - 1 /\ l # k - 1
    <3>1. CASE n = k
      <4>1. l < k - 1
        BY <1>0, <1>4, <2>2, <3>1
      <4> QED BY <1>0, <1>1, <2>2, <3>1, <4>1 DEF Ordered
    <3>2. CASE l = k
      <4>1. k - 1 < n /\ n # k
        BY <1>0, <1>4, <3>2
      <4> QED BY <1>0, <1>1, <2>2, <3>2, <4>1 DEF Ordered
    <3>3. CASE n # k /\ l # k
      BY <1>1, <1>4, <2>2, <3>3 DEF Ordered
    <3> QED BY <3>1, <3>2, <3>3
  <2> QED BY <2>1, <2>2
<1>5. Ordered(m, D, b)
  BY <1>3, <1>4 DEF Ordered
<1>6. \A x \in Records(m, C, b) : x \in Records(m, D, b) \/ x \in Entries(C[k])
  <2> SUFFICES ASSUME NEW x \in Records(m, C, b), x \notin Entries(C[k]) PROVE x \in Records(m, D, b)
    OBVIOUS
  <2>1. CASE x \in Entries(b)
    BY <2>1, RecordsAre
  <2>2. CASE \E n \in 0..m : x \in Entries(C[n])
    <3>1. PICK n \in 0..m : x \in Entries(C[n])
      BY <2>2
    <3>2. n = k - 1 => x \in Entries(D[k])
      BY <1>1, <3>1
    <3>3. n # k - 1 => x \in Entries(D[n])
      BY <1>1, <3>1
    <3> QED BY <1>0, <3>2, <3>3, RecordsAre
  <2> QED BY <2>1, <2>2, RecordsAre
<1>7. \A x \in Records(m, D, b) : x \in Records(m, C, b)
  <2>1. \A n \in 0..m : Entries(D[n]) \subseteq Entries(C[n]) \/ Entries(D[n]) \subseteq Entries(C[k - 1])
    BY <1>1, <1>2
  <2> QED BY <1>0, <2>1, RecordsAre
<1> QED BY <1>5, <1>6, <1>7 DEF D

\* What is held is lost.
LEMMA Lose ==
  ASSUME NEW m, NEW C, NEW b, Ordered(m, C, b)
  PROVE  Ordered(m, C, << >>) /\ Records(m, C, b) \ Records(m, C, << >>) \subseteq Entries(b)
<1>1. Entries(<< >>) = {} /\ File!Ascend(<< >>)
  BY DEF Entries, File!Ascend
<1>2. Ordered(m, C, << >>)
  BY <1>1, BeforeEntries DEF Ordered
<1>3. \A x \in Records(m, C, b) : x \in Records(m, C, << >>) \/ x \in Entries(b)
  BY RecordsAre
<1> QED BY <1>2, <1>3


-----------------------------------------------------------------------------
(***************************************************************************)
(* The rotating file: the inductive invariant.                             *)
(***************************************************************************)
NoFile == File!NoFile
Numbers == 1..Len(lengths)

\* What is in the files; one that is not there has nothing.
ContentsOf(m, d) == [n \in 0..m |-> IF d[n] = NoFile THEN << >> ELSE d[n]]
Contents == ContentsOf(maxFiles, disk)

FileTyped == File!TypeOK /\ disk \in [0..maxFiles -> Seq(Numbers) \cup {NoFile}]

\* The file is open outside rotations only, and then it exists.
Handled ==
  /\ open => pc \in {"idle", "written"} /\ disk[0] # NoFile
  /\ pc = "shift" => shift \in 1..maxFiles
  /\ pc = "written" => incoming # 0 /\ buffer = << >>

\* The record that waits for its rotation is the last one.
Awaited ==
  pc \notin {"down", "idle"} /\ incoming # 0 =>
    incoming = Len(lengths) /\ \A r \in Records(maxFiles, Contents, buffer) : r < incoming

\* Unless an operation failed, a file is moved to where none is.
Vacated == pc = "shift" /\ ~failed => disk[shift] = NoFile

Sized == open => size = Total(lengths, Contents[0] \o buffer)

\* Without failures a rotation leaves no active file behind.
SmallOf(ln, s) == Total(ln, s) <= MaxBytes \/ Len(s) = 1
Fitting ==
  faults = 0 =>
    /\ \A n \in 0..maxFiles : SmallOf(lengths, Contents[n])
    /\ open => SmallOf(lengths, Contents[0] \o buffer)
    /\ pc = "reopen" => disk[0] = NoFile
    /\ pc = "written" => Contents[0] = << >>

FileInv ==
  /\ FileTyped /\ Handled /\ Awaited /\ Vacated /\ Sized /\ Fitting
  /\ Ordered(maxFiles, Contents, buffer)

\* What RollsForward says of a step.
Kept ==
  failed' \/ Records(maxFiles, Contents, buffer) \ Records(maxFiles', Contents', buffer')
               \subseteq Entries(Contents[maxFiles])
                           \cup (IF File!Crash THEN Entries(buffer) ELSE {})

LEMMA FileIsReal ==
  ASSUME NEW n \in Nat
  PROVE  NoFile \notin Seq(1..n) /\ << >> # NoFile
<1>1. NoFile = <<0>>
  BY DEF NoFile, File!NoFile, File!NoRecord
<1>2. NoFile \notin Seq(1..n)
  <2> SUFFICES ASSUME NoFile \in Seq(1..n) PROVE FALSE
    OBVIOUS
  <2>1. Len(NoFile) = 1 /\ NoFile[1] = 0
    BY <1>1
  <2>2. 1 \in 1..Len(NoFile)
    BY <2>1
  <2>3. NoFile[1] \in 1..n
    BY <2>2, ElementOfSeq
  <2> QED BY <2>1, <2>3
<1> QED BY <1>1, <1>2

LEMMA FileFacts ==
  ASSUME FileTyped
  PROVE  /\ maxFiles \in Nat /\ Len(lengths) \in Nat /\ 0 \in 0..maxFiles /\ maxFiles \in 0..maxFiles
         /\ \A r \in Numbers : lengths[r] \in Nat \ {0}
         /\ disk \in [0..maxFiles -> Seq(Numbers) \cup {NoFile}]
         /\ Contents \in [0..maxFiles -> Seq(Numbers)] /\ buffer \in Seq(Numbers)
         /\ \A n \in 0..maxFiles : Contents[n] = IF disk[n] = NoFile THEN << >> ELSE disk[n]
         /\ Numbers \subseteq Nat /\ 0 \notin Numbers
<1>1. maxFiles \in Nat /\ buffer \in Seq(Numbers) /\ lengths \in Seq(Lengths)
  BY FileAssumed DEF FileTyped, File!TypeOK, File!RotatingFileAssumption, Numbers
<1>2. Len(lengths) \in Nat /\ \A r \in Numbers : lengths[r] \in Lengths
  BY <1>1, LenProperties, ElementOfSeq DEF Numbers
<1>3. Lengths \subseteq Nat \ {0}
  BY FileAssumed DEF File!RotatingFileAssumption
<1>4. \A n \in 0..maxFiles : Contents[n] = IF disk[n] = NoFile THEN << >> ELSE disk[n]
  BY DEF Contents, ContentsOf
<1>5. Contents \in [0..maxFiles -> Seq(Numbers)]
  <2>1. << >> \in Seq(Numbers)
    BY EmptySeq
  <2>2. \A n \in 0..maxFiles : disk[n] \in Seq(Numbers) \cup {NoFile}
    BY DEF FileTyped
  <2> QED BY <2>1, <2>2 DEF Contents, ContentsOf
<1>6. Numbers \subseteq Nat /\ 0 \notin Numbers
  BY <1>2 DEF Numbers
<1>7. \A r \in Numbers : lengths[r] \in Nat \ {0}
  BY <1>2, <1>3
<1>8. disk \in [0..maxFiles -> Seq(Numbers) \cup {NoFile}]
  BY DEF FileTyped
<1>9. 0 \in 0..maxFiles /\ maxFiles \in 0..maxFiles
  BY <1>1
<1>10. Len(lengths) \in Nat
  BY <1>2
<1> QED BY <1>1, <1>4, <1>5, <1>6, <1>7, <1>8, <1>9, <1>10

\* What the properties of RotatingFile say in these terms.
LEMMA FileTerms ==
  ASSUME FileTyped
  PROVE  /\ \A n \in 0..maxFiles : File!Content(n) = Contents[n]
         /\ File!Chronological <=> Ordered(maxFiles, Contents, buffer)
         /\ File!Logged = Records(maxFiles, Contents, buffer)
         /\ \A s \in Seq(Numbers) : File!Ext!ToSet(s) = Entries(s)
         /\ \A s : File!Bytes(s) = Total(lengths, s)
<1>1. /\ \A n \in 0..maxFiles : Contents[n] = IF disk[n] = NoFile THEN << >> ELSE disk[n]
      /\ Contents \in [0..maxFiles -> Seq(Numbers)] /\ buffer \in Seq(Numbers)
  BY FileFacts
<1>2. \A n \in 0..maxFiles : File!Content(n) = Contents[n]
  BY <1>1 DEF File!Content, NoFile
<1>3. File!Chronological <=> Ordered(maxFiles, Contents, buffer)
  BY <1>2 DEF File!Chronological, Ordered, File!Files
<1>4. \A s \in Seq(Numbers) : File!Ext!ToSet(s) = Entries(s)
  BY LenProperties DEF File!Ext!ToSet, Entries
<1>5. File!Logged = Records(maxFiles, Contents, buffer)
  <2>1. \A n \in 0..maxFiles : File!Ext!ToSet(File!Content(n)) = Entries(Contents[n])
    BY <1>1, <1>2, <1>4
  <2>2. File!Ext!ToSet(buffer) = Entries(buffer)
    BY <1>1, <1>4
  <2>3. {File!Ext!ToSet(File!Content(n)) : n \in 0..maxFiles} = {Entries(Contents[n]) : n \in 0..maxFiles}
    BY <2>1
  <2> QED BY <2>2, <2>3 DEF File!Logged, Records, File!Files
<1>6. \A s : File!Bytes(s) = Total(lengths, s)
  <2>1. \A S : File!Cardinality(S) = Cardinality(S)
    BY DEF File!Cardinality, Cardinality
  <2> QED BY <2>1 DEF File!Bytes, Total, Spots
<1> QED BY <1>2, <1>3, <1>4, <1>5, <1>6

\* A disk with files 0 to m of the records 1 to n.
DiskOf(m, n, d) == m \in Nat /\ n \in Nat /\ d \in [0..m -> Seq(1..n) \cup {NoFile}]

LEMMA StoredOf ==
  ASSUME NEW m, NEW n, NEW d, DiskOf(m, n, d), NEW k \in 0..m, NEW v \in Seq(1..n) \cup {NoFile}
  PROVE  /\ DiskOf(m, n, With(d, k, v))
         /\ ContentsOf(m, With(d, k, v)) = With(ContentsOf(m, d), k, IF v = NoFile THEN << >> ELSE v)
BY DEF ContentsOf, DiskOf, With

\* What a step must leave for its variables to have their types.
LEMMA FileTypes ==
  ASSUME FileTyped, maxFiles' = maxFiles, lengths' \in Seq(Lengths), Len(lengths') <= MaxRecords,
         disk' \in [0..maxFiles -> Seq(1..Len(lengths')) \cup {NoFile}],
         buffer' \in Seq(1..Len(lengths')), buffer' # << >> => open', open' \in BOOLEAN, size' \in Nat,
         pc' \in {"down", "idle", "remove", "shift", "reopen", "written"},
         shift' \in 0..maxFiles, incoming' \in 0..Len(lengths'), failed' \in BOOLEAN,
         rotations' \in 0..MaxRotations, faults' \in 0..MaxFaults
  PROVE  FileTyped'
<1>1. NoFile' = NoFile /\ NoFile = File!NoFile /\ Numbers' = 1..Len(lengths')
  BY DEF Numbers, NoFile, File!NoFile, File!NoRecord
<1>2. \A n \in 0..maxFiles : disk'[n] = File!NoFile \/ disk'[n] \in Seq(1..Len(lengths'))
  BY <1>1
<1>3. maxFiles \in 0..MaxBackups
  BY DEF FileTyped, File!TypeOK
<1>4. File!TypeOK'
  BY <1>2, <1>3 DEF File!TypeOK, File!Files, File!NoFile, File!NoRecord
<1> QED BY <1>1, <1>4 DEF FileTyped

-----------------------------------------------------------------------------
(***************************************************************************)
(* The rotating file: every step keeps the invariant.                      *)
(***************************************************************************)
\* A record more: the ones before it keep their lengths.
LEMMA Grown ==
  ASSUME FileTyped, NEW length \in Lengths, Len(lengths) < MaxRecords, lengths' = Append(lengths, length)
  PROVE  /\ lengths' \in Seq(Lengths) /\ Len(lengths') = Len(lengths) + 1 /\ Len(lengths') <= MaxRecords
         /\ lengths'[Len(lengths')] = length /\ \A r \in Numbers : lengths'[r] = lengths[r]
<1>1. lengths \in Seq(Lengths) /\ Len(lengths) \in Nat /\ MaxRecords \in Nat
  BY FileFacts, FileAssumed DEF FileTyped, File!TypeOK, File!RotatingFileAssumption
<1>2. /\ Append(lengths, length) \in Seq(Lengths) /\ Len(Append(lengths, length)) = Len(lengths) + 1
      /\ Append(lengths, length)[Len(lengths) + 1] = length
      /\ \A i \in 1..Len(lengths) : Append(lengths, length)[i] = lengths[i]
  BY <1>1, AppendProperties
<1> QED BY <1>1, <1>2 DEF Numbers

\* Longer lists of lengths know the records of shorter ones.
LEMMA Known ==
  ASSUME FileTyped, NEW ln \in Seq(Lengths), Len(lengths) <= Len(ln),
         \A r \in Numbers : ln[r] = lengths[r]
  PROVE  /\ Len(ln) \in Nat /\ \A r \in 1..Len(ln) : ln[r] \in Nat \ {0}
         /\ Numbers \subseteq 1..Len(ln) /\ Seq(Numbers) \subseteq Seq(1..Len(ln))
         /\ \A s \in Seq(Numbers) : Total(ln, s) = Total(lengths, s)
                                    /\ (SmallOf(ln, s) <=> SmallOf(lengths, s))
<1>1. Len(ln) \in Nat /\ \A r \in 1..Len(ln) : ln[r] \in Lengths
  BY LenProperties, ElementOfSeq
<1>2. Lengths \subseteq Nat \ {0}
  BY FileAssumed DEF File!RotatingFileAssumption
<1>3. Len(lengths) \in Nat
  BY FileFacts
<1>4. Numbers \subseteq 1..Len(ln)
  BY <1>1, <1>3 DEF Numbers
<1>5. \A s \in Seq(Numbers) : s \in Seq(1..Len(ln))
  <2> SUFFICES ASSUME NEW s \in Seq(Numbers) PROVE s \in Seq(1..Len(ln))
    OBVIOUS
  <2>1. Len(s) \in Nat /\ s = [i \in 1..Len(s) |-> s[i]] /\ \A i \in 1..Len(s) : s[i] \in 1..Len(ln)
    BY <1>4, LenProperties, ElementOfSeq
  <2> QED BY <2>1, IsASeq
<1>6. \A s \in Seq(Numbers) : Total(ln, s) = Total(lengths, s)
  <2> SUFFICES ASSUME NEW s \in Seq(Numbers) PROVE Total(ln, s) = Total(lengths, s)
    OBVIOUS
  <2> QED BY TotalSame
<1> QED BY <1>1, <1>2, <1>4, <1>5, <1>6 DEF SmallOf

\* The start of a small file is small.
LEMMA SmallStart ==
  ASSUME NEW D, NEW s \in Seq(D), NEW t \in Seq(D), NEW ln, \A d \in D : ln[d] \in Nat,
         Len(t) <= Len(s), \A i \in 1..Len(t) : t[i] = s[i], SmallOf(ln, s)
  PROVE  SmallOf(ln, t)
<1>1. Len(s) \in Nat /\ Len(t) \in Nat /\ Total(ln, s) \in Nat /\ Total(ln, t) \in Nat
  BY LenProperties, TotalType
<1>2. Total(ln, t) <= Total(ln, s) /\ MaxBytes \in Nat
  BY TotalPrefix, FileAssumed DEF File!RotatingFileAssumption
<1>3. CASE Total(ln, s) <= MaxBytes
  BY <1>1, <1>2, <1>3 DEF SmallOf
<1>4. CASE Len(s) = 1
  <2>1. Len(t) = 0 \/ Len(t) = 1
    BY <1>1, <1>4
  <2>2. CASE Len(t) = 0
    <3>1. t = << >>
      BY <2>2, EmptySeq
    <3> QED BY <1>2, <3>1, TotalEmpty DEF SmallOf
  <2> QED BY <2>1, <2>2 DEF SmallOf
<1> QED BY <1>3, <1>4 DEF SmallOf

LEMMA SmallEmpty ==
  ASSUME NEW ln
  PROVE  SmallOf(ln, << >>)
<1>1. MaxBytes \in Nat
  BY FileAssumed DEF File!RotatingFileAssumption
<1> QED BY <1>1, TotalEmpty DEF SmallOf

LEMMA RecordsAreNumbers ==
  ASSUME FileTyped
  PROVE  \A r \in Records(maxFiles, Contents, buffer) : r \in Numbers
<1>1. \A s \in Seq(Numbers) : \A r \in Entries(s) : r \in Numbers
  BY ElementOfSeq DEF Entries
<1>2. Contents \in [0..maxFiles -> Seq(Numbers)] /\ buffer \in Seq(Numbers)
  BY FileFacts
<1> QED BY <1>1, <1>2, RecordsAre

\* The next record is held, and the first n of what is held go to the active file.
NewHeld(b, r, n) == SubSeq(Append(b, r), n + 1, Len(Append(b, r)))
NewActive(C, b, r, n) == C[0] \o SubSeq(Append(b, r), 1, n)
Active(C, b) == C[0] \o b

CanPut(S, m, C, b, r, n) ==
  /\ LogOf(S, m, C, b) /\ n \in 0..Len(b) + 1
  /\ r \in S /\ \A x \in Records(m, C, b) : x < r

LEMMA PutLists ==
  ASSUME NEW S, NEW m, NEW C, NEW b, NEW r, NEW n, CanPut(S, m, C, b, r, n)
  PROVE  LET rest == NewHeld(b, r, n)
             v == NewActive(C, b, r, n)
         IN  /\ v \in Seq(S) /\ rest \in Seq(S) /\ v \o rest = Append(Active(C, b), r)
             /\ Len(v) <= Len(v \o rest) /\ \A i \in 1..Len(v) : v[i] = (v \o rest)[i]
             /\ LogOf(S, m, With(C, 0, v), rest)
             /\ Records(m, With(C, 0, v), rest) = Records(m, C, b) \cup {r}
<1> DEFINE h == Append(b, r)
           u == SubSeq(h, 1, n)
           rest == SubSeq(h, n + 1, Len(h))
           c == C[0]
           v == c \o u
           D == With(C, 0, C[0] \o u)
<1>0. /\ S \subseteq Nat /\ m \in Nat /\ C \in [0..m -> Seq(S)] /\ b \in Seq(S)
      /\ r \in S /\ n \in 0..Len(b) + 1
  BY DEF CanPut, LogOf
<1>1. h \in Seq(S) /\ Len(h) = Len(b) + 1 /\ Len(b) \in Nat
  BY <1>0, AppendProperties, LenProperties
<1>2. n \in 0..Len(h) /\ c \in Seq(S) /\ 0 \in 0..m
  BY <1>0, <1>1
<1>3. LogOf(S, m, C, h) /\ Records(m, C, h) = Records(m, C, b) \cup {r}
  BY <1>0, Hold DEF CanPut
<1> HIDE DEF h
<1>4. LogOf(S, m, D, rest) /\ Records(m, D, rest) = Records(m, C, h)
  BY <1>2, <1>3, WriteThrough
<1> HIDE DEF c
<1>5. u \in Seq(S) /\ rest \in Seq(S) /\ (c \o u) \o rest = c \o h
  BY <1>1, <1>2, Cut
<1> HIDE DEF u, rest
<1>6. v \in Seq(S) /\ v \o rest = c \o h
  BY <1>2, <1>5, ConcatProperties
<1>7. c \o h = Append(c \o b, r)
  <2>1. c \o b \in Seq(S) /\ << r >> \in Seq(S)
    BY <1>0, <1>2, ConcatProperties
  <2>2. h = b \o << r >>
    BY <1>0, AppendIsConcat DEF h
  <2>3. Append(c \o b, r) = (c \o b) \o << r >>
    BY <2>1, AppendIsConcat
  <2>4. (c \o b) \o << r >> = c \o (b \o << r >>)
    <3>1. c \in Seq(S)
      BY <1>2
    <3>2. b \in Seq(S)
      BY <1>0
    <3>3. << r >> \in Seq(S)
      BY <2>1
    <3> QED BY ONLY <3>1, <3>2, <3>3, ConcatAssociative
  <2> QED BY <2>2, <2>3, <2>4
<1> HIDE DEF v
<1>8. Len(v) <= Len(v \o rest) /\ \A i \in 1..Len(v) : v[i] = (v \o rest)[i]
  <2>1. /\ Len(v \o rest) = Len(v) + Len(rest) /\ Len(v) \in Nat /\ Len(rest) \in Nat
        /\ \A i \in 1..Len(v) + Len(rest) : (v \o rest)[i] = IF i <= Len(v) THEN v[i] ELSE rest[i - Len(v)]
    BY <1>5, <1>6, ConcatProperties, LenProperties
  <2>2. \A i \in 1..Len(v) : i \in 1..Len(v) + Len(rest) /\ i <= Len(v)
    BY <2>1
  <2> QED BY <2>1, <2>2
<1>9. D = With(C, 0, v)
  BY DEF v, c
<1> HIDE DEF D
<1>10. v = NewActive(C, b, r, n) /\ rest = NewHeld(b, r, n) /\ c \o b = Active(C, b)
  BY DEF v, c, u, rest, h, NewActive, NewHeld, Active
<1>11. /\ v \in Seq(S) /\ rest \in Seq(S) /\ v \o rest = Append(c \o b, r)
       /\ Len(v) <= Len(v \o rest) /\ \A i \in 1..Len(v) : v[i] = (v \o rest)[i]
       /\ LogOf(S, m, With(C, 0, v), rest)
       /\ Records(m, With(C, 0, v), rest) = Records(m, C, b) \cup {r}
  BY <1>3, <1>4, <1>5, <1>6, <1>7, <1>8, <1>9
<1> QED BY <1>10, <1>11

\* The conditions under which a write may put its record at the end of the log.
LEMMA PutKeeps ==
  ASSUME FileInv, open, NEW r, NEW length \in Lengths,
         lengths' \in Seq(Lengths), Len(lengths) <= Len(lengths'), Len(lengths') <= MaxRecords,
         \A i \in Numbers : lengths'[i] = lengths[i],
         r \in 1..Len(lengths'), lengths'[r] = length,
         \A x \in Records(maxFiles, Contents, buffer) : x < r,
         faults = 0 => Contents[0] \o buffer = << >> \/ size + length <= MaxBytes,
         File!Put(r, length), pc' = "idle", incoming' \in 0..Len(lengths'),
         UNCHANGED <<maxFiles, shift, failed, rotations>>
  PROVE  FileInv' /\ Kept
<1> DEFINE S == 1..Len(lengths')
           ln == lengths'
           h == Append(buffer, r)
<1>1. /\ maxFiles \in Nat /\ Contents \in [0..maxFiles -> Seq(Numbers)] /\ buffer \in Seq(Numbers)
      /\ \A n \in 0..maxFiles : Contents[n] = IF disk[n] = NoFile THEN << >> ELSE disk[n]
      /\ disk \in [0..maxFiles -> Seq(Numbers) \cup {NoFile}] /\ 0 \in 0..maxFiles
  BY FileFacts DEF FileInv
<1>2. /\ Len(ln) \in Nat /\ \A i \in S : ln[i] \in Nat \ {0}
      /\ Numbers \subseteq S /\ Seq(Numbers) \subseteq Seq(S)
      /\ \A s \in Seq(Numbers) : Total(ln, s) = Total(lengths, s)
                                 /\ (SmallOf(ln, s) <=> SmallOf(lengths, s))
  BY Known DEF FileInv
<1>3. disk[0] # NoFile /\ Contents[0] = disk[0] /\ size = Total(lengths, Contents[0] \o buffer)
  BY <1>1 DEF FileInv, Handled, Sized
<1>4. /\ Contents \in [0..maxFiles -> Seq(S)] /\ buffer \in Seq(S) /\ S \subseteq Nat /\ r \in S
      /\ disk \in [0..maxFiles -> Seq(S) \cup {NoFile}] /\ Contents[0] \in Seq(S)
      /\ Contents[0] \o buffer \in Seq(Numbers)
  <2>1. Contents[0] \o buffer \in Seq(Numbers)
    BY <1>1, ConcatProperties
  <2> QED BY <1>1, <1>2, <2>1
<1>5. PICK n \in 0..Len(buffer) + 1 :
        /\ disk' = [disk EXCEPT ![0] = @ \o SubSeq(Append(buffer, r), 1, n)]
        /\ buffer' = SubSeq(Append(buffer, r), n + 1, Len(Append(buffer, r)))
  BY DEF File!Put
<1>6. size' = size + length /\ open' = open /\ faults' = faults
  BY DEF File!Put
<1> DEFINE v == NewActive(Contents, buffer, r, n)
<1>7. disk' = With(disk, 0, v) /\ buffer' = NewHeld(buffer, r, n)
  BY <1>3, <1>5 DEF With, NewActive, NewHeld
<1>8. LogOf(S, maxFiles, Contents, buffer) /\ \A x \in Records(maxFiles, Contents, buffer) : x < r
  BY <1>1, <1>4 DEF FileInv, LogOf
<1> HIDE DEF S
<1>9. /\ v \in Seq(S) /\ buffer' \in Seq(S) /\ v \o buffer' = Append(Contents[0] \o buffer, r)
      /\ Len(v) <= Len(v \o buffer') /\ \A i \in 1..Len(v) : v[i] = (v \o buffer')[i]
      /\ LogOf(S, maxFiles, With(Contents, 0, v), buffer')
      /\ Records(maxFiles, With(Contents, 0, v), buffer') = Records(maxFiles, Contents, buffer) \cup {r}
  <2>1. CanPut(S, maxFiles, Contents, buffer, r, n)
    BY <1>4, <1>8 DEF CanPut
  <2>2. LET rest == NewHeld(buffer, r, n)
        IN  /\ v \in Seq(S) /\ rest \in Seq(S) /\ v \o rest = Append(Active(Contents, buffer), r)
            /\ Len(v) <= Len(v \o rest) /\ \A i \in 1..Len(v) : v[i] = (v \o rest)[i]
            /\ LogOf(S, maxFiles, With(Contents, 0, v), rest)
            /\ Records(maxFiles, With(Contents, 0, v), rest) = Records(maxFiles, Contents, buffer) \cup {r}
    BY ONLY <2>1, PutLists
  <2>3. Active(Contents, buffer) = Contents[0] \o buffer
    BY DEF Active
  <2> HIDE DEF v
  <2> QED BY <1>7, <2>2, <2>3
<1> HIDE DEF v, ln
<1>10. disk' \in [0..maxFiles -> Seq(S) \cup {NoFile}] /\ Contents' = With(Contents, 0, v)
       /\ NoFile \notin Seq(S) /\ v # NoFile
  <2>1. NoFile' = NoFile
    BY DEF NoFile, File!NoFile, File!NoRecord
  <2>2. NoFile \notin Seq(S) /\ v # NoFile
    BY <1>2, <1>9, FileIsReal DEF S
  <2>3. DiskOf(maxFiles, Len(lengths'), disk) /\ v \in Seq(1..Len(lengths')) \cup {NoFile}
    BY <1>1, <1>2, <1>4, <1>9 DEF S, ln, DiskOf
  <2>4. /\ DiskOf(maxFiles, Len(lengths'), With(disk, 0, v))
        /\ ContentsOf(maxFiles, With(disk, 0, v))
             = With(ContentsOf(maxFiles, disk), 0, IF v = NoFile THEN << >> ELSE v)
    BY <1>1, <2>3, StoredOf
  <2>5. Contents' = ContentsOf(maxFiles, disk')
    BY <2>1 DEF Contents, ContentsOf
  <2> QED BY <1>7, <2>2, <2>4, <2>5 DEF Contents, S, DiskOf
<1>11. Ordered(maxFiles, Contents', buffer')
       /\ Records(maxFiles, Contents', buffer') = Records(maxFiles, Contents, buffer) \cup {r}
  BY <1>9, <1>10 DEF LogOf
<1>12. Contents'[0] = v /\ \A k \in 0..maxFiles : k # 0 => Contents'[k] = Contents[k]
  BY <1>1, <1>10 DEF With
<1>13. size' = Total(ln, v \o buffer') /\ size' \in Nat
  <2>1. Contents[0] \o buffer \in Seq(S)
    BY <1>2, <1>4
  <2>2. ln[r] = length /\ length \in Nat /\ \A i \in S : ln[i] \in Nat
    BY <1>2, <1>4 DEF ln
  <2>3. Total(ln, Append(Contents[0] \o buffer, r)) = Total(ln, Contents[0] \o buffer) + ln[r]
    BY ONLY <1>4, <2>1, <2>2, TotalAppend
  <2>4. Total(ln, Contents[0] \o buffer) = size
    BY <1>2, <1>3, <1>4
  <2>5. size \in Nat
    BY DEF FileInv, FileTyped, File!TypeOK
  <2> QED BY ONLY <1>6, <1>9, <2>2, <2>3, <2>4, <2>5
<1>14. faults = 0 => SmallOf(ln, v \o buffer')
  <2> SUFFICES ASSUME faults = 0 PROVE SmallOf(ln, v \o buffer')
    OBVIOUS
  <2>1. CASE size + length <= MaxBytes
    BY <1>6, <1>13, <2>1 DEF SmallOf
  <2>2. CASE Contents[0] \o buffer = << >>
    <3>1. v \o buffer' = Append(<< >>, r)
      BY <1>9, <2>2
    <3> QED BY <3>1 DEF SmallOf
  <2> QED BY <2>1, <2>2
<1>15. faults = 0 => SmallOf(ln, v)
  <2>1. v \o buffer' \in Seq(S) /\ \A i \in S : ln[i] \in Nat
    BY <1>2, <1>9, ConcatProperties
  <2> QED BY <1>9, <1>14, <2>1, SmallStart
<1>16. FileTyped'
  <2>1. /\ shift \in 0..maxFiles /\ failed \in BOOLEAN /\ open \in BOOLEAN
        /\ rotations \in 0..MaxRotations /\ faults \in 0..MaxFaults
    BY DEF FileInv, FileTyped, File!TypeOK, File!Files
  <2>2. disk' \in [0..maxFiles -> Seq(1..Len(lengths')) \cup {NoFile}] /\ buffer' \in Seq(1..Len(lengths'))
    BY <1>9, <1>10 DEF S
  <2> QED BY <1>6, <1>13, <2>1, <2>2, FileTypes DEF FileInv
<1>17. Handled'
  <2>1. disk'[0] # NoFile'
    BY <1>1, <1>7, <1>10 DEF With, NoFile, File!NoFile, File!NoRecord
  <2> QED BY <2>1 DEF Handled
<1>18. Awaited' /\ Vacated'
  BY DEF Awaited, Vacated
<1>19. Sized'
  BY <1>12, <1>13 DEF Sized, ln
<1>20. Fitting'
  <2>1. faults' = 0 => \A k \in 0..maxFiles : SmallOf(lengths, Contents[k])
    BY <1>6 DEF FileInv, Fitting
  <2>2. faults' = 0 => \A k \in 0..maxFiles : SmallOf(ln, Contents'[k])
    BY <1>1, <1>2, <1>6, <1>12, <1>15, <2>1
  <2>3. faults' = 0 => SmallOf(ln, Contents'[0] \o buffer')
    BY <1>6, <1>12, <1>14
  <2> QED BY <2>2, <2>3 DEF Fitting, ln, SmallOf
<1>21. Kept
  BY <1>11 DEF Kept
<1> QED BY <1>11, <1>16, <1>17, <1>18, <1>19, <1>20, <1>21 DEF FileInv

\* The file is closed, or flushed: what is held goes to it.
LEMMA CloseLists ==
  ASSUME NEW S, NEW m, NEW C, NEW b, LogOf(S, m, C, b)
  PROVE  /\ LogOf(S, m, With(C, 0, Active(C, b)), << >>) /\ Active(C, b) \in Seq(S)
         /\ Records(m, With(C, 0, Active(C, b)), << >>) = Records(m, C, b)
<1> DEFINE n == Len(b)
<1>1. m \in Nat /\ C \in [0..m -> Seq(S)] /\ b \in Seq(S) /\ n \in Nat
  BY LenProperties DEF LogOf
<1>2. n \in 0..Len(b)
  BY <1>1
<1>3. SubSeq(b, 1, n) \in Seq(S) /\ Len(SubSeq(b, 1, n)) = n /\ \A i \in 1..n : SubSeq(b, 1, n)[i] = b[i]
  BY <1>1, <1>2, Cut
<1>4. SubSeq(b, n + 1, Len(b)) \in Seq(S) /\ Len(SubSeq(b, n + 1, Len(b))) = Len(b) - n
  BY <1>1, <1>2, Cut
<1>5. SubSeq(b, 1, n) = b
  BY <1>1, <1>3, SeqEqual
<1>6. SubSeq(b, n + 1, Len(b)) = << >>
  BY <1>1, <1>4, EmptySeq
<1>7. /\ LogOf(S, m, With(C, 0, C[0] \o SubSeq(b, 1, n)), SubSeq(b, n + 1, Len(b)))
      /\ Records(m, With(C, 0, C[0] \o SubSeq(b, 1, n)), SubSeq(b, n + 1, Len(b))) = Records(m, C, b)
  BY <1>2, WriteThrough
<1>8. C[0] \in Seq(S)
  BY <1>1
<1>9. Active(C, b) \in Seq(S)
  BY <1>1, <1>8, ConcatProperties DEF Active
<1> QED BY <1>5, <1>6, <1>7, <1>9 DEF Active

LEMMA Closing ==
  ASSUME FileInv, maxFiles' = maxFiles, disk' = File!Closed, buffer' = << >>
  PROVE  /\ disk' \in [0..maxFiles -> Seq(Numbers) \cup {NoFile}]
         /\ open => disk'[0] # NoFile
         /\ Contents' \in [0..maxFiles -> Seq(Numbers)] /\ Contents'[0] = Contents[0] \o buffer
         /\ Ordered(maxFiles, Contents', << >>)
         /\ Records(maxFiles, Contents', << >>) = Records(maxFiles, Contents, buffer)
         /\ faults = 0 => \A n \in 0..maxFiles : SmallOf(lengths, Contents'[n])
<1> DEFINE v == Active(Contents, buffer)
<1>1. /\ maxFiles \in Nat /\ Contents \in [0..maxFiles -> Seq(Numbers)] /\ buffer \in Seq(Numbers)
      /\ \A n \in 0..maxFiles : Contents[n] = IF disk[n] = NoFile THEN << >> ELSE disk[n]
      /\ disk \in [0..maxFiles -> Seq(Numbers) \cup {NoFile}] /\ 0 \in 0..maxFiles
      /\ Numbers \subseteq Nat /\ Len(lengths) \in Nat
  BY FileFacts DEF FileInv
<1>2. LogOf(Numbers, maxFiles, Contents, buffer)
  BY <1>1 DEF LogOf, FileInv
<1>3. /\ LogOf(Numbers, maxFiles, With(Contents, 0, v), << >>) /\ v \in Seq(Numbers)
      /\ Records(maxFiles, With(Contents, 0, v), << >>) = Records(maxFiles, Contents, buffer)
  BY <1>2, CloseLists
<1>4. v = Contents[0] \o buffer
  BY DEF Active
<1>5. NoFile \notin Seq(Numbers) /\ NoFile' = NoFile
  BY <1>1, FileIsReal DEF Numbers, NoFile, File!NoFile, File!NoRecord
<1>6. Contents' = ContentsOf(maxFiles, disk')
  BY <1>5 DEF Contents, ContentsOf
<1> HIDE DEF v
<1>7. CASE open
  <2>1. disk[0] # NoFile /\ Contents[0] = disk[0]
    BY <1>1, <1>7 DEF FileInv, Handled
  <2>2. disk' = With(disk, 0, v)
    BY <1>4, <1>7, <2>1 DEF File!Closed, With
  <2>3. DiskOf(maxFiles, Len(lengths), disk) /\ v \in Seq(1..Len(lengths)) \cup {NoFile} /\ v # NoFile
    BY <1>1, <1>3, <1>5 DEF DiskOf, Numbers
  <2>4. /\ DiskOf(maxFiles, Len(lengths), With(disk, 0, v))
        /\ ContentsOf(maxFiles, With(disk, 0, v))
             = With(ContentsOf(maxFiles, disk), 0, IF v = NoFile THEN << >> ELSE v)
    <3>1. 0 \in 0..maxFiles
      BY <1>1
    <3> QED BY ONLY <2>3, <3>1, StoredOf
  <2>5. Contents' = With(Contents, 0, v)
    BY <1>6, <2>2, <2>3, <2>4 DEF Contents
  <2>6. disk' \in [0..maxFiles -> Seq(Numbers) \cup {NoFile}]
    BY <2>2, <2>4 DEF DiskOf, Numbers
  <2>7. disk'[0] # NoFile
    BY <1>1, <2>2, <2>3 DEF With
  <2>8. Contents'[0] = v /\ \A n \in 0..maxFiles : n # 0 => Contents'[n] = Contents[n]
    BY <1>1, <2>5 DEF With
  <2>9. faults = 0 => \A n \in 0..maxFiles : SmallOf(lengths, Contents'[n])
    BY <1>4, <1>7, <2>8 DEF FileInv, Fitting
  <2>10. Ordered(maxFiles, Contents', << >>) /\ Contents' \in [0..maxFiles -> Seq(Numbers)]
    BY <1>3, <2>5 DEF LogOf
  <2> QED BY <1>3, <1>4, <2>5, <2>6, <2>7, <2>8, <2>9, <2>10
<1>8. CASE ~open
  <2>1. buffer = << >> /\ disk' = disk
    <3>1. disk' = [disk EXCEPT ![0] = disk[0]]
      BY <1>8 DEF File!Closed
    <3> QED BY <1>1, <1>8, <3>1 DEF FileInv, FileTyped, File!TypeOK
  <2>2. Contents' = Contents
    BY <1>6, <2>1 DEF Contents
  <2>3. Contents[0] \o << >> = Contents[0]
    <3> DEFINE c == Contents[0]
    <3>1. c \in Seq(Numbers)
      BY <1>1
    <3> HIDE DEF c
    <3>2. c \o << >> = c
      BY <3>1, ConcatEmptySeq
    <3> QED BY <3>2 DEF c
  <2>4. Ordered(maxFiles, Contents, << >>)
    BY <2>1 DEF FileInv
  <2> QED BY <1>1, <1>8, <2>1, <2>2, <2>3, <2>4 DEF FileInv, Fitting
<1> QED BY <1>7, <1>8

\* close_current, at the end of the sink, at the start of a rotation or, leaving the file
\* open, in flush.
LEMMA DestroyKeeps ==
  ASSUME FileInv, File!Destroy
  PROVE  FileInv' /\ Kept
<1>1. /\ pc = "idle" /\ pc' = "down" /\ disk' = File!Closed /\ buffer' = << >> /\ ~open'
      /\ UNCHANGED <<size, faults, maxFiles, lengths, rotations, shift, incoming, failed>>
  BY DEF File!Destroy, File!CloseCurrent, File!config
<1>2. /\ disk' \in [0..maxFiles -> Seq(Numbers) \cup {NoFile}]
      /\ Ordered(maxFiles, Contents', << >>)
      /\ Records(maxFiles, Contents', << >>) = Records(maxFiles, Contents, buffer)
      /\ faults = 0 => \A n \in 0..maxFiles : SmallOf(lengths, Contents'[n])
  BY <1>1, Closing
<1>3. FileTyped'
  <2>1. /\ lengths \in Seq(Lengths) /\ Len(lengths) <= MaxRecords /\ size \in Nat /\ open' \in BOOLEAN
        /\ shift \in 0..maxFiles /\ failed \in BOOLEAN /\ rotations \in 0..MaxRotations
        /\ faults \in 0..MaxFaults /\ incoming \in 0..Len(lengths)
    BY <1>1 DEF FileInv, FileTyped, File!TypeOK, File!Files, File!Destroy, File!CloseCurrent
  <2>2. << >> \in Seq(1..Len(lengths))
    BY EmptySeq
  <2> QED BY <1>1, <1>2, <2>1, <2>2, FileTypes DEF FileInv, Numbers
<1>4. Handled' /\ Awaited' /\ Vacated' /\ Sized'
  BY <1>1 DEF Handled, Awaited, Vacated, Sized
<1>5. Fitting'
  BY <1>1, <1>2 DEF Fitting, SmallOf
<1> QED BY <1>1, <1>2, <1>3, <1>4, <1>5 DEF FileInv, Kept

LEMMA FlushKeeps ==
  ASSUME FileInv, File!Flush
  PROVE  FileInv' /\ Kept
<1>1. /\ pc = "idle" /\ pc' = "idle" /\ open /\ open' /\ disk' = File!Closed /\ buffer' = << >>
      /\ UNCHANGED <<open, size, faults, maxFiles, lengths, rotations, shift, incoming, failed>>
  BY DEF File!Flush, File!Closed, File!config, File!rotation
<1>2. /\ disk' \in [0..maxFiles -> Seq(Numbers) \cup {NoFile}] /\ disk'[0] # NoFile
      /\ Contents' \in [0..maxFiles -> Seq(Numbers)] /\ Contents'[0] = Contents[0] \o buffer
      /\ Ordered(maxFiles, Contents', << >>)
      /\ Records(maxFiles, Contents', << >>) = Records(maxFiles, Contents, buffer)
      /\ faults = 0 => \A n \in 0..maxFiles : SmallOf(lengths, Contents'[n])
  BY <1>1, Closing
<1>3. FileTyped'
  <2>1. /\ lengths \in Seq(Lengths) /\ Len(lengths) <= MaxRecords /\ size \in Nat /\ open' \in BOOLEAN
        /\ shift \in 0..maxFiles /\ failed \in BOOLEAN /\ rotations \in 0..MaxRotations
        /\ faults \in 0..MaxFaults /\ incoming \in 0..Len(lengths)
    BY <1>1 DEF FileInv, FileTyped, File!TypeOK, File!Files
  <2>2. << >> \in Seq(1..Len(lengths))
    BY EmptySeq
  <2> QED BY <1>1, <1>2, <2>1, <2>2, FileTypes DEF FileInv, Numbers
<1>4. Handled' /\ Awaited' /\ Vacated'
  BY <1>1, <1>2 DEF Handled, Awaited, Vacated, NoFile, File!NoFile, File!NoRecord
<1>5. Contents'[0] \o << >> = Contents'[0]
  <2> DEFINE c == Contents'[0]
  <2>1. c \in Seq(Numbers)
    BY <1>2, FileFacts DEF FileInv
  <2> HIDE DEF c
  <2>2. c \o << >> = c
    BY <2>1, ConcatEmptySeq
  <2> QED BY <2>2 DEF c
<1>6. Sized'
  BY <1>1, <1>2, <1>5 DEF Sized, FileInv
<1>7. Fitting'
  <2>1. faults = 0 => SmallOf(lengths, Contents'[0])
    BY <1>2, FileFacts DEF FileInv
  <2> QED BY <1>1, <1>2, <1>5, <2>1 DEF Fitting, SmallOf
<1> QED BY <1>1, <1>2, <1>3, <1>4, <1>6, <1>7 DEF FileInv, Kept

LEMMA BeginsKeeps ==
  ASSUME FileInv, NEW r, File!BeginRotation(r), r = 0 \/ r = Len(lengths'),
         maxFiles' = maxFiles, rotations' \in 0..MaxRotations,
         lengths' \in Seq(Lengths), Len(lengths) <= Len(lengths'), Len(lengths') <= MaxRecords,
         r # 0 => Len(lengths) < Len(lengths'), \A i \in Numbers : lengths'[i] = lengths[i]
  PROVE  FileInv' /\ Kept
<1>1. /\ pc' = "remove" /\ disk' = File!Closed /\ buffer' = << >> /\ ~open' /\ open' \in BOOLEAN
      /\ incoming' = r /\ failed' = FALSE /\ UNCHANGED <<size, faults, shift>>
  BY DEF File!BeginRotation, File!CloseCurrent
<1>2. /\ disk' \in [0..maxFiles -> Seq(Numbers) \cup {NoFile}]
      /\ Contents' \in [0..maxFiles -> Seq(Numbers)]
      /\ Ordered(maxFiles, Contents', << >>)
      /\ Records(maxFiles, Contents', << >>) = Records(maxFiles, Contents, buffer)
      /\ faults = 0 => \A n \in 0..maxFiles : SmallOf(lengths, Contents'[n])
  BY <1>1, Closing
<1>3. /\ Len(lengths') \in Nat /\ Len(lengths) \in Nat /\ Seq(Numbers) \subseteq Seq(1..Len(lengths'))
      /\ \A s \in Seq(Numbers) : SmallOf(lengths', s) <=> SmallOf(lengths, s)
  BY Known, FileFacts DEF FileInv
<1>4. FileTyped'
  <2>1. size \in Nat /\ shift \in 0..maxFiles /\ faults \in 0..MaxFaults
    BY DEF FileInv, FileTyped, File!TypeOK, File!Files
  <2>2. << >> \in Seq(1..Len(lengths')) /\ incoming' \in 0..Len(lengths')
    BY <1>1, <1>3, EmptySeq
  <2>3. disk' \in [0..maxFiles -> Seq(1..Len(lengths')) \cup {NoFile}]
    BY <1>2, <1>3
  <2> QED BY <1>1, <2>1, <2>2, <2>3, FileTypes DEF FileInv
<1>5. Handled' /\ Vacated' /\ Sized'
  BY <1>1 DEF Handled, Vacated, Sized
<1>6. Awaited'
  <2>1. \A x \in Records(maxFiles, Contents, buffer) : x \in 1..Len(lengths)
    BY RecordsAreNumbers DEF FileInv, Numbers
  <2>2. r # 0 => \A x \in Records(maxFiles', Contents', buffer') : x < r
    BY <1>1, <1>2, <1>3, <2>1
  <2> QED BY <1>1, <2>2 DEF Awaited
<1>7. Fitting'
  <2>1. faults = 0 => \A n \in 0..maxFiles : SmallOf(lengths', Contents'[n])
    BY <1>2, <1>3
  <2> QED BY <1>1, <2>1 DEF Fitting, SmallOf
<1> QED BY <1>1, <1>2, <1>4, <1>5, <1>6, <1>7 DEF FileInv, Kept

\* open_current: the files keep what they hold.
LEMMA Opening ==
  ASSUME FileInv, ~open, File!OpenCurrent, UNCHANGED <<maxFiles, lengths, buffer>>
  PROVE  /\ buffer = << >> /\ Contents' = Contents
         /\ disk' \in [0..maxFiles -> Seq(Numbers) \cup {NoFile}]
         /\ open' \in BOOLEAN /\ size' \in Nat /\ failed' \in BOOLEAN /\ faults' \in 0..MaxFaults
         /\ open' => disk'[0] # NoFile /\ size' = Total(lengths, Contents[0] \o << >>)
         /\ faults' = 0 => faults = 0
<1>1. /\ maxFiles \in Nat /\ Contents \in [0..maxFiles -> Seq(Numbers)] /\ buffer \in Seq(Numbers)
      /\ \A n \in 0..maxFiles : Contents[n] = IF disk[n] = NoFile THEN << >> ELSE disk[n]
      /\ disk \in [0..maxFiles -> Seq(Numbers) \cup {NoFile}] /\ 0 \in 0..maxFiles
      /\ Numbers \subseteq Nat /\ Len(lengths) \in Nat
      /\ \A r \in Numbers : lengths[r] \in Nat \ {0}
  BY FileFacts DEF FileInv
<1>2. buffer = << >> /\ faults \in 0..MaxFaults /\ failed \in BOOLEAN /\ MaxFaults \in Nat
  BY FileAssumed DEF FileInv, FileTyped, File!TypeOK, File!RotatingFileAssumption
<1>3. NoFile \notin Seq(Numbers) /\ NoFile' = NoFile
  BY <1>1, FileIsReal DEF Numbers, NoFile, File!NoFile, File!NoRecord
<1>4. Contents' = ContentsOf(maxFiles, disk')
  BY <1>3 DEF Contents, ContentsOf
<1> DEFINE c == Contents[0]
<1>5. c \in Seq(Numbers) /\ c # NoFile
  BY <1>1, <1>3
<1>6. c \o << >> = c
  <2> HIDE DEF c
  <2> QED BY <1>5, ConcatEmptySeq
<1>7. Total(lengths, c) \in Nat
  <2> HIDE DEF c
  <2>1. \A r \in Numbers : lengths[r] \in Nat
    BY <1>1
  <2> QED BY <1>5, <2>1, TotalType
<1>8. CASE disk' = With(disk, 0, c) /\ open' = TRUE /\ size' = Total(lengths, c)
           /\ UNCHANGED <<failed, faults>>
  <2>1. disk' \in [0..maxFiles -> Seq(Numbers) \cup {NoFile}] /\ disk'[0] = c
        /\ \A n \in 0..maxFiles : n # 0 => disk'[n] = disk[n]
    BY <1>1, <1>5, <1>8 DEF With
  <2>2. \A n \in 0..maxFiles : Contents[n] = IF disk'[n] = NoFile THEN << >> ELSE disk'[n]
    BY <1>1, <1>5, <2>1
  <2>3. Contents' = Contents
    BY <1>1, <1>4, <2>2 DEF ContentsOf
  <2> QED BY <1>2, <1>5, <1>6, <1>7, <1>8, <2>1, <2>3
<1>9. CASE /\ faults < MaxFaults /\ faults' = faults + 1 /\ failed' = TRUE
           /\ open' = FALSE /\ size' = 0 /\ UNCHANGED disk
  <2>1. Contents' = Contents
    BY <1>4, <1>9 DEF Contents
  <2>2. faults' \in 0..MaxFaults /\ faults' # 0
    BY <1>2, <1>9
  <2>3. open' \in BOOLEAN /\ size' \in Nat /\ failed' \in BOOLEAN /\ ~open'
    BY <1>9
  <2>4. disk' \in [0..maxFiles -> Seq(Numbers) \cup {NoFile}]
    BY <1>1, <1>9
  <2> QED BY <1>2, <2>1, <2>2, <2>3, <2>4
<1>10. File!Content(0) = Contents[0] /\ File!Bytes(Contents[0]) = Total(lengths, Contents[0])
  BY <1>1, FileTerms DEF FileInv
<1> QED BY <1>8, <1>9, <1>10 DEF File!OpenCurrent, File!Measured, With

\* Construct and Reopen: open_current is all that they do to the files.
LEMMA OpensKeep ==
  ASSUME FileInv, ~open, File!OpenCurrent,
         UNCHANGED <<maxFiles, lengths, rotations, buffer, shift, incoming>>,
         \/ pc' = "idle"
         \/ pc = "reopen" /\ pc' = "written" /\ incoming # 0
  PROVE  FileInv' /\ Kept
<1>1. /\ buffer = << >> /\ Contents' = Contents
      /\ disk' \in [0..maxFiles -> Seq(Numbers) \cup {NoFile}]
      /\ open' \in BOOLEAN /\ size' \in Nat /\ failed' \in BOOLEAN /\ faults' \in 0..MaxFaults
      /\ open' => disk'[0] # NoFile /\ size' = Total(lengths, Contents[0] \o << >>)
      /\ faults' = 0 => faults = 0
  BY Opening
<1>2. Contents[0] \in Seq(Numbers) /\ 0 \in 0..maxFiles /\ NoFile' = NoFile
  BY FileFacts DEF FileInv, NoFile, File!NoFile, File!NoRecord
<1>3. FileTyped'
  <2>1. /\ lengths \in Seq(Lengths) /\ Len(lengths) <= MaxRecords
        /\ shift \in 0..maxFiles /\ rotations \in 0..MaxRotations /\ incoming \in 0..Len(lengths)
        /\ buffer \in Seq(1..Len(lengths))
    BY DEF FileInv, FileTyped, File!TypeOK, File!Files
  <2> QED BY <1>1, <2>1, FileTypes DEF FileInv, Numbers
<1>4. Handled' /\ Vacated' /\ Sized'
  BY <1>1, <1>2 DEF Handled, Vacated, Sized
<1>5. Awaited'
  BY <1>1 DEF Awaited, FileInv
<1>6. Contents[0] \o << >> = Contents[0]
  <2> DEFINE c == Contents[0]
  <2>1. c \in Seq(Numbers)
    BY <1>2
  <2> HIDE DEF c
  <2>2. c \o << >> = c
    BY <2>1, ConcatEmptySeq
  <2> QED BY <2>2 DEF c
<1>7. Fitting'
  <2>1. faults = 0 => \A n \in 0..maxFiles : SmallOf(lengths, Contents[n])
    BY DEF FileInv, Fitting
  <2>2. faults = 0 /\ pc = "reopen" => Contents[0] = << >>
    BY <1>2, FileFacts DEF FileInv, Fitting
  <2> QED BY <1>1, <1>2, <1>6, <2>1, <2>2 DEF Fitting, SmallOf
<1>8. Ordered(maxFiles, Contents, buffer)
  BY DEF FileInv
<1> QED BY <1>1, <1>3, <1>4, <1>5, <1>7, <1>8 DEF FileInv, Kept

\* The process stops: what is held is lost, and the files stay.
LEMMA CrashKeeps ==
  ASSUME FileInv, File!Crash
  PROVE  FileInv' /\ Kept
<1>1. /\ pc' = "down" /\ faults < MaxFaults /\ faults' = faults + 1 /\ buffer' = << >> /\ open' = FALSE
      /\ UNCHANGED <<maxFiles, lengths, rotations, size, shift, incoming, failed, disk>>
  BY DEF File!Crash, File!config
<1>2. NoFile' = NoFile /\ Contents' = Contents
  BY <1>1 DEF NoFile, File!NoFile, File!NoRecord, Contents, ContentsOf
<1>3. FileTyped'
  <2>1. /\ lengths \in Seq(Lengths) /\ Len(lengths) <= MaxRecords /\ size \in Nat
        /\ shift \in 0..maxFiles /\ failed \in BOOLEAN /\ rotations \in 0..MaxRotations
        /\ faults + 1 \in 0..MaxFaults /\ incoming \in 0..Len(lengths)
    BY <1>1, FileAssumed DEF FileInv, FileTyped, File!TypeOK, File!Files, File!RotatingFileAssumption
  <2>2. << >> \in Seq(1..Len(lengths)) /\ disk \in [0..maxFiles -> Seq(1..Len(lengths)) \cup {NoFile}]
    BY EmptySeq, FileFacts DEF FileInv, Numbers
  <2> QED BY <1>1, <2>1, <2>2, FileTypes DEF FileInv
<1>4. Handled' /\ Awaited' /\ Vacated' /\ Sized' /\ Fitting'
  <2>1. faults' # 0
    BY <1>1, FileAssumed DEF FileInv, FileTyped, File!TypeOK
  <2> QED BY <1>1, <2>1 DEF Handled, Awaited, Vacated, Sized, Fitting
<1>5. /\ Ordered(maxFiles, Contents, << >>)
      /\ Records(maxFiles, Contents, buffer) \ Records(maxFiles, Contents, << >>) \subseteq Entries(buffer)
  BY Lose DEF FileInv
<1> QED BY <1>1, <1>2, <1>3, <1>4, <1>5 DEF FileInv, Kept

\* remove: the oldest backup is deleted, or that fails.
LEMMA RemovesKeep ==
  ASSUME FileInv, File!RemoveOldest
  PROVE  FileInv' /\ Kept
<1>1. /\ pc = "remove" /\ shift' = maxFiles /\ pc' = IF maxFiles > 0 THEN "shift" ELSE "reopen"
      /\ UNCHANGED <<maxFiles, lengths, rotations, buffer, open, size, incoming>>
      /\ \/ disk' = With(disk, maxFiles, NoFile) /\ UNCHANGED <<failed, faults>>
         \/ faults < MaxFaults /\ faults' = faults + 1 /\ failed' = TRUE /\ UNCHANGED disk
  BY DEF File!RemoveOldest, File!Attempt, File!config, File!handle, With, NoFile
<1>2. /\ maxFiles \in Nat /\ Contents \in [0..maxFiles -> Seq(Numbers)] /\ buffer \in Seq(Numbers)
      /\ disk \in [0..maxFiles -> Seq(Numbers) \cup {NoFile}] /\ maxFiles \in 0..maxFiles
      /\ Len(lengths) \in Nat
  BY FileFacts DEF FileInv
<1>3. ~open /\ NoFile' = NoFile /\ Contents' = ContentsOf(maxFiles, disk')
  BY <1>1 DEF FileInv, Handled, NoFile, File!NoFile, File!NoRecord, Contents, ContentsOf
<1>4. /\ faults \in 0..MaxFaults /\ faults' \in 0..MaxFaults /\ failed' \in BOOLEAN
      /\ faults' = 0 => faults = 0 /\ disk' = With(disk, maxFiles, NoFile)
      /\ ~failed' => disk' = With(disk, maxFiles, NoFile)
  <2>1. faults \in 0..MaxFaults /\ MaxFaults \in Nat /\ failed \in BOOLEAN
    BY FileAssumed DEF FileInv, FileTyped, File!TypeOK, File!RotatingFileAssumption
  <2>2. CASE disk' = With(disk, maxFiles, NoFile) /\ UNCHANGED <<failed, faults>>
    BY <2>1, <2>2
  <2>3. CASE faults < MaxFaults /\ faults' = faults + 1 /\ failed' = TRUE /\ UNCHANGED disk
    <3>1. faults' \in 0..MaxFaults /\ faults' # 0
      BY <2>1, <2>3
    <3> QED BY <2>1, <2>3, <3>1
  <2> QED BY <1>1, <2>2, <2>3
<1>5. \/ disk' = With(disk, maxFiles, NoFile) /\ Contents' = With(Contents, maxFiles, << >>)
      \/ disk' = disk /\ Contents' = Contents /\ failed'
  <2>1. DiskOf(maxFiles, Len(lengths), disk) /\ NoFile \in Seq(1..Len(lengths)) \cup {NoFile}
    BY <1>2 DEF DiskOf, Numbers
  <2>2. ContentsOf(maxFiles, With(disk, maxFiles, NoFile))
          = With(ContentsOf(maxFiles, disk), maxFiles, IF NoFile = NoFile THEN << >> ELSE NoFile)
    <3>1. maxFiles \in 0..maxFiles
      BY <1>2
    <3> QED BY ONLY <2>1, <3>1, StoredOf
  <2>3. ContentsOf(maxFiles, With(disk, maxFiles, NoFile)) = With(Contents, maxFiles, << >>)
    BY <2>2 DEF Contents
  <2> QED BY <1>1, <1>3, <2>3 DEF Contents
<1>6. disk' \in [0..maxFiles -> Seq(Numbers) \cup {NoFile}]
  BY <1>2, <1>5 DEF With
<1>7. /\ Ordered(maxFiles, Contents', buffer)
      /\ Records(maxFiles, Contents', buffer) \subseteq Records(maxFiles, Contents, buffer)
      /\ ~failed' => Records(maxFiles, Contents, buffer) \ Records(maxFiles, Contents', buffer)
                       \subseteq Entries(Contents[maxFiles])
  <2>1. Ordered(maxFiles, Contents, buffer)
    BY DEF FileInv
  <2>2. DOMAIN Contents = 0..maxFiles
    BY <1>2
  <2>3. /\ Ordered(maxFiles, With(Contents, maxFiles, << >>), buffer)
        /\ Records(maxFiles, With(Contents, maxFiles, << >>), buffer) \subseteq Records(maxFiles, Contents, buffer)
        /\ Records(maxFiles, Contents, buffer) \ Records(maxFiles, With(Contents, maxFiles, << >>), buffer)
             \subseteq Entries(Contents[maxFiles])
    BY <1>2, <2>1, <2>2, Delete
  <2> QED BY <1>5, <2>1, <2>3
<1>8. FileTyped'
  <2>1. /\ lengths \in Seq(Lengths) /\ Len(lengths) <= MaxRecords /\ size \in Nat
        /\ rotations \in 0..MaxRotations /\ incoming \in 0..Len(lengths) /\ open \in BOOLEAN
        /\ buffer # << >> => open
    BY DEF FileInv, FileTyped, File!TypeOK
  <2> QED BY <1>1, <1>2, <1>4, <1>6, <2>1, FileTypes DEF FileInv, Numbers
<1>9. Handled' /\ Sized'
  BY <1>1, <1>2, <1>3 DEF Handled, Sized
<1>10. Awaited'
  BY <1>1, <1>7 DEF Awaited, FileInv
<1>11. Vacated'
  BY <1>1, <1>2, <1>3, <1>4 DEF Vacated, With
<1>12. Fitting'
  <2>1. faults = 0 => \A n \in 0..maxFiles : SmallOf(lengths, Contents[n])
    BY DEF FileInv, Fitting
  <2>2. \A n \in 0..maxFiles : Contents'[n] = Contents[n] \/ Contents'[n] = << >>
    BY <1>2, <1>5 DEF With
  <2>3. faults' = 0 => \A n \in 0..maxFiles : SmallOf(lengths, Contents'[n])
    BY <1>4, <2>1, <2>2, SmallEmpty
  <2>4. faults' = 0 /\ maxFiles = 0 => disk'[0] = NoFile
    BY <1>2, <1>4 DEF With
  <2> QED BY <1>1, <1>2, <1>3, <2>3, <2>4 DEF Fitting, SmallOf
<1> QED BY <1>1, <1>7, <1>8, <1>9, <1>10, <1>11, <1>12 DEF FileInv, Kept

\* rename: a file moves to the place of the next older one, which is free unless an
\* operation of this rotation failed.
LEMMA ShiftsKeep ==
  ASSUME FileInv, File!Shift
  PROVE  FileInv' /\ Kept
<1> DEFINE moved == With(With(disk, shift, disk[shift - 1]), shift - 1, NoFile)
<1>1. /\ pc = "shift" /\ shift' = shift - 1 /\ pc' = IF shift > 1 THEN "shift" ELSE "reopen"
      /\ UNCHANGED <<maxFiles, lengths, rotations, buffer, open, size, incoming>>
      /\ \/ disk[shift - 1] = NoFile /\ UNCHANGED <<disk, failed, faults>>
         \/ disk' = moved /\ UNCHANGED <<failed, faults>>
         \/ faults < MaxFaults /\ faults' = faults + 1 /\ failed' = TRUE /\ UNCHANGED disk
  BY DEF File!Shift, File!Descending, File!Attempt, File!config, File!handle, With, NoFile
<1>2. /\ maxFiles \in Nat /\ Contents \in [0..maxFiles -> Seq(Numbers)] /\ buffer \in Seq(Numbers)
      /\ disk \in [0..maxFiles -> Seq(Numbers) \cup {NoFile}] /\ Len(lengths) \in Nat
      /\ \A n \in 0..maxFiles : Contents[n] = IF disk[n] = NoFile THEN << >> ELSE disk[n]
  BY FileFacts DEF FileInv
<1>3. /\ ~open /\ NoFile' = NoFile /\ Contents' = ContentsOf(maxFiles, disk')
      /\ shift \in 1..maxFiles /\ shift \in 0..maxFiles /\ shift - 1 \in 0..maxFiles /\ shift - 1 # shift
  BY <1>1, <1>2 DEF FileInv, Handled, NoFile, File!NoFile, File!NoRecord, Contents, ContentsOf
<1>4. /\ faults \in 0..MaxFaults /\ faults' \in 0..MaxFaults /\ failed \in BOOLEAN /\ failed' \in BOOLEAN
      /\ faults' = 0 => faults = 0 /\ (disk' = moved \/ (disk' = disk /\ disk[shift - 1] = NoFile))
      /\ ~failed' => ~failed /\ (disk' = moved \/ (disk' = disk /\ disk[shift - 1] = NoFile))
  <2>1. faults \in 0..MaxFaults /\ MaxFaults \in Nat /\ failed \in BOOLEAN
    BY FileAssumed DEF FileInv, FileTyped, File!TypeOK, File!RotatingFileAssumption
  <2> HIDE DEF moved
  <2>2. CASE disk[shift - 1] = NoFile /\ UNCHANGED <<disk, failed, faults>>
    BY <2>1, <2>2
  <2>3. CASE disk' = moved /\ UNCHANGED <<failed, faults>>
    BY <2>1, <2>3
  <2>4. CASE faults < MaxFaults /\ faults' = faults + 1 /\ failed' = TRUE /\ UNCHANGED disk
    <3>1. faults' \in 0..MaxFaults /\ faults' # 0
      BY <2>1, <2>4
    <3> QED BY <2>1, <2>4, <3>1
  <2> QED BY <1>1, <2>2, <2>3, <2>4
<1>5. /\ moved \in [0..maxFiles -> Seq(Numbers) \cup {NoFile}]
      /\ moved[shift] = disk[shift - 1] /\ moved[shift - 1] = NoFile
      /\ \A n \in 0..maxFiles : n # shift /\ n # shift - 1 => moved[n] = disk[n]
  BY <1>2, <1>3 DEF With
<1> DEFINE C == With(With(Contents, shift, Contents[shift - 1]), shift - 1, << >>)
<1>6. C \in [0..maxFiles -> Seq(Numbers)]
  <2>1. << >> \in Seq(Numbers) /\ Contents[shift - 1] \in Seq(Numbers)
    BY <1>2, <1>3, EmptySeq
  <2> QED BY <1>2, <1>3, <2>1 DEF With
<1>7. C[shift] = Contents[shift - 1] /\ C[shift - 1] = << >>
      /\ \A n \in 0..maxFiles : n # shift /\ n # shift - 1 => C[n] = Contents[n]
  BY <1>2, <1>3 DEF With
<1> HIDE DEF moved, C
<1>8. ContentsOf(maxFiles, moved) = C
  <2>1. \A n \in 0..maxFiles : C[n] = IF moved[n] = NoFile THEN << >> ELSE moved[n]
    BY <1>2, <1>3, <1>5, <1>7
  <2> QED BY <1>6, <2>1 DEF ContentsOf
<1>9. \/ disk' = moved /\ Contents' = C
      \/ disk' = disk /\ Contents' = Contents
  <2>1. disk' = moved \/ disk' = disk
    BY <1>1
  <2>2. ContentsOf(maxFiles, disk) = Contents
    BY DEF Contents
  <2> QED BY <1>3, <1>8, <2>1, <2>2
<1>10. disk' \in [0..maxFiles -> Seq(Numbers) \cup {NoFile}]
  BY <1>2, <1>5, <1>9
<1>11. /\ Ordered(maxFiles, Contents', buffer)
       /\ Records(maxFiles, Contents', buffer) \subseteq Records(maxFiles, Contents, buffer)
       /\ ~failed' => Records(maxFiles, Contents, buffer) \ Records(maxFiles, Contents', buffer) = {}
  <2>1. Ordered(maxFiles, Contents, buffer)
    BY DEF FileInv
  <2>2. DOMAIN Contents = 0..maxFiles
    BY <1>2
  <2>3. /\ Ordered(maxFiles, C, buffer)
        /\ Records(maxFiles, C, buffer) \subseteq Records(maxFiles, Contents, buffer)
        /\ Records(maxFiles, Contents, buffer) \ Records(maxFiles, C, buffer) \subseteq Entries(Contents[shift])
    BY <1>2, <1>3, <2>1, <2>2, Rename DEF C
  <2>4. ~failed' => Contents[shift] = << >>
    BY <1>1, <1>2, <1>3, <1>4 DEF FileInv, Vacated
  <2>5. Entries(<< >>) = {}
    BY DEF Entries
  <2> QED BY <1>9, <2>1, <2>3, <2>4, <2>5
<1>12. FileTyped'
  <2>1. /\ lengths \in Seq(Lengths) /\ Len(lengths) <= MaxRecords /\ size \in Nat
        /\ rotations \in 0..MaxRotations /\ incoming \in 0..Len(lengths) /\ open \in BOOLEAN
        /\ buffer # << >> => open
    BY DEF FileInv, FileTyped, File!TypeOK
  <2> QED BY <1>1, <1>2, <1>3, <1>4, <1>10, <2>1, FileTypes DEF FileInv, Numbers
<1>13. Handled' /\ Sized'
  BY <1>1, <1>2, <1>3 DEF Handled, Sized
<1>14. Awaited'
  BY <1>1, <1>11 DEF Awaited, FileInv
<1>15. Vacated'
  BY <1>1, <1>3, <1>4, <1>5 DEF Vacated
<1>16. Fitting'
  <2>1. faults = 0 => \A n \in 0..maxFiles : SmallOf(lengths, Contents[n])
    BY DEF FileInv, Fitting
  <2>2. \A n \in 0..maxFiles : Contents'[n] = << >> \/ \E k \in 0..maxFiles : Contents'[n] = Contents[k]
    BY <1>3, <1>7, <1>9
  <2>3. faults' = 0 => \A n \in 0..maxFiles : SmallOf(lengths, Contents'[n])
    BY <1>4, <2>1, <2>2, SmallEmpty
  <2>4. faults' = 0 /\ ~(shift > 1) => disk'[0] = NoFile
    <3>1. ~(shift > 1) => shift - 1 = 0
      BY <1>2, <1>3
    <3> QED BY <1>4, <1>5, <3>1
  <2> QED BY <1>1, <1>3, <2>3, <2>4 DEF Fitting, SmallOf
<1> QED BY <1>1, <1>11, <1>12, <1>13, <1>14, <1>15, <1>16 DEF FileInv, Kept

LEMMA WritesKeep ==
  ASSUME FileInv, NEW length \in Lengths, File!Write(length)
  PROVE  FileInv' /\ Kept
<1>1. /\ pc = "idle" /\ open /\ Len(lengths) < MaxRecords /\ lengths' = Append(lengths, length)
      /\ UNCHANGED <<maxFiles, rotations>>
  BY DEF File!Write
<1>2. /\ lengths' \in Seq(Lengths) /\ Len(lengths') = Len(lengths) + 1 /\ Len(lengths') <= MaxRecords
      /\ lengths'[Len(lengths')] = length /\ \A r \in Numbers : lengths'[r] = lengths[r]
  BY <1>1, Grown DEF FileInv
<1>3. /\ Len(lengths) \in Nat /\ rotations \in 0..MaxRotations /\ size \in Nat /\ incoming \in 0..Len(lengths)
      /\ buffer \in Seq(Numbers) /\ Contents[0] \in Seq(Numbers)
      /\ \A r \in Numbers : lengths[r] \in Nat \ {0}
  BY FileFacts DEF FileInv, FileTyped, File!TypeOK
<1>4. Len(lengths') \in 1..Len(lengths') /\ Len(lengths) < Len(lengths') /\ Len(lengths') # 0
  BY <1>2, <1>3
<1> DEFINE r == Len(lengths')
<1>5. CASE File!Crosses(length)
  <2>1. File!BeginRotation(r)
    BY <1>5 DEF File!Write
  <2>2. Len(lengths) <= Len(lengths')
    BY <1>2, <1>3
  <2> QED BY <1>1, <1>2, <1>3, <1>4, <2>1, <2>2, BeginsKeeps
<1>6. CASE ~File!Crosses(length)
  <2>1. File!Put(r, length) /\ UNCHANGED <<pc, shift, incoming, failed>>
    BY <1>6 DEF File!Write, File!rotation
  <2>2. \A x \in Records(maxFiles, Contents, buffer) : x < r
    BY <1>2, <1>3, RecordsAreNumbers DEF FileInv, Numbers
  <2>3. Contents[0] \o buffer = << >> \/ size + length <= MaxBytes
    <3> DEFINE c == Contents[0]
    <3>1. size = Total(lengths, c \o buffer)
      BY <1>1 DEF FileInv, Sized
    <3>2. length \in Nat /\ MaxBytes \in Nat
      BY FileAssumed DEF File!RotatingFileAssumption
    <3>3. size = 0 \/ size + length <= MaxBytes
      BY <1>3, <1>6, <3>2 DEF File!Crosses
    <3>4. c \in Seq(Numbers)
      BY <1>3
    <3> HIDE DEF c
    <3>5. c \o buffer \in Seq(Numbers)
      BY <1>3, <3>4, ConcatProperties
    <3> DEFINE s == c \o buffer
    <3>6. s \in Seq(Numbers) /\ size = Total(lengths, s)
      BY <3>1, <3>5
    <3> HIDE DEF s
    <3>7. size = 0 => s = << >>
      BY <1>3, <3>6, TotalZero
    <3> QED BY <3>3, <3>7 DEF s, c
  <2>4. incoming' \in 0..Len(lengths') /\ pc' = "idle" /\ Len(lengths) <= Len(lengths')
    BY <1>1, <1>2, <1>3, <2>1
  <2> QED BY <1>1, <1>2, <1>4, <2>1, <2>2, <2>3, <2>4, PutKeeps
<1> QED BY <1>5, <1>6

LEMMA RotatedKeeps ==
  ASSUME FileInv, File!WriteRotated
  PROVE  FileInv' /\ Kept
<1>1. /\ pc = "written" /\ pc' = "idle" /\ incoming' = 0
      /\ UNCHANGED <<maxFiles, lengths, rotations, shift, failed>>
  BY DEF File!WriteRotated, File!config, File!NoRecord
<1>2. /\ Len(lengths) \in Nat /\ lengths \in Seq(Lengths) /\ Len(lengths) <= MaxRecords
      /\ rotations \in 0..MaxRotations /\ incoming \in 0..Len(lengths)
      /\ \A r \in Numbers : lengths[r] \in Lengths
  <2>1. lengths \in Seq(Lengths)
    BY DEF FileInv, FileTyped, File!TypeOK
  <2>2. \A r \in Numbers : lengths[r] \in Lengths
    BY <2>1, ElementOfSeq DEF Numbers
  <2> QED BY <2>1, <2>2, FileFacts DEF FileInv, FileTyped, File!TypeOK
<1>3. /\ incoming # 0 /\ incoming = Len(lengths) /\ buffer = << >>
      /\ \A x \in Records(maxFiles, Contents, buffer) : x < incoming
  BY <1>1 DEF FileInv, Handled, Awaited
<1>4. CASE open
  <2>1. File!Put(incoming, lengths[incoming])
    BY <1>4 DEF File!WriteRotated
  <2>2. incoming \in 1..Len(lengths') /\ lengths[incoming] \in Lengths /\ lengths'[incoming] = lengths[incoming]
    BY <1>1, <1>2, <1>3 DEF Numbers
  <2>3. faults = 0 => Contents[0] \o buffer = << >>
    <3>1. faults = 0 => Contents[0] = << >>
      BY <1>1 DEF FileInv, Fitting
    <3> QED BY <1>3, <3>1
  <2>4. lengths' \in Seq(Lengths) /\ Len(lengths) <= Len(lengths') /\ Len(lengths') <= MaxRecords
        /\ \A i \in Numbers : lengths'[i] = lengths[i]
    BY <1>1, <1>2
  <2>5. incoming' \in 0..Len(lengths')
    BY <1>1, <1>2
  <2> DEFINE length == lengths[incoming]
  <2>6. length \in Lengths /\ File!Put(incoming, length) /\ lengths'[incoming] = length
    BY <2>1, <2>2
  <2> HIDE DEF length
  <2> QED BY <1>1, <1>3, <1>4, <2>2, <2>3, <2>4, <2>5, <2>6, PutKeeps
<1>5. CASE ~open
  <2>1. UNCHANGED <<disk, buffer, open, size, faults>>
    BY <1>5 DEF File!WriteRotated, File!handle
  <2>2. NoFile' = NoFile /\ Contents' = Contents
    BY <1>1, <2>1 DEF NoFile, File!NoFile, File!NoRecord, Contents, ContentsOf
  <2>3. /\ size \in Nat /\ open \in BOOLEAN /\ shift \in 0..maxFiles /\ failed \in BOOLEAN
        /\ faults \in 0..MaxFaults /\ disk \in [0..maxFiles -> Seq(1..Len(lengths)) \cup {NoFile}]
        /\ buffer \in Seq(1..Len(lengths)) /\ (buffer # << >> => open)
    BY DEF FileInv, FileTyped, File!TypeOK, File!Files, Numbers
  <2>4. incoming' \in 0..Len(lengths')
    BY <1>1, <1>2
  <2>5. FileTyped'
    BY <1>1, <1>2, <1>3, <2>1, <2>3, <2>4, FileTypes DEF FileInv
  <2>6. Handled' /\ Awaited' /\ Vacated' /\ Sized'
    BY <1>1, <1>5, <2>1 DEF Handled, Awaited, Vacated, Sized
  <2>7. Fitting'
    BY <1>1, <1>5, <2>1, <2>2 DEF FileInv, Fitting, SmallOf
  <2> QED BY <1>1, <2>1, <2>2, <2>5, <2>6, <2>7 DEF FileInv, Kept
<1> QED BY <1>4, <1>5

LEMMA ForceKeeps ==
  ASSUME FileInv, File!ForceRotate
  PROVE  FileInv' /\ Kept
<1>1. /\ rotations < MaxRotations /\ rotations' = rotations + 1 /\ File!BeginRotation(0)
      /\ UNCHANGED <<maxFiles, lengths>>
  BY DEF File!ForceRotate, File!NoRecord
<1>2. /\ lengths \in Seq(Lengths) /\ Len(lengths) \in Nat /\ Len(lengths) <= MaxRecords
      /\ rotations \in 0..MaxRotations /\ MaxRotations \in Nat
  BY FileFacts, FileAssumed DEF FileInv, FileTyped, File!TypeOK, File!RotatingFileAssumption
<1>3. rotations' \in 0..MaxRotations
  BY <1>1, <1>2
<1>4. lengths' \in Seq(Lengths) /\ Len(lengths) <= Len(lengths') /\ Len(lengths') <= MaxRecords
      /\ \A i \in Numbers : lengths'[i] = lengths[i]
  BY <1>1, <1>2
<1> QED BY <1>1, <1>3, <1>4, BeginsKeeps

LEMMA FileNext ==
  ASSUME FileInv, File!Next
  PROVE  FileInv' /\ Kept
<1>1. CASE File!Construct
  <2>1. /\ pc = "down" /\ pc' = "idle" /\ File!OpenCurrent
        /\ UNCHANGED <<maxFiles, lengths, rotations, buffer, shift, incoming>>
    BY <1>1 DEF File!Construct, File!config
  <2>2. ~open
    BY <2>1 DEF FileInv, Handled
  <2> QED BY <2>1, <2>2, OpensKeep
<1>2. CASE File!Reopen
  <2>1. /\ pc = "reopen" /\ pc' = IF incoming = 0 THEN "idle" ELSE "written"
        /\ File!OpenCurrent
        /\ UNCHANGED <<maxFiles, lengths, rotations, buffer, shift, incoming>>
    BY <1>2 DEF File!Reopen, File!config, File!NoRecord
  <2>2. ~open
    BY <2>1 DEF FileInv, Handled
  <2> QED BY <2>1, <2>2, OpensKeep
<1>3. CASE \E length \in Lengths : File!Write(length)
  BY <1>3, WritesKeep
<1> QED BY <1>1, <1>2, <1>3, DestroyKeeps, CrashKeeps, RotatedKeeps, FlushKeeps, ForceKeeps, RemovesKeep,
           ShiftsKeep DEF File!Next

LEMMA FileInit ==
  ASSUME File!Init
  PROVE  FileInv
<1>1. /\ maxFiles \in 0..MaxBackups /\ disk = [n \in 0..maxFiles |-> NoFile]
      /\ buffer = << >> /\ open = FALSE /\ size = 0 /\ pc = "down" /\ shift = 0 /\ incoming = 0
      /\ lengths = << >> /\ failed = FALSE /\ rotations = 0 /\ faults = 0
  BY DEF File!Init, File!Files, File!NoRecord, NoFile
<1>2. /\ MaxBackups \in Nat /\ MaxRecords \in Nat /\ MaxRotations \in Nat /\ MaxFaults \in Nat /\ maxFiles \in Nat
  BY <1>1, FileAssumed DEF File!RotatingFileAssumption
<1>3. Contents = [n \in 0..maxFiles |-> << >>]
  BY <1>1 DEF Contents, ContentsOf
<1>4. << >> \in Seq(Numbers) /\ << >> \in Seq(Lengths) /\ Len(<< >>) = 0
  BY EmptySeq
<1>5. FileTyped
  <2>1. \A n \in 0..maxFiles : disk[n] = File!NoFile
    BY <1>1 DEF NoFile
  <2>2. File!TypeOK
    <3>1. /\ lengths \in Seq(Lengths) /\ Len(lengths) = 0 /\ Len(lengths) <= MaxRecords
          /\ buffer \in Seq(1..Len(lengths))
      BY <1>1, <1>2, <1>4 DEF Numbers
    <3>2. /\ shift \in 0..maxFiles /\ incoming \in 0..Len(lengths) /\ rotations \in 0..MaxRotations
          /\ faults \in 0..MaxFaults
      BY <1>1, <1>2, <3>1
    <3> QED BY <1>1, <2>1, <3>1, <3>2 DEF File!TypeOK, File!Files
  <2> QED BY <1>1, <2>2 DEF FileTyped
<1>6. Handled /\ Awaited /\ Vacated /\ Sized
  BY <1>1 DEF Handled, Awaited, Vacated, Sized
<1>7. Fitting
  BY <1>1, <1>3, SmallEmpty DEF Fitting
<1>8. Ordered(maxFiles, Contents, buffer)
  BY <1>1, <1>3 DEF Ordered, File!Ascend, File!Before
<1> QED BY <1>5, <1>6, <1>7, <1>8 DEF FileInv

-----------------------------------------------------------------------------
(***************************************************************************)
(* The rotating file: theorems.                                            *)
(***************************************************************************)
\* In a behaviour of MCDevices the rotating file takes its own steps or none.
LEMMA FileAlone == MCSpec => File!Spec
<1>1. MCInit => File!Init
  BY DEF MCInit
<1>2. [MCNext]_<<which, vars, fileVars, alarmVars>> => [File!Next]_(File!vars)
  <2>1. UNCHANGED fileVars => UNCHANGED File!vars
    BY DEF fileVars, File!vars, File!config, File!handle, File!rotation
  <2> QED BY <2>1 DEF MCNext
<1> QED BY <1>1, <1>2, PTL DEF MCSpec, File!Spec

\* The invariant of the rotating file is inductive.
THEOREM FileInvariantHolds == File!Spec => []FileInv
<1>1. File!Init => FileInv
  BY FileInit
<1>2. FileInv /\ [File!Next]_(File!vars) => FileInv'
  <2>1. FileInv /\ UNCHANGED File!vars => FileInv'
    <3> SUFFICES ASSUME FileInv, UNCHANGED File!vars PROVE FileInv'
      OBVIOUS
    <3>1. UNCHANGED <<maxFiles, disk, buffer, open, size, pc, shift, incoming, lengths, failed, rotations, faults>>
      BY DEF File!vars, File!config, File!handle, File!rotation
    <3>2. NoFile' = NoFile /\ Numbers' = Numbers /\ Contents' = Contents
      BY <3>1 DEF NoFile, File!NoFile, File!NoRecord, Numbers, Contents, ContentsOf
    <3>3. FileTyped'
      BY <3>1, <3>2 DEF FileInv, FileTyped, File!TypeOK, File!Files, File!NoFile, File!NoRecord
    <3>4. Handled' /\ Awaited' /\ Vacated' /\ Sized'
      BY <3>1, <3>2 DEF FileInv, Handled, Awaited, Vacated, Sized
    <3>5. Fitting'
      BY <3>1, <3>2 DEF FileInv, Fitting, SmallOf
    <3> QED BY <3>1, <3>2, <3>3, <3>4, <3>5 DEF FileInv
  <2> QED BY <2>1, FileNext
<1> QED BY <1>1, <1>2, PTL DEF File!Spec

\* m_current_size is the size of the active file after whatever failed, and without
\* failures no file of rotating_file_sink outgrows its limit but by a single record.
THEOREM FilesStayWithinBudget == MCSpec => []WithinBudget
<1>1. FileInv => WithinBudget
  <2> SUFFICES ASSUME FileInv PROVE File!WithinBudget
    BY DEF WithinBudget
  <2>1. /\ \A n \in 0..maxFiles : File!Content(n) = Contents[n]
        /\ \A s : File!Bytes(s) = Total(lengths, s)
    BY FileTerms DEF FileInv
  <2>2. 0 \in 0..maxFiles
    BY FileFacts DEF FileInv
  <2> QED BY <2>1, <2>2 DEF FileInv, FileTyped, Sized, Fitting, SmallOf, File!WithinBudget, File!Files
<1> QED BY <1>1, FileAlone, FileInvariantHolds, PTL

\* Rotations, with any of their steps failing and the process stopping between them, keep
\* the records in the order of their writes, and lose none but those of the last file and
\* of the buffer.
THEOREM FilesRollForward == MCSpec => RollsForward
<1> DEFINE
  Step ==
    /\ File!Chronological'
    /\ failed' \/ File!Logged \ File!Logged' \subseteq
                    File!Ext!ToSet(File!Content(maxFiles))
                      \cup (IF File!Crash THEN File!Ext!ToSet(buffer) ELSE {})
<1>1. FileInv =>
        /\ File!Chronological /\ File!Logged = Records(maxFiles, Contents, buffer)
        /\ File!Ext!ToSet(File!Content(maxFiles)) = Entries(Contents[maxFiles])
        /\ File!Ext!ToSet(buffer) = Entries(buffer)
  <2> SUFFICES ASSUME FileInv
               PROVE  /\ File!Chronological /\ File!Logged = Records(maxFiles, Contents, buffer)
                      /\ File!Ext!ToSet(File!Content(maxFiles)) = Entries(Contents[maxFiles])
                      /\ File!Ext!ToSet(buffer) = Entries(buffer)
    OBVIOUS
  <2>1. Contents[maxFiles] \in Seq(Numbers) /\ buffer \in Seq(Numbers) /\ maxFiles \in 0..maxFiles
    BY FileFacts DEF FileInv
  <2> QED BY <2>1, FileTerms DEF FileInv
<1>2. FileInv' => (/\ File!Chronological /\ File!Logged = Records(maxFiles, Contents, buffer)
                   /\ File!Ext!ToSet(File!Content(maxFiles)) = Entries(Contents[maxFiles])
                   /\ File!Ext!ToSet(buffer) = Entries(buffer))'
  BY <1>1, PTL
<1>3. FileInv /\ FileInv' /\ File!Next => Step
  BY <1>1, <1>2, FileNext DEF Kept
<1>4. FileInv /\ FileInv' /\ [File!Next]_(File!vars) => [Step]_(File!vars)
  BY <1>3
<1>5. File!Spec => [][Step]_(File!vars)
  BY <1>4, FileInvariantHolds, PTL DEF File!Spec
<1> QED BY <1>5, FileAlone, PTL DEF RollsForward, File!RollsForward, Step
=============================================================================
