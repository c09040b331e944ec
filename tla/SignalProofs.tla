---------------------------- MODULE SignalProofs ----------------------------
(***************************************************************************)
(* Proofs about Signal and StaticSignal, for any priorities, any number of *)
(* connections, any depth of nested emits and any capacity of the static   *)
(* signal's list.                                                          *)
(***************************************************************************)
EXTENDS MCSignals, SequenceTheorems, WellFoundedInduction, TLAPS

(***************************************************************************)
(* The inductive invariant.                                                *)
(***************************************************************************)
Frame == [n : Nat, i : Nat]

Typed ==
  /\ slots \in Seq(SlotEntry) /\ pending \in Seq(SlotEntry)
  /\ nextId \in 1..MaxConnects + 1
  /\ blocked \in BOOLEAN /\ owner \in BOOLEAN
  /\ frames \in Seq(Frame) /\ Len(frames) <= MaxDepth
  /\ tracked \in Seq(Ids) /\ Len(tracked) <= TrackCapacity

\* d fires before e: connect_into's list order.
Precedes(d, e) ==
  \/ d.priority < e.priority
  \/ d.priority = e.priority /\ d.id < e.id

Sorted(s) ==
  \A j, k \in 1..Len(s) : j < k => Precedes(s[j], s[k]) /\ s[j].id # s[k].id

\* The ids of s are below id.
Below(s, id) == \A j \in 1..Len(s) : s[j].id < id

\* The list is in firing order, marked entries included; connections wait in the order
\* they were made, all of them younger than the list.
FiringOrder ==
  /\ Sorted(slots)
  /\ Below(slots, nextId) /\ Below(pending, nextId)
  /\ \A k \in 1..Len(pending) : Below(slots, pending[k].id)
  /\ \A j, k \in 1..Len(pending) : j < k => pending[j].id < pending[k].id

\* Every emit in progress walks the whole list.
Walking ==
  \A k \in 1..Len(frames) : frames[k].n = Len(slots) /\ frames[k].i <= frames[k].n

\* Outside an emit no work is deferred.
Resting ==
  ~Emitting /\ owner => pending = << >> /\ \A j \in 1..Len(slots) : slots[j].alive

Inv == Typed /\ FiringOrder /\ Walking /\ Resting

-----------------------------------------------------------------------------
(***************************************************************************)
(* Induction and recursion over the places of a list.                      *)
(***************************************************************************)

\* What holds of 0, and of every n up to N when it holds of n - 1, holds up to N.
LEMMA UpTo ==
  ASSUME NEW N \in Nat, NEW P, 0 \in P, \A n \in 1..N : n - 1 \in P => n \in P
  PROVE  \A n \in 0..N : n \in P
<1> DEFINE Bad == (0..N) \ P
<1> SUFFICES ASSUME Bad # {} PROVE FALSE
  OBVIOUS
<1>1. Bad \subseteq Nat
  OBVIOUS
<1>2. PICK m \in Bad : \A n \in Bad : ~(<<n, m>> \in OpToRel(<, Nat))
  <2>1. IsWellFoundedOn(OpToRel(<, Nat), Nat)
    BY NatLessThanWellFounded
  <2> QED BY <1>1, <2>1, WFMin
<1>3. \A n \in Bad : ~(n < m)
  BY <1>1, <1>2 DEF OpToRel
<1>4. m \in 1..N /\ m - 1 \in 0..N /\ m - 1 < m
  OBVIOUS
<1>5. m - 1 \in P
  BY <1>3, <1>4
<1> QED BY <1>4, <1>5

\* f goes from base by the steps up to n.
Runs(f, n, V, base, step) ==
  /\ f \in [0..n -> V]
  /\ f[0] = base
  /\ \A k \in 1..n : f[k] = step[k][f[k - 1]]

\* A value and a step for each place define a function.
LEMMA Recursion ==
  ASSUME NEW N \in Nat, NEW V, NEW base \in V, NEW step \in [1..N -> [V -> V]]
  PROVE  \E f : Runs(f, N, V, base, step)
<1> DEFINE P == {n \in 0..N : \E f : Runs(f, n, V, base, step)}
<1>1. 0 \in P
  <2>1. PICK f : f = [k \in 0..0 |-> base]
    OBVIOUS
  <2>2. f \in [0..0 -> V] /\ f[0] = base /\ \A k \in 1..0 : f[k] = step[k][f[k - 1]]
    BY <2>1
  <2>3. Runs(f, 0, V, base, step)
    BY <2>2 DEF Runs
  <2> QED BY <2>3
<1>2. ASSUME NEW n \in 1..N, n - 1 \in P PROVE n \in P
  <2>1. PICK g : Runs(g, n - 1, V, base, step)
    BY <1>2
  <2>2. /\ g \in [0..(n - 1) -> V] /\ g[0] = base
        /\ \A k \in 1..(n - 1) : g[k] = step[k][g[k - 1]]
    BY <2>1 DEF Runs
  <2>3. PICK v : v = step[n][g[n - 1]]
    OBVIOUS
  <2>4. v \in V
    <3>1. n - 1 \in 0..(n - 1)
      OBVIOUS
    <3>2. g[n - 1] \in V
      BY <2>2, <3>1
    <3> QED BY <2>3, <3>2
  <2>5. PICK f : f = [k \in 0..n |-> IF k = n THEN v ELSE g[k]]
    OBVIOUS
  <2>6. f \in [0..n -> V]
    <3>1. \A k \in 0..n : k # n => k \in 0..(n - 1)
      OBVIOUS
    <3>2. \A k \in 0..n : k # n => g[k] \in V
      BY <2>2, <3>1
    <3> QED BY <2>4, <2>5, <3>2
  <2>7. f[n] = v /\ \A k \in 0..(n - 1) : f[k] = g[k]
    BY <2>5
  <2>8. f[0] = base
    BY <2>2, <2>7
  <2>9. ASSUME NEW k \in 1..n PROVE f[k] = step[k][f[k - 1]]
    <3>1. k - 1 \in 0..(n - 1) /\ f[k - 1] = g[k - 1]
      BY <2>7
    <3>2. CASE k = n
      BY <2>3, <2>7, <3>1, <3>2
    <3>3. CASE k # n
      <4>1. k \in 0..(n - 1) /\ k \in 1..(n - 1)
        BY <3>3
      <4> QED BY <2>2, <2>7, <3>1, <4>1
    <3> QED BY <3>2, <3>3
  <2>10. Runs(f, n, V, base, step)
    BY <2>6, <2>8, <2>9 DEF Runs
  <2>11. n \in 0..N
    OBVIOUS
  <2> QED BY <2>10, <2>11
<1> HIDE DEF P
<1>3. \A n \in 1..N : n - 1 \in P => n \in P
  BY <1>2
<1>4. N \in 0..N
  OBVIOUS
<1>5. N \in P
  BY <1>1, <1>3, <1>4, UpTo
<1> QED BY <1>5 DEF P

-----------------------------------------------------------------------------
(***************************************************************************)
(* The operations on lists.                                                *)
(***************************************************************************)
Entries(s) == {s[j] : j \in 1..Len(s)}

\* r is what s has at those of the first n places that are in K, in order: entry j of r
\* comes from place at[j].
Picks(r, s, K, n, at) ==
  /\ at \in [1..Len(r) -> 1..n]
  /\ \A j \in 1..Len(r) : at[j] \in K /\ r[j] = s[at[j]]
  /\ \A j, k \in 1..Len(r) : j < k => at[j] < at[k]
  /\ \A l \in 1..n : l \in K => \E j \in 1..Len(r) : at[j] = l

LEMMA OnlyPicks ==
  ASSUME NEW S, NEW s \in Seq(S), NEW K
  PROVE  Only(s, K) \in Seq(S) /\ \E at : Picks(Only(s, K), s, K, Len(s), at)
<1> DEFINE N == Len(s)
           kept == CHOOSE f : f = [n \in 0..N |->
                     IF n = 0 THEN << >>
                     ELSE IF n \in K THEN Append(f[n - 1], s[n]) ELSE f[n - 1]]
<1>1. N \in Nat /\ \A n \in 1..N : s[n] \in S
  BY ElementOfSeq, LenProperties
<1>2. kept = [n \in 0..N |-> IF n = 0 THEN << >>
                ELSE IF n \in K THEN Append(kept[n - 1], s[n]) ELSE kept[n - 1]]
  <2> DEFINE step == [n \in 1..N |-> [v \in Seq(S) |-> IF n \in K THEN Append(v, s[n]) ELSE v]]
  <2>1. step \in [1..N -> [Seq(S) -> Seq(S)]]
    BY <1>1, AppendProperties
  <2>2. << >> \in Seq(S)
    BY EmptySeq
  <2> HIDE DEF step
  <2>3. PICK g : Runs(g, N, Seq(S), << >>, step)
    BY <1>1, <2>1, <2>2, Recursion
  <2>4. /\ g \in [0..N -> Seq(S)] /\ g[0] = << >>
        /\ \A n \in 1..N : g[n] = step[n][g[n - 1]]
    BY <2>3 DEF Runs
  <2>5. ASSUME NEW n \in 0..N
        PROVE  g[n] = IF n = 0 THEN << >>
                      ELSE IF n \in K THEN Append(g[n - 1], s[n]) ELSE g[n - 1]
    <3>1. CASE n = 0
      BY <2>4, <3>1
    <3>2. CASE n # 0
      <4>1. n \in 1..N /\ n - 1 \in 0..N
        BY <1>1, <3>2
      <4>2. g[n - 1] \in Seq(S) /\ g[n] = step[n][g[n - 1]]
        BY <2>4, <4>1
      <4> QED BY <3>2, <4>1, <4>2 DEF step
    <3> QED BY <3>1, <3>2
  <2>6. g = [n \in 0..N |-> IF n = 0 THEN << >>
                ELSE IF n \in K THEN Append(g[n - 1], s[n]) ELSE g[n - 1]]
    BY <2>4, <2>5
  <2> QED BY <2>6
<1>3. Only(s, K) = kept[N]
  BY DEF Only
<1> HIDE DEF kept
<1>4. kept[0] = << >>
  BY <1>1, <1>2
<1>5. \A n \in 1..N : kept[n] = IF n \in K THEN Append(kept[n - 1], s[n]) ELSE kept[n - 1]
  <2>1. \A n \in 0..N : kept[n] = IF n = 0 THEN << >>
                ELSE IF n \in K THEN Append(kept[n - 1], s[n]) ELSE kept[n - 1]
    BY <1>2, Zenon
  <2>2. \A n \in 1..N : n \in 0..N /\ n # 0
    BY <1>1
  <2> QED BY <2>1, <2>2
<1> DEFINE P == {n \in 0..N : kept[n] \in Seq(S) /\ \E at : Picks(kept[n], s, K, n, at)}
<1>6. 0 \in P
  <2>1. kept[0] \in Seq(S) /\ Len(kept[0]) = 0
    BY <1>4, EmptySeq
  <2>2. PICK at : at = [j \in 1..0 |-> 1]
    OBVIOUS
  <2>3. at \in [1..0 -> 1..0] /\ 1..0 = {}
    BY <2>2
  <2>4. Picks(kept[0], s, K, 0, at)
    BY <2>1, <2>3 DEF Picks
  <2> QED BY <1>1, <2>1, <2>4
<1>7. ASSUME NEW n \in 1..N, n - 1 \in P PROVE n \in P
  <2>1. PICK r, at : r = kept[n - 1] /\ r \in Seq(S) /\ Picks(r, s, K, n - 1, at)
    BY <1>7
  <2>2. PICK m \in Nat : m = Len(r)
    BY <2>1, LenProperties
  <2>3. /\ at \in [1..m -> 1..(n - 1)]
        /\ \A j \in 1..m : at[j] \in K /\ r[j] = s[at[j]]
        /\ \A j, k \in 1..m : j < k => at[j] < at[k]
        /\ \A l \in 1..(n - 1) : l \in K => \E j \in 1..m : at[j] = l
    BY <2>1, <2>2 DEF Picks
  <2>4. n \in 0..N /\ n \in Nat /\ \A l \in 1..n : l = n \/ l \in 1..(n - 1)
    BY <1>1
  <2>5. \A j \in 1..m : at[j] \in 1..n /\ at[j] < n
    BY <2>3, <2>4
  <2>6. CASE n \notin K
    <3>1. kept[n] = r
      BY <1>5, <2>1, <2>6
    <3>2. at \in [1..m -> 1..n]
      BY <2>3, <2>5
    <3>3. \A l \in 1..n : l \in K => \E j \in 1..m : at[j] = l
      BY <2>3, <2>4, <2>6
    <3>4. Picks(r, s, K, n, at)
      BY <2>2, <2>3, <3>2, <3>3 DEF Picks
    <3> QED BY <2>1, <2>4, <3>1, <3>4
  <2>7. CASE n \in K
    <3>1. PICK q : q = Append(r, s[n])
      OBVIOUS
    <3>2. kept[n] = q
      BY <1>5, <2>1, <2>7, <3>1
    <3>3. q \in Seq(S) /\ Len(q) = m + 1 /\ q[m + 1] = s[n] /\ \A j \in 1..m : q[j] = r[j]
      BY <1>1, <2>1, <2>2, <3>1, AppendProperties
    <3>4. PICK to : to = [j \in 1..(m + 1) |-> IF j = m + 1 THEN n ELSE at[j]]
      OBVIOUS
    <3>5. \A j \in 1..(m + 1) : j = m + 1 \/ j \in 1..m
      BY <2>2
    <3>6. to[m + 1] = n /\ \A j \in 1..m : to[j] = at[j]
      BY <2>2, <3>4
    <3>7. to \in [1..(m + 1) -> 1..n]
      BY <2>4, <2>5, <3>4, <3>5
    <3>8. \A j \in 1..(m + 1) : to[j] \in K /\ q[j] = s[to[j]]
      BY <2>3, <2>7, <3>3, <3>5, <3>6
    <3>9. \A j, k \in 1..(m + 1) : j < k => to[j] < to[k]
      <4> SUFFICES ASSUME NEW j \in 1..(m + 1), NEW k \in 1..(m + 1), j < k PROVE to[j] < to[k]
        OBVIOUS
      <4>1. j \in 1..m
        BY <2>2
      <4>2. CASE k = m + 1
        BY <2>5, <3>6, <4>1, <4>2
      <4>3. CASE k \in 1..m
        BY <2>3, <3>6, <4>1, <4>3
      <4> QED BY <3>5, <4>2, <4>3
    <3>10. \A l \in 1..n : l \in K => \E j \in 1..(m + 1) : to[j] = l
      <4> SUFFICES ASSUME NEW l \in 1..n, l \in K PROVE \E j \in 1..(m + 1) : to[j] = l
        OBVIOUS
      <4>1. m + 1 \in 1..(m + 1) /\ 1..m \subseteq 1..(m + 1)
        BY <2>2
      <4>2. CASE l = n
        BY <3>6, <4>1, <4>2
      <4>3. CASE l \in 1..(n - 1)
        <5>1. PICK j \in 1..m : at[j] = l
          BY <2>3, <4>3
        <5> QED BY <3>6, <4>1, <5>1
      <4> QED BY <2>4, <4>2, <4>3
    <3>11. Picks(q, s, K, n, to)
      BY <3>3, <3>7, <3>8, <3>9, <3>10 DEF Picks
    <3> QED BY <2>4, <3>2, <3>3, <3>11
  <2> QED BY <2>6, <2>7
<1> HIDE DEF P
<1>8. \A n \in 1..N : n - 1 \in P => n \in P
  BY <1>7
<1>9. N \in P
  <2>1. N \in 0..N
    BY <1>1
  <2> QED BY <1>1, <1>6, <1>8, <2>1, UpTo
<1> QED BY <1>3, <1>9 DEF P

\* What Only leaves of a list in firing order is in firing order.
LEMMA OnlyIs ==
  ASSUME NEW s \in Seq(SlotEntry), NEW K, Sorted(s)
  PROVE  /\ Only(s, K) \in Seq(SlotEntry) /\ Len(Only(s, K)) \in Nat /\ Sorted(Only(s, K))
         /\ Entries(Only(s, K)) = {s[j] : j \in K \cap (1..Len(s))}
<1> PICK r : r = Only(s, K)
  OBVIOUS
<1>1. PICK at : Picks(r, s, K, Len(s), at)
  BY OnlyPicks
<1>2. /\ at \in [1..Len(r) -> 1..Len(s)]
      /\ \A j \in 1..Len(r) : at[j] \in K /\ r[j] = s[at[j]]
      /\ \A j, k \in 1..Len(r) : j < k => at[j] < at[k]
      /\ \A l \in 1..Len(s) : l \in K => \E j \in 1..Len(r) : at[j] = l
  BY <1>1 DEF Picks
<1>3. r \in Seq(SlotEntry) /\ Len(r) \in Nat
  BY OnlyPicks, LenProperties
<1>4. Sorted(r)
  <2> SUFFICES ASSUME NEW j \in 1..Len(r), NEW k \in 1..Len(r), j < k
               PROVE  Precedes(r[j], r[k]) /\ r[j].id # r[k].id
    BY DEF Sorted
  <2>1. at[j] \in 1..Len(s) /\ at[k] \in 1..Len(s) /\ at[j] < at[k] /\ r[j] = s[at[j]] /\ r[k] = s[at[k]]
    BY <1>2
  <2> QED BY <2>1 DEF Sorted
<1>5. Entries(r) = {s[j] : j \in K \cap (1..Len(s))}
  <2>1. ASSUME NEW j \in 1..Len(r) PROVE r[j] \in {s[l] : l \in K \cap (1..Len(s))}
    BY <1>2
  <2>2. ASSUME NEW l \in K \cap (1..Len(s)) PROVE s[l] \in Entries(r)
    <3>1. PICK j \in 1..Len(r) : at[j] = l
      BY <1>2
    <3> QED BY <1>2, <3>1 DEF Entries
  <2> QED BY <2>1, <2>2 DEF Entries
<1> QED BY <1>3, <1>4, <1>5

\* What an entry is made of.
LEMMA EntryFits ==
  ASSUME NEW e \in SlotEntry
  PROVE  e.priority \in Int /\ e.id \in Nat /\ e.id \in Ids /\ e.alive \in BOOLEAN
<1>1. e.priority \in Priorities /\ e.id \in Ids /\ e.alive \in BOOLEAN
  BY DEF SlotEntry
<1>2. Priorities \subseteq Int
  BY BoundsAssumption
<1>3. Ids \subseteq Nat
  BY BoundsAssumption DEF Ids
<1> QED BY <1>1, <1>2, <1>3

\* The place a new entry is bubbled to.
LEMMA InsertAtPlace ==
  ASSUME NEW S, NEW s \in Seq(S), NEW e \in S
  PROVE  \E at \in 1..Len(s) + 1 :
           /\ \A j \in at..Len(s) : e.priority < s[j].priority
           /\ at > 1 => ~(e.priority < s[at - 1].priority)
           /\ InsertByPriority(s, e) = SubSeq(s, 1, at - 1) \o <<e>> \o SubSeq(s, at, Len(s))
<1> DEFINE N == Len(s)
           Fits(k) == /\ \A j \in k..N : e.priority < s[j].priority
                      /\ k > 1 => ~(e.priority < s[k - 1].priority)
           Room == {k \in 1..N + 1 : \A j \in k..N : e.priority < s[j].priority}
<1>1. N \in Nat /\ N + 1 \in Room
  BY LenProperties
<1>2. Room \subseteq Nat
  BY <1>1
<1>3. PICK m \in Room : \A k \in Room : ~(<<k, m>> \in OpToRel(<, Nat))
  <2>1. IsWellFoundedOn(OpToRel(<, Nat), Nat)
    BY NatLessThanWellFounded
  <2>2. Room # {}
    BY <1>1
  <2> HIDE DEF Room
  <2> QED BY <1>2, <2>1, <2>2, WFMin
<1>4. \A k \in Room : ~(k < m)
  BY <1>2, <1>3 DEF OpToRel
<1>5. m \in 1..N + 1 /\ \A j \in m..N : e.priority < s[j].priority
  OBVIOUS
<1>6. m > 1 => ~(e.priority < s[m - 1].priority)
  <2> SUFFICES ASSUME m > 1, e.priority < s[m - 1].priority PROVE FALSE
    OBVIOUS
  <2>1. m - 1 \in 1..N + 1 /\ m - 1 < m /\ \A j \in (m - 1)..N : j = m - 1 \/ j \in m..N
    BY <1>1, <1>5
  <2>2. m - 1 \in Room
    BY <1>5, <2>1
  <2> QED BY <1>4, <2>1, <2>2
<1>7. PICK at : at = CHOOSE k \in 1..N + 1 : Fits(k)
  OBVIOUS
<1>8. at \in 1..N + 1 /\ Fits(at)
  <2>1. Fits(m) /\ m \in 1..N + 1
    BY <1>5, <1>6
  <2> HIDE DEF Fits
  <2> QED BY <1>7, <2>1
<1>9. InsertByPriority(s, e) = InsertAt(s, at, e)
  BY <1>7 DEF InsertByPriority
<1> QED BY <1>8, <1>9 DEF InsertAt

\* r is s with e at place at, the entries before it at most of e's priority, those after it
\* of a greater one.
Inserted(r, s, e, at) ==
  /\ \A j \in at..Len(s) : e.priority < s[j].priority
  /\ at > 1 => ~(e.priority < s[at - 1].priority)
  /\ r[at] = e
  /\ \A j \in 1..(at - 1) : r[j] = s[j]
  /\ \A j \in (at + 1)..(Len(s) + 1) : r[j] = s[j - 1]

\* What the list looks like with a new entry in it.
LEMMA InsertShape ==
  ASSUME NEW S, NEW s \in Seq(S), NEW e \in S, NEW r, r = InsertByPriority(s, e)
  PROVE  /\ r \in Seq(S) /\ Len(s) \in Nat /\ Len(r) = Len(s) + 1
         /\ \E at \in 1..Len(s) + 1 : Inserted(r, s, e, at)
<1>1. PICK N \in Nat : N = Len(s)
  BY LenProperties
<1>2. PICK at \in 1..N + 1 :
        /\ \A j \in at..N : e.priority < s[j].priority
        /\ at > 1 => ~(e.priority < s[at - 1].priority)
        /\ r = SubSeq(s, 1, at - 1) \o <<e>> \o SubSeq(s, at, N)
  BY <1>1, InsertAtPlace
<1>3. /\ SubSeq(s, 1, at - 1) \in Seq(S) /\ Len(SubSeq(s, 1, at - 1)) = at - 1
      /\ \A j \in 1..(at - 1) : SubSeq(s, 1, at - 1)[j] = s[j]
  <2>1. \A j \in 1..(at - 1) : s[j] \in S
    BY <1>1, ElementOfSeq
  <2>2. /\ SubSeq(s, 1, at - 1) \in Seq(S)
        /\ Len(SubSeq(s, 1, at - 1)) = IF 1 <= at - 1 THEN (at - 1) - 1 + 1 ELSE 0
        /\ \A j \in 1..((at - 1) - 1 + 1) : SubSeq(s, 1, at - 1)[j] = s[1 + j - 1]
    BY <2>1, SubSeqProperties
  <2>3. (at - 1) - 1 + 1 = at - 1 /\ \A j \in 1..(at - 1) : 1 + j - 1 = j
    OBVIOUS
  <2> QED BY <2>2, <2>3
<1>4. /\ SubSeq(s, at, N) \in Seq(S) /\ Len(SubSeq(s, at, N)) = N - at + 1
      /\ \A j \in 1..(N - at + 1) : SubSeq(s, at, N)[j] = s[at + j - 1]
  <2>1. \A j \in at..N : s[j] \in S
    BY <1>1, ElementOfSeq
  <2>2. /\ SubSeq(s, at, N) \in Seq(S)
        /\ Len(SubSeq(s, at, N)) = IF at <= N THEN N - at + 1 ELSE 0
        /\ \A j \in 1..(N - at + 1) : SubSeq(s, at, N)[j] = s[at + j - 1]
    BY <2>1, SubSeqProperties
  <2> QED BY <1>1, <2>2
<1>5. PICK a, b : a = SubSeq(s, 1, at - 1) /\ b = SubSeq(s, at, N)
  OBVIOUS
<1>6. /\ a \in Seq(S) /\ Len(a) = at - 1 /\ \A j \in 1..(at - 1) : a[j] = s[j]
      /\ b \in Seq(S) /\ Len(b) = N - at + 1 /\ \A j \in 1..(N - at + 1) : b[j] = s[at + j - 1]
      /\ r = a \o <<e>> \o b
  BY <1>2, <1>3, <1>4, <1>5
<1>7. PICK c : c = a \o <<e>>
  OBVIOUS
<1>8. /\ c \in Seq(S) /\ Len(c) = at /\ c[at] = e
      /\ \A j \in 1..(at - 1) : c[j] = s[j]
  <2>1. <<e>> \in Seq(S) /\ Len(<<e>>) = 1 /\ <<e>>[1] = e
    OBVIOUS
  <2>2. /\ c \in Seq(S) /\ Len(c) = (at - 1) + 1
        /\ \A j \in 1..((at - 1) + 1) : c[j] = IF j <= at - 1 THEN a[j] ELSE <<e>>[j - (at - 1)]
    BY <1>6, <1>7, <2>1, ConcatProperties
  <2>3. (at - 1) + 1 = at /\ at - (at - 1) = 1 /\ at \in 1..at /\ ~(at <= at - 1)
    OBVIOUS
  <2>4. c[at] = <<e>>[at - (at - 1)]
    BY <2>2, <2>3
  <2>5. \A j \in 1..(at - 1) : j \in 1..((at - 1) + 1) /\ j <= at - 1
    OBVIOUS
  <2>6. \A j \in 1..(at - 1) : c[j] = a[j]
    BY <2>2, <2>5
  <2>7. \A j \in 1..(at - 1) : c[j] = s[j]
    BY <1>6, <2>6
  <2> QED BY <2>1, <2>2, <2>3, <2>4, <2>7
<1>9. /\ r \in Seq(S) /\ Len(r) = N + 1
      /\ r[at] = e
      /\ \A j \in 1..(at - 1) : r[j] = s[j]
      /\ \A j \in (at + 1)..(N + 1) : r[j] = s[j - 1]
  <2>1. /\ r \in Seq(S) /\ Len(r) = at + (N - at + 1)
        /\ \A j \in 1..(at + (N - at + 1)) : r[j] = IF j <= at THEN c[j] ELSE b[j - at]
    <3>1. r = c \o b
      BY <1>6, <1>7
    <3>2. c \in Seq(S) /\ b \in Seq(S) /\ Len(c) = at /\ Len(b) = N - at + 1
      BY <1>6, <1>8
    <3>3. /\ c \o b \in Seq(S)
          /\ Len(c \o b) = Len(c) + Len(b)
          /\ \A j \in 1..(Len(c) + Len(b)) :
               (c \o b)[j] = IF j <= Len(c) THEN c[j] ELSE b[j - Len(c)]
      BY <3>2, ConcatProperties
    <3>4. /\ r \in Seq(S)
          /\ Len(r) = Len(c) + Len(b)
          /\ \A j \in 1..(Len(c) + Len(b)) : r[j] = IF j <= Len(c) THEN c[j] ELSE b[j - Len(c)]
      BY <3>1, <3>3, Zenon
    <3> QED BY <3>2, <3>4
  <2>2. at + (N - at + 1) = N + 1
    OBVIOUS
  <2>3. \A j \in (at + 1)..(N + 1) : j - at \in 1..(N - at + 1) /\ at + (j - at) - 1 = j - 1 /\ ~(j <= at)
    OBVIOUS
  <2>4. \A j \in 1..(N + 1) : r[j] = IF j <= at THEN c[j] ELSE b[j - at]
    BY <2>1, <2>2
  <2>5. \A j \in (at + 1)..(N + 1) : r[j] = b[j - at]
    BY <2>3, <2>4
  <2>6. \A j \in (at + 1)..(N + 1) : b[j - at] = s[at + (j - at) - 1]
    BY <1>6, <2>3
  <2>7. \A j \in (at + 1)..(N + 1) : r[j] = s[j - 1]
    BY <2>3, <2>5, <2>6
  <2>8. \A j \in 1..at : j \in 1..(N + 1) /\ j <= at
    OBVIOUS
  <2>9. \A j \in 1..at : r[j] = c[j]
    BY <2>4, <2>8
  <2>10. r[at] = e /\ \A j \in 1..(at - 1) : r[j] = s[j]
    BY <1>8, <2>9
  <2> QED BY <2>1, <2>2, <2>7, <2>10
<1>10. Inserted(r, s, e, at)
  BY <1>1, <1>2, <1>9 DEF Inserted
<1> QED BY <1>1, <1>9, <1>10

\* bubble_last_into_position puts a younger entry in its place in the firing order.
LEMMA InsertIs ==
  ASSUME NEW s \in Seq(SlotEntry), NEW e \in SlotEntry, Sorted(s), Below(s, e.id)
  PROVE  /\ InsertByPriority(s, e) \in Seq(SlotEntry) /\ Sorted(InsertByPriority(s, e))
         /\ Entries(InsertByPriority(s, e)) = Entries(s) \cup {e}
<1> PICK r : r = InsertByPriority(s, e)
  OBVIOUS
<1>1. PICK N \in Nat : N = Len(s)
  BY LenProperties
<1>9. r \in Seq(SlotEntry) /\ Len(r) = N + 1
  BY <1>1, InsertShape
<1>2. PICK at \in 1..N + 1 : Inserted(r, s, e, at)
  BY <1>1, InsertShape
<1>3. /\ \A j \in at..N : e.priority < s[j].priority
      /\ at > 1 => ~(e.priority < s[at - 1].priority)
      /\ r[at] = e
      /\ \A j \in 1..(at - 1) : r[j] = s[j]
      /\ \A j \in (at + 1)..(N + 1) : r[j] = s[j - 1]
  BY <1>1, <1>2 DEF Inserted
<1>10. \A j \in 1..N : s[j] \in SlotEntry /\ s[j].priority \in Int /\ s[j].id \in Nat
  <2> TAKE j \in 1..N
  <2>1. s[j] \in SlotEntry
    BY <1>1, ElementOfSeq
  <2> QED BY <2>1, EntryFits
<1>11. e.priority \in Int /\ e.id \in Nat
  BY EntryFits
<1>12. \A j, k \in 1..N : j < k => Precedes(s[j], s[k]) /\ s[j].id # s[k].id
  BY <1>1 DEF Sorted
<1>13. \A j \in 1..N : s[j].id < e.id
  BY <1>1 DEF Below
<1>14. \A j \in 1..(at - 1) : Precedes(s[j], e)
  <2> TAKE j \in 1..(at - 1)
  <2>1. at > 1 /\ at - 1 \in 1..N /\ j \in 1..N /\ (j = at - 1 \/ j < at - 1)
    OBVIOUS
  <2>2. s[at - 1].priority <= e.priority
    BY <1>3, <1>10, <1>11, <2>1
  <2>3. s[j].priority <= s[at - 1].priority
    <3> PICK a, b : a = s[j].priority /\ b = s[at - 1].priority
      OBVIOUS
    <3>1. a \in Int /\ b \in Int
      BY <1>10, <2>1
    <3>2. CASE j = at - 1
      BY <3>1, <3>2
    <3>3. CASE j < at - 1
      <4>1. Precedes(s[j], s[at - 1])
        BY <1>12, <2>1, <3>3
      <4>2. a < b \/ a = b
        BY <4>1 DEF Precedes
      <4> QED BY <3>1, <4>2
    <3> QED BY <2>1, <3>2, <3>3
  <2>4. s[j].priority <= e.priority /\ s[j].id < e.id
    BY <1>10, <1>11, <1>13, <2>1, <2>2, <2>3
  <2>5. s[j].priority \in Int
    BY <1>10, <2>1
  <2>6. s[j].priority < e.priority \/ s[j].priority = e.priority
    BY <1>11, <2>4, <2>5
  <2> QED BY <2>4, <2>6 DEF Precedes
<1>15. \A j \in at..N : Precedes(e, s[j])
  BY <1>3 DEF Precedes
<1>16. \A j \in 1..(N + 1) : j = at \/ j \in 1..(at - 1) \/ (j \in (at + 1)..(N + 1) /\ j - 1 \in at..N)
  OBVIOUS
<1>17. Sorted(r)
  <2> SUFFICES ASSUME NEW j \in 1..(N + 1), NEW k \in 1..(N + 1), j < k
               PROVE  Precedes(r[j], r[k]) /\ r[j].id # r[k].id
    BY <1>3, <1>9 DEF Sorted
  <2>1. CASE j = at
    <3>1. k \in (at + 1)..(N + 1) /\ k - 1 \in at..N /\ k - 1 \in 1..N
      BY <2>1
    <3>2. r[j] = e /\ r[k] = s[k - 1]
      BY <1>3, <1>9, <2>1, <3>1
    <3> QED BY <1>10, <1>11, <1>13, <1>15, <3>1, <3>2
  <2>2. CASE j \in 1..(at - 1)
    <3>1. j \in 1..N /\ r[j] = s[j]
      BY <1>3, <1>9, <2>2
    <3>2. CASE k = at
      BY <1>3, <1>9, <1>10, <1>11, <1>13, <1>14, <2>2, <3>1, <3>2
    <3>3. CASE k \in 1..(at - 1)
      BY <1>3, <1>9, <1>12, <3>1, <3>3
    <3>4. CASE k \in (at + 1)..(N + 1)
      <4>1. k - 1 \in 1..N /\ j < k - 1 /\ r[k] = s[k - 1]
        BY <1>3, <1>9, <2>2, <3>4
      <4> QED BY <1>12, <3>1, <4>1
    <3> QED BY <1>16, <3>2, <3>3, <3>4
  <2>3. CASE j \in (at + 1)..(N + 1)
    <3>1. j - 1 \in 1..N /\ k - 1 \in 1..N /\ j - 1 < k - 1 /\ k \in (at + 1)..(N + 1)
      BY <2>3
    <3>2. r[j] = s[j - 1] /\ r[k] = s[k - 1]
      BY <1>3, <1>9, <2>3, <3>1
    <3> QED BY <1>12, <3>1, <3>2
  <2> QED BY <1>16, <2>1, <2>2, <2>3
<1>18. Entries(r) = Entries(s) \cup {e}
  <2>1. ASSUME NEW j \in 1..(N + 1) PROVE r[j] \in Entries(s) \cup {e}
    <3>1. CASE j = at
      BY <1>3, <1>9, <3>1
    <3>2. CASE j \in 1..(at - 1)
      BY <1>1, <1>3, <1>9, <3>2 DEF Entries
    <3>3. CASE j \in (at + 1)..(N + 1) /\ j - 1 \in at..N
      <4>1. j - 1 \in 1..N /\ r[j] = s[j - 1]
        BY <1>3, <1>9, <3>3
      <4> QED BY <1>1, <4>1 DEF Entries
    <3> QED BY <1>16, <3>1, <3>2, <3>3
  <2>2. ASSUME NEW j \in 1..N PROVE s[j] \in Entries(r)
    <3>1. CASE j \in 1..(at - 1)
      <4>1. j \in 1..(N + 1) /\ r[j] = s[j]
        BY <1>3, <1>9, <3>1
      <4> QED BY <1>3, <1>9, <4>1 DEF Entries
    <3>2. CASE j \in at..N
      <4>1. j + 1 \in (at + 1)..(N + 1) /\ j + 1 \in 1..(N + 1) /\ (j + 1) - 1 = j
        BY <3>2
      <4>2. r[j + 1] = s[j]
        BY <1>3, <1>9, <4>1
      <4> QED BY <1>3, <1>9, <4>1, <4>2 DEF Entries
    <3>3. j \in 1..(at - 1) \/ j \in at..N
      OBVIOUS
    <3> QED BY <3>1, <3>2, <3>3
  <2>3. e \in Entries(r)
    <3>1. at \in 1..(N + 1)
      OBVIOUS
    <3> QED BY <1>3, <1>9, <3>1 DEF Entries
  <2>4. Entries(r) \subseteq Entries(s) \cup {e}
    BY <1>3, <1>9, <2>1 DEF Entries
  <2>5. Entries(s) \subseteq Entries(r)
    BY <1>1, <2>2 DEF Entries
  <2> QED BY <2>3, <2>4, <2>5
<1> QED BY <1>3, <1>9, <1>17, <1>18

\* apply_pending leaves the list in firing order, the alive ones of the pending entries in it.
LEMMA MergedIs ==
  ASSUME Typed, FiringOrder, NEW r, r = ApplyPending(slots)
  PROVE  /\ r \in Seq(SlotEntry) /\ Sorted(r)
         /\ Entries(r) = Entries(slots)
                           \cup {pending[k] : k \in {l \in 1..Len(pending) : pending[l].alive}}
<1> DEFINE N == Len(pending)
           merged == CHOOSE f : f = [n \in 0..N |->
                       IF n = 0 THEN slots
                       ELSE IF pending[n].alive THEN InsertByPriority(f[n - 1], pending[n])
                       ELSE f[n - 1]]
<1>0. slots \in Seq(SlotEntry) /\ pending \in Seq(SlotEntry)
  BY DEF Typed
<1>1. N \in Nat /\ \A n \in 1..N : pending[n] \in SlotEntry
  BY <1>0, ElementOfSeq, LenProperties
<1>2. merged = [n \in 0..N |->
                  IF n = 0 THEN slots
                  ELSE IF pending[n].alive THEN InsertByPriority(merged[n - 1], pending[n])
                  ELSE merged[n - 1]]
  <2> DEFINE step == [n \in 1..N |-> [v \in Seq(SlotEntry) |->
                        IF pending[n].alive THEN InsertByPriority(v, pending[n]) ELSE v]]
  <2>1. step \in [1..N -> [Seq(SlotEntry) -> Seq(SlotEntry)]]
    <3>1. \A n \in 1..N, v \in Seq(SlotEntry) : InsertByPriority(v, pending[n]) \in Seq(SlotEntry)
      BY <1>1, InsertShape
    <3> QED BY <3>1
  <2> HIDE DEF step
  <2>3. PICK g : Runs(g, N, Seq(SlotEntry), slots, step)
    BY <1>0, <1>1, <2>1, Recursion
  <2>4. /\ g \in [0..N -> Seq(SlotEntry)] /\ g[0] = slots
        /\ \A n \in 1..N : g[n] = step[n][g[n - 1]]
    BY <2>3 DEF Runs
  <2>5. ASSUME NEW n \in 0..N
        PROVE  g[n] = IF n = 0 THEN slots
                      ELSE IF pending[n].alive THEN InsertByPriority(g[n - 1], pending[n])
                      ELSE g[n - 1]
    <3>1. CASE n = 0
      BY <2>4, <3>1
    <3>2. CASE n # 0
      <4>1. n \in 1..N /\ n - 1 \in 0..N
        BY <1>1, <3>2
      <4>2. g[n - 1] \in Seq(SlotEntry) /\ g[n] = step[n][g[n - 1]]
        BY <2>4, <4>1
      <4> QED BY <3>2, <4>1, <4>2 DEF step
    <3> QED BY <3>1, <3>2
  <2>6. g = [n \in 0..N |->
               IF n = 0 THEN slots
               ELSE IF pending[n].alive THEN InsertByPriority(g[n - 1], pending[n])
               ELSE g[n - 1]]
    BY <2>4, <2>5
  <2> QED BY <2>6
<1>3. r = merged[N]
  BY DEF ApplyPending
<1> HIDE DEF merged
<1>4. merged[0] = slots
  BY <1>1, <1>2
<1>5. \A n \in 1..N : merged[n] = IF pending[n].alive
                                  THEN InsertByPriority(merged[n - 1], pending[n])
                                  ELSE merged[n - 1]
  <2>1. \A n \in 0..N : merged[n] = IF n = 0 THEN slots
                ELSE IF pending[n].alive THEN InsertByPriority(merged[n - 1], pending[n])
                ELSE merged[n - 1]
    BY <1>2, Zenon
  <2>2. \A n \in 1..N : n \in 0..N /\ n # 0
    BY <1>1
  <2> QED BY <2>1, <2>2
<1> DEFINE Added(n) == {pending[k] : k \in {l \in 1..n : pending[l].alive}}
           P == {n \in 0..N : /\ merged[n] \in Seq(SlotEntry) /\ Sorted(merged[n])
                              /\ Entries(merged[n]) = Entries(slots) \cup Added(n)}
<1>6. 0 \in P
  <2>1. Added(0) = {}
    OBVIOUS
  <2> QED BY <1>0, <1>1, <1>4, <2>1 DEF FiringOrder
<1>7. ASSUME NEW n \in 1..N, n - 1 \in P PROVE n \in P
  <2>1. PICK v : v = merged[n - 1] /\ v \in Seq(SlotEntry) /\ Sorted(v)
                 /\ Entries(v) = Entries(slots) \cup Added(n - 1)
    BY <1>7
  <2>2. n \in 0..N /\ n \in Nat /\ \A l \in 1..n : l = n \/ l \in 1..(n - 1)
    BY <1>1
  <2>3. CASE ~pending[n].alive
    <3>1. merged[n] = v
      BY <1>5, <2>1, <2>3
    <3>2. \A l \in 1..n : pending[l].alive => l \in 1..(n - 1)
      BY <2>2, <2>3
    <3>3. {l \in 1..n : pending[l].alive} = {l \in 1..(n - 1) : pending[l].alive}
      BY <2>2, <3>2
    <3>4. Added(n) = Added(n - 1)
      BY <3>3
    <3> QED BY <2>1, <2>2, <3>1, <3>4
  <2>4. CASE pending[n].alive
    <3>1. PICK q : q = InsertByPriority(v, pending[n])
      OBVIOUS
    <3>2. merged[n] = q
      BY <1>5, <2>1, <2>4, <3>1
    <3>3. pending[n] \in SlotEntry
      BY <1>1
    <3>4. Below(v, pending[n].id)
      <4> SUFFICES ASSUME NEW j \in 1..Len(v) PROVE v[j].id < pending[n].id
        BY DEF Below
      <4>1. v[j] \in Entries(v)
        BY DEF Entries
      <4>2. CASE v[j] \in Entries(slots)
        <5>1. PICK m \in 1..Len(slots) : v[j] = slots[m]
          BY <4>2 DEF Entries
        <5>2. Below(slots, pending[n].id)
          BY DEF FiringOrder
        <5> QED BY <5>1, <5>2 DEF Below
      <4>3. CASE v[j] \in Added(n - 1)
        <5>1. PICK k \in 1..(n - 1) : v[j] = pending[k]
          BY <4>3
        <5>2. k \in 1..N /\ k < n
          BY <1>1
        <5> QED BY <5>1, <5>2 DEF FiringOrder
      <4> QED BY <2>1, <4>1, <4>2, <4>3
    <3>5. q \in Seq(SlotEntry) /\ Sorted(q) /\ Entries(q) = Entries(v) \cup {pending[n]}
      BY <2>1, <3>1, <3>3, <3>4, InsertIs
    <3>6. Added(n) = Added(n - 1) \cup {pending[n]}
      <4>1. n \in {l \in 1..n : pending[l].alive}
        BY <2>2, <2>4
      <4>2. {l \in 1..n : pending[l].alive} = {l \in 1..(n - 1) : pending[l].alive} \cup {n}
        BY <2>2, <2>4
      <4> QED BY <4>2
    <3> QED BY <2>1, <2>2, <3>2, <3>5, <3>6
  <2> QED BY <2>3, <2>4
<1> HIDE DEF P
<1>8. \A n \in 1..N : n - 1 \in P => n \in P
  BY <1>7
<1>9. N \in P
  <2>1. N \in 0..N
    BY <1>1
  <2> QED BY <1>1, <1>6, <1>8, <2>1, UpTo
<1> QED BY <1>3, <1>9 DEF P

\* Marking entries dead changes nothing but their mark.
LEMMA MarkDeadIs ==
  ASSUME NEW s \in Seq(SlotEntry), NEW ids, NEW r, r = MarkDead(s, ids)
  PROVE  /\ r \in Seq(SlotEntry) /\ Len(r) = Len(s) /\ Len(s) \in Nat
         /\ \A j \in 1..Len(s) :
              /\ r[j].id = s[j].id /\ r[j].priority = s[j].priority /\ r[j].once = s[j].once
              /\ r[j].alive = (s[j].alive /\ s[j].id \notin ids)
         /\ Sorted(s) => Sorted(r)
<1>1. Len(s) \in Nat /\ \A j \in 1..Len(s) : s[j] \in SlotEntry
  BY ElementOfSeq, LenProperties
<1> PICK N \in Nat : N = Len(s)
  BY <1>1
<1>2. r = [j \in 1..N |-> IF s[j].id \in ids THEN [s[j] EXCEPT !.alive = FALSE] ELSE s[j]]
  BY DEF MarkDead
<1>3. ASSUME NEW j \in 1..N
      PROVE  /\ r[j] \in SlotEntry
             /\ r[j].id = s[j].id /\ r[j].priority = s[j].priority /\ r[j].once = s[j].once
             /\ r[j].alive = (s[j].alive /\ s[j].id \notin ids)
  <2>1. s[j] \in SlotEntry
    BY <1>1
  <2>2. r[j] = IF s[j].id \in ids THEN [s[j] EXCEPT !.alive = FALSE] ELSE s[j]
    BY <1>2
  <2> QED BY <2>1, <2>2 DEF SlotEntry
<1>4. r \in [1..N -> SlotEntry]
  BY <1>2, <1>3
<1>5. r \in Seq(SlotEntry) /\ Len(r) = N
  <2>1. r \in Seq(SlotEntry)
    BY <1>4, SeqDef
  <2>2. DOMAIN r = 1..N
    BY <1>4
  <2> QED BY <2>1, <2>2, LenProperties
<1>6. Sorted(s) => Sorted(r)
  BY <1>3, <1>5 DEF Sorted, Precedes
<1> QED BY <1>3, <1>5, <1>6

-----------------------------------------------------------------------------
(***************************************************************************)
(* Every step preserves the invariant.                                     *)
(***************************************************************************)

\* What typing says of the entries.
LEMMA TypedFacts ==
  ASSUME Typed
  PROVE  /\ Len(slots) \in Nat /\ Len(pending) \in Nat /\ Len(frames) \in Nat /\ nextId \in Nat
         /\ \A j \in 1..Len(slots) : slots[j] \in SlotEntry /\ slots[j].id \in Nat
         /\ \A j \in 1..Len(pending) : pending[j] \in SlotEntry /\ pending[j].id \in Nat
         /\ \A k \in 1..Len(frames) : frames[k].n \in Nat /\ frames[k].i \in Nat
<1>0. /\ slots \in Seq(SlotEntry) /\ pending \in Seq(SlotEntry) /\ frames \in Seq(Frame)
      /\ nextId \in 1..MaxConnects + 1
  BY DEF Typed
<1>1. Len(slots) \in Nat /\ Len(pending) \in Nat /\ Len(frames) \in Nat
  BY <1>0, LenProperties
<1>2. nextId \in Nat
  BY <1>0, BoundsAssumption
<1>3. \A j \in 1..Len(slots) : slots[j] \in SlotEntry /\ slots[j].id \in Nat
  <2> TAKE j \in 1..Len(slots)
  <2>1. slots[j] \in SlotEntry
    BY <1>0, ElementOfSeq
  <2> QED BY <2>1, EntryFits
<1>4. \A j \in 1..Len(pending) : pending[j] \in SlotEntry /\ pending[j].id \in Nat
  <2> TAKE j \in 1..Len(pending)
  <2>1. pending[j] \in SlotEntry
    BY <1>0, ElementOfSeq
  <2> QED BY <2>1, EntryFits
<1>5. \A k \in 1..Len(frames) : frames[k].n \in Nat /\ frames[k].i \in Nat
  <2> TAKE k \in 1..Len(frames)
  <2>1. frames[k] \in Frame
    BY <1>0, ElementOfSeq
  <2> QED BY <2>1 DEF Frame
<1> QED BY <1>1, <1>2, <1>3, <1>4, <1>5

\* The two lists have the same ids and priorities, place by place.
SameKeys(s, t) ==
  /\ Len(t) = Len(s)
  /\ \A j \in 1..Len(s) : t[j].id = s[j].id /\ t[j].priority = s[j].priority

\* The firing order looks at ids and priorities only.
LEMMA OrderKept ==
  ASSUME FiringOrder, nextId' = nextId, SameKeys(slots, slots'),
         SameKeys(pending, pending') \/ pending' = << >>
  PROVE  FiringOrder'
<1>0. /\ Sorted(slots) /\ Below(slots, nextId) /\ Below(pending, nextId)
      /\ \A k \in 1..Len(pending) : Below(slots, pending[k].id)
      /\ \A j, k \in 1..Len(pending) : j < k => pending[j].id < pending[k].id
  BY DEF FiringOrder
<1>1. /\ Len(slots') = Len(slots)
      /\ \A j \in 1..Len(slots) : /\ slots'[j].id = slots[j].id
                                  /\ slots'[j].priority = slots[j].priority
  BY DEF SameKeys
<1>2. Sorted(slots')
  BY <1>0, <1>1 DEF Sorted, Precedes
<1>3. \A id : Below(slots, id) => Below(slots', id)
  BY <1>1 DEF Below
<1>4. CASE SameKeys(pending, pending')
  <2>1. /\ Len(pending') = Len(pending)
        /\ \A j \in 1..Len(pending) : pending'[j].id = pending[j].id
    BY <1>4 DEF SameKeys
  <2>2. Below(pending', nextId)
    BY <1>0, <2>1 DEF Below
  <2>3. \A k \in 1..Len(pending') : Below(slots', pending'[k].id)
    BY <1>0, <1>3, <2>1
  <2>4. \A j, k \in 1..Len(pending') : j < k => pending'[j].id < pending'[k].id
    BY <1>0, <2>1
  <2> QED BY <1>0, <1>2, <1>3, <2>2, <2>3, <2>4 DEF FiringOrder
<1>5. CASE pending' = << >>
  <2>1. Len(pending') = 0
    BY <1>5
  <2>2. Below(pending', nextId)
    BY <2>1 DEF Below
  <2> QED BY <1>0, <1>2, <1>3, <2>1, <2>2 DEF FiringOrder
<1> QED BY <1>4, <1>5

\* Marked entries keep their keys.
LEMMA MarkedKeys ==
  ASSUME NEW s \in Seq(SlotEntry), NEW ids
  PROVE  SameKeys(s, MarkDead(s, ids)) /\ MarkDead(s, ids) \in Seq(SlotEntry)
<1> PICK r : r = MarkDead(s, ids)
  OBVIOUS
<1>1. /\ r \in Seq(SlotEntry) /\ Len(r) = Len(s)
      /\ \A j \in 1..Len(s) : r[j].id = s[j].id /\ r[j].priority = s[j].priority
  BY MarkDeadIs
<1> QED BY <1>1 DEF SameKeys

\* Only entries below id are in a list whose entries are.
LEMMA BelowEntries ==
  ASSUME NEW s, NEW id
  PROVE  Below(s, id) <=> \A e \in Entries(s) : e.id < id
BY DEF Below, Entries

LEMMA ConnectKeeps ==
  ASSUME Inv, NEW p \in Priorities, NEW once \in BOOLEAN,
         owner, nextId <= MaxConnects, nextId' = nextId + 1, ConnectInto(p, once),
         UNCHANGED <<blocked, owner, frames>>, tracked' \in Seq(Ids), Len(tracked') <= TrackCapacity
  PROVE  Inv'
<1>0. Typed /\ FiringOrder /\ Walking /\ Resting
  BY DEF Inv
<1> PICK e : e = Entry(p, once)
  OBVIOUS
<1>1. /\ slots \in Seq(SlotEntry) /\ pending \in Seq(SlotEntry) /\ nextId \in 1..MaxConnects + 1
      /\ blocked \in BOOLEAN /\ owner \in BOOLEAN /\ frames \in Seq(Frame) /\ Len(frames) <= MaxDepth
  BY <1>0 DEF Typed
<1>2. MaxConnects \in Nat /\ nextId \in Ids /\ nextId' \in 1..MaxConnects + 1 /\ nextId < nextId'
  BY <1>1, BoundsAssumption DEF Ids
<1>3. e \in SlotEntry /\ e.id = nextId /\ e.alive
  BY <1>2 DEF Entry, SlotEntry
<1>4. /\ Sorted(slots) /\ Below(slots, nextId) /\ Below(pending, nextId)
      /\ \A k \in 1..Len(pending) : Below(slots, pending[k].id)
      /\ \A j, k \in 1..Len(pending) : j < k => pending[j].id < pending[k].id
  BY <1>0 DEF FiringOrder
<1>5. /\ \A j \in 1..Len(slots) : slots[j].id \in Nat
      /\ \A j \in 1..Len(pending) : pending[j].id \in Nat
      /\ Len(slots) \in Nat /\ Len(pending) \in Nat /\ Len(frames) \in Nat /\ nextId \in Nat
  BY <1>0, TypedFacts
<1>6. CASE Emitting
  <2>1. pending' = Append(pending, e) /\ slots' = slots
    BY <1>6 DEF ConnectInto
  <2> PICK m \in Nat : m = Len(pending)
    BY <1>5
  <2>2. /\ pending' \in Seq(SlotEntry) /\ Len(pending') = m + 1 /\ pending'[m + 1] = e
        /\ \A k \in 1..m : pending'[k] = pending[k]
    BY <1>1, <1>3, <2>1, AppendProperties
  <2>3. Typed'
    BY <1>1, <1>2, <2>1, <2>2 DEF Typed
  <2>4. \A k \in 1..(m + 1) : k = m + 1 \/ k \in 1..m
    OBVIOUS
  <2>5. Below(slots', nextId')
    BY <1>2, <1>4, <1>5, <2>1 DEF Below
  <2>6. \A k \in 1..(m + 1) : pending'[k].id < nextId'
    BY <1>2, <1>3, <1>4, <1>5, <2>2, <2>4 DEF Below
  <2>7. \A k \in 1..(m + 1) : Below(slots', pending'[k].id)
    BY <1>3, <1>4, <2>1, <2>2, <2>4
  <2>8. \A j, k \in 1..(m + 1) : j < k => pending'[j].id < pending'[k].id
    <3> SUFFICES ASSUME NEW j \in 1..(m + 1), NEW k \in 1..(m + 1), j < k
                 PROVE  pending'[j].id < pending'[k].id
      OBVIOUS
    <3>1. j \in 1..m
      OBVIOUS
    <3>2. CASE k = m + 1
      BY <1>3, <1>4, <2>2, <3>1, <3>2 DEF Below
    <3>3. CASE k \in 1..m
      BY <1>4, <2>2, <3>1, <3>3
    <3> QED BY <2>4, <3>2, <3>3
  <2>9. FiringOrder'
    BY <1>4, <2>1, <2>2, <2>5, <2>6, <2>7, <2>8 DEF FiringOrder, Below
  <2>10. Walking'
    BY <1>0, <2>1 DEF Walking
  <2>11. Resting'
    BY <1>6 DEF Resting, Emitting
  <2> QED BY <2>3, <2>9, <2>10, <2>11 DEF Inv
<1>7. CASE ~Emitting
  <2>1. slots' = InsertByPriority(slots, e) /\ pending' = pending
    BY <1>7 DEF ConnectInto
  <2>2. pending = << >> /\ \A j \in 1..Len(slots) : slots[j].alive
    BY <1>0, <1>7 DEF Resting
  <2>3. /\ slots' \in Seq(SlotEntry) /\ Sorted(slots') /\ Entries(slots') = Entries(slots) \cup {e}
    BY <1>1, <1>3, <1>4, <2>1, InsertIs
  <2>4. Typed'
    BY <1>1, <1>2, <2>1, <2>3 DEF Typed
  <2>5. \A d \in Entries(slots') : d.id < nextId' /\ d.alive
    <3>1. \A j \in 1..Len(slots) : slots[j].id < nextId' /\ slots[j].alive
      BY <1>2, <1>4, <1>5, <2>2 DEF Below
    <3>2. e.id < nextId' /\ e.alive
      BY <1>2, <1>3
    <3> QED BY <2>3, <3>1, <3>2 DEF Entries
  <2>6. Below(slots', nextId') /\ \A j \in 1..Len(slots') : slots'[j].alive
    BY <2>5 DEF Entries, Below
  <2>7. Len(pending') = 0
    BY <2>1, <2>2
  <2>8. FiringOrder'
    BY <2>3, <2>6, <2>7 DEF FiringOrder, Below
  <2>9. Len(frames') = 0
    BY <1>7 DEF Emitting
  <2>10. Walking'
    BY <2>9 DEF Walking
  <2>11. Resting'
    BY <2>1, <2>2, <2>6 DEF Resting
  <2> QED BY <2>4, <2>8, <2>10, <2>11 DEF Inv
<1> QED BY <1>6, <1>7

LEMMA DisconnectKeeps ==
  ASSUME Inv, NEW ids, DisconnectByIds(ids), UNCHANGED <<nextId, blocked, owner, frames>>,
         tracked' \in Seq(Ids), Len(tracked') <= TrackCapacity
  PROVE  Inv'
<1>0. Typed /\ FiringOrder /\ Walking /\ Resting
  BY DEF Inv
<1>1. /\ slots \in Seq(SlotEntry) /\ pending \in Seq(SlotEntry) /\ nextId \in 1..MaxConnects + 1
      /\ blocked \in BOOLEAN /\ owner \in BOOLEAN /\ frames \in Seq(Frame) /\ Len(frames) <= MaxDepth
  BY <1>0 DEF Typed
<1>2. CASE Emitting
  <2>1. slots' = MarkDead(slots, ids) /\ pending' = MarkDead(pending, ids)
    BY <1>2 DEF DisconnectByIds
  <2>2. /\ SameKeys(slots, slots') /\ slots' \in Seq(SlotEntry)
        /\ SameKeys(pending, pending') /\ pending' \in Seq(SlotEntry)
    BY <1>1, <2>1, MarkedKeys
  <2>3. Typed'
    BY <1>1, <2>2 DEF Typed
  <2>4. FiringOrder'
    BY <1>0, <2>2, OrderKept
  <2>5. Len(slots') = Len(slots)
    BY <2>2 DEF SameKeys
  <2>6. Walking'
    BY <1>0, <2>5 DEF Walking
  <2>7. Resting'
    BY <1>2 DEF Resting, Emitting
  <2> QED BY <2>3, <2>4, <2>6, <2>7 DEF Inv
<1>3. CASE ~Emitting
  <2> DEFINE K == {j \in 1..Len(slots) : slots[j].id \notin ids}
  <2>1. slots' = Only(slots, K) /\ pending' = pending
    BY <1>3 DEF DisconnectByIds
  <2> HIDE DEF K
  <2>2. Sorted(slots) /\ Below(slots, nextId)
    BY <1>0 DEF FiringOrder
  <2>3. /\ slots' \in Seq(SlotEntry) /\ Sorted(slots')
        /\ Entries(slots') = {slots[j] : j \in K \cap (1..Len(slots))}
    BY <1>1, <2>1, <2>2, OnlyIs
  <2>4. Typed'
    BY <1>1, <2>1, <2>3 DEF Typed
  <2>5. owner => pending = << >> /\ \A j \in 1..Len(slots) : slots[j].alive
    BY <1>0, <1>3 DEF Resting
  <2>6. Entries(slots') \subseteq Entries(slots)
    BY <2>3 DEF Entries
  <2>7. \A id : Below(slots, id) => Below(slots', id)
    BY <2>6, BelowEntries
  <2>8. owner => \A j \in 1..Len(slots') : slots'[j].alive
    BY <2>5, <2>6 DEF Entries
  <2>9. FiringOrder'
    BY <1>0, <2>1, <2>3, <2>7 DEF FiringOrder
  <2>10. Len(frames') = 0
    BY <1>3 DEF Emitting
  <2>11. Walking'
    BY <2>10 DEF Walking
  <2>12. Resting'
    BY <2>1, <2>5, <2>8 DEF Resting
  <2> QED BY <2>4, <2>9, <2>11, <2>12 DEF Inv
<1> QED BY <1>2, <1>3

LEMMA ConnectStep ==
  ASSUME Inv, NEW p \in Priorities, NEW once \in BOOLEAN, Connect(p, once)
  PROVE  Inv'
<1>1. tracked' \in Seq(Ids) /\ Len(tracked') <= TrackCapacity
  BY DEF Inv, Typed, Connect
<1>2. /\ owner /\ nextId <= MaxConnects /\ nextId' = nextId + 1 /\ ConnectInto(p, once)
      /\ UNCHANGED <<blocked, owner, frames>>
  BY DEF Connect
<1> QED BY <1>1, <1>2, ConnectKeeps

LEMMA ConnectTrackedStep ==
  ASSUME Inv, NEW p \in Priorities, ConnectTracked(p)
  PROVE  Inv'
<1>0. /\ nextId \in 1..MaxConnects + 1 /\ tracked \in Seq(Ids) /\ Len(tracked) <= TrackCapacity
  BY DEF Inv, Typed
<1>1. /\ owner /\ nextId <= MaxConnects /\ nextId' = nextId + 1 /\ ConnectInto(p, FALSE)
      /\ UNCHANGED <<blocked, owner, frames>>
      /\ tracked' = IF Len(tracked) = TrackCapacity THEN tracked ELSE Append(tracked, nextId)
  BY DEF ConnectTracked
<1>2. MaxConnects \in Nat /\ TrackCapacity \in Nat
  BY BoundsAssumption
<1>3. nextId \in Ids
  BY <1>0, <1>1, <1>2 DEF Ids
<1>4. Len(tracked) \in Nat
  BY <1>0, LenProperties
<1>5. tracked' \in Seq(Ids) /\ Len(tracked') <= TrackCapacity
  <2>1. CASE Len(tracked) = TrackCapacity
    BY <1>0, <1>1, <2>1
  <2>2. CASE Len(tracked) # TrackCapacity
    <3>1. Append(tracked, nextId) \in Seq(Ids) /\ Len(Append(tracked, nextId)) = Len(tracked) + 1
      BY <1>0, <1>3, AppendProperties
    <3> QED BY <1>0, <1>1, <1>2, <1>4, <2>2, <3>1
  <2> QED BY <2>1, <2>2
<1> QED BY <1>1, <1>5, ConnectKeeps

\* A step that only changes blocked, owner (to FALSE) or tracked.
LEMMA ListKept ==
  ASSUME Inv, UNCHANGED <<slots, pending, nextId, frames>>, blocked' \in BOOLEAN,
         owner' \in BOOLEAN, owner' => owner, tracked' \in Seq(Ids), Len(tracked') <= TrackCapacity
  PROVE  Inv'
<1>0. Typed /\ FiringOrder /\ Walking /\ Resting
  BY DEF Inv
<1>1. Typed'
  BY <1>0 DEF Typed
<1>2. FiringOrder' /\ Walking'
  BY <1>0 DEF FiringOrder, Walking
<1>3. Resting'
  BY <1>0 DEF Resting, Emitting
<1> QED BY <1>1, <1>2, <1>3 DEF Inv

LEMMA DisconnectStep ==
  ASSUME Inv, NEW id \in Ids, Disconnect(id)
  PROVE  Inv'
<1>0. /\ tracked' \in Seq(Ids) /\ Len(tracked') <= TrackCapacity
      /\ blocked' \in BOOLEAN /\ owner' \in BOOLEAN
  BY DEF Inv, Typed, Disconnect
<1>1. /\ IF owner THEN DisconnectByIds({id}) ELSE UNCHANGED <<slots, pending>>
      /\ UNCHANGED <<nextId, blocked, owner, frames, tracked>>
  BY DEF Disconnect
<1>2. CASE owner
  BY <1>0, <1>1, <1>2, DisconnectKeeps
<1>3. CASE ~owner
  BY <1>0, <1>1, <1>3, ListKept
<1> QED BY <1>2, <1>3

LEMMA ClearTrackedStep ==
  ASSUME Inv, ClearTracked
  PROVE  Inv'
<1>0. blocked \in BOOLEAN /\ owner \in BOOLEAN
  BY DEF Inv, Typed
<1>1. PICK ids : /\ IF owner THEN DisconnectByIds(ids) ELSE UNCHANGED <<slots, pending>>
                 /\ tracked' = << >> /\ UNCHANGED <<nextId, blocked, owner, frames>>
  BY DEF ClearTracked
<1>2. tracked' \in Seq(Ids) /\ Len(tracked') <= TrackCapacity
  BY <1>1, BoundsAssumption
<1>3. CASE owner
  BY <1>1, <1>2, <1>3, DisconnectKeeps
<1>4. CASE ~owner
  BY <1>0, <1>1, <1>2, <1>4, ListKept
<1> QED BY <1>3, <1>4

LEMMA DisconnectAllStep ==
  ASSUME Inv, DisconnectAll
  PROVE  Inv'
<1>0. Typed /\ FiringOrder /\ Walking /\ Resting
  BY DEF Inv
<1>1. /\ slots \in Seq(SlotEntry) /\ pending \in Seq(SlotEntry) /\ nextId \in 1..MaxConnects + 1
      /\ blocked \in BOOLEAN /\ owner \in BOOLEAN /\ frames \in Seq(Frame) /\ Len(frames) <= MaxDepth
      /\ tracked \in Seq(Ids) /\ Len(tracked) <= TrackCapacity
  BY <1>0 DEF Typed
<1>2. /\ slots' = IF Emitting THEN MarkDead(slots, Ids) ELSE << >>
      /\ pending' = IF Emitting THEN << >> ELSE pending
      /\ UNCHANGED <<nextId, blocked, owner, frames, tracked>>
  BY DEF DisconnectAll
<1>3. << >> \in Seq(SlotEntry) /\ Len(<< >>) = 0
  BY EmptySeq
<1>4. CASE Emitting
  <2>1. slots' = MarkDead(slots, Ids) /\ pending' = << >>
    BY <1>2, <1>4
  <2>2. SameKeys(slots, slots') /\ slots' \in Seq(SlotEntry)
    BY <1>1, <2>1, MarkedKeys
  <2>3. Typed'
    BY <1>1, <1>2, <1>3, <2>1, <2>2 DEF Typed
  <2>4. FiringOrder'
    BY <1>0, <1>2, <2>1, <2>2, OrderKept
  <2>5. Len(slots') = Len(slots)
    BY <2>2 DEF SameKeys
  <2>6. Walking'
    BY <1>0, <1>2, <2>5 DEF Walking
  <2>7. Resting'
    BY <1>2, <1>4 DEF Resting, Emitting
  <2> QED BY <2>3, <2>4, <2>6, <2>7 DEF Inv
<1>5. CASE ~Emitting
  <2>1. slots' = << >> /\ pending' = pending /\ Len(slots') = 0
    BY <1>2, <1>3, <1>5
  <2>2. Typed'
    BY <1>1, <1>2, <1>3, <2>1 DEF Typed
  <2>3. FiringOrder'
    BY <1>0, <1>2, <2>1 DEF FiringOrder, Sorted, Below
  <2>4. Len(frames') = 0
    BY <1>2, <1>5 DEF Emitting
  <2>5. Walking'
    BY <2>4 DEF Walking
  <2>6. Resting'
    BY <1>0, <1>2, <1>5, <2>1 DEF Resting, Emitting
  <2> QED BY <2>2, <2>3, <2>5, <2>6 DEF Inv
<1> QED BY <1>4, <1>5

LEMMA EmitBeginStep ==
  ASSUME Inv, EmitBegin
  PROVE  Inv'
<1>0. Typed /\ FiringOrder /\ Walking /\ Resting
  BY DEF Inv
<1>1. /\ Len(frames) < MaxDepth
      /\ frames' = Append(frames, [n |-> Len(slots), i |-> 0])
      /\ UNCHANGED <<slots, pending, nextId, blocked, owner, tracked>>
  BY DEF EmitBegin
<1>2. frames \in Seq(Frame) /\ Len(slots) \in Nat /\ MaxDepth \in Nat
  BY <1>0, TypedFacts, BoundsAssumption DEF Typed
<1> PICK m \in Nat : m = Len(frames)
  BY <1>2, LenProperties
<1> PICK f : f = [n |-> Len(slots), i |-> 0]
  OBVIOUS
<1>3. f \in Frame /\ f.n = Len(slots) /\ f.i = 0
  BY <1>2 DEF Frame
<1>4. /\ frames' \in Seq(Frame) /\ Len(frames') = m + 1 /\ frames'[m + 1] = f
      /\ \A k \in 1..m : frames'[k] = frames[k]
  BY <1>1, <1>2, <1>3, AppendProperties
<1>5. Typed'
  BY <1>0, <1>1, <1>2, <1>4 DEF Typed
<1>6. FiringOrder'
  BY <1>0, <1>1 DEF FiringOrder
<1>7. Walking'
  <2>1. \A k \in 1..(m + 1) : k = m + 1 \/ k \in 1..m
    OBVIOUS
  <2>2. \A k \in 1..m : frames'[k].n = Len(slots) /\ frames'[k].i <= frames'[k].n
    BY <1>0, <1>4 DEF Walking
  <2>3. frames'[m + 1].n = Len(slots) /\ frames'[m + 1].i <= frames'[m + 1].n
    BY <1>2, <1>3, <1>4
  <2> QED BY <1>1, <1>4, <2>1, <2>2, <2>3 DEF Walking
<1>8. Resting'
  <2>1. frames' # << >>
    BY <1>4
  <2> QED BY <2>1 DEF Resting, Emitting
<1> QED BY <1>5, <1>6, <1>7, <1>8 DEF Inv

\* While the innermost emit moves on, the frames keep their ends.
LEMMA VisitFrames ==
  ASSUME Typed, Walking, NEW j \in 1..Len(slots), Visit(j)
  PROVE  /\ Top \in Nat /\ Top \in 1..Len(frames) /\ Len(frames) = Top
         /\ frames[Top].n = Len(slots) /\ frames[Top].i < j /\ slots[j].alive
         /\ frames' \in Seq(Frame) /\ Len(frames') = Top
         /\ frames'[Top] = [n |-> Len(slots), i |-> j]
         /\ \A k \in 1..Top : k # Top => frames'[k] = frames[k]
<1>1. /\ Emitting /\ j \in Remaining
      /\ frames' = [frames EXCEPT ![Top].i = j]
  BY DEF Visit
<1>2. frames \in Seq(Frame) /\ Len(frames) \in Nat /\ Top = Len(frames) /\ frames # << >>
  BY <1>1, LenProperties DEF Typed, Emitting, Top
<1>3. Top \in 1..Len(frames) /\ frames[Top] \in Frame
  <2>1. Len(frames) # 0
    BY <1>2, EmptySeq
  <2>2. Top \in 1..Len(frames)
    BY <1>2, <2>1
  <2> QED BY <1>2, <2>2, ElementOfSeq
<1>4. frames[Top].n = Len(slots)
  BY <1>3 DEF Walking
<1>5. frames[Top].i < j /\ slots[j].alive
  <2>1. j \in frames[Top].i + 1 .. frames[Top].n /\ slots[j].alive
    BY <1>1 DEF Remaining
  <2>2. frames[Top].i \in Nat
    BY <1>3 DEF Frame
  <2> QED BY <2>1, <2>2
<1>6. PICK g : g = [frames[Top] EXCEPT !.i = j]
  OBVIOUS
<1>7. g = [n |-> Len(slots), i |-> j] /\ g \in Frame
  <2>1. frames[Top] \in [n : Nat, i : Nat]
    BY <1>3 DEF Frame
  <2>2. j \in Nat
    OBVIOUS
  <2> QED BY <1>4, <1>6, <2>1, <2>2 DEF Frame
<1>8. frames' = [frames EXCEPT ![Top] = g]
  BY <1>1, <1>6
<1>9. /\ frames' \in Seq(Frame) /\ Len(frames') = Len(frames)
      /\ \A k \in 1..Len(frames) : frames'[k] = IF k = Top THEN g ELSE frames[k]
  BY <1>2, <1>3, <1>7, <1>8, ExceptSeq
<1> QED BY <1>2, <1>3, <1>4, <1>5, <1>7, <1>9

LEMMA VisitStep ==
  ASSUME Inv, NEW j \in 1..Len(slots), Visit(j)
  PROVE  Inv'
<1>0. Typed /\ FiringOrder /\ Walking /\ Resting
  BY DEF Inv
<1>1. /\ slots' = IF slots[j].once THEN MarkDead(slots, {slots[j].id}) ELSE slots
      /\ UNCHANGED <<pending, nextId, blocked, owner, tracked>>
  BY DEF Visit
<1>2. /\ slots \in Seq(SlotEntry) /\ Len(slots) \in Nat
  BY <1>0, TypedFacts DEF Typed
<1>3. SameKeys(slots, slots') /\ slots' \in Seq(SlotEntry)
  <2>1. CASE slots[j].once
    BY <1>1, <1>2, <2>1, MarkedKeys
  <2>2. CASE ~slots[j].once
    BY <1>1, <1>2, <2>2 DEF SameKeys
  <2> QED BY <2>1, <2>2
<1>4. /\ Len(frames) = Top /\ Top \in Nat /\ Top \in 1..Top /\ frames' \in Seq(Frame) /\ Len(frames') = Top
      /\ frames'[Top] = [n |-> Len(slots), i |-> j]
      /\ \A k \in 1..Top : k # Top => frames'[k] = frames[k]
  BY <1>0, VisitFrames
<1>5. Typed'
  BY <1>0, <1>1, <1>3, <1>4 DEF Typed
<1>6. FiringOrder'
  <2>1. SameKeys(pending, pending')
    BY <1>1 DEF SameKeys
  <2> QED BY <1>0, <1>1, <1>3, <2>1, OrderKept
<1>7. Len(slots') = Len(slots)
  BY <1>3 DEF SameKeys
<1>8. Walking'
  <2> SUFFICES ASSUME NEW k \in 1..Top
               PROVE  frames'[k].n = Len(slots) /\ frames'[k].i <= frames'[k].n
    BY <1>4, <1>7 DEF Walking
  <2>1. CASE k = Top
    BY <1>2, <1>4, <2>1
  <2>2. CASE k # Top
    BY <1>0, <1>4, <2>2 DEF Walking
  <2> QED BY <2>1, <2>2
<1>9. Resting'
  <2>1. frames' # << >>
    BY <1>4
  <2> QED BY <2>1 DEF Resting, Emitting
<1> QED BY <1>5, <1>6, <1>8, <1>9 DEF Inv

\* The end of the outermost emit leaves the alive ones of both lists, in firing order.
LEMMA SweptIs ==
  ASSUME Typed, FiringOrder, MergeAndSweep
  PROVE  /\ slots' \in Seq(SlotEntry) /\ Sorted(slots') /\ pending' = << >>
         /\ Entries(slots') = {e \in Entries(slots) \cup Entries(pending) : e.alive}
<1> PICK r : r = ApplyPending(slots)
  OBVIOUS
<1> DEFINE K == {j \in 1..Len(r) : r[j].alive}
<1>1. /\ r \in Seq(SlotEntry) /\ Sorted(r)
      /\ Entries(r) = Entries(slots)
                        \cup {pending[k] : k \in {l \in 1..Len(pending) : pending[l].alive}}
  BY MergedIs
<1>2. slots' = Only(r, K) /\ pending' = << >>
  BY DEF MergeAndSweep, SweepDead
<1>3. {r[j] : j \in K \cap (1..Len(r))} = {e \in Entries(r) : e.alive}
  BY DEF Entries
<1> HIDE DEF K
<1>4. /\ slots' \in Seq(SlotEntry) /\ Sorted(slots')
      /\ Entries(slots') = {r[j] : j \in K \cap (1..Len(r))}
  BY <1>1, <1>2, OnlyIs
<1>5. Entries(slots') = {e \in Entries(r) : e.alive}
  BY <1>3, <1>4
<1>6. {e \in Entries(r) : e.alive} = {e \in Entries(slots) \cup Entries(pending) : e.alive}
  BY <1>1 DEF Entries
<1> QED BY <1>2, <1>4, <1>5, <1>6

\* Leaving an emit drops its frame.
LEMMA LeftFrames ==
  ASSUME Typed, Emitting, frames' = Front(frames)
  PROVE  /\ Top \in Nat \ {0} /\ Len(frames) = Top /\ frames' \in Seq(Frame) /\ Len(frames') = Top - 1
         /\ \A k \in 1..(Top - 1) : frames'[k] = frames[k]
         /\ frames' = << >> <=> Top = 1
<1>1. frames \in Seq(Frame) /\ Len(frames) \in Nat /\ Top = Len(frames) /\ frames # << >>
  BY LenProperties DEF Typed, Emitting, Top
<1>2. Len(frames) # 0
  BY <1>1, EmptySeq
<1> PICK m \in Nat \ {0} : m = Top
  BY <1>1, <1>2
<1>3. frames' = SubSeq(frames, 1, m - 1)
  BY <1>1 DEF Front
<1>4. \A k \in 1..(m - 1) : frames[k] \in Frame
  BY <1>1, ElementOfSeq
<1>5. /\ SubSeq(frames, 1, m - 1) \in Seq(Frame)
      /\ Len(SubSeq(frames, 1, m - 1)) = IF 1 <= m - 1 THEN (m - 1) - 1 + 1 ELSE 0
      /\ \A k \in 1..((m - 1) - 1 + 1) : SubSeq(frames, 1, m - 1)[k] = frames[1 + k - 1]
  BY <1>4, SubSeqProperties
<1>6. (m - 1) - 1 + 1 = m - 1 /\ \A k \in 1..(m - 1) : 1 + k - 1 = k
  OBVIOUS
<1>7. /\ frames' \in Seq(Frame) /\ Len(frames') = m - 1
      /\ \A k \in 1..(m - 1) : frames'[k] = frames[k]
  BY <1>3, <1>5, <1>6
<1>8. frames' = << >> <=> Len(frames') = 0
  BY <1>7, EmptySeq
<1> QED BY <1>1, <1>7, <1>8

LEMMA EmitEndStep ==
  ASSUME Inv, EmitEnd
  PROVE  Inv'
<1>0. Typed /\ FiringOrder /\ Walking /\ Resting
  BY DEF Inv
<1>1. /\ Emitting /\ frames' = Front(frames)
      /\ IF Top = 1 /\ owner THEN MergeAndSweep ELSE UNCHANGED <<slots, pending>>
      /\ UNCHANGED <<nextId, blocked, owner, tracked>>
  BY DEF EmitEnd
<1>2. /\ Top \in Nat \ {0} /\ Len(frames) = Top /\ frames' \in Seq(Frame) /\ Len(frames') = Top - 1
      /\ \A k \in 1..(Top - 1) : frames'[k] = frames[k]
      /\ frames' = << >> <=> Top = 1
  BY <1>0, <1>1, LeftFrames
<1>3. Len(frames') <= MaxDepth
  BY <1>0, <1>2, BoundsAssumption DEF Typed
<1>4. CASE Top = 1 /\ owner
  <2>1. /\ slots' \in Seq(SlotEntry) /\ Sorted(slots') /\ pending' = << >>
        /\ Entries(slots') = {e \in Entries(slots) \cup Entries(pending) : e.alive}
    BY <1>0, <1>1, <1>4, SweptIs
  <2>2. pending' \in Seq(SlotEntry) /\ Len(pending') = 0
    BY <2>1, EmptySeq
  <2>3. Typed'
    BY <1>0, <1>1, <1>2, <1>3, <2>1, <2>2 DEF Typed
  <2>4. \A e \in Entries(slots') : e.alive /\ e.id < nextId
    <3>1. Below(slots, nextId) /\ Below(pending, nextId)
      BY <1>0 DEF FiringOrder
    <3> QED BY <2>1, <3>1, BelowEntries
  <2>5. Below(slots', nextId) /\ \A j \in 1..Len(slots') : slots'[j].alive
    BY <2>4 DEF Below, Entries
  <2>6. FiringOrder'
    BY <1>1, <2>1, <2>2, <2>5 DEF FiringOrder, Below
  <2>7. Len(frames') = 0
    BY <1>2, <1>4
  <2>8. Walking'
    BY <2>7 DEF Walking
  <2>9. Resting'
    BY <2>1, <2>5 DEF Resting
  <2> QED BY <2>3, <2>6, <2>8, <2>9 DEF Inv
<1>5. CASE ~(Top = 1 /\ owner)
  <2>1. UNCHANGED <<slots, pending, nextId, blocked, owner, tracked>>
    BY <1>1, <1>5
  <2>2. Typed'
    BY <1>0, <1>2, <1>3, <2>1 DEF Typed
  <2>3. FiringOrder'
    BY <1>0, <2>1 DEF FiringOrder
  <2>4. Walking'
    BY <1>0, <1>2, <2>1 DEF Walking
  <2>5. Resting'
    BY <1>2, <1>5, <2>1 DEF Resting, Emitting
  <2> QED BY <2>2, <2>3, <2>4, <2>5 DEF Inv
<1> QED BY <1>4, <1>5

LEMMA InvInit == Init => Inv
<1> SUFFICES ASSUME Init PROVE Inv
  OBVIOUS
<1>1. /\ slots = << >> /\ pending = << >> /\ nextId = 1 /\ blocked = FALSE /\ owner = TRUE
      /\ frames = << >> /\ tracked = << >>
  BY DEF Init
<1>2. Len(slots) = 0 /\ Len(pending) = 0 /\ Len(frames) = 0 /\ Len(tracked) = 0
  BY <1>1
<1>3. MaxConnects \in Nat /\ MaxDepth \in Nat /\ TrackCapacity \in Nat
  BY BoundsAssumption
<1>4. Typed
  <2>1. << >> \in Seq(SlotEntry) /\ << >> \in Seq(Frame) /\ << >> \in Seq(Ids)
    BY EmptySeq
  <2>2. 1 \in 1..MaxConnects + 1
    BY <1>3
  <2>3. slots \in Seq(SlotEntry) /\ pending \in Seq(SlotEntry) /\ frames \in Seq(Frame)
        /\ tracked \in Seq(Ids)
    BY <1>1, <2>1
  <2>4. nextId \in 1..MaxConnects + 1 /\ blocked \in BOOLEAN /\ owner \in BOOLEAN
    BY <1>1, <2>2
  <2>5. Len(frames) <= MaxDepth /\ Len(tracked) <= TrackCapacity
    BY <1>2, <1>3
  <2> QED BY <2>3, <2>4, <2>5 DEF Typed
<1>5. FiringOrder
  BY <1>2 DEF FiringOrder, Sorted, Below
<1>6. Walking
  BY <1>2 DEF Walking
<1>7. Resting
  BY <1>1, <1>2 DEF Resting
<1> QED BY <1>4, <1>5, <1>6, <1>7 DEF Inv

THEOREM InvariantHolds == Spec => []Inv
<1>1. Inv /\ [Next]_vars => Inv'
  <2> SUFFICES ASSUME Inv, [Next]_vars PROVE Inv'
    OBVIOUS
  <2>0. /\ blocked \in BOOLEAN /\ owner \in BOOLEAN
        /\ tracked \in Seq(Ids) /\ Len(tracked) <= TrackCapacity
    BY DEF Inv, Typed
  <2>1. CASE \E p \in Priorities, once \in BOOLEAN : Connect(p, once)
    BY <2>1, ConnectStep
  <2>2. CASE \E p \in Priorities : ConnectTracked(p)
    BY <2>2, ConnectTrackedStep
  <2>3. CASE \E id \in Ids : Disconnect(id)
    BY <2>3, DisconnectStep
  <2>4. CASE ClearTracked
    BY <2>4, ClearTrackedStep
  <2>5. CASE DisconnectAll
    BY <2>5, DisconnectAllStep
  <2>6. CASE \E b \in BOOLEAN : SetBlocked(b)
    BY <2>0, <2>6, ListKept DEF SetBlocked
  <2>7. CASE Destroy
    BY <2>0, <2>7, ListKept DEF Destroy
  <2>8. CASE EmitBegin
    BY <2>8, EmitBeginStep
  <2>9. CASE \E j \in 1..Len(slots) : Visit(j)
    BY <2>9, VisitStep
  <2>10. CASE EmitEnd
    BY <2>10, EmitEndStep
  <2>11. CASE Gone \/ UNCHANGED vars
    BY <2>0, <2>11, ListKept DEF Gone, vars
  <2> QED BY <2>1, <2>2, <2>3, <2>4, <2>5, <2>6, <2>7, <2>8, <2>9, <2>10, <2>11 DEF Next
<1> QED BY <1>1, InvInit, PTL DEF Spec

-----------------------------------------------------------------------------
(***************************************************************************)
(* What the invariant gives.                                               *)
(***************************************************************************)

\* No id is used twice, in the list or among the pending connections.
LEMMA IdsDiffer ==
  ASSUME Typed, FiringOrder
  PROVE  IsInjective([j \in 1..Len(slots \o pending) |-> (slots \o pending)[j].id])
<1> PICK c, f : c = slots \o pending /\ f = [j \in 1..Len(c) |-> c[j].id]
  OBVIOUS
<1>1. slots \in Seq(SlotEntry) /\ pending \in Seq(SlotEntry)
  BY DEF Typed
<1> PICK m \in Nat, n \in Nat : m = Len(slots) /\ n = Len(pending)
  BY <1>1, LenProperties
<1>2. Len(c) = m + n /\ \A j \in 1..(m + n) : c[j] = IF j <= m THEN slots[j] ELSE pending[j - m]
  BY <1>1, ConcatProperties
<1>3. /\ \A j \in 1..m : c[j] = slots[j] /\ c[j].id \in Nat
      /\ \A j \in (m + 1)..(m + n) : c[j] = pending[j - m] /\ c[j].id \in Nat
  <2>1. /\ \A j \in 1..m : j \in 1..(m + n) /\ j <= m
        /\ \A j \in (m + 1)..(m + n) : j \in 1..(m + n) /\ ~(j <= m) /\ j - m \in 1..n
    OBVIOUS
  <2>2. /\ \A j \in 1..m : slots[j].id \in Nat
        /\ \A j \in 1..n : pending[j].id \in Nat
    BY TypedFacts
  <2> QED BY <1>2, <2>1, <2>2
<1>4. ASSUME NEW a \in 1..(m + n), NEW b \in 1..(m + n), a < b PROVE c[a].id # c[b].id
  <2>1. CASE b \in 1..m
    <3>1. a \in 1..m
      BY <1>4, <2>1
    <3>2. slots[a].id # slots[b].id
      BY <1>4, <2>1, <3>1 DEF FiringOrder, Sorted
    <3> QED BY <1>3, <2>1, <3>1, <3>2
  <2>2. CASE a \in 1..m /\ b \in (m + 1)..(m + n)
    <3>1. b - m \in 1..n
      BY <2>2
    <3>2. slots[a].id < pending[b - m].id
      BY <2>2, <3>1 DEF FiringOrder, Below
    <3>3. c[a].id < c[b].id
      BY <1>3, <2>2, <3>2
    <3>4. c[a].id \in Nat /\ c[b].id \in Nat
      BY <1>3, <2>2
    <3> QED BY <3>3, <3>4
  <2>3. CASE a \in (m + 1)..(m + n) /\ b \in (m + 1)..(m + n)
    <3>1. a - m \in 1..n /\ b - m \in 1..n /\ a - m < b - m
      BY <1>4, <2>3
    <3>2. pending[a - m].id < pending[b - m].id
      BY <3>1 DEF FiringOrder
    <3>3. c[a].id < c[b].id
      BY <1>3, <2>3, <3>2
    <3>4. c[a].id \in Nat /\ c[b].id \in Nat
      BY <1>3, <2>3
    <3> QED BY <3>3, <3>4
  <2> QED BY <1>4, <2>1, <2>2, <2>3
<1>5. DOMAIN f = 1..(m + n) /\ \A j \in 1..(m + n) : f[j] = c[j].id
  BY <1>2
<1>6. \A a, b \in 1..(m + n) : f[a] = f[b] => a = b
  <2> SUFFICES ASSUME NEW a \in 1..(m + n), NEW b \in 1..(m + n), a # b PROVE f[a] # f[b]
    OBVIOUS
  <2>1. a < b \/ b < a
    OBVIOUS
  <2>2. c[a].id # c[b].id
    BY <1>4, <2>1
  <2> QED BY <1>5, <2>2
<1> QED BY <1>5, <1>6 DEF IsInjective

\* Whatever a nest of emits deferred, connections, disconnects and one-shots that were
\* called, is done when the outermost one ends: the list is then exactly the connected slots,
\* by priority and then by age.
THEOREM ListIsSettled == Spec => []Settled
<1>1. Inv => Settled
  <2> SUFFICES ASSUME Inv PROVE Settled
    OBVIOUS
  <2>0. Typed /\ FiringOrder /\ Walking /\ Resting
    BY DEF Inv
  <2>1. TypeOK
    <3>1. IsInjective([j \in 1..Len(slots \o pending) |-> (slots \o pending)[j].id])
      BY <2>0, IdsDiffer
    <3>2. Len(slots) \in Nat /\ \A k \in 1..Len(frames) : frames[k].n \in Nat /\ frames[k].i \in Nat
      BY <2>0, TypedFacts
    <3>3. \A k \in 1..Len(frames) : frames[k].n \in 0..Len(slots) /\ frames[k].i \in 0..frames[k].n
      <4> TAKE k \in 1..Len(frames)
      <4>1. frames[k].n = Len(slots) /\ frames[k].i <= frames[k].n
        BY <2>0 DEF Walking
      <4>2. frames[k].n \in Nat /\ frames[k].i \in Nat
        BY <3>2
      <4> QED BY <3>2, <4>1, <4>2
    <3> QED BY <2>0, <3>1, <3>3 DEF TypeOK, Typed
  <2> QED BY <2>0, <2>1 DEF Settled, Resting, FiringOrder, Sorted, Precedes
<1> QED BY <1>1, InvariantHolds, PTL

\* connect_into's comment: the live slot list must not move during an emit.  While some emit
\* stays in progress no step, whatever the slot being called does, moves, adds or removes an
\* entry.
THEOREM ListIsPinned == Spec => ListPinned
<1> DEFINE Pinned == Emitting /\ frames' # << >> =>
                       /\ Len(slots') = Len(slots)
                       /\ \A j \in 1..Len(slots) : slots'[j].id = slots[j].id
<1>1. Inv /\ [Next]_vars => Pinned
  <2> SUFFICES ASSUME Inv, [Next]_vars, Emitting, frames' # << >>
               PROVE  /\ Len(slots') = Len(slots)
                      /\ \A j \in 1..Len(slots) : slots'[j].id = slots[j].id
    OBVIOUS
  <2>0. Typed /\ slots \in Seq(SlotEntry)
    BY DEF Inv, Typed
  <2>1. slots' = slots \/ \E ids : slots' = MarkDead(slots, ids)
    <3>1. CASE \E p \in Priorities, once \in BOOLEAN : Connect(p, once)
      BY <3>1 DEF Connect, ConnectInto
    <3>2. CASE \E p \in Priorities : ConnectTracked(p)
      BY <3>2 DEF ConnectTracked, ConnectInto
    <3>3. CASE \E id \in Ids : Disconnect(id)
      BY <3>3 DEF Disconnect, DisconnectByIds
    <3>4. CASE ClearTracked
      BY <3>4 DEF ClearTracked, DisconnectByIds
    <3>5. CASE DisconnectAll
      BY <3>5 DEF DisconnectAll
    <3>6. CASE \E j \in 1..Len(slots) : Visit(j)
      BY <3>6 DEF Visit
    <3>7. CASE EmitEnd
      <4>1. frames' = Front(frames) /\ (~(Top = 1 /\ owner) => slots' = slots)
        BY <3>7 DEF EmitEnd
      <4>2. Top # 1
        BY <2>0, <4>1, LeftFrames
      <4> QED BY <4>1, <4>2
    <3>8. CASE (\E b \in BOOLEAN : SetBlocked(b)) \/ Destroy \/ EmitBegin \/ Gone \/ UNCHANGED vars
      BY <3>8 DEF SetBlocked, Destroy, EmitBegin, Gone, vars
    <3> QED BY <3>1, <3>2, <3>3, <3>4, <3>5, <3>6, <3>7, <3>8 DEF Next
  <2>2. CASE slots' = slots
    BY <2>2
  <2>3. CASE \E ids : slots' = MarkDead(slots, ids)
    BY <2>0, <2>3, MarkDeadIs
  <2> QED BY <2>1, <2>2, <2>3
<1>2. Inv /\ [Next]_vars => [Pinned]_vars
  BY <1>1
<1>3. [][Pinned]_vars => ListPinned
  BY PTL DEF ListPinned
<1> QED BY <1>2, <1>3, InvariantHolds, PTL DEF Spec

-----------------------------------------------------------------------------
(***************************************************************************)
(* The signal implements its contract.                                     *)
(***************************************************************************)

LEMMA SubsAre ==
  ASSUME NEW s \in Seq(SlotEntry), NEW x
  PROVE  x \in Subs(s) <=> \E j \in 1..Len(s) : s[j].alive /\ x = Sub(s[j])
<1>1. DOMAIN s = 1..Len(s)
  BY LenProperties
<1>2. Range(s) = {s[j] : j \in 1..Len(s)}
  BY <1>1 DEF Range
<1> QED BY <1>2 DEF Subs

LEMMA EmptySubs == Subs(<< >>) = {}
<1>1. << >> \in Seq(SlotEntry) /\ Len(<< >>) = 0
  BY EmptySeq
<1> PICK s : s = << >>
  OBVIOUS
<1>2. s \in Seq(SlotEntry) /\ 1..Len(s) = {}
  BY <1>1
<1>3. \A x : x \notin Subs(s)
  BY <1>2, SubsAre
<1> QED BY <1>3

\* The subscriptions a list holds depend on its entries only.
LEMMA SubsOfEntries ==
  ASSUME NEW s \in Seq(SlotEntry)
  PROVE  Subs(s) = {Sub(e) : e \in {d \in Entries(s) : d.alive}}
<1>1. \A x : x \in Subs(s) <=> \E j \in 1..Len(s) : s[j].alive /\ x = Sub(s[j])
  BY SubsAre
<1>2. \A x : x \in {Sub(e) : e \in {d \in Entries(s) : d.alive}}
               <=> \E j \in 1..Len(s) : s[j].alive /\ x = Sub(s[j])
  BY DEF Entries
<1> QED BY <1>1, <1>2

\* A subscription is one of the contract's.
LEMMA SubIs ==
  ASSUME NEW e \in SlotEntry
  PROVE  /\ Sub(e).id = e.id /\ Sub(e).priority = e.priority /\ Sub(e).once = e.once
         /\ Sub(e) \in Contract!Subscription /\ e.id \in Contract!Ids
BY DEF Sub, SlotEntry, Ids, Contract!Subscription, Contract!Ids

Running(k) == IF frames[k].i = 0 THEN 0 ELSE slots[frames[k].i].id
Owed(k) ==
  {Sub(slots[j]) : j \in {l \in frames[k].i + 1 .. frames[k].n : slots[l].alive}}

LEMMA EmitsAre ==
  ASSUME frames \in Seq(Frame)
  PROVE  /\ DOMAIN Emits = 1..Len(frames) /\ Len(Emits) = Len(frames)
         /\ \E S : Emits \in Seq(S)
         /\ Emits = << >> <=> frames = << >>
         /\ \A k \in 1..Len(frames) : Emits[k] = [running |-> Running(k), owed |-> Owed(k)]
<1> PICK m \in Nat : m = Len(frames)
  BY LenProperties
<1>1. Emits = [k \in 1..m |-> [running |-> Running(k), owed |-> Owed(k)]]
  BY DEF Emits, Running, Owed
<1> PICK S : S = {[running |-> Running(k), owed |-> Owed(k)] : k \in 1..m}
  OBVIOUS
<1>2. Emits \in [1..m -> S]
  BY <1>1
<1>3. Emits \in Seq(S)
  BY <1>2, SeqDef
<1>4. DOMAIN Emits = 1..m
  BY <1>1
<1>5. Len(Emits) = m
  BY <1>3, <1>4, LenProperties
<1>6. Emits = << >> <=> Len(Emits) = 0
  BY <1>3, EmptySeq
<1>7. frames = << >> <=> Len(frames) = 0
  BY EmptySeq
<1> QED BY <1>1, <1>3, <1>4, <1>5, <1>6, <1>7

LEMMA EmptyFunction ==
  ASSUME NEW f \in [1..0 -> {}]
  PROVE  f = << >>
<1>1. f \in Seq({})
  BY SeqDef
<1>2. DOMAIN f = 1..0
  OBVIOUS
<1>3. Len(f) = 0
  BY <1>1, <1>2, LenProperties
<1> QED BY <1>1, <1>3, EmptySeq

\* With no emit in progress the contract sees none, before a step and after one.
LEMMA NoEmits ==
  /\ frames = << >> => Emits = << >>
  /\ frames' = << >> => Emits' = << >>
<1>2. Len(<< >>) = 0
  OBVIOUS
<1>3. ASSUME frames = << >> PROVE Emits = << >>
  <2>1. Emits \in [1..0 -> {}]
    BY <1>2, <1>3 DEF Emits
  <2> QED BY <2>1, EmptyFunction
<1>4. ASSUME frames' = << >> PROVE Emits' = << >>
  <2>1. Emits' \in [1..0 -> {}]
    BY <1>2, <1>4 DEF Emits
  <2> QED BY <2>1, EmptyFunction
<1> QED BY <1>3, <1>4

LEMMA EmitsKept ==
  ASSUME frames \in Seq(Frame), frames' = frames, frames # << >> => slots' = slots
  PROVE  Emits' = Emits
<1>1. CASE frames = << >>
  BY <1>1, NoEmits
<1>2. CASE frames # << >>
  BY <1>2 DEF Emits
<1> QED BY <1>1, <1>2

LEMMA UserMayCall ==
  ASSUME Typed, Walking, UserRuns
  PROVE  Contract!UserRuns
<1> SUFFICES ASSUME Emits # << >> PROVE Emits[Len(Emits)].running # 0
  BY DEF Contract!UserRuns, Contract!NoSlot
<1>1. frames \in Seq(Frame) /\ Len(frames) \in Nat
  BY LenProperties DEF Typed
<1>2. frames # << >> /\ Len(Emits) = Len(frames)
  BY <1>1, EmitsAre
<1>3. Len(frames) # 0
  BY <1>1, <1>2, EmptySeq
<1>4. Top \in 1..Len(frames) /\ Top = Len(frames)
  BY <1>1, <1>3 DEF Top
<1>5. Emits[Top].running = Running(Top)
  <2>1. Emits[Top] = [running |-> Running(Top), owed |-> Owed(Top)]
    BY <1>1, <1>4, EmitsAre
  <2> QED BY <2>1
<1>6. frames[Top].i > 0 /\ frames[Top].i \in Nat /\ frames[Top].i <= Len(slots)
  BY <1>2, <1>4, TypedFacts DEF UserRuns, Emitting, Walking
<1>7. slots[frames[Top].i] \in SlotEntry
  BY <1>6, TypedFacts
<1>8. slots[frames[Top].i].id \in 1..MaxConnects
  BY <1>7 DEF SlotEntry, Ids
<1>9. Running(Top) # 0
  BY <1>6, <1>8, BoundsAssumption DEF Running
<1> QED BY <1>2, <1>4, <1>5, <1>9

\* Marked entries are no subscriptions any more, and nothing is owed to them.
LEMMA MarkedSubs ==
  ASSUME NEW s \in Seq(SlotEntry), NEW ids
  PROVE  Subs(MarkDead(s, ids)) = Contract!Without(Subs(s), ids)
<1> PICK r : r = MarkDead(s, ids)
  OBVIOUS
<1>1. /\ r \in Seq(SlotEntry) /\ Len(r) = Len(s)
      /\ \A j \in 1..Len(s) :
           /\ r[j].id = s[j].id /\ r[j].priority = s[j].priority /\ r[j].once = s[j].once
           /\ r[j].alive = (s[j].alive /\ s[j].id \notin ids)
  BY MarkDeadIs
<1>2. \A j \in 1..Len(s) : Sub(r[j]) = Sub(s[j]) /\ Sub(s[j]).id = s[j].id
  BY <1>1 DEF Sub
<1>3. \A x : x \in Subs(r) <=> \E j \in 1..Len(s) : s[j].alive /\ s[j].id \notin ids /\ x = Sub(s[j])
  <2>1. \A x : x \in Subs(r) <=> \E j \in 1..Len(r) : r[j].alive /\ x = Sub(r[j])
    BY <1>1, SubsAre
  <2> TAKE x
  <2>2. x \in Subs(r) <=> \E j \in 1..Len(s) : r[j].alive /\ x = Sub(r[j])
    BY <1>1, <2>1
  <2>3. \A j \in 1..Len(s) : (r[j].alive /\ x = Sub(r[j]))
                                <=> (s[j].alive /\ s[j].id \notin ids /\ x = Sub(s[j]))
    BY <1>1, <1>2
  <2> QED BY <2>2, <2>3
<1>4. \A x : x \in Contract!Without(Subs(s), ids)
               <=> \E j \in 1..Len(s) : s[j].alive /\ s[j].id \notin ids /\ x = Sub(s[j])
  <2>1. \A x : x \in Subs(s) <=> \E j \in 1..Len(s) : s[j].alive /\ x = Sub(s[j])
    BY SubsAre
  <2> QED BY <1>2, <2>1 DEF Contract!Without
<1> QED BY <1>3, <1>4

LEMMA MarkedEmits ==
  ASSUME Typed, Walking, NEW ids, slots' = MarkDead(slots, ids), frames' = frames
  PROVE  Emits' = Contract!NoLongerOwed(ids)
<1>0. frames \in Seq(Frame) /\ slots \in Seq(SlotEntry)
  BY DEF Typed
<1> PICK m \in Nat : m = Len(frames)
  BY <1>0, LenProperties
<1>1. Contract!NoLongerOwed(ids)
        = [k \in 1..m |-> [Emits[k] EXCEPT !.owed = Contract!Without(Emits[k].owed, ids)]]
  BY <1>0, EmitsAre DEF Contract!NoLongerOwed
<1>2. Emits' = [k \in 1..m |-> [running |-> Running(k)', owed |-> Owed(k)']]
  BY DEF Emits, Running, Owed
<1>3. /\ Len(slots') = Len(slots)
      /\ \A j \in 1..Len(slots) :
           /\ slots'[j].id = slots[j].id
           /\ slots'[j].priority = slots[j].priority /\ slots'[j].once = slots[j].once
           /\ slots'[j].alive = (slots[j].alive /\ slots[j].id \notin ids)
  BY <1>0, MarkDeadIs
<1>4. \A j \in 1..Len(slots) : Sub(slots[j])' = Sub(slots[j]) /\ Sub(slots[j]).id = slots[j].id
  BY <1>3 DEF Sub
<1>5. ASSUME NEW k \in 1..m
      PROVE  [running |-> Running(k)', owed |-> Owed(k)']
               = [Emits[k] EXCEPT !.owed = Contract!Without(Emits[k].owed, ids)]
  <2>1. Emits[k] = [running |-> Running(k), owed |-> Owed(k)]
    BY <1>0, EmitsAre
  <2>2. frames[k].n = Len(slots) /\ frames[k].i <= Len(slots) /\ frames[k].i \in Nat /\ Len(slots) \in Nat
    BY TypedFacts DEF Walking
  <2>3. Running(k)' = Running(k)
    BY <1>3, <2>2 DEF Running
  <2>4. Owed(k)' = Contract!Without(Owed(k), ids)
    <3> DEFINE J == frames[k].i + 1 .. Len(slots)
    <3>1. J \subseteq 1..Len(slots)
      BY <2>2
    <3>2. Owed(k)' = {Sub(slots[j])' : j \in {l \in J : slots'[l].alive}}
      BY <2>2 DEF Owed
    <3>3. Owed(k) = {Sub(slots[j]) : j \in {l \in J : slots[l].alive}}
      BY <2>2 DEF Owed
    <3> HIDE DEF J
    <3>4. \A x : x \in Owed(k)' <=> \E j \in J : slots[j].alive /\ slots[j].id \notin ids /\ x = Sub(slots[j])
      BY <1>3, <1>4, <3>1, <3>2
    <3>5. \A x : x \in Contract!Without(Owed(k), ids)
                   <=> \E j \in J : slots[j].alive /\ slots[j].id \notin ids /\ x = Sub(slots[j])
      BY <1>4, <3>1, <3>3 DEF Contract!Without
    <3> QED BY <3>4, <3>5
  <2> QED BY <2>1, <2>3, <2>4
<1> QED BY <1>1, <1>2, <1>5

LEMMA ConnectRefines ==
  ASSUME Inv, Inv', NEW p \in Priorities, NEW once \in BOOLEAN,
         owner, UserRuns, nextId <= MaxConnects, nextId' = nextId + 1, ConnectInto(p, once),
         UNCHANGED <<blocked, owner, frames>>
  PROVE  Contract!Connect(p, once)
<1> PICK e : e = Entry(p, once)
  OBVIOUS
<1> DEFINE s == [id |-> (nextId - 1) + 1, priority |-> p, once |-> once]
<1>0. Typed /\ FiringOrder /\ Walking /\ Resting
  BY DEF Inv
<1>1. /\ slots \in Seq(SlotEntry) /\ pending \in Seq(SlotEntry) /\ frames \in Seq(Frame)
      /\ slots' \in Seq(SlotEntry) /\ pending' \in Seq(SlotEntry)
  BY DEF Inv, Typed
<1>2. MaxConnects \in Nat /\ nextId \in Nat /\ nextId \in Ids
  BY <1>0, TypedFacts, BoundsAssumption DEF Typed, Ids
<1>3. e \in SlotEntry /\ e.id = nextId /\ e.alive
  BY <1>2 DEF Entry, SlotEntry
<1>4. Sub(e) = s
  BY <1>2 DEF Sub, Entry
<1> HIDE DEF s
<1>5. (nextId - 1)' = (nextId - 1) + 1 /\ nextId - 1 < MaxConnects
  BY <1>2
<1>6. Emits = << >> <=> ~Emitting
  BY <1>1, EmitsAre DEF Emitting
<1>7. Emits' = Emits
  <2>1. frames # << >> => slots' = slots
    BY DEF ConnectInto, Emitting
  <2> QED BY <1>1, <2>1, EmitsKept
<1>8. IF Emits = << >> THEN Subs(slots)' = Subs(slots) \cup {s} /\ UNCHANGED Subs(pending)
                       ELSE Subs(pending)' = Subs(pending) \cup {s} /\ UNCHANGED Subs(slots)
  <2>1. CASE Emitting
    <3>1. pending' = Append(pending, e) /\ slots' = slots
      BY <2>1 DEF ConnectInto
    <3> PICK m \in Nat : m = Len(pending)
      BY <1>1, LenProperties
    <3>2. /\ Len(pending') = m + 1 /\ pending'[m + 1] = e
          /\ \A k \in 1..m : pending'[k] = pending[k]
      BY <1>1, <1>3, <3>1, AppendProperties
    <3>3. \A k \in 1..(m + 1) : k = m + 1 \/ k \in 1..m
      OBVIOUS
    <3>4. m + 1 \in 1..(m + 1) /\ 1..m \subseteq 1..(m + 1)
      OBVIOUS
    <3>5. Entries(pending') = Entries(pending) \cup {e}
      BY <3>2, <3>3, <3>4 DEF Entries
    <3>6. Subs(pending') = Subs(pending) \cup {Sub(e)}
      BY <1>1, <1>3, <3>5, SubsOfEntries
    <3> QED BY <1>4, <1>6, <2>1, <3>1, <3>6
  <2>2. CASE ~Emitting
    <3>1. slots' = InsertByPriority(slots, e) /\ pending' = pending
      BY <2>2 DEF ConnectInto
    <3>2. Sorted(slots) /\ Below(slots, e.id)
      BY <1>0, <1>3 DEF FiringOrder
    <3>3. Entries(slots') = Entries(slots) \cup {e}
      BY <1>1, <1>3, <3>1, <3>2, InsertIs
    <3>4. Subs(slots') = Subs(slots) \cup {Sub(e)}
      BY <1>1, <1>3, <3>3, SubsOfEntries
    <3> QED BY <1>4, <1>6, <2>2, <3>1, <3>4
  <2> QED BY <2>1, <2>2
<1>9. Contract!UserRuns
  BY <1>0, UserMayCall
<1> QED BY <1>5, <1>7, <1>8, <1>9 DEF Contract!Connect, s

\* Nobody waits in the list's place: what is not there is not a subscription.
LEMMA WithoutAll ==
  ASSUME NEW s \in Seq(SlotEntry)
  PROVE  Contract!Without(Subs(s), Ids) = {}
<1>1. \A x \in Subs(s) : x.id \in Ids
  <2> SUFFICES ASSUME NEW x \in Subs(s) PROVE x.id \in Ids
    OBVIOUS
  <2>1. PICK j \in 1..Len(s) : x = Sub(s[j])
    BY SubsAre
  <2>2. s[j] \in SlotEntry
    BY ElementOfSeq
  <2> QED BY <2>1, <2>2, SubIs, EntryFits
<1> QED BY <1>1 DEF Contract!Without

LEMMA DisconnectRefines ==
  ASSUME Inv, Inv', NEW ids \in SUBSET Ids, owner, UserRuns, DisconnectByIds(ids),
         UNCHANGED <<nextId, blocked, owner, frames>>
  PROVE  Contract!Disconnect(ids)
<1>0. Typed /\ FiringOrder /\ Walking /\ Resting
  BY DEF Inv
<1>1. /\ slots \in Seq(SlotEntry) /\ pending \in Seq(SlotEntry) /\ frames \in Seq(Frame)
      /\ slots' \in Seq(SlotEntry)
  BY DEF Inv, Typed
<1>2. Contract!UserRuns
  BY <1>0, UserMayCall
<1>3. CASE Emitting
  <2>1. slots' = MarkDead(slots, ids) /\ pending' = MarkDead(pending, ids)
    BY <1>3 DEF DisconnectByIds
  <2>2. Subs(slots') = Contract!Without(Subs(slots), ids)
    BY <1>1, <2>1, MarkedSubs
  <2>3. Subs(pending') = Contract!Without(Subs(pending), ids)
    BY <1>1, <2>1, MarkedSubs
  <2>4. Emits' = Contract!NoLongerOwed(ids)
    BY <1>0, <2>1, MarkedEmits
  <2> QED BY <1>2, <2>2, <2>3, <2>4 DEF Contract!Disconnect
<1>4. CASE ~Emitting
  <2> DEFINE K == {j \in 1..Len(slots) : slots[j].id \notin ids}
  <2>1. slots' = Only(slots, K) /\ pending' = pending /\ pending = << >>
    BY <1>0, <1>4 DEF DisconnectByIds, Resting
  <2>2. Entries(slots') = {slots[j] : j \in K \cap (1..Len(slots))}
    <3> HIDE DEF K
    <3>1. Sorted(slots)
      BY <1>0 DEF FiringOrder
    <3> QED BY <1>1, <2>1, <3>1, OnlyIs
  <2>3. Entries(slots') = {e \in Entries(slots) : e.id \notin ids}
    BY <2>2 DEF Entries
  <2>4. Subs(slots') = Contract!Without(Subs(slots), ids)
    <3>1. Subs(slots') = {Sub(e) : e \in {d \in Entries(slots') : d.alive}}
      BY <1>1, SubsOfEntries
    <3>2. Subs(slots) = {Sub(e) : e \in {d \in Entries(slots) : d.alive}}
      BY <1>1, SubsOfEntries
    <3>3. \A e : Sub(e).id = e.id
      BY DEF Sub
    <3>4. \A x : x \in Subs(slots') <=> \E e \in Entries(slots) : e.id \notin ids /\ e.alive /\ x = Sub(e)
      BY <2>3, <3>1
    <3>5. \A x : x \in Contract!Without(Subs(slots), ids)
                   <=> \E e \in Entries(slots) : e.id \notin ids /\ e.alive /\ x = Sub(e)
      BY <3>2, <3>3 DEF Contract!Without
    <3> QED BY <3>4, <3>5
  <2>5. Subs(pending') = Contract!Without(Subs(pending), ids)
    BY <2>1, EmptySubs DEF Contract!Without
  <2>6. Emits = << >> /\ Emits' = << >>
    BY <1>4, NoEmits DEF Emitting
  <2>7. Contract!NoLongerOwed(ids) = << >>
    <3>1. Contract!NoLongerOwed(ids) \in [1..0 -> {}]
      <4>1. Len(Emits) = 0
        BY <2>6
      <4> QED BY <4>1 DEF Contract!NoLongerOwed
    <3> QED BY <3>1, EmptyFunction
  <2> QED BY <1>2, <2>4, <2>5, <2>6, <2>7 DEF Contract!Disconnect
<1> QED BY <1>3, <1>4

LEMMA DisconnectAllRefines ==
  ASSUME Inv, DisconnectAll
  PROVE  Contract!Disconnect(Ids)
<1>0. Typed /\ Walking /\ Resting
  BY DEF Inv
<1>1. /\ slots \in Seq(SlotEntry) /\ pending \in Seq(SlotEntry) /\ frames \in Seq(Frame)
  BY DEF Inv, Typed
<1>2. /\ owner /\ UserRuns
      /\ slots' = IF Emitting THEN MarkDead(slots, Ids) ELSE << >>
      /\ pending' = IF Emitting THEN << >> ELSE pending
      /\ UNCHANGED <<nextId, blocked, owner, frames>>
  BY DEF DisconnectAll
<1>3. Contract!UserRuns
  BY <1>0, <1>2, UserMayCall
<1>4. Contract!Without(Subs(slots), Ids) = {} /\ Contract!Without(Subs(pending), Ids) = {}
  BY <1>1, WithoutAll
<1>5. Subs(slots') = Contract!Without(Subs(slots), Ids)
  BY <1>1, <1>2, <1>4, EmptySubs, MarkedSubs
<1>6. Subs(pending') = Contract!Without(Subs(pending), Ids)
  BY <1>0, <1>2, <1>4, EmptySubs DEF Resting
<1>7. Emits' = Contract!NoLongerOwed(Ids)
  <2>1. CASE Emitting
    BY <1>0, <1>2, <2>1, MarkedEmits
  <2>2. CASE ~Emitting
    <3>1. Emits = << >> /\ Emits' = << >>
      BY <1>2, <2>2, NoEmits DEF Emitting
    <3>2. Contract!NoLongerOwed(Ids) \in [1..0 -> {}]
      <4>1. Len(Emits) = 0
        BY <3>1
      <4> QED BY <4>1 DEF Contract!NoLongerOwed
    <3> QED BY <3>1, <3>2, EmptyFunction
  <2> QED BY <2>1, <2>2
<1> QED BY <1>2, <1>3, <1>5, <1>6, <1>7 DEF Contract!Disconnect

LEMMA EmitBeginRefines ==
  ASSUME Inv, EmitBegin
  PROVE  Contract!EmitBegin
<1>0. Typed /\ Walking
  BY DEF Inv
<1>1. /\ owner /\ UserRuns /\ ~blocked /\ Len(frames) < MaxDepth
      /\ frames' = Append(frames, [n |-> Len(slots), i |-> 0])
      /\ UNCHANGED <<slots, pending, nextId, blocked, owner>>
  BY DEF EmitBegin
<1>2. /\ slots \in Seq(SlotEntry) /\ frames \in Seq(Frame) /\ Len(slots) \in Nat
  BY <1>0, TypedFacts DEF Typed
<1> PICK m \in Nat : m = Len(frames)
  BY <1>2, LenProperties
<1> PICK f : f = [n |-> Len(slots), i |-> 0]
  OBVIOUS
<1> PICK b : b = [running |-> 0, owed |-> Subs(slots)]
  OBVIOUS
<1>3. f \in Frame /\ f.n = Len(slots) /\ f.i = 0
  BY <1>2 DEF Frame
<1>4. /\ Len(frames') = m + 1 /\ frames'[m + 1] = f
      /\ \A k \in 1..m : frames'[k] = frames[k]
  BY <1>1, <1>2, <1>3, AppendProperties
<1>5. Emits' = [k \in 1..(m + 1) |-> [running |-> Running(k)', owed |-> Owed(k)']]
  BY <1>4 DEF Emits, Running, Owed
<1>6. \A k \in 1..m : [running |-> Running(k)', owed |-> Owed(k)'] = Emits[k]
  <2>1. \A k \in 1..m : Emits[k] = [running |-> Running(k), owed |-> Owed(k)]
    BY <1>2, EmitsAre
  <2>2. \A k \in 1..m : Running(k)' = Running(k) /\ Owed(k)' = Owed(k)
    BY <1>1, <1>4 DEF Running, Owed
  <2> QED BY <2>1, <2>2
<1>7. Running(m + 1)' = 0
  BY <1>3, <1>4 DEF Running
<1>8. Owed(m + 1)' = Subs(slots)
  <2>1. 0 + 1 = 1
    OBVIOUS
  <2>2. Owed(m + 1)' = {Sub(slots[j]) : j \in {l \in 1..Len(slots) : slots[l].alive}}
    BY <1>1, <1>3, <1>4, <2>1 DEF Owed
  <2>3. \A x : x \in Subs(slots) <=> \E j \in 1..Len(slots) : slots[j].alive /\ x = Sub(slots[j])
    BY <1>2, SubsAre
  <2>4. \A x : x \in Owed(m + 1)' <=> \E j \in 1..Len(slots) : slots[j].alive /\ x = Sub(slots[j])
    BY <2>2
  <2> QED BY <2>3, <2>4
<1>9. Emits' = Append(Emits, b)
  <2>1. PICK S : Emits \in Seq(S)
    BY <1>2, EmitsAre
  <2> PICK E : E = Emits
    OBVIOUS
  <2>2. Len(E) = m /\ E \in Seq(S)
    BY <1>2, <2>1, EmitsAre
  <2>3. E \in Seq(S \cup {b})
    BY <2>2, SeqMonotonic
  <2>4. Append(E, b) \in Seq(S \cup {b})
    BY <2>3, AppendProperties
  <2>5. /\ Len(Append(E, b)) = m + 1 /\ Append(E, b)[m + 1] = b
        /\ \A k \in 1..m : Append(E, b)[k] = E[k]
    BY <2>2, <2>3, AppendProperties
  <2>6. Append(E, b) = [k \in 1..(m + 1) |-> Append(E, b)[k]]
    BY <2>4, <2>5, LenProperties
  <2>7. \A k \in 1..(m + 1) : [running |-> Running(k)', owed |-> Owed(k)'] = Append(E, b)[k]
    <3> TAKE k \in 1..(m + 1)
    <3>1. CASE k = m + 1
      BY <1>7, <1>8, <2>5, <3>1
    <3>2. CASE k \in 1..m
      <4>1. [running |-> Running(k)', owed |-> Owed(k)'] = Emits[k]
        BY <1>6, <3>2
      <4>2. Append(E, b)[k] = Emits[k]
        BY <2>5, <3>2
      <4> QED BY <4>1, <4>2
    <3>3. k = m + 1 \/ k \in 1..m
      OBVIOUS
    <3> QED BY <3>1, <3>2, <3>3, Zenon
  <2> QED BY <1>5, <2>6, <2>7
<1>10. Contract!UserRuns
  BY <1>0, <1>1, UserMayCall
<1>11. Len(Emits) < MaxDepth
  BY <1>1, <1>2, EmitsAre
<1> QED BY <1>1, <1>9, <1>10, <1>11 DEF Contract!EmitBegin, Contract!NoSlot

LEMMA VisitRefines ==
  ASSUME Inv, NEW j \in 1..Len(slots), Visit(j)
  PROVE  Contract!Call(Sub(slots[j]))
<1> PICK s : s = Sub(slots[j])
  OBVIOUS
<1> PICK t : t = Top
  OBVIOUS
<1>0. Typed /\ FiringOrder /\ Walking
  BY DEF Inv
<1>1. /\ Emitting /\ j \in Remaining /\ \A l \in Remaining : j <= l
      /\ slots' = IF slots[j].once THEN MarkDead(slots, {slots[j].id}) ELSE slots
      /\ UNCHANGED <<pending, nextId, blocked, owner>>
  BY DEF Visit
<1>2. /\ slots \in Seq(SlotEntry) /\ frames \in Seq(Frame) /\ Len(slots) \in Nat
  BY <1>0, TypedFacts DEF Typed
<1>3. /\ t \in Nat /\ t \in 1..Len(frames) /\ Len(frames) = t
      /\ frames[t].n = Len(slots) /\ frames[t].i < j /\ slots[j].alive
      /\ Len(frames') = t
      /\ frames'[t] = [n |-> Len(slots), i |-> j]
      /\ \A k \in 1..t : k # t => frames'[k] = frames[k]
  BY <1>0, VisitFrames
<1>4. PICK i \in Nat : i = frames[t].i
  BY <1>0, <1>3, TypedFacts
<1>5. Remaining = {l \in i + 1 .. Len(slots) : slots[l].alive}
  BY <1>3, <1>4 DEF Remaining
<1>6. /\ Len(slots') = Len(slots)
      /\ \A l \in 1..Len(slots) :
           /\ slots'[l].id = slots[l].id
           /\ slots'[l].priority = slots[l].priority /\ slots'[l].once = slots[l].once
           /\ l # j => slots'[l].alive = slots[l].alive
  <2>1. CASE slots[j].once
    <3>1. slots' = MarkDead(slots, {slots[j].id})
      BY <1>1, <2>1
    <3>2. \A l \in 1..Len(slots) : l # j => slots[l].id # slots[j].id
      <4> SUFFICES ASSUME NEW l \in 1..Len(slots), l # j PROVE slots[l].id # slots[j].id
        OBVIOUS
      <4>1. l < j \/ j < l
        BY <1>2
      <4> QED BY <1>0, <4>1 DEF FiringOrder, Sorted
    <3>3. /\ Len(slots') = Len(slots)
          /\ \A l \in 1..Len(slots) :
               /\ slots'[l].id = slots[l].id
               /\ slots'[l].priority = slots[l].priority /\ slots'[l].once = slots[l].once
               /\ slots'[l].alive = (slots[l].alive /\ slots[l].id \notin {slots[j].id})
      BY <1>2, <3>1, MarkDeadIs
    <3>4. \A l \in 1..Len(slots) : slots[l].alive \in BOOLEAN
      BY <1>2, ElementOfSeq, EntryFits
    <3> QED BY <3>2, <3>3, <3>4
  <2>2. CASE ~slots[j].once
    BY <1>1, <2>2
  <2> QED BY <2>1, <2>2
<1>7. \A l \in 1..Len(slots) : Sub(slots[l])' = Sub(slots[l])
  BY <1>6 DEF Sub
<1>8. /\ Len(Emits) = t /\ Emits # << >>
      /\ \A k \in 1..t : Emits[k] = [running |-> Running(k), owed |-> Owed(k)]
  BY <1>1, <1>2, <1>3, EmitsAre DEF Emitting
<1>9. Emits[t].owed = Owed(t) /\ Owed(t) = {Sub(slots[l]) : l \in Remaining}
  <2>1. Emits[t] = [running |-> Running(t), owed |-> Owed(t)]
    BY <1>3, <1>8
  <2>2. Owed(t) = {Sub(slots[l]) : l \in Remaining}
    BY <1>3, <1>4, <1>5 DEF Owed
  <2> QED BY <2>1, <2>2
<1>10. Remaining \subseteq 1..Len(slots)
  BY <1>2, <1>5
<1>11. s \in Emits[t].owed
  BY <1>1, <1>9
<1>12. \A d \in Emits[t].owed : ~Contract!Before(d, s)
  <2> SUFFICES ASSUME NEW l \in Remaining PROVE ~Contract!Before(Sub(slots[l]), s)
    BY <1>9
  <2>1. l \in 1..Len(slots) /\ (j < l \/ j = l)
    BY <1>1, <1>10
  <2>2. slots[l] \in SlotEntry /\ slots[j] \in SlotEntry
    BY <1>2, <2>1, ElementOfSeq
  <2>3. /\ slots[l].priority \in Int /\ slots[j].priority \in Int
        /\ slots[l].id \in Nat /\ slots[j].id \in Nat
    BY <2>2, EntryFits
  <2>4. j = l \/ Precedes(slots[j], slots[l])
    BY <1>0, <2>1 DEF FiringOrder, Sorted
  <2> QED BY <2>3, <2>4 DEF Contract!Before, Precedes, Sub
<1>13. Subs(slots') = IF s.once THEN Contract!Without(Subs(slots), {s.id}) ELSE Subs(slots)
  <2>1. s.once = slots[j].once /\ s.id = slots[j].id
    BY DEF Sub
  <2>2. CASE slots[j].once
    BY <1>1, <1>2, <2>1, <2>2, MarkedSubs
  <2>3. CASE ~slots[j].once
    BY <1>1, <2>1, <2>3
  <2> QED BY <2>2, <2>3
<1>14. Running(t)' = s.id
  <2>1. frames'[t].i = j /\ j # 0
    BY <1>2, <1>3
  <2> QED BY <1>6, <2>1 DEF Running, Sub
<1>15. Owed(t)' = Emits[t].owed \ {s}
  <2>1. Owed(t)' = {Sub(slots[l])' : l \in {k \in j + 1 .. Len(slots) : slots'[k].alive}}
    BY <1>3 DEF Owed
  <2>2. \A k \in j + 1 .. Len(slots) :
          k \in 1..Len(slots) /\ slots'[k].alive = slots[k].alive /\ Sub(slots[k])' = Sub(slots[k])
    <3> TAKE k \in j + 1 .. Len(slots)
    <3>1. k \in 1..Len(slots) /\ k # j
      BY <1>2
    <3> QED BY <1>6, <1>7, <3>1
  <2>3. \A x : x \in Owed(t)' <=> \E l \in j + 1 .. Len(slots) : slots[l].alive /\ x = Sub(slots[l])
    BY <2>1, <2>2
  <2>4. \A l : l \in Remaining /\ l # j <=> l \in j + 1 .. Len(slots) /\ slots[l].alive
    <3> TAKE l
    <3>1. ASSUME l \in Remaining, l # j PROVE l \in j + 1 .. Len(slots) /\ slots[l].alive
      BY <1>1, <1>2, <1>5, <1>10, <3>1
    <3>2. ASSUME l \in j + 1 .. Len(slots), slots[l].alive PROVE l \in Remaining /\ l # j
      BY <1>2, <1>3, <1>4, <1>5, <3>2
    <3> QED BY <3>1, <3>2
  <2>5. \A l \in Remaining : l # j => Sub(slots[l]) # s
    <3> SUFFICES ASSUME NEW l \in Remaining, l # j PROVE Sub(slots[l]).id # s.id
      OBVIOUS
    <3>1. l \in 1..Len(slots) /\ j < l
      BY <1>1, <1>10
    <3>2. slots[j].id # slots[l].id
      BY <1>0, <3>1 DEF FiringOrder, Sorted
    <3> QED BY <3>2 DEF Sub
  <2>6. \A x : x \in Emits[t].owed \ {s} <=> \E l \in Remaining : l # j /\ x = Sub(slots[l])
    BY <1>9, <2>5
  <2> QED BY <2>3, <2>4, <2>6
<1> DEFINE Now == IF s.once THEN Contract!NoLongerOwed({s.id}) ELSE Emits
<1>16. DOMAIN Now = 1..t
  <2>1. DOMAIN Emits = 1..t
    BY <1>2, <1>3, EmitsAre
  <2>2. DOMAIN Contract!NoLongerOwed({s.id}) = 1..t
    BY <1>8 DEF Contract!NoLongerOwed
  <2> QED BY <2>1, <2>2
<1>17. ASSUME NEW k \in 1..t, k # t
       PROVE  Now[k] = [running |-> Running(k)', owed |-> Owed(k)']
  <2>1. frames'[k] = frames[k] /\ frames[k].n = Len(slots) /\ frames[k].i \in Nat /\ frames[k].i <= Len(slots)
    BY <1>0, <1>3, <1>17, TypedFacts DEF Walking
  <2>2. Running(k)' = Running(k)
    BY <1>6, <2>1 DEF Running
  <2>3. Emits[k] = [running |-> Running(k), owed |-> Owed(k)]
    BY <1>8
  <2>4. CASE ~slots[j].once
    <3>1. Owed(k)' = Owed(k)
      BY <1>1, <2>1, <2>4 DEF Owed
    <3>2. Now = Emits
      BY <2>4 DEF Sub
    <3> QED BY <2>2, <2>3, <3>1, <3>2
  <2>5. CASE slots[j].once
    <3> DEFINE J == frames[k].i + 1 .. Len(slots)
    <3>1. J \subseteq 1..Len(slots)
      BY <1>2, <2>1
    <3>2. Owed(k)' = {Sub(slots[l])' : l \in {m \in J : slots'[m].alive}}
      BY <2>1 DEF Owed
    <3>3. Owed(k) = {Sub(slots[l]) : l \in {m \in J : slots[m].alive}}
      BY <2>1 DEF Owed
    <3> HIDE DEF J
    <3>4. \A l \in 1..Len(slots) : slots'[l].alive = (slots[l].alive /\ slots[l].id \notin {s.id})
      <4>1. s.id = slots[j].id
        BY DEF Sub
      <4>2. slots' = MarkDead(slots, {slots[j].id})
        BY <1>1, <2>5
      <4> QED BY <1>2, <4>1, <4>2, MarkDeadIs
    <3>5. \A l \in 1..Len(slots) : Sub(slots[l]).id = slots[l].id
      BY DEF Sub
    <3>6. \A x : x \in Owed(k)' <=> \E l \in J : slots[l].alive /\ slots[l].id \notin {s.id} /\ x = Sub(slots[l])
      BY <1>7, <3>1, <3>2, <3>4
    <3>7. \A x : x \in Contract!Without(Owed(k), {s.id})
                   <=> \E l \in J : slots[l].alive /\ slots[l].id \notin {s.id} /\ x = Sub(slots[l])
      BY <3>1, <3>3, <3>5 DEF Contract!Without
    <3>8. Owed(k)' = Contract!Without(Owed(k), {s.id})
      BY <3>6, <3>7
    <3>9. Now = Contract!NoLongerOwed({s.id})
      BY <2>5 DEF Sub
    <3>10. Now[k] = [Emits[k] EXCEPT !.owed = Contract!Without(Emits[k].owed, {s.id})]
      BY <1>8, <3>9 DEF Contract!NoLongerOwed
    <3>11. Emits[k].owed = Owed(k)
      BY <2>3
    <3> QED BY <2>2, <2>3, <3>8, <3>10, <3>11
  <2> QED BY <2>4, <2>5
<1>18. Emits' = [Now EXCEPT ![t] = [running |-> s.id, owed |-> Emits[t].owed \ {s}]]
  <2>1. Emits' = [k \in 1..t |-> [running |-> Running(k)', owed |-> Owed(k)']]
    BY <1>3 DEF Emits, Running, Owed
  <2> PICK b, w : b = [running |-> s.id, owed |-> Emits[t].owed \ {s}] /\ w = Now
    OBVIOUS
  <2>2. [w EXCEPT ![t] = b] = [k \in 1..t |-> IF k = t THEN b ELSE w[k]]
    BY <1>16
  <2>3. \A k \in 1..t : [running |-> Running(k)', owed |-> Owed(k)'] = IF k = t THEN b ELSE w[k]
    BY <1>14, <1>15, <1>17
  <2> QED BY <2>1, <2>2, <2>3
<1>19. Contract!Call(s)
  BY <1>1, <1>8, <1>11, <1>12, <1>13, <1>18 DEF Contract!Call
<1> QED BY <1>19

LEMMA EmitEndRefines ==
  ASSUME Inv, EmitEnd
  PROVE  Contract!EmitEnd
<1>0. Typed /\ FiringOrder /\ Walking
  BY DEF Inv
<1>1. /\ Emitting /\ Remaining = {} /\ frames' = Front(frames)
      /\ IF Top = 1 /\ owner THEN MergeAndSweep ELSE UNCHANGED <<slots, pending>>
      /\ UNCHANGED <<nextId, blocked, owner>>
  BY DEF EmitEnd
<1>2. /\ Top \in Nat \ {0} /\ Len(frames) = Top /\ Len(frames') = Top - 1
      /\ \A k \in 1..(Top - 1) : frames'[k] = frames[k]
      /\ frames' = << >> <=> Top = 1
  BY <1>0, <1>1, LeftFrames
<1>3. frames \in Seq(Frame) /\ slots \in Seq(SlotEntry) /\ pending \in Seq(SlotEntry)
  BY <1>0 DEF Typed
<1>4. /\ Len(Emits) = Top /\ Emits # << >> /\ DOMAIN Emits = 1..Top
      /\ \A k \in 1..Top : Emits[k] = [running |-> Running(k), owed |-> Owed(k)]
  BY <1>1, <1>2, <1>3, EmitsAre DEF Emitting
<1>5. Emits[Top].owed = {}
  <2>1. Emits[Top] = [running |-> Running(Top), owed |-> Owed(Top)]
    BY <1>2, <1>4
  <2>2. Owed(Top) = {}
    BY <1>1 DEF Owed, Remaining
  <2> QED BY <2>1, <2>2
<1>6. IF Top = 1 /\ owner
      THEN Subs(slots') = Subs(slots) \cup Subs(pending) /\ Subs(pending') = {}
      ELSE UNCHANGED <<Subs(slots), Subs(pending)>>
  <2>1. CASE Top = 1 /\ owner
    <3>1. /\ slots' \in Seq(SlotEntry) /\ pending' = << >>
          /\ Entries(slots') = {e \in Entries(slots) \cup Entries(pending) : e.alive}
      BY <1>0, <1>1, <2>1, SweptIs
    <3>2. /\ Subs(slots') = {Sub(e) : e \in {d \in Entries(slots') : d.alive}}
          /\ Subs(slots) = {Sub(e) : e \in {d \in Entries(slots) : d.alive}}
          /\ Subs(pending) = {Sub(e) : e \in {d \in Entries(pending) : d.alive}}
      BY <1>3, <3>1, SubsOfEntries
    <3>3. Subs(slots') = Subs(slots) \cup Subs(pending)
      BY <3>1, <3>2
    <3> QED BY <2>1, <3>1, <3>3, EmptySubs
  <2>2. CASE ~(Top = 1 /\ owner)
    BY <1>1, <2>2
  <2> QED BY <2>1, <2>2
<1>7. Emits' = SubSeq(Emits, 1, Top - 1)
  <2>1. CASE Top = 1
    <3>1. Emits' = << >>
      BY <1>2, <2>1, NoEmits
    <3>2. SubSeq(Emits, 1, Top - 1) = << >>
      BY <2>1, SubSeqEmpty
    <3> QED BY <3>1, <3>2
  <2>2. CASE Top # 1
    <3> PICK m \in Nat : m = Top - 1
      BY <1>2
    <3>1. UNCHANGED <<slots, pending>>
      BY <1>1, <2>2
    <3>2. Emits' = [k \in 1..m |-> [running |-> Running(k)', owed |-> Owed(k)']]
      BY <1>2 DEF Emits, Running, Owed
    <3>3. \A k \in 1..m : [running |-> Running(k)', owed |-> Owed(k)'] = Emits[k]
      <4>1. \A k \in 1..m : Running(k)' = Running(k) /\ Owed(k)' = Owed(k)
        BY <1>2, <3>1 DEF Running, Owed
      <4>2. \A k \in 1..m : k \in 1..Top
        BY <1>2
      <4> QED BY <1>4, <4>1, <4>2
    <3>4. PICK S : Emits \in Seq(S)
      BY <1>3, EmitsAre
    <3> PICK E : E = Emits
      OBVIOUS
    <3>5. \A k \in 1..m : E[k] \in S
      <4>1. E \in Seq(S) /\ Len(E) = Top
        BY <1>4, <3>4
      <4>2. \A k \in 1..m : k \in 1..Len(E)
        BY <1>2, <4>1
      <4> QED BY <4>1, <4>2, ElementOfSeq
    <3>6. /\ SubSeq(E, 1, m) \in Seq(S)
          /\ Len(SubSeq(E, 1, m)) = IF 1 <= m THEN m - 1 + 1 ELSE 0
          /\ \A k \in 1..(m - 1 + 1) : SubSeq(E, 1, m)[k] = E[1 + k - 1]
      BY <3>5, SubSeqProperties
    <3>7. m - 1 + 1 = m /\ \A k \in 1..m : 1 + k - 1 = k
      OBVIOUS
    <3>8. /\ SubSeq(E, 1, m) \in Seq(S) /\ Len(SubSeq(E, 1, m)) = m
          /\ \A k \in 1..m : SubSeq(E, 1, m)[k] = E[k]
      BY <3>6, <3>7
    <3>9. SubSeq(E, 1, m) = [k \in 1..m |-> SubSeq(E, 1, m)[k]]
      BY <3>8, LenProperties
    <3> QED BY <3>2, <3>3, <3>8, <3>9
  <2> QED BY <2>1, <2>2
<1> QED BY <1>1, <1>4, <1>5, <1>6, <1>7 DEF Contract!EmitEnd

\* What the contract sees.
LEMMA SeenKept ==
  ASSUME Inv, UNCHANGED <<slots, pending, nextId, blocked, owner, frames>>
  PROVE  UNCHANGED Contract!vars
<1>1. Emits' = Emits
  BY DEF Emits
<1> QED BY <1>1 DEF Contract!vars

LEMMA StepRefines == Inv /\ Inv' /\ [Next]_vars => [Contract!Next]_(Contract!vars)
<1> SUFFICES ASSUME Inv, Inv', [Next]_vars PROVE Contract!Next \/ UNCHANGED Contract!vars
  OBVIOUS
<1>0. Typed /\ Walking
  BY DEF Inv
<1>1. ASSUME NEW p \in Priorities, NEW once \in BOOLEAN, Connect(p, once) PROVE Contract!Next
  <2>1. Contract!Connect(p, once)
    BY <1>1, ConnectRefines DEF Connect
  <2> QED BY <2>1 DEF Contract!Next
<1>2. ASSUME NEW p \in Priorities, ConnectTracked(p) PROVE Contract!Next
  <2>1. Contract!Connect(p, FALSE)
    BY <1>2, ConnectRefines DEF ConnectTracked
  <2> QED BY <2>1 DEF Contract!Next
<1>3. ASSUME NEW ids \in SUBSET Ids, UserRuns,
             IF owner THEN DisconnectByIds(ids) ELSE UNCHANGED <<slots, pending>>,
             UNCHANGED <<nextId, blocked, owner, frames>>
      PROVE  Contract!Next \/ UNCHANGED Contract!vars
  <2>1. CASE owner
    <3>1. Contract!Disconnect(ids)
      BY <1>3, <2>1, DisconnectRefines
    <3> QED BY <3>1 DEF Contract!Next, Contract!Ids, Ids
  <2>2. CASE ~owner
    BY <1>3, <2>2, SeenKept
  <2> QED BY <2>1, <2>2
<1>4. ASSUME NEW id \in Ids, Disconnect(id) PROVE Contract!Next \/ UNCHANGED Contract!vars
  <2>1. {id} \in SUBSET Ids
    OBVIOUS
  <2>2. /\ UserRuns /\ IF owner THEN DisconnectByIds({id}) ELSE UNCHANGED <<slots, pending>>
        /\ UNCHANGED <<nextId, blocked, owner, frames>>
    BY <1>4 DEF Disconnect
  <2> QED BY <1>3, <2>1, <2>2
<1>5. ASSUME ClearTracked PROVE Contract!Next \/ UNCHANGED Contract!vars
  <2>1. Range(tracked) \in SUBSET Ids
    <3>1. tracked \in Seq(Ids)
      BY <1>0 DEF Typed
    <3>2. DOMAIN tracked = 1..Len(tracked)
      BY <3>1, LenProperties
    <3> QED BY <3>1, <3>2, ElementOfSeq DEF Range
  <2>2. /\ UserRuns /\ IF owner THEN DisconnectByIds(Range(tracked)) ELSE UNCHANGED <<slots, pending>>
        /\ UNCHANGED <<nextId, blocked, owner, frames>>
    BY <1>5 DEF ClearTracked
  <2> QED BY <1>3, <2>1, <2>2
<1>6. ASSUME DisconnectAll PROVE Contract!Next
  <2>1. Contract!Disconnect(Ids)
    BY <1>6, DisconnectAllRefines
  <2>2. Ids \in SUBSET Contract!Ids
    BY DEF Contract!Ids, Ids
  <2> QED BY <2>1, <2>2 DEF Contract!Next
<1>7. ASSUME NEW b \in BOOLEAN, SetBlocked(b) PROVE Contract!Next
  <2>1. /\ owner /\ UserRuns /\ blocked' = b /\ UNCHANGED <<slots, pending, nextId, owner, frames>>
    BY <1>7 DEF SetBlocked
  <2>2. Emits' = Emits
    BY <2>1 DEF Emits
  <2>3. Contract!UserRuns
    BY <1>0, <2>1, UserMayCall
  <2>4. Contract!SetBlocked(b)
    BY <2>1, <2>2, <2>3 DEF Contract!SetBlocked
  <2> QED BY <2>4 DEF Contract!Next
<1>8. ASSUME Destroy PROVE Contract!Next
  <2>1. /\ owner /\ UserRuns /\ owner' = FALSE /\ UNCHANGED <<slots, pending, nextId, blocked, frames>>
    BY <1>8 DEF Destroy
  <2>2. Emits' = Emits
    BY <2>1 DEF Emits
  <2>3. Contract!UserRuns
    BY <1>0, <2>1, UserMayCall
  <2>4. Contract!Destroy
    BY <2>1, <2>2, <2>3 DEF Contract!Destroy
  <2> QED BY <2>4 DEF Contract!Next
<1>9. ASSUME EmitBegin PROVE Contract!Next
  BY <1>9, EmitBeginRefines DEF Contract!Next
<1>10. ASSUME NEW j \in 1..Len(slots), Visit(j) PROVE Contract!Next
  <2>1. Contract!Call(Sub(slots[j]))
    BY <1>10, VisitRefines
  <2>2. slots[j] \in SlotEntry
    BY <1>0, TypedFacts
  <2>3. Sub(slots[j]) \in Contract!Subscription
    BY <2>2, SubIs
  <2> QED BY <2>1, <2>3 DEF Contract!Next
<1>11. ASSUME EmitEnd PROVE Contract!Next
  BY <1>11, EmitEndRefines DEF Contract!Next
<1>12. ASSUME Gone \/ UNCHANGED vars PROVE UNCHANGED Contract!vars
  BY <1>12, SeenKept DEF Gone, vars
<1> QED BY <1>1, <1>2, <1>4, <1>5, <1>6, <1>7, <1>8, <1>9, <1>10, <1>11, <1>12 DEF Next

\* The signal keeps its contract: an emit calls exactly the slots that were connected when it
\* began and were not disconnected since, each once, by priority and then by age, whatever
\* the slots do to the signal, nested emits and its destruction included.
THEOREM ImplementsTheContract == Spec => ImplementsContract
<1>1. Init => Contract!Init
  <2> SUFFICES ASSUME Init PROVE Contract!Init
    OBVIOUS
  <2>1. Emits = << >>
    BY NoEmits DEF Init
  <2>2. Subs(slots) = {} /\ Subs(pending) = {}
    BY EmptySubs DEF Init
  <2>3. nextId - 1 = 0 /\ blocked = FALSE /\ owner = TRUE
    BY DEF Init
  <2> QED BY <2>1, <2>2, <2>3 DEF Contract!Init
<1> QED BY <1>1, StepRefines, InvariantHolds, PTL DEF Spec, ImplementsContract, Contract!Spec
-----------------------------------------------------------------------------
(***************************************************************************)
(* static_signal: the operations on its list.                              *)
(***************************************************************************)

\* No id is in the list twice.
Distinct(s) == \A j, k \in 1..Len(s) : j # k => s[j].id # s[k].id

\* The list is in the order of priority; its entries older than bar are.
Ascending(s) == \A j, k \in 1..Len(s) : j < k => s[j].priority <= s[k].priority
AscendingBelow(s, bar) ==
  \A j, k \in 1..Len(s) :
    j < k /\ s[j].id < bar /\ s[k].id < bar => s[j].priority <= s[k].priority

\* What an entry of the static signal is made of.
LEMMA StaticEntryFits ==
  ASSUME NEW e \in Static!SlotEntry
  PROVE  /\ e.priority \in Int /\ e.id \in Nat /\ e.id >= 1 /\ e.id \in Static!Ids
         /\ e.once \in BOOLEAN /\ e.alive \in BOOLEAN /\ e.executing \in BOOLEAN
<1>1. /\ e.priority \in Priorities /\ e.id \in Static!Ids
      /\ e.once \in BOOLEAN /\ e.alive \in BOOLEAN /\ e.executing \in BOOLEAN
  BY DEF Static!SlotEntry
<1>2. Priorities \subseteq Int
  BY BoundsAssumption
<1>3. \A i \in Static!Ids : i \in Nat /\ i >= 1
  BY StaticAssumed DEF Static!Ids, Static!BoundsAssumption
<1> QED BY <1>1, <1>2, <1>3

\* Increasing places are at least their ranks.
LEMMA PlacesAreFar ==
  ASSUME NEW m \in Nat, NEW n \in Nat, NEW at \in [1..m -> 1..n],
         \A j, k \in 1..m : j < k => at[j] < at[k]
  PROVE  m <= n
<1> DEFINE P == {j \in 0..m : j = 0 \/ at[j] >= j}
<1>1. 0 \in P
  OBVIOUS
<1>2. ASSUME NEW j \in 1..m, j - 1 \in P PROVE j \in P
  <2>1. CASE j = 1
    BY <2>1
  <2>2. CASE j # 1
    <3>1. j - 1 \in 1..m /\ at[j - 1] >= j - 1 /\ at[j - 1] < at[j]
      BY <1>2, <2>2
    <3>2. at[j] \in Nat /\ at[j - 1] \in Nat
      BY <3>1
    <3> QED BY <3>1, <3>2
  <2> QED BY <2>1, <2>2
<1> HIDE DEF P
<1>3. \A j \in 0..m : j \in P
  BY <1>1, <1>2, UpTo
<1>4. m = 0 \/ at[m] >= m
  BY <1>3 DEF P
<1> QED BY <1>4

\* What Only leaves keeps its order.
LEMMA StaticOnlyIs ==
  ASSUME NEW s \in Seq(Static!SlotEntry), NEW K, NEW r, r = Static!Only(s, K)
  PROVE  /\ r \in Seq(Static!SlotEntry) /\ Len(r) \in Nat /\ Len(r) <= Len(s)
         /\ Entries(r) = {s[j] : j \in K \cap (1..Len(s))}
         /\ Distinct(s) => Distinct(r)
         /\ Ascending(s) => Ascending(r)
<1>1. r = Only(s, K)
  BY DEF Static!Only, Only
<1>2. PICK at : Picks(r, s, K, Len(s), at)
  BY <1>1, OnlyPicks
<1>3. /\ at \in [1..Len(r) -> 1..Len(s)]
      /\ \A j \in 1..Len(r) : at[j] \in K /\ r[j] = s[at[j]]
      /\ \A j, k \in 1..Len(r) : j < k => at[j] < at[k]
      /\ \A l \in 1..Len(s) : l \in K => \E j \in 1..Len(r) : at[j] = l
  BY <1>2 DEF Picks
<1>4. r \in Seq(Static!SlotEntry) /\ Len(r) \in Nat /\ Len(s) \in Nat
  BY <1>1, OnlyPicks, LenProperties
<1>5. Len(r) <= Len(s)
  BY <1>3, <1>4, PlacesAreFar
<1>6. Entries(r) = {s[j] : j \in K \cap (1..Len(s))}
  <2>1. ASSUME NEW j \in 1..Len(r) PROVE r[j] \in {s[l] : l \in K \cap (1..Len(s))}
    BY <1>3
  <2>2. ASSUME NEW l \in K \cap (1..Len(s)) PROVE s[l] \in Entries(r)
    <3>1. PICK j \in 1..Len(r) : at[j] = l
      BY <1>3
    <3> QED BY <1>3, <3>1 DEF Entries
  <2> QED BY <2>1, <2>2 DEF Entries
<1>7. ASSUME NEW j \in 1..Len(r), NEW k \in 1..Len(r)
      PROVE  /\ at[j] \in 1..Len(s) /\ at[k] \in 1..Len(s)
             /\ r[j] = s[at[j]] /\ r[k] = s[at[k]]
             /\ (j < k => at[j] < at[k]) /\ (j # k => at[j] # at[k])
  <2>1. at[j] \in Nat /\ at[k] \in Nat /\ (j < k => at[j] < at[k]) /\ (k < j => at[k] < at[j])
    BY <1>3
  <2> QED BY <1>3, <2>1
<1>8. Distinct(s) => Distinct(r)
  BY <1>7 DEF Distinct
<1>9. Ascending(s) => Ascending(r)
  BY <1>7 DEF Ascending
<1> QED BY <1>4, <1>5, <1>6, <1>8, <1>9

\* bubble_last_into_position puts an entry in its place in a list ordered by priority.
LEMMA StaticInsertIs ==
  ASSUME NEW s \in Seq(Static!SlotEntry), NEW e \in Static!SlotEntry,
         Distinct(s), Ascending(s), \A j \in 1..Len(s) : s[j].id # e.id,
         NEW r, r = Static!InsertByPriority(s, e)
  PROVE  /\ r \in Seq(Static!SlotEntry) /\ Len(r) = Len(s) + 1
         /\ Distinct(r) /\ Ascending(r) /\ Entries(r) = Entries(s) \cup {e}
<1>1. PICK N \in Nat : N = Len(s)
  BY LenProperties
<1>2. r = InsertByPriority(s, e)
  BY DEF Static!InsertByPriority, InsertByPriority, Static!InsertAt, InsertAt
<1>3. r \in Seq(Static!SlotEntry) /\ Len(r) = N + 1
  BY <1>1, <1>2, InsertShape
<1>4. PICK at \in 1..N + 1 : Inserted(r, s, e, at)
  BY <1>1, <1>2, InsertShape
<1>5. /\ \A j \in at..N : e.priority < s[j].priority
      /\ at > 1 => ~(e.priority < s[at - 1].priority)
      /\ r[at] = e
      /\ \A j \in 1..(at - 1) : r[j] = s[j]
      /\ \A j \in (at + 1)..(N + 1) : r[j] = s[j - 1]
  BY <1>1, <1>4 DEF Inserted
<1>6. \A j \in 1..N : s[j].priority \in Int
  <2> TAKE j \in 1..N
  <2>1. s[j] \in Static!SlotEntry
    BY <1>1, ElementOfSeq
  <2> QED BY <2>1, StaticEntryFits
<1>7. e.priority \in Int
  BY StaticEntryFits
<1>8. \A j, k \in 1..N : (j < k => s[j].priority <= s[k].priority) /\ (j # k => s[j].id # s[k].id)
  BY <1>1 DEF Ascending, Distinct
<1>9. \A j \in 1..(at - 1) : s[j].priority <= e.priority
  <2> TAKE j \in 1..(at - 1)
  <2>1. at > 1 /\ at - 1 \in 1..N /\ j \in 1..N /\ (j = at - 1 \/ j < at - 1)
    OBVIOUS
  <2> PICK a, b, c : a = s[j].priority /\ b = s[at - 1].priority /\ c = e.priority
    OBVIOUS
  <2>2. a \in Int /\ b \in Int /\ c \in Int
    BY <1>6, <1>7, <2>1
  <2>3. ~(c < b)
    BY <1>5, <2>1
  <2>4. a = b \/ a <= b
    BY <1>8, <2>1
  <2> QED BY <2>2, <2>3, <2>4
<1>10. \A j \in 1..(N + 1) : j = at \/ j \in 1..(at - 1) \/ (j \in (at + 1)..(N + 1) /\ j - 1 \in at..N)
  OBVIOUS
<1>11. ASSUME NEW j \in 1..(N + 1), NEW k \in 1..(N + 1), j < k
       PROVE  r[j].priority <= r[k].priority /\ r[j].id # r[k].id
  <2>1. CASE j = at
    <3>1. k \in (at + 1)..(N + 1) /\ k - 1 \in at..N /\ k - 1 \in 1..N
      BY <1>11, <2>1
    <3>2. r[j] = e /\ r[k] = s[k - 1]
      BY <1>5, <2>1, <3>1
    <3>3. e.priority < s[k - 1].priority
      BY <1>5, <3>1
    <3> QED BY <1>1, <1>6, <1>7, <3>1, <3>2, <3>3
  <2>2. CASE j \in 1..(at - 1)
    <3>1. j \in 1..N /\ r[j] = s[j]
      BY <1>5, <2>2
    <3>2. CASE k = at
      BY <1>1, <1>5, <1>9, <2>2, <3>1, <3>2
    <3>3. CASE k \in 1..(at - 1)
      BY <1>5, <1>8, <1>11, <3>1, <3>3
    <3>4. CASE k \in (at + 1)..(N + 1)
      <4>1. k - 1 \in 1..N /\ j < k - 1 /\ r[k] = s[k - 1]
        BY <1>5, <2>2, <3>4
      <4> QED BY <1>8, <3>1, <4>1
    <3> QED BY <1>10, <3>2, <3>3, <3>4
  <2>3. CASE j \in (at + 1)..(N + 1)
    <3>1. j - 1 \in 1..N /\ k - 1 \in 1..N /\ j - 1 < k - 1 /\ k \in (at + 1)..(N + 1)
      BY <1>11, <2>3
    <3>2. r[j] = s[j - 1] /\ r[k] = s[k - 1]
      BY <1>5, <2>3, <3>1
    <3> QED BY <1>8, <3>1, <3>2
  <2> QED BY <1>10, <2>1, <2>2, <2>3
<1>12. Ascending(r)
  BY <1>3, <1>11 DEF Ascending
<1>13. Distinct(r)
  <2> SUFFICES ASSUME NEW j \in 1..(N + 1), NEW k \in 1..(N + 1), j # k PROVE r[j].id # r[k].id
    BY <1>3 DEF Distinct
  <2>1. j < k \/ k < j
    OBVIOUS
  <2> QED BY <1>11, <2>1
<1>14. Entries(r) = Entries(s) \cup {e}
  <2>1. ASSUME NEW j \in 1..(N + 1) PROVE r[j] \in Entries(s) \cup {e}
    <3>1. CASE j = at
      BY <1>5, <3>1
    <3>2. CASE j \in 1..(at - 1)
      BY <1>1, <1>5, <3>2 DEF Entries
    <3>3. CASE j \in (at + 1)..(N + 1) /\ j - 1 \in at..N
      <4>1. j - 1 \in 1..N /\ r[j] = s[j - 1]
        BY <1>5, <3>3
      <4> QED BY <1>1, <4>1 DEF Entries
    <3> QED BY <1>10, <3>1, <3>2, <3>3
  <2>2. ASSUME NEW j \in 1..N PROVE s[j] \in Entries(r)
    <3>1. CASE j \in 1..(at - 1)
      <4>1. j \in 1..(N + 1) /\ r[j] = s[j]
        BY <1>5, <3>1
      <4> QED BY <1>3, <4>1 DEF Entries
    <3>2. CASE j \in at..N
      <4>1. j + 1 \in (at + 1)..(N + 1) /\ j + 1 \in 1..(N + 1) /\ (j + 1) - 1 = j
        BY <3>2
      <4>2. r[j + 1] = s[j]
        BY <1>5, <4>1
      <4> QED BY <1>3, <4>1, <4>2 DEF Entries
    <3>3. j \in 1..(at - 1) \/ j \in at..N
      OBVIOUS
    <3> QED BY <3>1, <3>2, <3>3
  <2>3. e \in Entries(r)
    <3>1. at \in 1..(N + 1)
      OBVIOUS
    <3> QED BY <1>3, <1>5, <3>1 DEF Entries
  <2>4. Entries(r) \subseteq Entries(s) \cup {e}
    BY <1>3, <2>1 DEF Entries
  <2>5. Entries(s) \subseteq Entries(r)
    BY <1>1, <2>2 DEF Entries
  <2> QED BY <2>3, <2>4, <2>5
<1> QED BY <1>1, <1>3, <1>12, <1>13, <1>14

\* sort_by_priority keeps the entries and puts them in the order of priority.
LEMMA StaticSortIs ==
  ASSUME NEW s \in Seq(Static!SlotEntry), Distinct(s), NEW r, r = Static!SortByPriority(s)
  PROVE  /\ r \in Seq(Static!SlotEntry) /\ Len(r) = Len(s)
         /\ Distinct(r) /\ Ascending(r) /\ Entries(r) = Entries(s)
<1> DEFINE N == Len(s)
           sorted == CHOOSE f : f = [n \in 0..N |->
                       IF n = 0 THEN << >> ELSE Static!InsertByPriority(f[n - 1], s[n])]
<1>1. N \in Nat /\ \A n \in 1..N : s[n] \in Static!SlotEntry
  BY ElementOfSeq, LenProperties
<1>2. sorted = [n \in 0..N |->
                  IF n = 0 THEN << >> ELSE Static!InsertByPriority(sorted[n - 1], s[n])]
  <2> DEFINE step == [n \in 1..N |-> [v \in Seq(Static!SlotEntry) |-> Static!InsertByPriority(v, s[n])]]
  <2>1. step \in [1..N -> [Seq(Static!SlotEntry) -> Seq(Static!SlotEntry)]]
    <3>1. \A v, e : Static!InsertByPriority(v, e) = InsertByPriority(v, e)
      BY DEF Static!InsertByPriority, InsertByPriority, Static!InsertAt, InsertAt
    <3>2. \A n \in 1..N, v \in Seq(Static!SlotEntry) :
            Static!InsertByPriority(v, s[n]) \in Seq(Static!SlotEntry)
      BY <1>1, <3>1, InsertShape
    <3> QED BY <3>2
  <2>2. << >> \in Seq(Static!SlotEntry)
    BY EmptySeq
  <2> HIDE DEF step
  <2>3. PICK g : Runs(g, N, Seq(Static!SlotEntry), << >>, step)
    BY <1>1, <2>1, <2>2, Recursion
  <2>4. /\ g \in [0..N -> Seq(Static!SlotEntry)] /\ g[0] = << >>
        /\ \A n \in 1..N : g[n] = step[n][g[n - 1]]
    BY <2>3 DEF Runs
  <2>5. ASSUME NEW n \in 0..N
        PROVE  g[n] = IF n = 0 THEN << >> ELSE Static!InsertByPriority(g[n - 1], s[n])
    <3>1. CASE n = 0
      BY <2>4, <3>1
    <3>2. CASE n # 0
      <4>1. n \in 1..N /\ n - 1 \in 0..N
        BY <1>1, <3>2
      <4>2. g[n - 1] \in Seq(Static!SlotEntry) /\ g[n] = step[n][g[n - 1]]
        BY <2>4, <4>1
      <4> QED BY <3>2, <4>1, <4>2 DEF step
    <3> QED BY <3>1, <3>2
  <2>6. g = [n \in 0..N |-> IF n = 0 THEN << >> ELSE Static!InsertByPriority(g[n - 1], s[n])]
    BY <2>4, <2>5
  <2> QED BY <2>6
<1>3. r = sorted[N]
  BY DEF Static!SortByPriority
<1> HIDE DEF sorted
<1>4. sorted[0] = << >>
  BY <1>1, <1>2
<1>5. \A n \in 1..N : sorted[n] = Static!InsertByPriority(sorted[n - 1], s[n])
  <2>1. \A n \in 0..N : sorted[n] = IF n = 0 THEN << >>
                          ELSE Static!InsertByPriority(sorted[n - 1], s[n])
    BY <1>2, Zenon
  <2>2. \A n \in 1..N : n \in 0..N /\ n # 0
    BY <1>1
  <2> QED BY <2>1, <2>2
<1> DEFINE P == {n \in 0..N : /\ sorted[n] \in Seq(Static!SlotEntry) /\ Len(sorted[n]) = n
                              /\ Distinct(sorted[n]) /\ Ascending(sorted[n])
                              /\ Entries(sorted[n]) = {s[k] : k \in 1..n}}
<1>6. 0 \in P
  <2> PICK q : q = << >>
    OBVIOUS
  <2>1. q \in Seq(Static!SlotEntry) /\ Len(q) = 0 /\ 1..0 = {}
    BY EmptySeq
  <2>2. Distinct(q) /\ Ascending(q) /\ Entries(q) = {} /\ {s[k] : k \in 1..0} = {}
    BY <2>1 DEF Distinct, Ascending, Entries
  <2>3. sorted[0] = q /\ 0 \in 0..N
    BY <1>1, <1>4
  <2>4. Entries(sorted[0]) = {s[k] : k \in 1..0}
    BY <2>2, <2>3
  <2> QED BY <2>1, <2>2, <2>3, <2>4
<1>7. ASSUME NEW n \in 1..N, n - 1 \in P PROVE n \in P
  <2>1. PICK v : /\ v = sorted[n - 1] /\ v \in Seq(Static!SlotEntry) /\ Len(v) = n - 1
                 /\ Distinct(v) /\ Ascending(v) /\ Entries(v) = {s[k] : k \in 1..(n - 1)}
    BY <1>7
  <2>2. n \in 0..N /\ n \in Nat /\ \A l \in 1..n : l = n \/ l \in 1..(n - 1)
    BY <1>1
  <2>3. PICK q : q = Static!InsertByPriority(v, s[n])
    OBVIOUS
  <2>4. sorted[n] = q
    BY <1>5, <2>1, <2>3
  <2>5. \A j \in 1..Len(v) : v[j].id # s[n].id
    <3> TAKE j \in 1..Len(v)
    <3>1. v[j] \in Entries(v)
      BY DEF Entries
    <3>2. PICK k \in 1..(n - 1) : v[j] = s[k]
      BY <2>1, <3>1
    <3>3. k \in 1..N /\ k # n
      BY <1>1
    <3> QED BY <3>2, <3>3 DEF Distinct
  <2>6. /\ q \in Seq(Static!SlotEntry) /\ Len(q) = Len(v) + 1 /\ Distinct(q) /\ Ascending(q)
        /\ Entries(q) = Entries(v) \cup {s[n]}
    <3>1. s[n] \in Static!SlotEntry
      BY <1>1
    <3> QED BY <2>1, <2>3, <2>5, <3>1, StaticInsertIs
  <2>7. Entries(q) = {s[k] : k \in 1..n}
    <3>1. n \in 1..n /\ 1..(n - 1) \subseteq 1..n
      BY <2>2
    <3> QED BY <2>1, <2>2, <2>6, <3>1
  <2>8. Len(q) = n
    BY <2>1, <2>2, <2>6
  <2> QED BY <2>2, <2>4, <2>6, <2>7, <2>8
<1> HIDE DEF P
<1>8. \A n \in 1..N : n - 1 \in P => n \in P
  BY <1>7
<1>9. N \in P
  <2>1. N \in 0..N
    BY <1>1
  <2> QED BY <1>1, <1>6, <1>8, <2>1, UpTo
<1> QED BY <1>3, <1>9 DEF P, Entries

\* The two lists have the same ids, priorities and kinds, place by place.
SameStatic(s, t) ==
  /\ Len(t) = Len(s)
  /\ \A j \in 1..Len(s) : t[j].id = s[j].id /\ t[j].priority = s[j].priority /\ t[j].once = s[j].once

\* Marking entries dead changes nothing but their mark.
LEMMA StaticMarkDeadIs ==
  ASSUME NEW s \in Seq(Static!SlotEntry), NEW ids, NEW r, r = Static!MarkDead(s, ids)
  PROVE  /\ r \in Seq(Static!SlotEntry) /\ SameStatic(s, r)
         /\ \A j \in 1..Len(s) : /\ r[j].alive = (s[j].alive /\ s[j].id \notin ids)
                                 /\ r[j].executing = s[j].executing
<1>1. Len(s) \in Nat /\ \A j \in 1..Len(s) : s[j] \in Static!SlotEntry
  BY ElementOfSeq, LenProperties
<1> PICK N \in Nat : N = Len(s)
  BY <1>1
<1>2. r = [j \in 1..N |-> IF s[j].id \in ids THEN [s[j] EXCEPT !.alive = FALSE] ELSE s[j]]
  BY DEF Static!MarkDead
<1>3. ASSUME NEW j \in 1..N
      PROVE  /\ r[j] \in Static!SlotEntry
             /\ r[j].id = s[j].id /\ r[j].priority = s[j].priority /\ r[j].once = s[j].once
             /\ r[j].alive = (s[j].alive /\ s[j].id \notin ids)
             /\ r[j].executing = s[j].executing
  <2>1. s[j] \in Static!SlotEntry
    BY <1>1
  <2>2. r[j] = IF s[j].id \in ids THEN [s[j] EXCEPT !.alive = FALSE] ELSE s[j]
    BY <1>2
  <2> QED BY <2>1, <2>2 DEF Static!SlotEntry
<1>4. r \in [1..N -> Static!SlotEntry]
  BY <1>2, <1>3
<1>5. r \in Seq(Static!SlotEntry) /\ Len(r) = N
  <2>1. r \in Seq(Static!SlotEntry)
    BY <1>4, SeqDef
  <2>2. DOMAIN r = 1..N
    BY <1>4
  <2> QED BY <2>1, <2>2, LenProperties
<1> QED BY <1>3, <1>5 DEF SameStatic


-----------------------------------------------------------------------------
(***************************************************************************)
(* static_signal: the inductive invariant.                                 *)
(***************************************************************************)
StaticFrame == [n : Nat, i : Nat, id : Static!Ids \cup {Static!NoId}]

StaticTyped ==
  /\ staticSlots \in Seq(Static!SlotEntry) /\ Len(staticSlots) <= MaxSlots
  /\ staticNextId \in 1..MaxStaticConnects + 1
  /\ staticBlocked \in BOOLEAN /\ dirty \in BOOLEAN
  /\ watermark \in 0..staticNextId
  /\ staticFrames \in Seq(StaticFrame) /\ Len(staticFrames) <= MaxDepth
  /\ staticTracked \in Seq(Static!Ids \cup {Static!NoId}) /\ Len(staticTracked) <= TrackCapacity

StaticKeyed == Distinct(staticSlots) /\ Below(staticSlots, staticNextId)

\* Only what was connected during the emit may be out of place, and then a sort is due.
StaticPlaced ==
  IF dirty THEN AscendingBelow(staticSlots, watermark) ELSE Ascending(staticSlots)

\* Every emit in progress indexes inside the list.
StaticWalking ==
  \A k \in 1..Len(staticFrames) :
    /\ staticFrames[k].n <= Len(staticSlots) /\ staticFrames[k].i <= staticFrames[k].n
    /\ staticFrames[k].i = 0 <=> staticFrames[k].id = Static!NoId

\* A flagged entry is one that an emit in progress is calling.
StaticFlagged ==
  \A j \in 1..Len(staticSlots) :
    staticSlots[j].executing => \E k \in 1..Len(staticFrames) : staticFrames[k].i = j

\* Outside an emit no work is deferred.
StaticResting ==
  ~Static!Emitting => ~dirty /\ \A j \in 1..Len(staticSlots) : staticSlots[j].alive

StaticInv ==
  StaticTyped /\ StaticKeyed /\ StaticPlaced /\ StaticWalking /\ StaticFlagged /\ StaticResting

\* What typing says of the parts.
LEMMA StaticFacts ==
  ASSUME StaticTyped
  PROVE  /\ Len(staticSlots) \in Nat /\ Len(staticFrames) \in Nat /\ staticNextId \in Nat
         /\ watermark \in Nat /\ watermark <= staticNextId /\ MaxSlots \in Nat /\ MaxDepth \in Nat
         /\ MaxStaticConnects \in Nat
         /\ \A j \in 1..Len(staticSlots) :
              /\ staticSlots[j] \in Static!SlotEntry
              /\ staticSlots[j].id \in Nat /\ staticSlots[j].id >= 1
              /\ staticSlots[j].priority \in Int
         /\ \A k \in 1..Len(staticFrames) :
              /\ staticFrames[k] \in StaticFrame
              /\ staticFrames[k].n \in Nat /\ staticFrames[k].i \in Nat
<1>0. /\ staticSlots \in Seq(Static!SlotEntry) /\ staticFrames \in Seq(StaticFrame)
      /\ staticNextId \in 1..MaxStaticConnects + 1 /\ watermark \in 0..staticNextId
  BY DEF StaticTyped
<1>1. MaxSlots \in Nat /\ MaxDepth \in Nat /\ MaxStaticConnects \in Nat
  BY StaticAssumed DEF Static!BoundsAssumption
<1>2. Len(staticSlots) \in Nat /\ Len(staticFrames) \in Nat
  BY <1>0, LenProperties
<1>3. staticNextId \in Nat /\ watermark \in Nat /\ watermark <= staticNextId
  BY <1>0, <1>1
<1>4. \A j \in 1..Len(staticSlots) :
        /\ staticSlots[j] \in Static!SlotEntry
        /\ staticSlots[j].id \in Nat /\ staticSlots[j].id >= 1
        /\ staticSlots[j].priority \in Int
  <2> TAKE j \in 1..Len(staticSlots)
  <2>1. staticSlots[j] \in Static!SlotEntry
    BY <1>0, ElementOfSeq
  <2> QED BY <2>1, StaticEntryFits
<1>5. \A k \in 1..Len(staticFrames) :
        /\ staticFrames[k] \in StaticFrame
        /\ staticFrames[k].n \in Nat /\ staticFrames[k].i \in Nat
  <2> TAKE k \in 1..Len(staticFrames)
  <2>1. staticFrames[k] \in StaticFrame
    BY <1>0, ElementOfSeq
  <2> QED BY <2>1 DEF StaticFrame
<1> QED BY <1>1, <1>2, <1>3, <1>4, <1>5

\* Order and ids look at the keys only.
LEMMA StaticKeysKept ==
  ASSUME NEW s, NEW t, SameStatic(s, t)
  PROVE  /\ Distinct(s) => Distinct(t)
         /\ Ascending(s) => Ascending(t)
         /\ \A bar : Below(s, bar) => Below(t, bar)
         /\ \A bar : AscendingBelow(s, bar) => AscendingBelow(t, bar)
BY DEF SameStatic, Distinct, Ascending, Below, AscendingBelow

\* A list in order is in order below any bar.
LEMMA AscendingParts ==
  ASSUME NEW s, Ascending(s)
  PROVE  \A bar : AscendingBelow(s, bar)
BY DEF Ascending, AscendingBelow

\* A step during an emit that moves no entry.
LEMMA StaticListKept ==
  ASSUME StaticInv, Static!Emitting, Static!Emitting',
         staticSlots' \in Seq(Static!SlotEntry), SameStatic(staticSlots, staticSlots'),
         UNCHANGED <<staticNextId, staticBlocked, dirty, watermark>>,
         staticFrames' \in Seq(StaticFrame), Len(staticFrames') <= MaxDepth,
         staticTracked' \in Seq(Static!Ids \cup {Static!NoId}), Len(staticTracked') <= TrackCapacity,
         StaticWalking', StaticFlagged'
  PROVE  StaticInv'
<1>1. StaticTyped /\ StaticKeyed /\ StaticPlaced
  BY DEF StaticInv
<1>2. Len(staticSlots') = Len(staticSlots)
  BY DEF SameStatic
<1>3. StaticTyped'
  BY <1>1, <1>2 DEF StaticTyped
<1>4. StaticKeyed'
  BY <1>1, StaticKeysKept DEF StaticKeyed
<1>5. StaticPlaced'
  BY <1>1, StaticKeysKept DEF StaticPlaced
<1>6. StaticResting'
  BY DEF StaticResting
<1> QED BY <1>3, <1>4, <1>5, <1>6 DEF StaticInv

\* A step that leaves the list and the emits alone.
LEMMA StaticQuiet ==
  ASSUME StaticInv, UNCHANGED <<staticSlots, staticNextId, dirty, watermark, staticFrames>>,
         staticBlocked' \in BOOLEAN,
         staticTracked' \in Seq(Static!Ids \cup {Static!NoId}), Len(staticTracked') <= TrackCapacity
  PROVE  StaticInv'
<1>1. StaticTyped'
  BY DEF StaticInv, StaticTyped
<1>2. StaticKeyed' /\ StaticPlaced'
  BY DEF StaticInv, StaticKeyed, StaticPlaced
<1>3. StaticWalking' /\ StaticFlagged'
  BY DEF StaticInv, StaticWalking, StaticFlagged
<1>4. StaticResting'
  BY DEF StaticInv, StaticResting, Static!Emitting
<1> QED BY <1>1, <1>2, <1>3, <1>4 DEF StaticInv

LEMMA StaticConnectKeeps ==
  ASSUME StaticInv, NEW p \in Priorities, NEW once \in BOOLEAN, staticNextId <= MaxStaticConnects,
         Static!Store(Static!Entry(p, once)), staticNextId' = staticNextId + 1,
         UNCHANGED <<staticBlocked, watermark, staticFrames>>,
         staticTracked' \in Seq(Static!Ids \cup {Static!NoId}), Len(staticTracked') <= TrackCapacity
  PROVE  StaticInv'
<1>0. StaticTyped /\ StaticKeyed /\ StaticPlaced /\ StaticWalking /\ StaticFlagged /\ StaticResting
  BY DEF StaticInv
<1> PICK e : e = Static!Entry(p, once)
  OBVIOUS
<1>1. /\ staticSlots \in Seq(Static!SlotEntry) /\ Len(staticSlots) <= MaxSlots
      /\ staticNextId \in 1..MaxStaticConnects + 1 /\ watermark \in 0..staticNextId
  BY <1>0 DEF StaticTyped
<1>2. /\ Len(staticSlots) \in Nat /\ staticNextId \in Nat /\ MaxSlots \in Nat /\ MaxStaticConnects \in Nat
      /\ watermark \in Nat /\ watermark <= staticNextId
      /\ \A j \in 1..Len(staticSlots) :
           /\ staticSlots[j] \in Static!SlotEntry /\ staticSlots[j].id \in Nat
           /\ staticSlots[j].priority \in Int
  BY <1>0, StaticFacts
<1>3. /\ staticNextId \in Static!Ids /\ staticNextId' \in 1..MaxStaticConnects + 1
      /\ staticNextId < staticNextId' /\ watermark \in 0..staticNextId'
  BY <1>1, <1>2 DEF Static!Ids
<1>4. e \in Static!SlotEntry /\ e.id = staticNextId /\ e.alive /\ ~e.executing
  BY <1>3 DEF Static!Entry, Static!SlotEntry
<1>5. \A j \in 1..Len(staticSlots) : staticSlots[j].id < staticNextId
  BY <1>0 DEF StaticKeyed, Below
<1>6. \A j \in 1..Len(staticSlots) : staticSlots[j].id # e.id /\ staticSlots[j].id < staticNextId'
  BY <1>2, <1>3, <1>4, <1>5
<1> PICK m \in Nat : m = Len(staticSlots)
  BY <1>2
<1>7. CASE ~Static!Full /\ ~Static!Emitting
  <2>1. staticSlots' = Static!InsertByPriority(staticSlots, e) /\ dirty' = dirty
    BY <1>7 DEF Static!Store
  <2>2. ~dirty /\ \A j \in 1..Len(staticSlots) : staticSlots[j].alive
    BY <1>0, <1>7 DEF StaticResting
  <2>3. Distinct(staticSlots) /\ Ascending(staticSlots)
    BY <1>0, <2>2 DEF StaticKeyed, StaticPlaced
  <2>4. /\ staticSlots' \in Seq(Static!SlotEntry) /\ Len(staticSlots') = m + 1
        /\ Distinct(staticSlots') /\ Ascending(staticSlots')
        /\ Entries(staticSlots') = Entries(staticSlots) \cup {e}
    BY <1>1, <1>4, <1>6, <2>1, <2>3, StaticInsertIs
  <2>5. m + 1 <= MaxSlots
    BY <1>1, <1>2, <1>7 DEF Static!Full
  <2>6. StaticTyped'
    BY <1>0, <1>3, <2>1, <2>4, <2>5 DEF StaticTyped
  <2>7. Len(staticFrames) = 0
    BY <1>7 DEF Static!Emitting
  <2>8. \A j \in 1..Len(staticSlots) : ~staticSlots[j].executing
    <3>1. \A k \in 1..Len(staticFrames) : FALSE
      BY <2>7
    <3> QED BY <1>0, <3>1 DEF StaticFlagged
  <2>9. \A d \in Entries(staticSlots') : d.id < staticNextId' /\ d.alive /\ ~d.executing
    BY <1>3, <1>4, <1>6, <2>2, <2>4, <2>8 DEF Entries
  <2>10. \A j \in 1..Len(staticSlots') :
           staticSlots'[j].id < staticNextId' /\ staticSlots'[j].alive /\ ~staticSlots'[j].executing
    BY <2>9 DEF Entries
  <2>11. StaticKeyed' /\ StaticPlaced'
    BY <2>1, <2>2, <2>4, <2>10 DEF StaticKeyed, StaticPlaced, Below
  <2>12. StaticWalking'
    BY <2>7 DEF StaticWalking
  <2>13. StaticFlagged' /\ StaticResting'
    BY <2>1, <2>2, <2>10 DEF StaticFlagged, StaticResting
  <2> QED BY <2>6, <2>11, <2>12, <2>13 DEF StaticInv
<1>8. AscendingBelow(staticSlots, watermark)
  BY <1>0, AscendingParts DEF StaticPlaced
<1>9. CASE ~Static!Full /\ Static!Emitting
  <2>1. staticSlots' = Append(staticSlots, e) /\ dirty' = TRUE
    BY <1>9 DEF Static!Store
  <2>2. /\ staticSlots' \in Seq(Static!SlotEntry) /\ Len(staticSlots') = m + 1
        /\ staticSlots'[m + 1] = e /\ \A j \in 1..m : staticSlots'[j] = staticSlots[j]
    BY <1>1, <1>4, <2>1, AppendProperties
  <2>3. m + 1 <= MaxSlots
    BY <1>1, <1>2, <1>9 DEF Static!Full
  <2>4. StaticTyped'
    BY <1>0, <1>3, <2>1, <2>2, <2>3 DEF StaticTyped
  <2>5. \A j \in 1..(m + 1) : j = m + 1 \/ j \in 1..m
    OBVIOUS
  <2>6. \A j, k \in 1..m : j # k => staticSlots[j].id # staticSlots[k].id
    BY <1>0 DEF StaticKeyed, Distinct
  <2>7. StaticKeyed'
    <3>1. Distinct(staticSlots')
      BY <1>6, <2>2, <2>5, <2>6 DEF Distinct
    <3>2. Below(staticSlots', staticNextId')
      BY <1>3, <1>4, <1>6, <2>2, <2>5 DEF Below
    <3> QED BY <3>1, <3>2 DEF StaticKeyed
  <2>8. ~(e.id < watermark)
    BY <1>2, <1>4
  <2>9. AscendingBelow(staticSlots', watermark)
    BY <1>8, <2>2, <2>5, <2>8 DEF AscendingBelow
  <2>10. StaticPlaced'
    BY <2>1, <2>9 DEF StaticPlaced
  <2>11. StaticWalking'
    <3>1. \A k \in 1..Len(staticFrames) : staticFrames[k].n \in Nat
      BY <1>0, StaticFacts
    <3> QED BY <1>0, <2>2, <3>1 DEF StaticWalking
  <2>12. StaticFlagged'
    BY <1>0, <1>4, <2>2, <2>5 DEF StaticFlagged
  <2>13. StaticResting'
    BY <1>9 DEF StaticResting, Static!Emitting
  <2> QED BY <2>4, <2>7, <2>10, <2>11, <2>12, <2>13 DEF StaticInv
<1>10. CASE Static!Full /\ Static!Emitting
  <2>1. PICK i \in Static!Reclaimable : staticSlots' = [staticSlots EXCEPT ![i] = e]
    BY <1>7, <1>10 DEF Static!Store
  <2>2. dirty' = TRUE
    BY <1>10 DEF Static!Store
  <2>3. i \in 1..m
    BY DEF Static!Reclaimable
  <2>4. /\ staticSlots' \in Seq(Static!SlotEntry) /\ Len(staticSlots') = m
        /\ \A j \in 1..m : staticSlots'[j] = IF j = i THEN e ELSE staticSlots[j]
    BY <1>1, <1>4, <2>1, <2>3, ExceptSeq, LenProperties
  <2>5. StaticTyped'
    BY <1>0, <1>3, <2>2, <2>4 DEF StaticTyped
  <2>6. StaticKeyed'
    <3>1. \A j, k \in 1..m : j # k => staticSlots[j].id # staticSlots[k].id
      BY <1>0 DEF StaticKeyed, Distinct
    <3>2. Distinct(staticSlots')
      BY <1>6, <2>4, <3>1 DEF Distinct
    <3>3. Below(staticSlots', staticNextId')
      BY <1>3, <1>4, <1>6, <2>4 DEF Below
    <3> QED BY <3>2, <3>3 DEF StaticKeyed
  <2>7. ~(e.id < watermark)
    BY <1>2, <1>4
  <2>8. AscendingBelow(staticSlots', watermark)
    BY <1>8, <2>4, <2>7 DEF AscendingBelow
  <2>9. StaticPlaced'
    BY <2>2, <2>8 DEF StaticPlaced
  <2>10. StaticWalking'
    BY <1>0, <2>4 DEF StaticWalking
  <2>11. StaticFlagged'
    BY <1>0, <1>4, <2>4 DEF StaticFlagged
  <2>12. StaticResting'
    BY <1>10 DEF StaticResting, Static!Emitting
  <2> QED BY <2>5, <2>6, <2>9, <2>10, <2>11, <2>12 DEF StaticInv
<1>11. ~(Static!Full /\ ~Static!Emitting)
  BY DEF Static!Store
<1> QED BY <1>7, <1>9, <1>10, <1>11

LEMMA StaticDisconnectKeeps ==
  ASSUME StaticInv, NEW ids, Static!DisconnectByIds(ids),
         UNCHANGED <<staticNextId, staticBlocked, dirty, watermark, staticFrames>>,
         staticTracked' \in Seq(Static!Ids \cup {Static!NoId}), Len(staticTracked') <= TrackCapacity
  PROVE  StaticInv'
<1>0. StaticTyped /\ StaticKeyed /\ StaticPlaced /\ StaticWalking /\ StaticFlagged /\ StaticResting
  BY DEF StaticInv
<1>1. staticSlots \in Seq(Static!SlotEntry) /\ Len(staticSlots) <= MaxSlots
      /\ staticFrames \in Seq(StaticFrame) /\ Len(staticFrames) <= MaxDepth
  BY <1>0 DEF StaticTyped
<1>2. CASE Static!Emitting
  <2>1. staticSlots' = Static!MarkDead(staticSlots, ids)
    BY <1>2 DEF Static!DisconnectByIds
  <2>2. /\ staticSlots' \in Seq(Static!SlotEntry) /\ SameStatic(staticSlots, staticSlots')
        /\ \A j \in 1..Len(staticSlots) : staticSlots'[j].executing = staticSlots[j].executing
    BY <1>1, <2>1, StaticMarkDeadIs
  <2>3. Len(staticSlots') = Len(staticSlots)
    BY <2>2 DEF SameStatic
  <2>4. StaticWalking' /\ StaticFlagged'
    BY <1>0, <2>2, <2>3 DEF StaticWalking, StaticFlagged
  <2>5. Static!Emitting'
    BY <1>2 DEF Static!Emitting
  <2> QED BY <1>1, <1>2, <2>2, <2>4, <2>5, StaticListKept
<1>3. CASE ~Static!Emitting
  <2> DEFINE K == {j \in 1..Len(staticSlots) : staticSlots[j].id \notin ids}
  <2>1. staticSlots' = Static!Only(staticSlots, K)
    BY <1>3 DEF Static!DisconnectByIds
  <2>2. ~dirty /\ \A j \in 1..Len(staticSlots) : staticSlots[j].alive
    BY <1>0, <1>3 DEF StaticResting
  <2>3. Distinct(staticSlots) /\ Ascending(staticSlots)
    BY <1>0, <2>2 DEF StaticKeyed, StaticPlaced
  <2> HIDE DEF K
  <2>4. /\ staticSlots' \in Seq(Static!SlotEntry) /\ Len(staticSlots') \in Nat
        /\ Len(staticSlots') <= Len(staticSlots)
        /\ Entries(staticSlots') = {staticSlots[j] : j \in K \cap (1..Len(staticSlots))}
        /\ Distinct(staticSlots') /\ Ascending(staticSlots')
    BY <1>1, <2>1, <2>3, StaticOnlyIs
  <2>5. Len(staticFrames) = 0
    BY <1>3 DEF Static!Emitting
  <2>6. \A j \in 1..Len(staticSlots) : ~staticSlots[j].executing
    <3>1. \A k \in 1..Len(staticFrames) : FALSE
      BY <2>5
    <3> QED BY <1>0, <3>1 DEF StaticFlagged
  <2>7. \A j \in 1..Len(staticSlots) : staticSlots[j].id < staticNextId
    BY <1>0 DEF StaticKeyed, Below
  <2>8. \A d \in Entries(staticSlots') : d.id < staticNextId /\ d.alive /\ ~d.executing
    BY <2>2, <2>4, <2>6, <2>7
  <2>9. \A j \in 1..Len(staticSlots') :
          staticSlots'[j].id < staticNextId /\ staticSlots'[j].alive /\ ~staticSlots'[j].executing
    BY <2>8 DEF Entries
  <2>10. Len(staticSlots') <= MaxSlots
    BY <1>0, <1>1, <2>4, StaticFacts
  <2>11. StaticTyped'
    BY <1>0, <2>4, <2>10 DEF StaticTyped
  <2>12. StaticKeyed' /\ StaticPlaced'
    BY <2>2, <2>4, <2>9 DEF StaticKeyed, StaticPlaced, Below
  <2>13. StaticWalking'
    BY <2>5 DEF StaticWalking
  <2>14. StaticFlagged' /\ StaticResting'
    BY <2>2, <2>9 DEF StaticFlagged, StaticResting
  <2> QED BY <2>11, <2>12, <2>13, <2>14 DEF StaticInv
<1> QED BY <1>2, <1>3


LEMMA StaticDisconnectAllKeeps ==
  ASSUME StaticInv, Static!DisconnectAll
  PROVE  StaticInv'
<1>0. StaticTyped /\ StaticResting
  BY DEF StaticInv
<1>1. UNCHANGED <<staticNextId, staticBlocked, dirty, watermark, staticFrames, staticTracked>>
  BY DEF Static!DisconnectAll
<1>2. /\ staticTracked' \in Seq(Static!Ids \cup {Static!NoId}) /\ Len(staticTracked') <= TrackCapacity
      /\ staticNextId' \in 1..MaxStaticConnects + 1
  BY <1>0, <1>1 DEF StaticTyped
<1>3. CASE Static!Emitting
  <2>1. Static!DisconnectByIds(Static!Ids)
    BY <1>3 DEF Static!DisconnectAll, Static!DisconnectByIds
  <2> QED BY <1>1, <1>2, <2>1, StaticDisconnectKeeps
<1>4. CASE ~Static!Emitting
  <2>1. staticSlots' = << >>
    BY <1>4 DEF Static!DisconnectAll
  <2>2. staticSlots' \in Seq(Static!SlotEntry) /\ Len(staticSlots') = 0
    BY <2>1, EmptySeq
  <2>3. ~dirty /\ Len(staticFrames) = 0
    BY <1>0, <1>4 DEF StaticResting, Static!Emitting
  <2>4. 0 <= MaxSlots
    BY <1>0, StaticFacts
  <2>5. StaticTyped'
    BY <1>0, <1>1, <2>2, <2>4 DEF StaticTyped
  <2>6. StaticKeyed' /\ StaticPlaced' /\ StaticFlagged' /\ StaticResting'
    BY <1>1, <2>2, <2>3
       DEF StaticKeyed, StaticPlaced, StaticFlagged, StaticResting, Distinct, Below, Ascending
  <2>7. StaticWalking'
    BY <1>1, <2>3 DEF StaticWalking
  <2> QED BY <2>5, <2>6, <2>7 DEF StaticInv
<1> QED BY <1>3, <1>4

LEMMA StaticEmitBeginKeeps ==
  ASSUME StaticInv, Static!EmitBegin
  PROVE  StaticInv'
<1>0. StaticTyped /\ StaticKeyed /\ StaticPlaced /\ StaticWalking /\ StaticFlagged /\ StaticResting
  BY DEF StaticInv
<1>1. /\ Len(staticFrames) < MaxDepth
      /\ watermark' = IF Static!Emitting THEN watermark ELSE staticNextId
      /\ staticFrames' = Append(staticFrames, [n |-> Len(staticSlots), i |-> 0, id |-> Static!NoId])
      /\ UNCHANGED <<staticSlots, staticNextId, staticBlocked, dirty, staticTracked>>
  BY DEF Static!EmitBegin
<1>2. /\ staticFrames \in Seq(StaticFrame) /\ Len(staticSlots) \in Nat /\ MaxDepth \in Nat
      /\ watermark \in Nat /\ watermark <= staticNextId /\ staticNextId \in Nat
  BY <1>0, StaticFacts DEF StaticTyped
<1> PICK m \in Nat : m = Len(staticFrames)
  BY <1>2, LenProperties
<1> PICK f : f = [n |-> Len(staticSlots), i |-> 0, id |-> Static!NoId]
  OBVIOUS
<1>3. f \in StaticFrame /\ f.n = Len(staticSlots) /\ f.i = 0 /\ f.id = Static!NoId
  BY <1>2 DEF StaticFrame
<1>4. /\ staticFrames' \in Seq(StaticFrame) /\ Len(staticFrames') = m + 1 /\ staticFrames'[m + 1] = f
      /\ \A k \in 1..m : staticFrames'[k] = staticFrames[k]
  BY <1>1, <1>2, <1>3, AppendProperties
<1>5. watermark' \in 0..staticNextId
  BY <1>1, <1>2
<1>6. StaticTyped'
  BY <1>0, <1>1, <1>2, <1>4, <1>5 DEF StaticTyped
<1>7. StaticKeyed'
  BY <1>0, <1>1 DEF StaticKeyed
<1>8. StaticPlaced'
  <2>1. dirty => watermark' = watermark
    BY <1>0, <1>1 DEF StaticResting
  <2> QED BY <1>0, <1>1, <2>1 DEF StaticPlaced
<1>9. \A k \in 1..(m + 1) : k = m + 1 \/ k \in 1..m
  OBVIOUS
<1>10. StaticWalking'
  BY <1>0, <1>1, <1>2, <1>3, <1>4, <1>9 DEF StaticWalking
<1>11. StaticFlagged'
  <2> SUFFICES ASSUME NEW j \in 1..Len(staticSlots), staticSlots[j].executing
               PROVE  \E k \in 1..(m + 1) : staticFrames'[k].i = j
    BY <1>1, <1>4 DEF StaticFlagged
  <2>1. PICK k \in 1..m : staticFrames[k].i = j
    BY <1>0 DEF StaticFlagged
  <2> QED BY <1>4, <2>1
<1>12. StaticResting'
  <2>1. staticFrames' # << >>
    BY <1>4
  <2> QED BY <2>1 DEF StaticResting, Static!Emitting
<1> QED BY <1>6, <1>7, <1>8, <1>10, <1>11, <1>12 DEF StaticInv

\* The innermost emit, and the list once the flag of the slot it called is cleared.
LEMMA StaticReturned ==
  ASSUME StaticTyped, StaticWalking, Static!Emitting
  PROVE  /\ Static!Top \in Nat /\ Static!Top \in 1..Len(staticFrames) /\ Len(staticFrames) = Static!Top
         /\ staticFrames[Static!Top].i \in Nat /\ staticFrames[Static!Top].n \in Nat
         /\ staticFrames[Static!Top].i <= staticFrames[Static!Top].n
         /\ staticFrames[Static!Top].n <= Len(staticSlots) /\ Len(staticSlots) \in Nat
         /\ Static!Returned \in Seq(Static!SlotEntry) /\ SameStatic(staticSlots, Static!Returned)
         /\ \A j \in 1..Len(staticSlots) :
              /\ Static!Returned[j].alive <=> staticSlots[j].alive
              /\ Static!Returned[j].executing <=>
                   (staticSlots[j].executing /\ staticFrames[Static!Top].i # j)
<1>1. /\ staticFrames \in Seq(StaticFrame) /\ Len(staticFrames) \in Nat /\ Static!Top = Len(staticFrames)
      /\ staticFrames # << >> /\ staticSlots \in Seq(Static!SlotEntry)
  BY LenProperties DEF StaticTyped, Static!Emitting, Static!Top
<1>2. Static!Top \in Nat /\ Static!Top \in 1..Len(staticFrames)
  <2>1. Len(staticFrames) # 0
    BY <1>1, EmptySeq
  <2> QED BY <1>1, <2>1
<1>3. /\ staticFrames[Static!Top].i \in Nat /\ staticFrames[Static!Top].n \in Nat
      /\ staticFrames[Static!Top].i <= staticFrames[Static!Top].n
      /\ staticFrames[Static!Top].n <= Len(staticSlots) /\ Len(staticSlots) \in Nat
  BY <1>2, StaticFacts DEF StaticWalking
<1> PICK i, m, r : /\ i = staticFrames[Static!Top].i /\ m = Len(staticSlots)
                   /\ r = Static!Returned /\ i \in Nat /\ m \in Nat
  BY <1>3
<1>4. r \in Seq(Static!SlotEntry) /\ SameStatic(staticSlots, r)
      /\ \A j \in 1..m : /\ r[j].alive <=> staticSlots[j].alive
                         /\ r[j].executing <=> (staticSlots[j].executing /\ i # j)
  <2>1. CASE i = 0
    <3>1. r = staticSlots
      BY <2>1 DEF Static!Returned
    <3>2. \A j \in 1..m : staticSlots[j].executing \in BOOLEAN /\ i # j
      <4> TAKE j \in 1..m
      <4>1. staticSlots[j] \in Static!SlotEntry
        BY <1>1, ElementOfSeq
      <4> QED BY <2>1, <4>1, StaticEntryFits
    <3> QED BY <1>1, <3>1, <3>2 DEF SameStatic
  <2>2. CASE i # 0
    <3>1. i \in 1..m
      BY <1>3, <2>2
    <3>2. r = [staticSlots EXCEPT ![i].executing = FALSE]
      BY <2>2 DEF Static!Returned
    <3>3. PICK d : d = [staticSlots[i] EXCEPT !.executing = FALSE]
      OBVIOUS
    <3>4. staticSlots[i] \in Static!SlotEntry
      BY <1>1, <3>1, ElementOfSeq
    <3>5. /\ d \in Static!SlotEntry /\ d.id = staticSlots[i].id /\ d.priority = staticSlots[i].priority
          /\ d.once = staticSlots[i].once /\ d.alive = staticSlots[i].alive /\ d.executing = FALSE
      BY <3>3, <3>4 DEF Static!SlotEntry
    <3>6. r = [staticSlots EXCEPT ![i] = d]
      BY <3>2, <3>3
    <3>7. /\ r \in Seq(Static!SlotEntry) /\ Len(r) = m
          /\ \A j \in 1..m : r[j] = IF j = i THEN d ELSE staticSlots[j]
      BY <1>1, <3>1, <3>5, <3>6, ExceptSeq
    <3>8. \A j \in 1..m : staticSlots[j].executing \in BOOLEAN
      <4> TAKE j \in 1..m
      <4>1. staticSlots[j] \in Static!SlotEntry
        BY <1>1, ElementOfSeq
      <4> QED BY <4>1, StaticEntryFits
    <3>9. SameStatic(staticSlots, r)
      BY <3>5, <3>7 DEF SameStatic
    <3> QED BY <3>5, <3>7, <3>8, <3>9
  <2> QED BY <2>1, <2>2
<1> QED BY <1>1, <1>2, <1>3, <1>4

\* A visit: where the innermost emit goes and what it does to the entry it calls.
LEMMA StaticVisit ==
  ASSUME StaticTyped, StaticWalking, NEW j \in 1..Len(staticSlots), Static!Visit(j)
  PROVE  /\ Static!Emitting /\ staticFrames[Static!Top].i < j /\ j <= staticFrames[Static!Top].n
         /\ staticSlots[j].alive /\ staticSlots[j].id < watermark
         /\ staticFrames' \in Seq(StaticFrame) /\ Len(staticFrames') = Len(staticFrames)
         /\ staticFrames'[Static!Top] =
              [n |-> staticFrames[Static!Top].n, i |-> j, id |-> staticSlots[j].id]
         /\ \A k \in 1..Len(staticFrames) : k # Static!Top => staticFrames'[k] = staticFrames[k]
         /\ staticSlots' \in Seq(Static!SlotEntry) /\ SameStatic(staticSlots, staticSlots')
         /\ \A l \in 1..Len(staticSlots) :
              /\ staticSlots'[l].alive <=> (staticSlots[l].alive /\ (l = j => ~staticSlots[j].once))
              /\ staticSlots'[l].executing <=>
                   (l = j \/ (staticSlots[l].executing /\ staticFrames[Static!Top].i # l))
<1>1. /\ Static!Emitting /\ j \in Static!Remaining
      /\ staticSlots' = [Static!Returned EXCEPT ![j] = Static!Called(Static!Returned[j])]
      /\ staticFrames' = [staticFrames EXCEPT ![Static!Top] = [@ EXCEPT !.i = j, !.id = staticSlots[j].id]]
  BY DEF Static!Visit
<1> PICK t, r, m, a : /\ t = Static!Top /\ r = Static!Returned
                      /\ m = Len(staticSlots) /\ a = staticFrames[Static!Top]
  OBVIOUS
<1>2. /\ t \in 1..Len(staticFrames) /\ Len(staticFrames) = t /\ t \in Nat
      /\ a.i \in Nat /\ a.n \in Nat /\ a.n <= m /\ m \in Nat
      /\ r \in Seq(Static!SlotEntry) /\ SameStatic(staticSlots, r)
      /\ \A l \in 1..m : /\ r[l].alive <=> staticSlots[l].alive
                         /\ r[l].executing <=> (staticSlots[l].executing /\ a.i # l)
  BY <1>1, StaticReturned
<1>3. a.i < j /\ j <= a.n /\ staticSlots[j].alive /\ staticSlots[j].id < watermark
  <2>1. j \in a.i + 1 .. a.n /\ staticSlots[j].alive /\ staticSlots[j].id < watermark
    BY <1>1 DEF Static!Remaining
  <2> QED BY <1>2, <2>1
<1>4. Len(r) = m /\ \A l \in 1..m : /\ r[l].id = staticSlots[l].id /\ r[l].once = staticSlots[l].once
                                    /\ r[l].priority = staticSlots[l].priority
  BY <1>2 DEF SameStatic
<1>5. a \in StaticFrame /\ staticSlots[j] \in Static!SlotEntry /\ staticFrames \in Seq(StaticFrame)
  BY <1>2, StaticFacts DEF StaticTyped
<1>6. PICK g : g = [a EXCEPT !.i = j, !.id = staticSlots[j].id]
  OBVIOUS
<1>7. g = [n |-> a.n, i |-> j, id |-> staticSlots[j].id] /\ g \in StaticFrame
  <2>1. a \in [n : Nat, i : Nat, id : Static!Ids \cup {Static!NoId}]
    BY <1>5 DEF StaticFrame
  <2>2. j \in Nat /\ staticSlots[j].id \in Static!Ids
    BY <1>5, StaticEntryFits
  <2> QED BY <1>6, <2>1, <2>2 DEF StaticFrame
<1>8. staticFrames' = [staticFrames EXCEPT ![t] = g]
  BY <1>1, <1>6
<1>9. /\ staticFrames' \in Seq(StaticFrame) /\ Len(staticFrames') = Len(staticFrames)
      /\ \A k \in 1..Len(staticFrames) : staticFrames'[k] = IF k = t THEN g ELSE staticFrames[k]
  BY <1>2, <1>5, <1>7, <1>8, ExceptSeq
<1>10. PICK d : d = Static!Called(r[j])
  OBVIOUS
<1>11. r[j] \in Static!SlotEntry
  BY <1>2, <1>4, ElementOfSeq
<1>12. /\ d \in Static!SlotEntry /\ d.id = r[j].id /\ d.priority = r[j].priority /\ d.once = r[j].once
       /\ d.alive <=> (r[j].alive /\ ~staticSlots[j].once)
       /\ d.executing
  BY <1>4, <1>10, <1>11 DEF Static!SlotEntry, Static!Called
<1>13. staticSlots' = [r EXCEPT ![j] = d]
  BY <1>1, <1>10
<1>14. /\ staticSlots' \in Seq(Static!SlotEntry) /\ Len(staticSlots') = m
       /\ \A l \in 1..m : staticSlots'[l] = IF l = j THEN d ELSE r[l]
  BY <1>2, <1>4, <1>12, <1>13, ExceptSeq
<1>15. SameStatic(staticSlots, staticSlots')
  BY <1>4, <1>12, <1>14 DEF SameStatic
<1>16. \A l \in 1..m :
         /\ staticSlots'[l].alive <=> (staticSlots[l].alive /\ (l = j => ~staticSlots[j].once))
         /\ staticSlots'[l].executing <=> (l = j \/ (staticSlots[l].executing /\ a.i # l))
  <2> TAKE l \in 1..m
  <2>1. CASE l = j
    BY <1>2, <1>12, <1>14, <2>1
  <2>2. CASE l # j
    <3>1. staticSlots'[l] = r[l]
      BY <1>14, <2>2
    <3> QED BY <1>2, <2>2, <3>1
  <2> QED BY <2>1, <2>2
<1> QED BY <1>1, <1>2, <1>3, <1>7, <1>9, <1>14, <1>15, <1>16

LEMMA StaticVisitKeeps ==
  ASSUME StaticInv, NEW j \in 1..Len(staticSlots), Static!Visit(j)
  PROVE  StaticInv'
<1>0. StaticTyped /\ StaticKeyed /\ StaticPlaced /\ StaticWalking /\ StaticFlagged /\ StaticResting
  BY DEF StaticInv
<1> PICK t, m, a : t = Static!Top /\ m = Len(staticSlots) /\ a = staticFrames[Static!Top]
  OBVIOUS
<1>1. /\ Static!Emitting /\ a.i < j /\ j <= a.n
      /\ staticFrames' \in Seq(StaticFrame) /\ Len(staticFrames') = Len(staticFrames)
      /\ staticFrames'[t] = [n |-> a.n, i |-> j, id |-> staticSlots[j].id]
      /\ \A k \in 1..Len(staticFrames) : k # t => staticFrames'[k] = staticFrames[k]
      /\ staticSlots' \in Seq(Static!SlotEntry) /\ SameStatic(staticSlots, staticSlots')
      /\ \A l \in 1..m : staticSlots'[l].executing <=> (l = j \/ (staticSlots[l].executing /\ a.i # l))
  BY <1>0, StaticVisit
<1>2. t \in 1..Len(staticFrames) /\ a.n <= m /\ m \in Nat /\ Len(staticSlots') = m
  BY <1>0, <1>1, StaticReturned DEF SameStatic
<1>3. StaticWalking'
  <2> SUFFICES ASSUME NEW k \in 1..Len(staticFrames)
               PROVE  /\ staticFrames'[k].n <= m /\ staticFrames'[k].i <= staticFrames'[k].n
                      /\ staticFrames'[k].i = 0 <=> staticFrames'[k].id = Static!NoId
    BY <1>1, <1>2 DEF StaticWalking
  <2>1. CASE k # t
    BY <1>0, <1>1, <2>1 DEF StaticWalking
  <2>2. CASE k = t
    <3>1. staticFrames'[k].n = a.n /\ staticFrames'[k].i = j /\ staticFrames'[k].id = staticSlots[j].id
      BY <1>1, <2>2
    <3>2. staticSlots[j].id # Static!NoId
      <4>1. staticSlots[j].id \in Nat /\ staticSlots[j].id >= 1
        BY <1>0, StaticFacts
      <4> QED BY <4>1 DEF Static!NoId
    <3> QED BY <1>1, <1>2, <3>1, <3>2
  <2> QED BY <2>1, <2>2
<1>4. StaticFlagged'
  <2> SUFFICES ASSUME NEW l \in 1..m, staticSlots'[l].executing
               PROVE  \E k \in 1..Len(staticFrames) : staticFrames'[k].i = l
    BY <1>1, <1>2 DEF StaticFlagged
  <2>1. CASE l = j
    BY <1>1, <1>2, <2>1
  <2>2. CASE l # j
    <3>1. staticSlots[l].executing /\ a.i # l
      BY <1>1, <2>2
    <3>2. PICK k \in 1..Len(staticFrames) : staticFrames[k].i = l
      BY <1>0, <3>1 DEF StaticFlagged
    <3>3. k # t
      BY <3>1, <3>2
    <3> QED BY <1>1, <3>2, <3>3
  <2> QED BY <2>1, <2>2
<1>5. Static!Emitting'
  <2>1. Len(staticFrames') # 0
    BY <1>1, <1>2
  <2> QED BY <1>1, <2>1, EmptySeq DEF Static!Emitting
<1>6. /\ Len(staticFrames') <= MaxDepth
      /\ UNCHANGED <<staticNextId, staticBlocked, dirty, watermark, staticTracked>>
      /\ staticTracked \in Seq(Static!Ids \cup {Static!NoId}) /\ Len(staticTracked) <= TrackCapacity
  BY <1>0, <1>1 DEF Static!Visit, StaticTyped
<1> QED BY <1>1, <1>3, <1>4, <1>5, <1>6, StaticListKept


\* Leaving an emit drops its frame.
LEMMA StaticLeft ==
  ASSUME StaticTyped, Static!Emitting, staticFrames' = Static!Front(staticFrames)
  PROVE  /\ Static!Top \in Nat \ {0} /\ Len(staticFrames) = Static!Top
         /\ staticFrames' \in Seq(StaticFrame) /\ Len(staticFrames') = Static!Top - 1
         /\ \A k \in 1..(Static!Top - 1) : staticFrames'[k] = staticFrames[k]
         /\ staticFrames' = << >> <=> Static!Top = 1
<1>1. /\ staticFrames \in Seq(StaticFrame) /\ Len(staticFrames) \in Nat
      /\ Static!Top = Len(staticFrames) /\ staticFrames # << >>
  BY LenProperties DEF StaticTyped, Static!Emitting, Static!Top
<1>2. Len(staticFrames) # 0
  BY <1>1, EmptySeq
<1> PICK m \in Nat \ {0} : m = Static!Top
  BY <1>1, <1>2
<1>3. staticFrames' = SubSeq(staticFrames, 1, m - 1)
  BY <1>1 DEF Static!Front
<1>4. \A k \in 1..(m - 1) : staticFrames[k] \in StaticFrame
  BY <1>1, ElementOfSeq
<1>5. /\ SubSeq(staticFrames, 1, m - 1) \in Seq(StaticFrame)
      /\ Len(SubSeq(staticFrames, 1, m - 1)) = IF 1 <= m - 1 THEN (m - 1) - 1 + 1 ELSE 0
      /\ \A k \in 1..((m - 1) - 1 + 1) : SubSeq(staticFrames, 1, m - 1)[k] = staticFrames[1 + k - 1]
  BY <1>4, SubSeqProperties
<1>6. (m - 1) - 1 + 1 = m - 1 /\ \A k \in 1..(m - 1) : 1 + k - 1 = k
  OBVIOUS
<1>7. /\ staticFrames' \in Seq(StaticFrame) /\ Len(staticFrames') = m - 1
      /\ \A k \in 1..(m - 1) : staticFrames'[k] = staticFrames[k]
  BY <1>3, <1>5, <1>6
<1>8. staticFrames' = << >> <=> Len(staticFrames') = 0
  BY <1>7, EmptySeq
<1> QED BY <1>1, <1>7, <1>8

\* The end of the outermost emit leaves the alive entries, in the order of priority.
LEMMA StaticSwept ==
  ASSUME StaticInv, Static!Emitting, Static!SortAndSweep
  PROVE  /\ staticSlots' \in Seq(Static!SlotEntry) /\ Len(staticSlots') \in Nat
         /\ Len(staticSlots') <= Len(staticSlots)
         /\ Distinct(staticSlots') /\ Ascending(staticSlots')
         /\ Entries(staticSlots') = {e \in Entries(Static!Returned) : e.alive}
<1>0. StaticTyped /\ StaticKeyed /\ StaticPlaced /\ StaticWalking
  BY DEF StaticInv
<1> PICK r : r = Static!Returned
  OBVIOUS
<1>1. r \in Seq(Static!SlotEntry) /\ SameStatic(staticSlots, r)
  BY <1>0, StaticReturned
<1>2. Distinct(r) /\ (~dirty => Ascending(r)) /\ Len(r) = Len(staticSlots)
  BY <1>0, <1>1, StaticKeysKept DEF StaticKeyed, StaticPlaced, SameStatic
<1> PICK q : q = IF dirty THEN Static!SortByPriority(r) ELSE r
  OBVIOUS
<1>3. /\ q \in Seq(Static!SlotEntry) /\ Len(q) = Len(r)
      /\ Distinct(q) /\ Ascending(q) /\ Entries(q) = Entries(r)
  <2>1. CASE dirty
    BY <1>1, <1>2, <2>1, StaticSortIs
  <2>2. CASE ~dirty
    BY <1>1, <1>2, <2>2
  <2> QED BY <2>1, <2>2
<1> DEFINE K == {j \in 1..Len(q) : q[j].alive}
<1>4. staticSlots' = Static!Only(q, K)
  BY DEF Static!SortAndSweep, Static!SweepDead
<1>5. {q[j] : j \in K \cap (1..Len(q))} = {e \in Entries(q) : e.alive}
  BY DEF Entries
<1> HIDE DEF K
<1>6. /\ staticSlots' \in Seq(Static!SlotEntry) /\ Len(staticSlots') \in Nat
      /\ Len(staticSlots') <= Len(q)
      /\ Entries(staticSlots') = {q[j] : j \in K \cap (1..Len(q))}
      /\ Distinct(staticSlots') /\ Ascending(staticSlots')
  BY <1>3, <1>4, StaticOnlyIs
<1> QED BY <1>2, <1>3, <1>5, <1>6

LEMMA StaticEmitEndKeeps ==
  ASSUME StaticInv, Static!EmitEnd
  PROVE  StaticInv'
<1>0. StaticTyped /\ StaticKeyed /\ StaticPlaced /\ StaticWalking /\ StaticFlagged /\ StaticResting
  BY DEF StaticInv
<1>1. /\ Static!Emitting /\ staticFrames' = Static!Front(staticFrames)
      /\ IF Static!Top = 1 THEN Static!SortAndSweep
                           ELSE staticSlots' = Static!Returned /\ UNCHANGED dirty
      /\ UNCHANGED <<staticNextId, staticBlocked, watermark, staticTracked>>
  BY DEF Static!EmitEnd
<1> PICK t \in Nat \ {0} : t = Static!Top
  BY <1>0, <1>1, StaticLeft
<1>2. /\ Len(staticFrames) = t /\ staticFrames' \in Seq(StaticFrame) /\ Len(staticFrames') = t - 1
      /\ \A k \in 1..(t - 1) : staticFrames'[k] = staticFrames[k]
      /\ staticFrames' = << >> <=> t = 1
  BY <1>0, <1>1, StaticLeft
<1> PICK r, m : r = Static!Returned /\ m = Len(staticSlots)
  OBVIOUS
<1>3. /\ r \in Seq(Static!SlotEntry) /\ SameStatic(staticSlots, r) /\ m \in Nat /\ Len(r) = m
      /\ \A j \in 1..m : /\ r[j].alive <=> staticSlots[j].alive
                         /\ r[j].executing <=> (staticSlots[j].executing /\ staticFrames[t].i # j)
  BY <1>0, <1>1, StaticReturned DEF SameStatic
<1>4. Len(staticFrames') <= MaxDepth
  <2>1. MaxDepth \in Nat /\ t <= MaxDepth
    BY <1>0, <1>2, StaticFacts DEF StaticTyped
  <2> QED BY <1>2, <2>1
<1>5. \A j \in 1..m : r[j].executing => \E k \in 1..(t - 1) : staticFrames[k].i = j
  <2> SUFFICES ASSUME NEW j \in 1..m, r[j].executing
               PROVE  \E k \in 1..(t - 1) : staticFrames[k].i = j
    OBVIOUS
  <2>1. staticSlots[j].executing /\ staticFrames[t].i # j
    BY <1>3
  <2>2. PICK k \in 1..t : staticFrames[k].i = j
    BY <1>0, <1>2, <2>1 DEF StaticFlagged
  <2>3. k \in 1..(t - 1)
    BY <2>1, <2>2
  <2> QED BY <2>2, <2>3
<1>6. CASE t = 1
  <2>1. Static!SortAndSweep
    BY <1>1, <1>6
  <2>2. /\ staticSlots' \in Seq(Static!SlotEntry) /\ Len(staticSlots') \in Nat
        /\ Len(staticSlots') <= m
        /\ Distinct(staticSlots') /\ Ascending(staticSlots')
        /\ Entries(staticSlots') = {e \in Entries(r) : e.alive}
    BY <1>1, <2>1, StaticSwept
  <2>3. ~dirty' /\ dirty' \in BOOLEAN
    BY <2>1 DEF Static!SortAndSweep
  <2>4. \A j \in 1..m : r[j].id < staticNextId /\ ~r[j].executing
    <3>1. \A j \in 1..m : r[j].id = staticSlots[j].id /\ staticSlots[j].id < staticNextId
      BY <1>0, <1>3 DEF SameStatic, StaticKeyed, Below
    <3>2. 1..(t - 1) = {}
      BY <1>6
    <3> QED BY <1>5, <3>1, <3>2
  <2>5. \A d \in Entries(staticSlots') : d.id < staticNextId /\ d.alive /\ ~d.executing
    BY <1>3, <2>2, <2>4 DEF Entries
  <2>6. \A j \in 1..Len(staticSlots') :
          staticSlots'[j].id < staticNextId /\ staticSlots'[j].alive /\ ~staticSlots'[j].executing
    BY <2>5 DEF Entries
  <2>7. Len(staticSlots') <= MaxSlots
    <3>1. MaxSlots \in Nat /\ m <= MaxSlots
      BY <1>0, StaticFacts DEF StaticTyped
    <3> QED BY <1>3, <2>2, <3>1
  <2>8. StaticTyped'
    BY <1>0, <1>1, <1>2, <1>4, <2>2, <2>3, <2>7 DEF StaticTyped
  <2>9. StaticKeyed' /\ StaticPlaced'
    BY <1>1, <2>2, <2>3, <2>6 DEF StaticKeyed, StaticPlaced, Below
  <2>10. Len(staticFrames') = 0
    BY <1>2, <1>6
  <2>11. StaticWalking'
    BY <2>10 DEF StaticWalking
  <2>12. StaticFlagged' /\ StaticResting'
    BY <2>3, <2>6 DEF StaticFlagged, StaticResting
  <2> QED BY <2>8, <2>9, <2>11, <2>12 DEF StaticInv
<1>7. CASE t # 1
  <2>1. staticSlots' = r /\ dirty' = dirty
    BY <1>1, <1>7
  <2>2. StaticWalking'
    <3> SUFFICES ASSUME NEW k \in 1..(t - 1)
                 PROVE  /\ staticFrames'[k].n <= m /\ staticFrames'[k].i <= staticFrames'[k].n
                        /\ staticFrames'[k].i = 0 <=> staticFrames'[k].id = Static!NoId
      BY <1>2, <1>3, <2>1 DEF StaticWalking
    <3>1. k \in 1..Len(staticFrames) /\ staticFrames'[k] = staticFrames[k]
      BY <1>2
    <3> QED BY <1>0, <3>1 DEF StaticWalking
  <2>3. StaticFlagged'
    <3> SUFFICES ASSUME NEW j \in 1..m, r[j].executing
                 PROVE  \E k \in 1..(t - 1) : staticFrames'[k].i = j
      BY <1>2, <1>3, <2>1 DEF StaticFlagged
    <3>1. PICK k \in 1..(t - 1) : staticFrames[k].i = j
      BY <1>5
    <3> QED BY <1>2, <3>1
  <2>4. Static!Emitting'
    BY <1>2, <1>7 DEF Static!Emitting
  <2>5. staticTracked' \in Seq(Static!Ids \cup {Static!NoId}) /\ Len(staticTracked') <= TrackCapacity
    BY <1>0, <1>1 DEF StaticTyped
  <2>6. staticSlots' \in Seq(Static!SlotEntry) /\ SameStatic(staticSlots, staticSlots')
    BY <1>3, <2>1
  <2> QED BY <1>1, <1>2, <1>4, <2>1, <2>2, <2>3, <2>4, <2>5, <2>6, StaticListKept
<1> QED BY <1>6, <1>7

LEMMA StaticInitial == Static!Init => StaticInv
<1> SUFFICES ASSUME Static!Init PROVE StaticInv
  OBVIOUS
<1>1. /\ staticSlots = << >> /\ staticNextId = 1 /\ staticBlocked = FALSE /\ dirty = FALSE
      /\ watermark = 0 /\ staticFrames = << >> /\ staticTracked = << >>
  BY DEF Static!Init
<1>2. Len(staticSlots) = 0 /\ Len(staticFrames) = 0 /\ Len(staticTracked) = 0
  BY <1>1
<1>3. MaxSlots \in Nat /\ MaxStaticConnects \in Nat /\ MaxDepth \in Nat /\ TrackCapacity \in Nat
  BY StaticAssumed DEF Static!BoundsAssumption
<1>4. /\ staticSlots \in Seq(Static!SlotEntry) /\ staticFrames \in Seq(StaticFrame)
      /\ staticTracked \in Seq(Static!Ids \cup {Static!NoId})
  BY <1>1, EmptySeq
<1>5. /\ Len(staticSlots) <= MaxSlots /\ Len(staticFrames) <= MaxDepth
      /\ Len(staticTracked) <= TrackCapacity
      /\ staticNextId \in 1..MaxStaticConnects + 1 /\ watermark \in 0..staticNextId
  BY <1>1, <1>2, <1>3
<1>6. StaticTyped
  BY <1>1, <1>4, <1>5 DEF StaticTyped
<1>7. StaticKeyed /\ StaticPlaced /\ StaticFlagged /\ StaticResting
  BY <1>1, <1>2
     DEF StaticKeyed, StaticPlaced, StaticFlagged, StaticResting, Distinct, Below, Ascending
<1>8. StaticWalking
  BY <1>2 DEF StaticWalking
<1> QED BY <1>6, <1>7, <1>8 DEF StaticInv

\* What a receiver tracks when a handle is added to it.
LEMMA StaticTracking ==
  ASSUME StaticTyped, NEW h \in Static!Ids \cup {Static!NoId},
         staticTracked' = IF Len(staticTracked) = TrackCapacity THEN staticTracked
                          ELSE Append(staticTracked, h)
  PROVE  staticTracked' \in Seq(Static!Ids \cup {Static!NoId}) /\ Len(staticTracked') <= TrackCapacity
<1>1. /\ staticTracked \in Seq(Static!Ids \cup {Static!NoId}) /\ Len(staticTracked) \in Nat
      /\ Len(staticTracked) <= TrackCapacity /\ TrackCapacity \in Nat
  BY StaticAssumed, LenProperties DEF StaticTyped, Static!BoundsAssumption
<1>2. CASE Len(staticTracked) = TrackCapacity
  BY <1>1, <1>2
<1>3. CASE Len(staticTracked) # TrackCapacity
  <2>1. /\ staticTracked' \in Seq(Static!Ids \cup {Static!NoId})
        /\ Len(staticTracked') = Len(staticTracked) + 1
    BY <1>1, <1>3, AppendProperties
  <2> QED BY <1>1, <1>3, <2>1
<1> QED BY <1>2, <1>3

LEMMA StaticNextKeeps == StaticInv /\ [Static!Next]_(Static!vars) => StaticInv'
<1> SUFFICES ASSUME StaticInv, [Static!Next]_(Static!vars) PROVE StaticInv'
  OBVIOUS
<1>0. /\ StaticTyped /\ staticBlocked \in BOOLEAN
      /\ staticTracked \in Seq(Static!Ids \cup {Static!NoId}) /\ Len(staticTracked) <= TrackCapacity
  BY DEF StaticInv, StaticTyped
<1>1. ASSUME NEW p \in Priorities, NEW once \in BOOLEAN, Static!Connect(p, once) PROVE StaticInv'
  <2>1. /\ staticNextId <= MaxStaticConnects /\ Static!Store(Static!Entry(p, once))
        /\ staticNextId' = staticNextId + 1
        /\ UNCHANGED <<staticBlocked, watermark, staticFrames, staticTracked>>
    BY <1>1 DEF Static!Connect
  <2> QED BY <1>0, <2>1, StaticConnectKeeps
<1>2. ASSUME NEW p \in Priorities, Static!ConnectTracked(p) PROVE StaticInv'
  <2> PICK h : h = IF Static!Refused THEN Static!NoId ELSE staticNextId
    OBVIOUS
  <2>1. /\ staticNextId <= MaxStaticConnects
        /\ IF Static!Refused
           THEN UNCHANGED <<staticSlots, dirty, staticNextId>>
           ELSE Static!Store(Static!Entry(p, FALSE)) /\ staticNextId' = staticNextId + 1
        /\ staticTracked' = IF Len(staticTracked) = TrackCapacity THEN staticTracked
                            ELSE Append(staticTracked, h)
        /\ UNCHANGED <<staticBlocked, watermark, staticFrames>>
    BY <1>2 DEF Static!ConnectTracked
  <2>2. h \in Static!Ids \cup {Static!NoId}
    <3>1. staticNextId \in 1..MaxStaticConnects + 1 /\ MaxStaticConnects \in Nat
      BY <1>0, StaticFacts DEF StaticTyped
    <3>2. staticNextId \in Static!Ids
      BY <2>1, <3>1 DEF Static!Ids
    <3> QED BY <3>2
  <2>3. staticTracked' \in Seq(Static!Ids \cup {Static!NoId}) /\ Len(staticTracked') <= TrackCapacity
    BY <1>0, <2>1, <2>2, StaticTracking
  <2>4. CASE Static!Refused
    BY <1>0, <2>1, <2>3, <2>4, StaticQuiet
  <2>5. CASE ~Static!Refused
    BY <2>1, <2>3, <2>5, StaticConnectKeeps
  <2> QED BY <2>4, <2>5
<1>3. ASSUME NEW id \in Static!Ids, Static!Disconnect(id) PROVE StaticInv'
  <2>1. /\ Static!DisconnectByIds({id})
        /\ UNCHANGED <<staticNextId, staticBlocked, dirty, watermark, staticFrames, staticTracked>>
    BY <1>3 DEF Static!Disconnect
  <2> QED BY <1>0, <2>1, StaticDisconnectKeeps
<1>4. ASSUME Static!ClearTracked PROVE StaticInv'
  <2>1. /\ Static!DisconnectByIds(Static!Range(staticTracked)) /\ staticTracked' = << >>
        /\ UNCHANGED <<staticNextId, staticBlocked, dirty, watermark, staticFrames>>
    BY <1>4 DEF Static!ClearTracked
  <2>2. /\ staticTracked' \in Seq(Static!Ids \cup {Static!NoId}) /\ Len(staticTracked') = 0
        /\ TrackCapacity \in Nat
    BY <2>1, EmptySeq, StaticAssumed DEF Static!BoundsAssumption
  <2>3. Len(staticTracked') <= TrackCapacity
    BY <2>2
  <2> QED BY <2>1, <2>2, <2>3, StaticDisconnectKeeps
<1>5. ASSUME NEW b \in BOOLEAN, Static!SetBlocked(b) PROVE StaticInv'
  BY <1>0, <1>5, StaticQuiet DEF Static!SetBlocked
<1>6. ASSUME UNCHANGED Static!vars PROVE StaticInv'
  BY <1>0, <1>6, StaticQuiet DEF Static!vars
<1> QED BY <1>1, <1>2, <1>3, <1>4, <1>5, <1>6, StaticDisconnectAllKeeps, StaticEmitBeginKeeps,
           StaticVisitKeeps, StaticEmitEndKeeps DEF Static!Next

\* The fixed list never outgrows its storage, no id is in it twice, what was connected before
\* the emit is in the order of priority, and a flagged entry is one that an emit is calling.
THEOREM StaticInvariantHolds == Static!Spec => []StaticInv
BY StaticInitial, StaticNextKeeps, PTL DEF Static!Spec

\* A behaviour of the composed module is one of the static signal.
LEMMA StaticAlone == MCSpec => Static!Spec
<1>1. MCInit => Static!Init
  BY DEF MCInit
<1>2. [MCNext]_<<which, vars, staticVars>> => [Static!Next]_(Static!vars)
  BY DEF MCNext, staticVars, Static!vars
<1> QED BY <1>1, <1>2, PTL DEF MCSpec, Static!Spec

\* Connections that landed behind the list or in the place of a dead entry are in their place
\* when the outermost emit ends; dead entries are gone then and no entry is left flagged as
\* executing; and whatever is reused, the list stays within its storage.
THEOREM StaticListIsSettled == MCSpec => []StaticSettled
<1>1. StaticInv => Static!Settled
  <2> SUFFICES ASSUME StaticInv PROVE Static!Settled
    OBVIOUS
  <2>0. StaticTyped /\ StaticKeyed /\ StaticPlaced /\ StaticWalking /\ StaticFlagged /\ StaticResting
    BY DEF StaticInv
  <2>1. Static!IsInjective([j \in 1..Len(staticSlots) |-> staticSlots[j].id])
    BY <2>0 DEF StaticKeyed, Distinct, Static!IsInjective
  <2>2. \A k \in 1..Len(staticFrames) :
          /\ staticFrames[k].n \in 0..Len(staticSlots) /\ staticFrames[k].i \in 0..staticFrames[k].n
          /\ staticFrames[k].id \in Static!Ids \cup {Static!NoId}
    <3> TAKE k \in 1..Len(staticFrames)
    <3>1. /\ staticFrames[k] \in StaticFrame /\ staticFrames[k].n \in Nat /\ staticFrames[k].i \in Nat
          /\ Len(staticSlots) \in Nat
      BY <2>0, StaticFacts
    <3>2. staticFrames[k].n <= Len(staticSlots) /\ staticFrames[k].i <= staticFrames[k].n
      BY <2>0 DEF StaticWalking
    <3>3. staticFrames[k].id \in Static!Ids \cup {Static!NoId}
      BY <3>1 DEF StaticFrame
    <3> QED BY <3>1, <3>2, <3>3
  <2>3. Static!TypeOK
    BY <2>0, <2>1, <2>2 DEF Static!TypeOK, StaticTyped
  <2>4. ASSUME ~Static!Emitting
        PROVE  /\ ~dirty /\ Ascending(staticSlots)
               /\ \A j \in 1..Len(staticSlots) : staticSlots[j].alive /\ ~staticSlots[j].executing
    <3>1. ~dirty /\ \A j \in 1..Len(staticSlots) : staticSlots[j].alive
      BY <2>0, <2>4 DEF StaticResting
    <3>2. \A k \in 1..Len(staticFrames) : FALSE
      BY <2>4 DEF Static!Emitting
    <3> QED BY <2>0, <3>1, <3>2 DEF StaticPlaced, StaticFlagged
  <2> QED BY <2>3, <2>4 DEF Static!Settled, Ascending
<1> QED BY <1>1, StaticAlone, StaticInvariantHolds, PTL DEF StaticSettled


-----------------------------------------------------------------------------
(***************************************************************************)
(* static_signal implements its contract.                                  *)
(***************************************************************************)

\* The subscriptions of the alive entries of a list; those with an id from lo below hi.
AllOf(s) == {Static!Sub(e) : e \in {d \in Entries(s) : d.alive}}
Part(S, lo, hi) == {x \in S : x.id >= lo /\ x.id < hi}

\* The subscriptions below it are the contract's, the others are late.
Bar == IF Static!Emitting THEN watermark ELSE staticNextId

StaticOwed(k) ==
  {Static!Sub(staticSlots[j]) :
     j \in {l \in staticFrames[k].i + 1 .. staticFrames[k].n :
              staticSlots[l].alive /\ staticSlots[l].id < watermark}}

LEMMA AllOfIs ==
  ASSUME NEW s
  PROVE  \A x : x \in AllOf(s) <=> \E j \in 1..Len(s) : s[j].alive /\ x = Static!Sub(s[j])
BY DEF AllOf, Entries

\* What a subscription says.
LEMMA StaticSubIs ==
  ASSUME NEW e
  PROVE  /\ Static!Sub(e).id = e.id /\ Static!Sub(e).priority = e.priority
         /\ Static!Sub(e).once = e.once
BY DEF Static!Sub

\* What the contract sees of a list.
LEMMA StaticSeen ==
  StaticInv => /\ Static!Subs = Part(AllOf(staticSlots), 1, Bar)
               /\ Static!Late = Part(AllOf(staticSlots), Bar, staticNextId)
<1> SUFFICES ASSUME StaticInv
             PROVE  /\ Static!Subs = Part(AllOf(staticSlots), 1, Bar)
                    /\ Static!Late = Part(AllOf(staticSlots), Bar, staticNextId)
  OBVIOUS
<1>1. staticSlots \in Seq(Static!SlotEntry) /\ StaticTyped /\ StaticKeyed
  BY DEF StaticInv, StaticTyped
<1>2. Static!Range(staticSlots) = Entries(staticSlots)
  <2>1. DOMAIN staticSlots = 1..Len(staticSlots)
    BY <1>1, LenProperties
  <2> QED BY <2>1 DEF Static!Range, Entries
<1>3. ASSUME NEW lo, NEW hi PROVE Static!AliveFrom(lo, hi) = Part(AllOf(staticSlots), lo, hi)
  <2>1. \A x : x \in Static!AliveFrom(lo, hi)
                 <=> \E e \in Entries(staticSlots) :
                       e.alive /\ e.id >= lo /\ e.id < hi /\ x = Static!Sub(e)
    BY <1>2 DEF Static!AliveFrom
  <2>2. \A x : x \in Part(AllOf(staticSlots), lo, hi)
                 <=> \E e \in Entries(staticSlots) :
                       e.alive /\ e.id >= lo /\ e.id < hi /\ x = Static!Sub(e)
    BY StaticSubIs DEF Part, AllOf
  <2> QED BY <2>1, <2>2
<1>4. CASE Static!Emitting
  BY <1>3, <1>4 DEF Static!Subs, Static!Late, Bar
<1>5. CASE ~Static!Emitting
  <2>1. Static!Subs = Part(AllOf(staticSlots), 1, Bar)
    BY <1>3, <1>5 DEF Static!Subs, Bar
  <2>2. ASSUME NEW x \in AllOf(staticSlots) PROVE ~(x.id >= staticNextId)
    <3>1. PICK j \in 1..Len(staticSlots) : x = Static!Sub(staticSlots[j])
      BY AllOfIs
    <3>2. x.id = staticSlots[j].id
      BY <3>1, StaticSubIs
    <3>3. staticSlots[j].id < staticNextId /\ staticSlots[j].id \in Nat /\ staticNextId \in Nat
      BY <1>1, StaticFacts DEF StaticKeyed, Below
    <3> QED BY <3>2, <3>3
  <2>3. Part(AllOf(staticSlots), Bar, staticNextId) = {}
    BY <1>5, <2>2 DEF Part, Bar
  <2> QED BY <1>5, <2>1, <2>3 DEF Static!Late
<1> QED BY <1>4, <1>5

\* The ids that are seen are ids of connections made.
LEMMA StaticSeenIds ==
  ASSUME StaticInv, NEW x \in AllOf(staticSlots)
  PROVE  x.id \in Nat /\ x.id >= 1 /\ x.id < staticNextId /\ staticNextId \in Nat /\ x.id \in Static!Ids
<1>0. StaticTyped /\ StaticKeyed
  BY DEF StaticInv
<1>1. PICK j \in 1..Len(staticSlots) : x = Static!Sub(staticSlots[j])
  BY AllOfIs
<1>2. x.id = staticSlots[j].id /\ staticSlots[j].id < staticNextId
  BY <1>0, <1>1, StaticSubIs DEF StaticKeyed, Below
<1>3. staticSlots[j] \in Static!SlotEntry /\ staticNextId \in Nat
  BY <1>0, StaticFacts
<1> QED BY <1>2, <1>3, StaticEntryFits

LEMMA StaticEmitsAre ==
  ASSUME staticFrames \in Seq(StaticFrame)
  PROVE  /\ DOMAIN Static!Emits = 1..Len(staticFrames) /\ Len(Static!Emits) = Len(staticFrames)
         /\ \E S : Static!Emits \in Seq(S)
         /\ Static!Emits = << >> <=> staticFrames = << >>
         /\ \A k \in 1..Len(staticFrames) :
              Static!Emits[k] = [running |-> staticFrames[k].id, owed |-> StaticOwed(k)]
<1> PICK m \in Nat : m = Len(staticFrames)
  BY LenProperties
<1>1. Static!Emits = [k \in 1..m |-> [running |-> staticFrames[k].id, owed |-> StaticOwed(k)]]
  BY DEF Static!Emits, Static!Owed, StaticOwed
<1> PICK S : S = {[running |-> staticFrames[k].id, owed |-> StaticOwed(k)] : k \in 1..m}
  OBVIOUS
<1>2. Static!Emits \in [1..m -> S]
  BY <1>1
<1>3. Static!Emits \in Seq(S)
  BY <1>2, SeqDef
<1>4. DOMAIN Static!Emits = 1..m
  BY <1>1
<1>5. Len(Static!Emits) = m
  BY <1>3, <1>4, LenProperties
<1>6. Static!Emits = << >> <=> Len(Static!Emits) = 0
  BY <1>3, EmptySeq
<1>7. staticFrames = << >> <=> Len(staticFrames) = 0
  BY EmptySeq
<1> QED BY <1>1, <1>3, <1>4, <1>5, <1>6, <1>7

\* With no emit in progress the contract sees none, before a step and after one.
LEMMA StaticNoEmits ==
  /\ staticFrames = << >> => Static!Emits = << >>
  /\ staticFrames' = << >> => Static!Emits' = << >>
<1>2. Len(<< >>) = 0
  OBVIOUS
<1>3. ASSUME staticFrames = << >> PROVE Static!Emits = << >>
  <2>1. Static!Emits \in [1..0 -> {}]
    BY <1>2, <1>3 DEF Static!Emits
  <2> QED BY <2>1, EmptyFunction
<1>4. ASSUME staticFrames' = << >> PROVE Static!Emits' = << >>
  <2>1. Static!Emits' \in [1..0 -> {}]
    BY <1>2, <1>4 DEF Static!Emits
  <2> QED BY <2>1, EmptyFunction
<1> QED BY <1>3, <1>4

LEMMA StaticUserMayCall ==
  ASSUME StaticTyped, StaticWalking, Static!UserRuns
  PROVE  Static!Contract!UserRuns
<1> SUFFICES ASSUME Static!Emits # << >> PROVE Static!Emits[Len(Static!Emits)].running # 0
  BY DEF Static!Contract!UserRuns, Static!Contract!NoSlot
<1>1. staticFrames \in Seq(StaticFrame) /\ Len(staticFrames) \in Nat
  BY LenProperties DEF StaticTyped
<1>2. staticFrames # << >> /\ Len(Static!Emits) = Len(staticFrames)
  BY <1>1, StaticEmitsAre
<1>3. Len(staticFrames) # 0
  BY <1>1, <1>2, EmptySeq
<1> PICK t : t = Len(staticFrames)
  OBVIOUS
<1>4. t \in 1..Len(staticFrames)
  BY <1>1, <1>3
<1>5. Static!Emits[t] = [running |-> staticFrames[t].id, owed |-> StaticOwed(t)]
  BY <1>1, <1>4, StaticEmitsAre
<1>6. staticFrames[t].i > 0 /\ staticFrames[t].i \in Nat
  BY <1>2, <1>4, StaticFacts DEF Static!UserRuns, Static!Emitting, Static!Top
<1>7. staticFrames[t].id # 0
  BY <1>4, <1>6 DEF StaticWalking, Static!NoId
<1> QED BY <1>2, <1>5, <1>7

\* Nothing is owed to entries that were marked, and they are no subscriptions any more.
LEMMA StaticMarkedAll ==
  ASSUME NEW s, NEW t, NEW ids, SameStatic(s, t),
         \A j \in 1..Len(s) : t[j].alive <=> (s[j].alive /\ s[j].id \notin ids)
  PROVE  AllOf(t) = Static!Contract!Without(AllOf(s), ids)
<1>1. Len(t) = Len(s) /\ \A j \in 1..Len(s) : Static!Sub(t[j]) = Static!Sub(s[j])
  BY DEF SameStatic, Static!Sub
<1>2. \A x : x \in AllOf(t) <=> \E j \in 1..Len(s) : s[j].alive /\ s[j].id \notin ids /\ x = Static!Sub(s[j])
  BY <1>1, AllOfIs
<1>3. \A x : x \in Static!Contract!Without(AllOf(s), ids)
               <=> \E j \in 1..Len(s) : s[j].alive /\ s[j].id \notin ids /\ x = Static!Sub(s[j])
  BY AllOfIs, StaticSubIs DEF Static!Contract!Without
<1> QED BY <1>2, <1>3

LEMMA StaticMarkedOwed ==
  ASSUME StaticTyped, StaticWalking, NEW ids, NEW k \in 1..Len(staticFrames),
         SameStatic(staticSlots, staticSlots'),
         \A j \in 1..Len(staticSlots) :
           staticSlots'[j].alive <=> (staticSlots[j].alive /\ staticSlots[j].id \notin ids),
         staticFrames'[k] = staticFrames[k], watermark' = watermark
  PROVE  StaticOwed(k)' = Static!Contract!Without(StaticOwed(k), ids)
<1>1. /\ staticFrames[k].n <= Len(staticSlots) /\ staticFrames[k].i \in Nat
      /\ staticFrames[k].n \in Nat /\ Len(staticSlots) \in Nat
  BY StaticFacts DEF StaticWalking
<1> DEFINE J == staticFrames[k].i + 1 .. staticFrames[k].n
<1>2. J \subseteq 1..Len(staticSlots)
  BY <1>1
<1>3. StaticOwed(k)' = {Static!Sub(staticSlots[j])' : j \in {l \in J :
                          staticSlots'[l].alive /\ staticSlots'[l].id < watermark}}
  BY DEF StaticOwed
<1>4. StaticOwed(k) = {Static!Sub(staticSlots[j]) : j \in {l \in J :
                          staticSlots[l].alive /\ staticSlots[l].id < watermark}}
  BY DEF StaticOwed
<1> HIDE DEF J
<1>5. \A j \in J : /\ Static!Sub(staticSlots[j])' = Static!Sub(staticSlots[j])
                   /\ staticSlots'[j].id = staticSlots[j].id
                   /\ staticSlots'[j].alive <=> (staticSlots[j].alive /\ staticSlots[j].id \notin ids)
  BY <1>2 DEF SameStatic, Static!Sub
<1>6. \A x : x \in StaticOwed(k)'
               <=> \E j \in J : /\ staticSlots[j].alive /\ staticSlots[j].id < watermark
                                /\ staticSlots[j].id \notin ids /\ x = Static!Sub(staticSlots[j])
  BY <1>3, <1>5
<1>7. \A x : x \in Static!Contract!Without(StaticOwed(k), ids)
               <=> \E j \in J : /\ staticSlots[j].alive /\ staticSlots[j].id < watermark
                                /\ staticSlots[j].id \notin ids /\ x = Static!Sub(staticSlots[j])
  BY <1>4, StaticSubIs DEF Static!Contract!Without
<1> QED BY <1>6, <1>7

LEMMA StaticEmitsMarked ==
  ASSUME StaticTyped, StaticWalking, NEW ids, staticFrames' = staticFrames, watermark' = watermark,
         SameStatic(staticSlots, staticSlots'),
         \A j \in 1..Len(staticSlots) :
           staticSlots'[j].alive <=> (staticSlots[j].alive /\ staticSlots[j].id \notin ids)
  PROVE  Static!Emits' = Static!Contract!NoLongerOwed(ids)
<1>0. staticFrames \in Seq(StaticFrame)
  BY DEF StaticTyped
<1> PICK m \in Nat : m = Len(staticFrames)
  BY <1>0, LenProperties
<1>1. Static!Contract!NoLongerOwed(ids)
        = [k \in 1..m |-> [Static!Emits[k] EXCEPT !.owed = Static!Contract!Without(Static!Emits[k].owed, ids)]]
  BY <1>0, StaticEmitsAre DEF Static!Contract!NoLongerOwed
<1>2. Static!Emits' = [k \in 1..m |-> [running |-> staticFrames'[k].id, owed |-> StaticOwed(k)']]
  BY DEF Static!Emits, Static!Owed, StaticOwed
<1>3. ASSUME NEW k \in 1..m
      PROVE  [running |-> staticFrames'[k].id, owed |-> StaticOwed(k)']
               = [Static!Emits[k] EXCEPT !.owed = Static!Contract!Without(Static!Emits[k].owed, ids)]
  <2>1. Static!Emits[k] = [running |-> staticFrames[k].id, owed |-> StaticOwed(k)]
    BY <1>0, StaticEmitsAre
  <2>2. StaticOwed(k)' = Static!Contract!Without(StaticOwed(k), ids)
    BY StaticMarkedOwed
  <2> QED BY <2>1, <2>2
<1> QED BY <1>1, <1>2, <1>3


\* Before a step and after it.
LEMMA StaticSeenBoth ==
  ASSUME StaticInv, StaticInv'
  PROVE  /\ Static!Subs = Part(AllOf(staticSlots), 1, Bar)
         /\ Static!Late = Part(AllOf(staticSlots), Bar, staticNextId)
         /\ Static!Subs' = Part(AllOf(staticSlots'), 1, Bar')
         /\ Static!Late' = Part(AllOf(staticSlots'), Bar', staticNextId')
<1>1. (StaticInv => /\ Static!Subs = Part(AllOf(staticSlots), 1, Bar)
                    /\ Static!Late = Part(AllOf(staticSlots), Bar, staticNextId))'
  BY StaticSeen, PTL
<1> QED BY <1>1, StaticSeen

\* A step that changes nothing the contract sees.
LEMMA StaticSeenKept ==
  ASSUME UNCHANGED <<staticSlots, staticNextId, staticBlocked, watermark, staticFrames>>
  PROVE  UNCHANGED Static!Contract!vars
<1>1. Static!Emits' = Static!Emits
  BY DEF Static!Emits, Static!Owed
<1>2. Static!Subs' = Static!Subs /\ Static!Late' = Static!Late
  BY DEF Static!Subs, Static!Late, Static!AliveFrom, Static!Emitting, Static!Range
<1> QED BY <1>1, <1>2 DEF Static!Contract!vars

\* What emits owe when the entries they would still call are as they were.
LEMMA StaticEmitsKept ==
  ASSUME StaticTyped, StaticWalking, staticFrames' = staticFrames, watermark' = watermark,
         \A j \in 1..Len(staticSlots) :
           /\ (staticSlots'[j].alive /\ staticSlots'[j].id < watermark)
                <=> (staticSlots[j].alive /\ staticSlots[j].id < watermark)
           /\ staticSlots[j].alive /\ staticSlots[j].id < watermark => staticSlots'[j] = staticSlots[j]
  PROVE  Static!Emits' = Static!Emits
<1> PICK m \in Nat : m = Len(staticFrames)
  BY StaticFacts
<1>1. \A k \in 1..m : StaticOwed(k)' = StaticOwed(k)
  <2> TAKE k \in 1..m
  <2>1. /\ staticFrames[k].n <= Len(staticSlots) /\ staticFrames[k].i \in Nat
        /\ staticFrames[k].n \in Nat /\ Len(staticSlots) \in Nat
    BY StaticFacts DEF StaticWalking
  <2> DEFINE J == staticFrames[k].i + 1 .. staticFrames[k].n
  <2>2. J \subseteq 1..Len(staticSlots)
    BY <2>1
  <2>3. StaticOwed(k)' = {Static!Sub(staticSlots[j])' : j \in {l \in J :
                            staticSlots'[l].alive /\ staticSlots'[l].id < watermark}}
    BY DEF StaticOwed
  <2>4. StaticOwed(k) = {Static!Sub(staticSlots[j]) : j \in {l \in J :
                            staticSlots[l].alive /\ staticSlots[l].id < watermark}}
    BY DEF StaticOwed
  <2> HIDE DEF J
  <2>5. \A x : x \in StaticOwed(k)'
                 <=> \E j \in J : /\ staticSlots'[j].alive /\ staticSlots'[j].id < watermark
                                  /\ x = Static!Sub(staticSlots[j])'
    BY <2>3
  <2>6. \A x : x \in StaticOwed(k)
                 <=> \E j \in J : /\ staticSlots[j].alive /\ staticSlots[j].id < watermark
                                  /\ x = Static!Sub(staticSlots[j])
    BY <2>4
  <2>7. \A j \in J : staticSlots[j].alive /\ staticSlots[j].id < watermark
                       => Static!Sub(staticSlots[j])' = Static!Sub(staticSlots[j])
    BY <2>2 DEF Static!Sub
  <2>8. \A j \in J : (staticSlots'[j].alive /\ staticSlots'[j].id < watermark)
                       <=> (staticSlots[j].alive /\ staticSlots[j].id < watermark)
    BY <2>2
  <2> QED BY <2>5, <2>6, <2>7, <2>8
<1>2. Static!Emits' = [k \in 1..m |-> [running |-> staticFrames[k].id, owed |-> StaticOwed(k)']]
  BY DEF Static!Emits, Static!Owed, StaticOwed
<1>3. Static!Emits = [k \in 1..m |-> [running |-> staticFrames[k].id, owed |-> StaticOwed(k)]]
  BY DEF Static!Emits, Static!Owed, StaticOwed
<1> QED BY <1>1, <1>2, <1>3

\* The new entry is one more subscription; at capacity the entry it replaces was dead.
LEMMA StaticStored ==
  ASSUME StaticInv, NEW e \in Static!SlotEntry, e.id = staticNextId, e.alive,
         Static!Store(e), UNCHANGED <<watermark, staticFrames>>
  PROVE  /\ AllOf(staticSlots') = AllOf(staticSlots) \cup {Static!Sub(e)}
         /\ Static!Emits' = Static!Emits
<1>0. StaticTyped /\ StaticKeyed /\ StaticPlaced /\ StaticWalking /\ StaticResting
  BY DEF StaticInv
<1>1. /\ staticSlots \in Seq(Static!SlotEntry) /\ Len(staticSlots) \in Nat
      /\ watermark <= staticNextId /\ watermark \in Nat /\ staticNextId \in Nat
      /\ \A j \in 1..Len(staticSlots) : staticSlots[j].id \in Nat
  BY <1>0, StaticFacts DEF StaticTyped
<1>2. ~(e.id < watermark)
  BY <1>1
<1> PICK m \in Nat : m = Len(staticSlots)
  BY <1>1
<1>3. CASE ~Static!Full /\ ~Static!Emitting
  <2>1. staticSlots' = Static!InsertByPriority(staticSlots, e)
    BY <1>3 DEF Static!Store
  <2>2. Distinct(staticSlots) /\ Ascending(staticSlots)
    BY <1>0, <1>3 DEF StaticKeyed, StaticPlaced, StaticResting
  <2>3. \A j \in 1..Len(staticSlots) : staticSlots[j].id # e.id
    BY <1>0, <1>1 DEF StaticKeyed, Below
  <2>4. Entries(staticSlots') = Entries(staticSlots) \cup {e}
    BY <1>1, <2>1, <2>2, <2>3, StaticInsertIs
  <2>5. AllOf(staticSlots') = AllOf(staticSlots) \cup {Static!Sub(e)}
    BY <2>4 DEF AllOf
  <2>6. Static!Emits' = << >> /\ Static!Emits = << >>
    BY <1>3, StaticNoEmits DEF Static!Emitting
  <2> QED BY <2>5, <2>6
<1>4. CASE ~Static!Full /\ Static!Emitting
  <2>1. staticSlots' = Append(staticSlots, e)
    BY <1>4 DEF Static!Store
  <2>2. /\ Len(staticSlots') = m + 1 /\ staticSlots'[m + 1] = e
        /\ \A j \in 1..m : staticSlots'[j] = staticSlots[j]
    BY <1>1, <2>1, AppendProperties
  <2>3. \A j : j \in 1..(m + 1) <=> j = m + 1 \/ j \in 1..m
    OBVIOUS
  <2>4. \A x : x \in AllOf(staticSlots') <=> x \in AllOf(staticSlots) \/ x = Static!Sub(e)
    BY <2>2, <2>3, AllOfIs
  <2>5. Static!Emits' = Static!Emits
    BY <1>0, <2>2, StaticEmitsKept
  <2> QED BY <2>4, <2>5
<1>5. CASE Static!Full /\ Static!Emitting
  <2>1. PICK i \in Static!Reclaimable : staticSlots' = [staticSlots EXCEPT ![i] = e]
    BY <1>3, <1>5 DEF Static!Store
  <2>2. i \in 1..m /\ ~staticSlots[i].alive
    BY DEF Static!Reclaimable
  <2>3. /\ Len(staticSlots') = m
        /\ \A j \in 1..m : staticSlots'[j] = IF j = i THEN e ELSE staticSlots[j]
    BY <1>1, <2>1, <2>2, ExceptSeq, LenProperties
  <2>4. \A x : x \in AllOf(staticSlots') <=> x \in AllOf(staticSlots) \/ x = Static!Sub(e)
    <3>1. \A x : x \in AllOf(staticSlots')
                   <=> \E j \in 1..m : staticSlots'[j].alive /\ x = Static!Sub(staticSlots'[j])
      BY <2>3, AllOfIs
    <3>2. \A x : x \in AllOf(staticSlots)
                   <=> \E j \in 1..m : staticSlots[j].alive /\ x = Static!Sub(staticSlots[j])
      BY AllOfIs
    <3>3. staticSlots'[i] = e /\ \A j \in 1..m : j # i => staticSlots'[j] = staticSlots[j]
      BY <2>2, <2>3
    <3> QED BY <2>2, <3>1, <3>2, <3>3
  <2>5. Static!Emits' = Static!Emits
    BY <1>0, <1>2, <2>2, <2>3, StaticEmitsKept
  <2> QED BY <2>4, <2>5
<1>6. ~(Static!Full /\ ~Static!Emitting)
  BY DEF Static!Store
<1> QED BY <1>3, <1>4, <1>5, <1>6

LEMMA StaticConnectRefines ==
  ASSUME StaticInv, StaticInv', NEW p \in Priorities, NEW once \in BOOLEAN,
         Static!UserRuns, staticNextId <= MaxStaticConnects,
         Static!Store(Static!Entry(p, once)), staticNextId' = staticNextId + 1,
         UNCHANGED <<staticBlocked, watermark, staticFrames>>
  PROVE  Static!Contract!Connect(p, once)
<1> PICK e : e = Static!Entry(p, once)
  OBVIOUS
<1> DEFINE s == [id |-> (staticNextId - 1) + 1, priority |-> p, once |-> once]
<1>0. StaticTyped /\ StaticWalking
  BY DEF StaticInv
<1>1. /\ staticNextId \in Nat /\ staticNextId >= 1 /\ watermark \in Nat /\ watermark <= staticNextId
      /\ MaxStaticConnects \in Nat /\ staticFrames \in Seq(StaticFrame)
  BY <1>0, StaticFacts DEF StaticTyped
<1>2. e \in Static!SlotEntry /\ e.id = staticNextId /\ e.alive
  BY <1>1 DEF Static!Entry, Static!SlotEntry, Static!Ids
<1>3. Static!Sub(e) = s /\ s.id = staticNextId
  BY <1>1 DEF Static!Sub, Static!Entry
<1> HIDE DEF s
<1>4. AllOf(staticSlots') = AllOf(staticSlots) \cup {s} /\ Static!Emits' = Static!Emits
  BY <1>2, <1>3, StaticStored
<1>5. \A x \in AllOf(staticSlots) : x.id \in Nat /\ x.id >= 1 /\ x.id < staticNextId
  BY StaticSeenIds
<1>6. Static!Emits = << >> <=> ~Static!Emitting
  BY <1>1, StaticEmitsAre DEF Static!Emitting
<1>7. Static!Emitting' <=> Static!Emitting
  BY DEF Static!Emitting
<1>8. IF Static!Emits = << >>
      THEN Static!Subs' = Static!Subs \cup {s} /\ Static!Late' = Static!Late
      ELSE Static!Late' = Static!Late \cup {s} /\ Static!Subs' = Static!Subs
  <2>1. /\ Static!Subs = Part(AllOf(staticSlots), 1, Bar)
        /\ Static!Late = Part(AllOf(staticSlots), Bar, staticNextId)
        /\ Static!Subs' = Part(AllOf(staticSlots) \cup {s}, 1, Bar')
        /\ Static!Late' = Part(AllOf(staticSlots) \cup {s}, Bar', staticNextId + 1)
    BY <1>4, StaticSeenBoth
  <2>2. CASE Static!Emitting
    <3>1. Bar = watermark /\ Bar' = watermark
      BY <1>7, <2>2 DEF Bar
    <3>2. Part(AllOf(staticSlots) \cup {s}, 1, watermark) = Part(AllOf(staticSlots), 1, watermark)
      BY <1>1, <1>3 DEF Part
    <3>3. Part(AllOf(staticSlots) \cup {s}, watermark, staticNextId + 1)
            = Part(AllOf(staticSlots), watermark, staticNextId) \cup {s}
      BY <1>1, <1>3, <1>5 DEF Part
    <3> QED BY <1>6, <2>1, <2>2, <3>1, <3>2, <3>3
  <2>3. CASE ~Static!Emitting
    <3>1. Bar = staticNextId /\ Bar' = staticNextId + 1
      BY <1>7, <2>3 DEF Bar
    <3>2. Part(AllOf(staticSlots) \cup {s}, 1, staticNextId + 1)
            = Part(AllOf(staticSlots), 1, staticNextId) \cup {s}
      BY <1>1, <1>3, <1>5 DEF Part
    <3>3. Part(AllOf(staticSlots) \cup {s}, staticNextId + 1, staticNextId + 1) = {}
      BY <1>1, <1>3, <1>5 DEF Part
    <3>4. Part(AllOf(staticSlots), staticNextId, staticNextId) = {}
      BY <1>1, <1>5 DEF Part
    <3> QED BY <1>6, <2>1, <2>3, <3>1, <3>2, <3>3, <3>4
  <2> QED BY <2>2, <2>3
<1>9. Static!Contract!UserRuns
  BY <1>0, StaticUserMayCall
<1>10. (staticNextId - 1)' = (staticNextId - 1) + 1 /\ staticNextId - 1 < MaxStaticConnects
  BY <1>1
<1> QED BY <1>4, <1>8, <1>9, <1>10 DEF Static!Contract!Connect, s


\* A step that takes subscriptions away takes them from the early and from the late ones.
LEMMA StaticTakenAway ==
  ASSUME StaticInv, StaticInv', NEW ids, Static!UserRuns,
         AllOf(staticSlots') = Static!Contract!Without(AllOf(staticSlots), ids),
         Static!Emits' = Static!Contract!NoLongerOwed(ids),
         UNCHANGED <<staticNextId, staticBlocked, watermark, staticFrames>>
  PROVE  Static!Contract!Disconnect(ids)
<1>0. StaticTyped /\ StaticWalking
  BY DEF StaticInv
<1>1. Bar' = Bar
  BY DEF Bar, Static!Emitting
<1>2. /\ Static!Subs = Part(AllOf(staticSlots), 1, Bar)
      /\ Static!Late = Part(AllOf(staticSlots), Bar, staticNextId)
      /\ Static!Subs' = Part(AllOf(staticSlots'), 1, Bar)
      /\ Static!Late' = Part(AllOf(staticSlots'), Bar, staticNextId)
  BY <1>1, StaticSeenBoth
<1>3. ASSUME NEW S, NEW lo, NEW hi
      PROVE  Part(Static!Contract!Without(S, ids), lo, hi) = Static!Contract!Without(Part(S, lo, hi), ids)
  BY DEF Part, Static!Contract!Without
<1>4. Static!Contract!UserRuns
  BY <1>0, StaticUserMayCall
<1> QED BY <1>2, <1>3, <1>4 DEF Static!Contract!Disconnect

\* With no emit in progress nothing is owed.
LEMMA StaticNothingOwed ==
  ASSUME ~Static!Emitting, staticFrames' = staticFrames
  PROVE  \A ids : Static!Emits' = Static!Contract!NoLongerOwed(ids)
<1>1. Static!Emits = << >> /\ Static!Emits' = << >>
  BY StaticNoEmits DEF Static!Emitting
<1>2. ASSUME NEW ids PROVE Static!Contract!NoLongerOwed(ids) = << >>
  <2>1. Len(Static!Emits) = 0
    BY <1>1
  <2>2. Static!Contract!NoLongerOwed(ids) \in [1..0 -> {}]
    BY <2>1 DEF Static!Contract!NoLongerOwed
  <2> QED BY <2>2, EmptyFunction
<1> QED BY <1>1, <1>2

\* An invalid handle names no entry.
LEMMA StaticDisconnectRefines ==
  ASSUME StaticInv, StaticInv', NEW handles, Static!UserRuns, Static!DisconnectByIds(handles),
         UNCHANGED <<staticNextId, staticBlocked, watermark, staticFrames>>
  PROVE  Static!Contract!Disconnect(handles \cap Static!Ids)
<1> PICK ids : ids = handles \cap Static!Ids
  OBVIOUS
<1>0. StaticTyped /\ StaticKeyed /\ StaticPlaced /\ StaticWalking /\ StaticResting
  BY DEF StaticInv
<1>1. staticSlots \in Seq(Static!SlotEntry)
  BY <1>0 DEF StaticTyped
<1>2. \A j \in 1..Len(staticSlots) : staticSlots[j].id \notin handles <=> staticSlots[j].id \notin ids
  <2> TAKE j \in 1..Len(staticSlots)
  <2>1. staticSlots[j].id \in Static!Ids
    BY <1>0, StaticFacts, StaticEntryFits
  <2> QED BY <2>1
<1>3. CASE Static!Emitting
  <2>1. staticSlots' = Static!MarkDead(staticSlots, handles)
    BY <1>3 DEF Static!DisconnectByIds
  <2>2. /\ SameStatic(staticSlots, staticSlots')
        /\ \A j \in 1..Len(staticSlots) :
             staticSlots'[j].alive <=> (staticSlots[j].alive /\ staticSlots[j].id \notin ids)
    BY <1>1, <1>2, <2>1, StaticMarkDeadIs
  <2>3. AllOf(staticSlots') = Static!Contract!Without(AllOf(staticSlots), ids)
    BY <2>2, StaticMarkedAll
  <2>4. Static!Emits' = Static!Contract!NoLongerOwed(ids)
    BY <1>0, <2>2, StaticEmitsMarked
  <2> QED BY <2>3, <2>4, StaticTakenAway
<1>4. CASE ~Static!Emitting
  <2> DEFINE K == {j \in 1..Len(staticSlots) : staticSlots[j].id \notin handles}
  <2>1. staticSlots' = Static!Only(staticSlots, K)
    BY <1>4 DEF Static!DisconnectByIds
  <2>2. Entries(staticSlots') = {staticSlots[j] : j \in K \cap (1..Len(staticSlots))}
    <3> HIDE DEF K
    <3> QED BY <1>1, <2>1, StaticOnlyIs
  <2>3. \A x : x \in AllOf(staticSlots')
                 <=> \E j \in 1..Len(staticSlots) :
                       staticSlots[j].id \notin ids /\ staticSlots[j].alive /\ x = Static!Sub(staticSlots[j])
    <3>1. \A x : x \in AllOf(staticSlots')
                   <=> \E e \in Entries(staticSlots') : e.alive /\ x = Static!Sub(e)
      BY DEF AllOf
    <3>2. \A e : e \in Entries(staticSlots')
                   <=> \E j \in 1..Len(staticSlots) : staticSlots[j].id \notin ids /\ e = staticSlots[j]
      BY <1>2, <2>2
    <3> QED BY <3>1, <3>2
  <2>4. \A x : x \in Static!Contract!Without(AllOf(staticSlots), ids)
                 <=> \E j \in 1..Len(staticSlots) :
                       staticSlots[j].id \notin ids /\ staticSlots[j].alive /\ x = Static!Sub(staticSlots[j])
    BY AllOfIs, StaticSubIs DEF Static!Contract!Without
  <2>5. AllOf(staticSlots') = Static!Contract!Without(AllOf(staticSlots), ids)
    BY <2>3, <2>4
  <2>6. Static!Emits' = Static!Contract!NoLongerOwed(ids)
    BY <1>4, StaticNothingOwed
  <2> QED BY <2>5, <2>6, StaticTakenAway
<1> QED BY <1>3, <1>4

LEMMA StaticDisconnectAllRefines ==
  ASSUME StaticInv, StaticInv', Static!DisconnectAll
  PROVE  Static!Contract!Disconnect(Static!Ids)
<1>1. /\ Static!UserRuns /\ staticSlots' = IF Static!Emitting THEN Static!MarkDead(staticSlots, Static!Ids) ELSE << >>
      /\ UNCHANGED <<staticNextId, staticBlocked, watermark, staticFrames>>
  BY DEF Static!DisconnectAll
<1>2. CASE Static!Emitting
  <2>1. Static!DisconnectByIds(Static!Ids)
    BY <1>1, <1>2 DEF Static!DisconnectByIds
  <2>2. Static!Ids \cap Static!Ids = Static!Ids
    OBVIOUS
  <2>3. Static!Contract!Disconnect(Static!Ids \cap Static!Ids)
    BY <1>1, <2>1, StaticDisconnectRefines
  <2> QED BY <2>2, <2>3
<1>3. CASE ~Static!Emitting
  <2>1. Len(staticSlots') = 0
    BY <1>1, <1>3
  <2>2. AllOf(staticSlots') = {}
    BY <2>1, AllOfIs
  <2>3. Static!Contract!Without(AllOf(staticSlots), Static!Ids) = {}
    BY StaticSeenIds DEF Static!Contract!Without
  <2>4. Static!Emits' = Static!Contract!NoLongerOwed(Static!Ids)
    BY <1>1, <1>3, StaticNothingOwed
  <2> QED BY <1>1, <2>2, <2>3, <2>4, StaticTakenAway
<1> QED BY <1>2, <1>3

LEMMA StaticEmitBeginRefines ==
  ASSUME StaticInv, StaticInv', Static!EmitBegin
  PROVE  Static!Contract!EmitBegin
<1>0. StaticTyped /\ StaticWalking
  BY DEF StaticInv
<1>1. /\ Static!UserRuns /\ ~staticBlocked /\ Len(staticFrames) < MaxDepth
      /\ watermark' = IF Static!Emitting THEN watermark ELSE staticNextId
      /\ staticFrames' = Append(staticFrames, [n |-> Len(staticSlots), i |-> 0, id |-> Static!NoId])
      /\ UNCHANGED <<staticSlots, staticNextId, staticBlocked>>
  BY DEF Static!EmitBegin
<1>2. staticFrames \in Seq(StaticFrame) /\ Len(staticSlots) \in Nat
  BY <1>0, StaticFacts DEF StaticTyped
<1> PICK m \in Nat : m = Len(staticFrames)
  BY <1>2, LenProperties
<1> PICK f : f = [n |-> Len(staticSlots), i |-> 0, id |-> 0]
  OBVIOUS
<1> PICK b : b = [running |-> 0, owed |-> Static!Subs]
  OBVIOUS
<1>3. f \in StaticFrame /\ f.n = Len(staticSlots) /\ f.i = 0 /\ f.id = 0
  BY <1>2 DEF StaticFrame, Static!NoId
<1>4. /\ Len(staticFrames') = m + 1 /\ staticFrames'[m + 1] = f
      /\ \A k \in 1..m : staticFrames'[k] = staticFrames[k]
  BY <1>1, <1>2, <1>3, AppendProperties DEF Static!NoId
<1>5. Static!Emitting' /\ Bar' = Bar /\ watermark' = Bar
  <2>1. Static!Emitting'
    <3>1. staticFrames' # << >>
      BY <1>4
    <3> QED BY <3>1 DEF Static!Emitting
  <2> QED BY <1>1, <2>1 DEF Bar
<1>6. /\ Static!Subs = Part(AllOf(staticSlots), 1, Bar)
      /\ UNCHANGED <<Static!Subs, Static!Late>>
  BY <1>1, <1>5, StaticSeenBoth
<1>7. Static!Emits' = [k \in 1..(m + 1) |-> [running |-> staticFrames'[k].id, owed |-> StaticOwed(k)']]
  BY <1>4 DEF Static!Emits, Static!Owed, StaticOwed
<1>8. ASSUME NEW k \in 1..m
      PROVE  [running |-> staticFrames'[k].id, owed |-> StaticOwed(k)'] = Static!Emits[k]
  <2>1. Static!Emits[k] = [running |-> staticFrames[k].id, owed |-> StaticOwed(k)]
    BY <1>2, StaticEmitsAre
  <2>2. Static!Emitting
    <3>1. m # 0
      OBVIOUS
    <3> QED BY <3>1 DEF Static!Emitting
  <2>3. watermark' = watermark
    BY <1>1, <2>2
  <2>4. StaticOwed(k)' = StaticOwed(k)
    BY <1>1, <1>4, <2>3 DEF StaticOwed
  <2> QED BY <1>4, <2>1, <2>4
<1>9. StaticOwed(m + 1)' = Static!Subs
  <2>1. 0 + 1 = 1
    OBVIOUS
  <2>2. StaticOwed(m + 1)' = {Static!Sub(staticSlots[j]) : j \in {l \in 1..Len(staticSlots) :
                                staticSlots[l].alive /\ staticSlots[l].id < Bar}}
    BY <1>1, <1>3, <1>4, <1>5, <2>1 DEF StaticOwed
  <2>3. \A j \in 1..Len(staticSlots) : Static!Sub(staticSlots[j]).id = staticSlots[j].id /\ staticSlots[j].id >= 1
    BY <1>0, StaticFacts, StaticSubIs
  <2>4. \A x : x \in Part(AllOf(staticSlots), 1, Bar)
                 <=> \E j \in 1..Len(staticSlots) : /\ staticSlots[j].alive /\ staticSlots[j].id < Bar
                                                    /\ x = Static!Sub(staticSlots[j])
    BY <2>3, AllOfIs DEF Part
  <2>5. \A x : x \in StaticOwed(m + 1)'
                 <=> \E j \in 1..Len(staticSlots) : /\ staticSlots[j].alive /\ staticSlots[j].id < Bar
                                                    /\ x = Static!Sub(staticSlots[j])
    BY <2>2
  <2> QED BY <1>6, <2>4, <2>5
<1>10. Static!Emits' = Append(Static!Emits, b)
  <2>1. PICK S : Static!Emits \in Seq(S)
    BY <1>2, StaticEmitsAre
  <2> PICK E : E = Static!Emits
    OBVIOUS
  <2>2. Len(E) = m /\ E \in Seq(S)
    BY <1>2, <2>1, StaticEmitsAre
  <2>3. E \in Seq(S \cup {b})
    BY <2>2, SeqMonotonic
  <2>4. Append(E, b) \in Seq(S \cup {b})
    BY <2>3, AppendProperties
  <2>5. /\ Len(Append(E, b)) = m + 1 /\ Append(E, b)[m + 1] = b
        /\ \A k \in 1..m : Append(E, b)[k] = E[k]
    BY <2>2, <2>3, AppendProperties
  <2>6. Append(E, b) = [k \in 1..(m + 1) |-> Append(E, b)[k]]
    BY <2>4, <2>5, LenProperties
  <2>7. \A k \in 1..(m + 1) :
          [running |-> staticFrames'[k].id, owed |-> StaticOwed(k)'] = Append(E, b)[k]
    <3> TAKE k \in 1..(m + 1)
    <3>1. CASE k = m + 1
      BY <1>3, <1>4, <1>9, <2>5, <3>1
    <3>2. CASE k \in 1..m
      <4>1. [running |-> staticFrames'[k].id, owed |-> StaticOwed(k)'] = Static!Emits[k]
        BY <1>8, <3>2
      <4>2. Append(E, b)[k] = Static!Emits[k]
        BY <2>5, <3>2
      <4> QED BY <4>1, <4>2
    <3>3. k = m + 1 \/ k \in 1..m
      OBVIOUS
    <3> QED BY <3>1, <3>2, <3>3, Zenon
  <2> QED BY <1>7, <2>6, <2>7
<1>11. Static!Contract!UserRuns
  BY <1>0, <1>1, StaticUserMayCall
<1>12. Len(Static!Emits) < MaxDepth
  BY <1>1, <1>2, StaticEmitsAre
<1> QED BY <1>1, <1>6, <1>10, <1>11, <1>12 DEF Static!Contract!EmitBegin, Static!Contract!NoSlot


\* The entry that is called is the first one owed a call; a one-shot is marked.
LEMMA StaticVisitMarks ==
  ASSUME StaticInv, NEW j \in 1..Len(staticSlots), Static!Visit(j),
         NEW ids, ids = IF staticSlots[j].once THEN {staticSlots[j].id} ELSE {}
  PROVE  \A l \in 1..Len(staticSlots) :
           staticSlots'[l].alive <=> (staticSlots[l].alive /\ staticSlots[l].id \notin ids)
<1>0. StaticTyped /\ StaticKeyed /\ StaticWalking
  BY DEF StaticInv
<1>1. \A l \in 1..Len(staticSlots) :
        staticSlots'[l].alive <=> (staticSlots[l].alive /\ (l = j => ~staticSlots[j].once))
  BY <1>0, StaticVisit
<1>2. \A l \in 1..Len(staticSlots) : l # j => staticSlots[l].id # staticSlots[j].id
  BY <1>0 DEF StaticKeyed, Distinct
<1> QED BY <1>1, <1>2

\* No subscription owed a call comes before it.
LEMMA StaticVisitIsNext ==
  ASSUME StaticInv, NEW j \in 1..Len(staticSlots), Static!Visit(j),
         NEW t, t = Static!Top, NEW s, s = Static!Sub(staticSlots[j])
  PROVE  /\ s \in StaticOwed(t)
         /\ \A d \in StaticOwed(t) : ~Static!Contract!Before(d, s)
         /\ StaticOwed(t)' = StaticOwed(t) \ {s}
<1>0. StaticTyped /\ StaticKeyed /\ StaticPlaced /\ StaticWalking
  BY DEF StaticInv
<1> PICK m, i, n : m = Len(staticSlots) /\ i = staticFrames[t].i /\ n = staticFrames[t].n
  OBVIOUS
<1>1. Static!Emitting /\ j \in Static!Remaining /\ (\A l \in Static!Remaining : j <= l)
      /\ watermark' = watermark
  BY DEF Static!Visit
<1>2. /\ i < j /\ j <= n /\ i \in Nat /\ n \in Nat /\ n <= m /\ m \in Nat
      /\ staticFrames'[t] = [n |-> n, i |-> j, id |-> staticSlots[j].id]
      /\ SameStatic(staticSlots, staticSlots')
  BY <1>0, <1>1, StaticVisit, StaticReturned
<1>3. Static!Remaining = {l \in i + 1 .. n : staticSlots[l].alive /\ staticSlots[l].id < watermark}
  BY DEF Static!Remaining
<1>4. Static!Remaining \subseteq 1..m
  BY <1>2, <1>3
<1>5. StaticOwed(t) = {Static!Sub(staticSlots[l]) : l \in Static!Remaining}
  BY <1>3 DEF StaticOwed
<1>6. s \in StaticOwed(t)
  BY <1>1, <1>5
<1>7. \A d \in StaticOwed(t) : ~Static!Contract!Before(d, s)
  <2> SUFFICES ASSUME NEW l \in Static!Remaining
               PROVE  ~Static!Contract!Before(Static!Sub(staticSlots[l]), s)
    BY <1>5
  <2>1. l \in 1..m /\ (j < l \/ j = l)
    BY <1>1, <1>2, <1>4
  <2>2. staticSlots[l].priority \in Int /\ staticSlots[j].priority \in Int
    BY <1>0, <2>1, StaticFacts
  <2>3. AscendingBelow(staticSlots, watermark)
    BY <1>0, AscendingParts DEF StaticPlaced
  <2>4. staticSlots[j].id < watermark /\ staticSlots[l].id < watermark
    BY <1>1, <1>3
  <2>5. j = l \/ staticSlots[j].priority <= staticSlots[l].priority
    BY <2>1, <2>3, <2>4 DEF AscendingBelow
  <2>6. ~(staticSlots[l].priority < staticSlots[j].priority)
    BY <2>2, <2>5
  <2> QED BY <2>6, StaticSubIs DEF Static!Contract!Before
<1>8. StaticOwed(t)' = StaticOwed(t) \ {s}
  <2>1. \A l \in 1..m : /\ Static!Sub(staticSlots[l])' = Static!Sub(staticSlots[l])
                        /\ staticSlots'[l].id = staticSlots[l].id
    BY <1>2 DEF SameStatic, Static!Sub
  <2>2. \A l \in 1..m : l # j => (staticSlots'[l].alive <=> staticSlots[l].alive)
    BY <1>0, StaticVisit
  <2>3. \A l \in j + 1 .. n : l \in 1..m /\ l # j
    BY <1>2
  <2>4. StaticOwed(t)' = {Static!Sub(staticSlots[l])' : l \in {k \in j + 1 .. n :
                            staticSlots'[k].alive /\ staticSlots'[k].id < watermark}}
    BY <1>1, <1>2 DEF StaticOwed
  <2>5. \A x : x \in StaticOwed(t)'
                 <=> \E l \in j + 1 .. n : /\ staticSlots[l].alive /\ staticSlots[l].id < watermark
                                           /\ x = Static!Sub(staticSlots[l])
    BY <2>1, <2>2, <2>3, <2>4
  <2>6. \A l : l \in Static!Remaining /\ l # j
                 <=> l \in j + 1 .. n /\ staticSlots[l].alive /\ staticSlots[l].id < watermark
    <3> TAKE l
    <3>1. ASSUME l \in Static!Remaining, l # j
          PROVE  l \in j + 1 .. n /\ staticSlots[l].alive /\ staticSlots[l].id < watermark
      BY <1>1, <1>2, <1>3, <1>4, <3>1
    <3>2. ASSUME l \in j + 1 .. n, staticSlots[l].alive, staticSlots[l].id < watermark
          PROVE  l \in Static!Remaining /\ l # j
      BY <1>2, <1>3, <3>2
    <3> QED BY <3>1, <3>2
  <2>7. \A l \in Static!Remaining : l # j => Static!Sub(staticSlots[l]) # s
    <3> SUFFICES ASSUME NEW l \in Static!Remaining, l # j PROVE Static!Sub(staticSlots[l]).id # s.id
      OBVIOUS
    <3>1. staticSlots[l].id # staticSlots[j].id
      BY <1>0, <1>4 DEF StaticKeyed, Distinct
    <3> QED BY <3>1, StaticSubIs
  <2>8. \A x : x \in StaticOwed(t) \ {s}
                 <=> \E l \in Static!Remaining : l # j /\ x = Static!Sub(staticSlots[l])
    BY <1>5, <2>7
  <2> QED BY <2>5, <2>6, <2>8
<1> QED BY <1>6, <1>7, <1>8

LEMMA StaticVisitRefines ==
  ASSUME StaticInv, StaticInv', NEW j \in 1..Len(staticSlots), Static!Visit(j)
  PROVE  Static!Contract!Call(Static!Sub(staticSlots[j]))
<1> PICK s : s = Static!Sub(staticSlots[j])
  OBVIOUS
<1> PICK t : t = Static!Top
  OBVIOUS
<1> PICK ids : ids = IF s.once THEN {s.id} ELSE {}
  OBVIOUS
<1>0. StaticTyped /\ StaticKeyed /\ StaticWalking
  BY DEF StaticInv
<1>1. Static!Emitting /\ UNCHANGED <<staticNextId, staticBlocked, watermark>>
  BY DEF Static!Visit
<1>2. /\ t \in Nat /\ t \in 1..Len(staticFrames) /\ Len(staticFrames) = t
      /\ staticSlots[j].id < watermark
      /\ Len(staticFrames') = t
      /\ staticFrames'[t].id = s.id
      /\ \A k \in 1..t : k # t => staticFrames'[k] = staticFrames[k]
      /\ SameStatic(staticSlots, staticSlots')
  <2>1. t \in Nat /\ t \in 1..Len(staticFrames) /\ Len(staticFrames) = t
    BY <1>0, <1>1, StaticReturned
  <2>2. /\ staticFrames'[t] = [n |-> staticFrames[t].n, i |-> j, id |-> staticSlots[j].id]
        /\ staticSlots[j].id < watermark
        /\ Len(staticFrames') = Len(staticFrames)
        /\ \A k \in 1..Len(staticFrames) : k # t => staticFrames'[k] = staticFrames[k]
        /\ SameStatic(staticSlots, staticSlots')
    BY <1>0, StaticVisit
  <2>3. s.id = staticSlots[j].id
    BY StaticSubIs
  <2> QED BY <2>1, <2>2, <2>3
<1>3. \A l \in 1..Len(staticSlots) :
        staticSlots'[l].alive <=> (staticSlots[l].alive /\ staticSlots[l].id \notin ids)
  BY StaticVisitMarks, StaticSubIs
<1>4. /\ s \in StaticOwed(t) /\ StaticOwed(t)' = StaticOwed(t) \ {s}
      /\ \A d \in StaticOwed(t) : ~Static!Contract!Before(d, s)
  BY StaticVisitIsNext
<1>5. /\ Len(Static!Emits) = t /\ Static!Emits # << >> /\ DOMAIN Static!Emits = 1..t
      /\ \A k \in 1..t : Static!Emits[k] = [running |-> staticFrames[k].id, owed |-> StaticOwed(k)]
  <2>1. staticFrames \in Seq(StaticFrame) /\ staticFrames # << >>
    BY <1>0, <1>1 DEF StaticTyped, Static!Emitting
  <2> QED BY <1>2, <2>1, StaticEmitsAre
<1>6. Static!Emits[t].owed = StaticOwed(t)
  <2>1. Static!Emits[t] = [running |-> staticFrames[t].id, owed |-> StaticOwed(t)]
    BY <1>2, <1>5
  <2> QED BY <2>1
<1>7. \A S : Static!Contract!Without(S, {}) = S
  BY DEF Static!Contract!Without
<1>8. /\ Static!Subs' = IF s.once THEN Static!Contract!Without(Static!Subs, {s.id}) ELSE Static!Subs
      /\ Static!Late' = Static!Late
  <2>1. AllOf(staticSlots') = Static!Contract!Without(AllOf(staticSlots), ids)
    BY <1>2, <1>3, StaticMarkedAll
  <2>2. Static!Emitting'
    <3>1. Len(staticFrames') # 0
      BY <1>2
    <3> QED BY <3>1 DEF Static!Emitting
  <2>3. Bar = watermark /\ Bar' = watermark
    BY <1>1, <2>2 DEF Bar
  <2>4. /\ Static!Subs = Part(AllOf(staticSlots), 1, watermark)
        /\ Static!Late = Part(AllOf(staticSlots), watermark, staticNextId)
        /\ Static!Subs' = Part(AllOf(staticSlots'), 1, watermark)
        /\ Static!Late' = Part(AllOf(staticSlots'), watermark, staticNextId)
    BY <1>1, <2>3, StaticSeenBoth
  <2>5. Static!Subs' = Static!Contract!Without(Static!Subs, ids)
    BY <2>1, <2>4 DEF Part, Static!Contract!Without
  <2>6. Static!Late' = Static!Late
    <3>1. s.id < watermark /\ s.id \in Nat /\ watermark \in Nat
      BY <1>0, <1>2, StaticSubIs, StaticFacts
    <3>2. \A x \in AllOf(staticSlots) : x.id >= watermark => x.id \notin ids
      BY <3>1, StaticSeenIds
    <3> QED BY <2>1, <2>4, <3>2 DEF Part, Static!Contract!Without
  <2> QED BY <1>7, <2>5, <2>6
<1> DEFINE Now == IF s.once THEN Static!Contract!NoLongerOwed({s.id}) ELSE Static!Emits
<1>9. DOMAIN Now = 1..t
  <2>1. DOMAIN Static!Contract!NoLongerOwed({s.id}) = 1..t
    BY <1>5 DEF Static!Contract!NoLongerOwed
  <2> QED BY <1>5, <2>1
<1>10. ASSUME NEW k \in 1..t, k # t
       PROVE  Now[k] = [running |-> staticFrames'[k].id, owed |-> StaticOwed(k)']
  <2>1. staticFrames'[k] = staticFrames[k]
    BY <1>2, <1>10
  <2>2. Static!Emits[k] = [running |-> staticFrames[k].id, owed |-> StaticOwed(k)]
    BY <1>5
  <2>3. StaticOwed(k)' = Static!Contract!Without(StaticOwed(k), ids)
    BY <1>0, <1>1, <1>2, <1>3, <2>1, StaticMarkedOwed
  <2>4. CASE ~s.once
    BY <1>7, <2>1, <2>2, <2>3, <2>4
  <2>5. CASE s.once
    <3>1. Now = Static!Contract!NoLongerOwed({s.id})
      BY <2>5
    <3>2. Now[k] = [Static!Emits[k] EXCEPT !.owed = Static!Contract!Without(Static!Emits[k].owed, {s.id})]
      BY <1>5, <3>1 DEF Static!Contract!NoLongerOwed
    <3>3. Static!Emits[k].owed = StaticOwed(k) /\ ids = {s.id}
      BY <2>2, <2>5
    <3> QED BY <2>1, <2>2, <2>3, <3>2, <3>3
  <2> QED BY <2>4, <2>5
<1>11. Static!Emits' = [Now EXCEPT ![t] = [running |-> s.id, owed |-> Static!Emits[t].owed \ {s}]]
  <2>1. Static!Emits' = [k \in 1..t |-> [running |-> staticFrames'[k].id, owed |-> StaticOwed(k)']]
    BY <1>2 DEF Static!Emits, Static!Owed, StaticOwed
  <2> PICK b, w : b = [running |-> s.id, owed |-> Static!Emits[t].owed \ {s}] /\ w = Now
    OBVIOUS
  <2>2. [w EXCEPT ![t] = b] = [k \in 1..t |-> IF k = t THEN b ELSE w[k]]
    BY <1>9
  <2>3. \A k \in 1..t : [running |-> staticFrames'[k].id, owed |-> StaticOwed(k)'] = IF k = t THEN b ELSE w[k]
    BY <1>2, <1>4, <1>6, <1>10
  <2> QED BY <2>1, <2>2, <2>3
<1>12. Static!Contract!Call(s)
  BY <1>1, <1>4, <1>5, <1>6, <1>8, <1>11 DEF Static!Contract!Call
<1> QED BY <1>12


LEMMA StaticEmitEndRefines ==
  ASSUME StaticInv, StaticInv', Static!EmitEnd
  PROVE  Static!Contract!EmitEnd
<1>0. StaticTyped /\ StaticWalking
  BY DEF StaticInv
<1>1. /\ Static!Emitting /\ Static!Remaining = {} /\ staticFrames' = Static!Front(staticFrames)
      /\ IF Static!Top = 1 THEN Static!SortAndSweep
                           ELSE staticSlots' = Static!Returned /\ UNCHANGED dirty
      /\ UNCHANGED <<staticNextId, staticBlocked, watermark>>
  BY DEF Static!EmitEnd
<1> PICK t \in Nat \ {0} : t = Static!Top
  BY <1>0, <1>1, StaticLeft
<1>2. /\ Len(staticFrames) = t /\ Len(staticFrames') = t - 1
      /\ \A k \in 1..(t - 1) : staticFrames'[k] = staticFrames[k]
      /\ staticFrames' = << >> <=> t = 1
  BY <1>0, <1>1, StaticLeft
<1>3. staticFrames \in Seq(StaticFrame) /\ watermark \in Nat /\ watermark <= staticNextId /\ staticNextId \in Nat
  BY <1>0, StaticFacts DEF StaticTyped
<1>4. /\ Len(Static!Emits) = t /\ Static!Emits # << >>
      /\ \A k \in 1..t : Static!Emits[k] = [running |-> staticFrames[k].id, owed |-> StaticOwed(k)]
  BY <1>1, <1>2, <1>3, StaticEmitsAre DEF Static!Emitting
<1>5. Static!Emits[t].owed = {}
  <2>1. Static!Emits[t] = [running |-> staticFrames[t].id, owed |-> StaticOwed(t)]
    BY <1>4
  <2>2. StaticOwed(t) = {}
    BY <1>1 DEF StaticOwed, Static!Remaining
  <2> QED BY <2>1, <2>2
<1> PICK r : r = Static!Returned
  OBVIOUS
<1>6. /\ SameStatic(staticSlots, r)
      /\ \A j \in 1..Len(staticSlots) :
           r[j].alive <=> (staticSlots[j].alive /\ staticSlots[j].id \notin {})
  BY <1>0, <1>1, StaticReturned
<1>7. \A S : Static!Contract!Without(S, {}) = S
  BY DEF Static!Contract!Without
<1>8. AllOf(r) = AllOf(staticSlots)
  BY <1>6, <1>7, StaticMarkedAll
<1>9. /\ Static!Subs = Part(AllOf(staticSlots), 1, watermark)
      /\ Static!Late = Part(AllOf(staticSlots), watermark, staticNextId)
      /\ Static!Subs' = Part(AllOf(staticSlots'), 1, Bar')
      /\ Static!Late' = Part(AllOf(staticSlots'), Bar', staticNextId)
  <2>1. Bar = watermark
    BY <1>1 DEF Bar
  <2> QED BY <1>1, <2>1, StaticSeenBoth
<1>10. CASE t = 1
  <2>1. Entries(staticSlots') = {e \in Entries(r) : e.alive}
    BY <1>1, <1>10, StaticSwept
  <2>2. AllOf(staticSlots') = AllOf(staticSlots)
    <3>1. AllOf(staticSlots') = AllOf(r)
      BY <2>1 DEF AllOf
    <3> QED BY <1>8, <3>1
  <2>3. Bar' = staticNextId
    BY <1>1, <1>2, <1>10 DEF Bar, Static!Emitting
  <2>4. \A x \in AllOf(staticSlots) : x.id \in Nat /\ x.id >= 1 /\ x.id < staticNextId
    BY StaticSeenIds
  <2>5. Static!Subs' = Static!Subs \cup Static!Late
    <3>1. Part(AllOf(staticSlots), 1, staticNextId)
            = Part(AllOf(staticSlots), 1, watermark) \cup Part(AllOf(staticSlots), watermark, staticNextId)
      BY <1>3, <2>4 DEF Part
    <3> QED BY <1>9, <2>2, <2>3, <3>1
  <2>6. Static!Late' = {}
    <3>1. Part(AllOf(staticSlots), staticNextId, staticNextId) = {}
      BY <1>3, <2>4 DEF Part
    <3> QED BY <1>9, <2>2, <2>3, <3>1
  <2>7. Static!Emits' = SubSeq(Static!Emits, 1, t - 1)
    <3>1. Static!Emits' = << >>
      BY <1>2, <1>10, StaticNoEmits
    <3>2. SubSeq(Static!Emits, 1, t - 1) = << >>
      BY <1>10, SubSeqEmpty
    <3> QED BY <3>1, <3>2
  <2> QED BY <1>1, <1>4, <1>5, <1>10, <2>5, <2>6, <2>7 DEF Static!Contract!EmitEnd
<1>11. CASE t # 1
  <2> PICK m \in Nat : m = t - 1
    OBVIOUS
  <2>1. staticSlots' = r
    BY <1>1, <1>11
  <2>2. Static!Emitting' /\ Bar' = watermark
    BY <1>1, <1>2, <1>11 DEF Bar, Static!Emitting
  <2>3. Static!Subs' = Static!Subs /\ Static!Late' = Static!Late
    BY <1>8, <1>9, <2>1, <2>2
  <2>4. \A k \in 1..m : StaticOwed(k)' = StaticOwed(k)
    <3> TAKE k \in 1..m
    <3>1. k \in 1..Len(staticFrames) /\ staticFrames'[k] = staticFrames[k]
      BY <1>2
    <3>2. /\ SameStatic(staticSlots, staticSlots')
          /\ \A j \in 1..Len(staticSlots) :
               staticSlots'[j].alive <=> (staticSlots[j].alive /\ staticSlots[j].id \notin {})
      BY <1>6, <2>1
    <3>3. StaticOwed(k)' = Static!Contract!Without(StaticOwed(k), {})
      BY <1>0, <1>1, <3>1, <3>2, StaticMarkedOwed
    <3> QED BY <1>7, <3>3
  <2>5. Static!Emits' = [k \in 1..m |-> [running |-> staticFrames'[k].id, owed |-> StaticOwed(k)']]
    BY <1>2 DEF Static!Emits, Static!Owed, StaticOwed
  <2>6. \A k \in 1..m : [running |-> staticFrames'[k].id, owed |-> StaticOwed(k)'] = Static!Emits[k]
    <3>1. \A k \in 1..m : k \in 1..t
      OBVIOUS
    <3> QED BY <1>2, <1>4, <2>4, <3>1
  <2>7. PICK S : Static!Emits \in Seq(S)
    BY <1>3, StaticEmitsAre
  <2> PICK E : E = Static!Emits
    OBVIOUS
  <2>8. \A k \in 1..m : E[k] \in S
    <3>1. E \in Seq(S) /\ Len(E) = t
      BY <1>4, <2>7
    <3>2. \A k \in 1..m : k \in 1..Len(E)
      BY <3>1
    <3> QED BY <3>1, <3>2, ElementOfSeq
  <2>9. /\ SubSeq(E, 1, m) \in Seq(S)
        /\ Len(SubSeq(E, 1, m)) = IF 1 <= m THEN m - 1 + 1 ELSE 0
        /\ \A k \in 1..(m - 1 + 1) : SubSeq(E, 1, m)[k] = E[1 + k - 1]
    BY <2>8, SubSeqProperties
  <2>10. m - 1 + 1 = m /\ \A k \in 1..m : 1 + k - 1 = k
    OBVIOUS
  <2>11. /\ SubSeq(E, 1, m) \in Seq(S) /\ Len(SubSeq(E, 1, m)) = m
         /\ \A k \in 1..m : SubSeq(E, 1, m)[k] = E[k]
    BY <2>9, <2>10
  <2>12. SubSeq(E, 1, m) = [k \in 1..m |-> SubSeq(E, 1, m)[k]]
    BY <2>11, LenProperties
  <2>13. Static!Emits' = SubSeq(Static!Emits, 1, t - 1)
    BY <2>5, <2>6, <2>11, <2>12
  <2> QED BY <1>1, <1>4, <1>5, <1>11, <2>3, <2>13 DEF Static!Contract!EmitEnd
<1> QED BY <1>10, <1>11

LEMMA StaticStepRefines ==
  StaticInv /\ StaticInv' /\ [Static!Next]_(Static!vars)
    => [Static!Contract!Next]_(Static!Contract!vars)
<1> SUFFICES ASSUME StaticInv, StaticInv', [Static!Next]_(Static!vars)
             PROVE  Static!Contract!Next \/ UNCHANGED Static!Contract!vars
  OBVIOUS
<1>0. StaticTyped /\ StaticWalking
  BY DEF StaticInv
<1>1. ASSUME NEW p \in Priorities, NEW once \in BOOLEAN, Static!Connect(p, once)
      PROVE  Static!Contract!Next
  <2>1. Static!Contract!Connect(p, once)
    BY <1>1, StaticConnectRefines DEF Static!Connect
  <2> QED BY <2>1 DEF Static!Contract!Next
<1>2. ASSUME NEW p \in Priorities, Static!ConnectTracked(p)
      PROVE  Static!Contract!Next \/ UNCHANGED Static!Contract!vars
  <2>1. /\ Static!UserRuns /\ staticNextId <= MaxStaticConnects
        /\ IF Static!Refused
           THEN UNCHANGED <<staticSlots, dirty, staticNextId>>
           ELSE Static!Store(Static!Entry(p, FALSE)) /\ staticNextId' = staticNextId + 1
        /\ UNCHANGED <<staticBlocked, watermark, staticFrames>>
    BY <1>2 DEF Static!ConnectTracked
  <2>2. CASE Static!Refused
    BY <2>1, <2>2, StaticSeenKept
  <2>3. CASE ~Static!Refused
    <3>1. Static!Contract!Connect(p, FALSE)
      BY <2>1, <2>3, StaticConnectRefines
    <3> QED BY <3>1 DEF Static!Contract!Next
  <2> QED BY <2>2, <2>3
<1>3. ASSUME NEW handles, Static!Contract!Disconnect(handles \cap Static!Ids)
      PROVE  Static!Contract!Next
  <2>1. handles \cap Static!Ids \in SUBSET Static!Contract!Ids
    BY DEF Static!Contract!Ids, Static!Ids
  <2> QED BY <1>3, <2>1 DEF Static!Contract!Next
<1>4. ASSUME NEW id \in Static!Ids, Static!Disconnect(id) PROVE Static!Contract!Next
  <2>1. Static!Contract!Disconnect({id} \cap Static!Ids)
    BY <1>4, StaticDisconnectRefines DEF Static!Disconnect
  <2> QED BY <1>3, <2>1
<1>5. ASSUME Static!ClearTracked PROVE Static!Contract!Next
  <2>1. Static!Contract!Disconnect(Static!Range(staticTracked) \cap Static!Ids)
    BY <1>5, StaticDisconnectRefines DEF Static!ClearTracked
  <2> QED BY <1>3, <2>1
<1>6. ASSUME Static!DisconnectAll PROVE Static!Contract!Next
  <2>1. Static!Contract!Disconnect(Static!Ids)
    BY <1>6, StaticDisconnectAllRefines
  <2>2. Static!Ids \in SUBSET Static!Contract!Ids
    BY DEF Static!Contract!Ids, Static!Ids
  <2> QED BY <2>1, <2>2 DEF Static!Contract!Next
<1>7. ASSUME NEW b \in BOOLEAN, Static!SetBlocked(b) PROVE Static!Contract!Next
  <2>1. /\ Static!UserRuns /\ staticBlocked' = b
        /\ UNCHANGED <<staticSlots, staticNextId, watermark, staticFrames>>
    BY <1>7 DEF Static!SetBlocked
  <2>2. Static!Emits' = Static!Emits
    BY <2>1 DEF Static!Emits, Static!Owed
  <2>3. Static!Subs' = Static!Subs /\ Static!Late' = Static!Late
    BY <2>1 DEF Static!Subs, Static!Late, Static!AliveFrom, Static!Emitting, Static!Range
  <2>4. Static!Contract!UserRuns
    BY <1>0, <2>1, StaticUserMayCall
  <2>5. Static!Contract!SetBlocked(b)
    BY <2>1, <2>2, <2>3, <2>4 DEF Static!Contract!SetBlocked
  <2> QED BY <2>5 DEF Static!Contract!Next
<1>8. ASSUME Static!EmitBegin PROVE Static!Contract!Next
  BY <1>8, StaticEmitBeginRefines DEF Static!Contract!Next
<1>9. ASSUME NEW j \in 1..Len(staticSlots), Static!Visit(j) PROVE Static!Contract!Next
  <2>1. Static!Contract!Call(Static!Sub(staticSlots[j]))
    BY <1>9, StaticVisitRefines
  <2>2. staticSlots[j] \in Static!SlotEntry
    BY <1>0, StaticFacts
  <2>3. Static!Sub(staticSlots[j]) \in Static!Contract!Subscription
    BY <2>2 DEF Static!Sub, Static!SlotEntry, Static!Ids, Static!Contract!Subscription, Static!Contract!Ids
  <2> QED BY <2>1, <2>3 DEF Static!Contract!Next
<1>10. ASSUME Static!EmitEnd PROVE Static!Contract!Next
  BY <1>10, StaticEmitEndRefines DEF Static!Contract!Next
<1>11. ASSUME UNCHANGED Static!vars PROVE UNCHANGED Static!Contract!vars
  BY <1>11, StaticSeenKept DEF Static!vars
<1> QED BY <1>1, <1>2, <1>4, <1>5, <1>6, <1>7, <1>8, <1>9, <1>10, <1>11 DEF Static!Next

\* The static signal keeps its contract: an emit calls exactly the slots that were connected
\* when the outermost one began and were not disconnected since, each once and by priority,
\* whatever the slots do to the signal, and whichever dead entries are reused meanwhile.
THEOREM StaticImplementsTheContract == MCSpec => StaticImplementsContract
<1>1. Static!Init => Static!Contract!Init
  <2> SUFFICES ASSUME Static!Init PROVE Static!Contract!Init
    OBVIOUS
  <2>1. /\ staticSlots = << >> /\ staticNextId = 1 /\ staticBlocked = FALSE /\ staticFrames = << >>
    BY DEF Static!Init
  <2>2. Static!Emits = << >>
    BY <2>1, StaticNoEmits
  <2>3. AllOf(staticSlots) = {}
    <3>1. Len(staticSlots) = 0
      BY <2>1
    <3> QED BY <3>1, AllOfIs
  <2>4. Static!Subs = {} /\ Static!Late = {}
    BY <2>3, StaticInitial, StaticSeen DEF Part
  <2>5. staticNextId - 1 = 0
    BY <2>1
  <2> QED BY <2>1, <2>2, <2>4, <2>5 DEF Static!Contract!Init
<1> QED BY <1>1, StaticStepRefines, StaticAlone, StaticInvariantHolds, PTL
        DEF Static!Spec, StaticImplementsContract, Static!ImplementsContract, Static!Contract!Spec
=============================================================================
