---------------------------- MODULE StoresProofs ----------------------------
(***************************************************************************)
(* Proofs about SlotMap and EcsView with the pools under it, for any       *)
(* number of slots, elements and generations, any set of keys and any      *)
(* include and exclude storages.  The two share no state: what they have   *)
(* in common is that vacant slots wait on a list to be used again.         *)
(***************************************************************************)
EXTENDS EcsView, FiniteSetTheorems, SequenceTheorems, NaturalsInduction, WellFoundedInduction,
        TLAPS

CONSTANTS MaxSlots, MaxElements, Generations
VARIABLES values, generations, free, size, issued

Map == INSTANCE SlotMap

-----------------------------------------------------------------------------
(***************************************************************************)
(* Lists without repetition: both stores keep their vacant slots on one.   *)
(***************************************************************************)
Entries(s) == {s[i] : i \in 1..Len(s)}
Distinct(s) == \A i, j \in 1..Len(s) : s[i] = s[j] => i = j

\* The forms the models write them in.
LEMMA ListForms ==
  ASSUME NEW S, NEW s \in Seq(S)
  PROVE  /\ Ext!ToSet(s) = Entries(s) /\ Map!Ext!ToSet(s) = Entries(s)
         /\ Ext!IsInjective(s) <=> Distinct(s)
         /\ Map!Ext!IsInjective(s) <=> Distinct(s)
         /\ Entries(s) \subseteq S
<1>1. DOMAIN s = 1..Len(s) /\ \A i \in 1..Len(s) : s[i] \in S
  BY LenProperties, ElementOfSeq
<1> QED BY <1>1 DEF Ext!ToSet, Map!Ext!ToSet, Ext!IsInjective, Map!Ext!IsInjective, Entries, Distinct

\* A function on an interval is a list, and a list has the type of its entries.
LEMMA ListOf ==
  ASSUME NEW S, NEW n \in Nat, NEW f \in [1..n -> S]
  PROVE  f \in Seq(S) /\ Len(f) = n
OBVIOUS

LEMMA Retyped ==
  ASSUME NEW S, NEW T, NEW s \in Seq(S), \A i \in 1..Len(s) : s[i] \in T
  PROVE  s \in Seq(T)
<1>1. Len(s) \in Nat /\ s = [i \in 1..Len(s) |-> s[i]]
  BY LenProperties
<1>2. s \in [1..Len(s) -> T]
  BY <1>1
<1> QED BY <1>1, <1>2, ListOf

\* How many slots there are.
LEMMA UpToCount ==
  ASSUME NEW n \in Nat
  PROVE  IsFiniteSet(1..n) /\ Cardinality(1..n) = n
<1>1. 1 \in Int /\ n \in Int
  OBVIOUS
<1>2. IsFiniteSet(1..n) /\ Cardinality(1..n) = IF 1 > n THEN 0 ELSE n - 1 + 1
  BY <1>1, FS_Interval
<1>3. (IF 1 > n THEN 0 ELSE n - 1 + 1) = n
  OBVIOUS
<1> QED BY <1>2, <1>3

LEMMA NoEntries == Entries(<< >>) = {} /\ Distinct(<< >>)
<1>1. Len(<< >>) = 0
  OBVIOUS
<1> QED BY <1>1 DEF Entries, Distinct

\* A slot is vacated and goes on top.
LEMMA EntryAdded ==
  ASSUME NEW S, NEW s \in Seq(S), NEW e \in S, e \notin Entries(s), Distinct(s)
  PROVE  /\ Append(s, e) \in Seq(S) /\ Distinct(Append(s, e))
         /\ Entries(Append(s, e)) = Entries(s) \cup {e}
<1> DEFINE n == Len(s)
           t == Append(s, e)
<1>1. /\ t \in Seq(S) /\ n \in Nat /\ Len(t) = n + 1
      /\ \A i \in 1..n : t[i] = s[i]
      /\ t[n + 1] = e
  BY AppendProperties, LenProperties
<1>2. \A i \in 1..n : s[i] # e
  BY DEF Entries
<1>3. \A i, j \in 1..n : s[i] = s[j] => i = j
  BY DEF Distinct
<1>4. Entries(s) = {s[i] : i \in 1..n} /\ Entries(t) = {t[i] : i \in 1..Len(t)}
  BY DEF Entries
<1>5. Distinct(t) <=> \A i, j \in 1..Len(t) : t[i] = t[j] => i = j
  BY DEF Distinct
<1> HIDE DEF n, t
<1>6. 1..(n + 1) = (1..n) \cup {n + 1}
  BY <1>1
<1>7. Entries(t) = Entries(s) \cup {e}
  BY <1>1, <1>4, <1>6
<1>8. \A i, j \in 1..(n + 1) : t[i] = t[j] => i = j
  BY <1>1, <1>2, <1>3, <1>6
<1> QED BY <1>1, <1>5, <1>7, <1>8 DEF t

\* The slot on top is taken.
LEMMA EntryTaken ==
  ASSUME NEW S, NEW s \in Seq(S), s # << >>, Distinct(s)
  PROVE  /\ Ext!Front(s) \in Seq(S) /\ Distinct(Ext!Front(s))
         /\ Ext!Last(s) \in Entries(s) /\ Ext!Last(s) \in S
         /\ Entries(Ext!Front(s)) = Entries(s) \ {Ext!Last(s)}
<1> DEFINE n == Len(s)
           t == SubSeq(s, 1, n - 1)
<1>1. n \in Nat /\ n # 0 /\ \A i \in 1..n : s[i] \in S
  BY EmptySeq, LenProperties, ElementOfSeq
<1>2. t \in Seq(S) /\ Len(t) = n - 1 /\ \A i \in 1..(n - 1) : t[i] = s[i]
  <2>1. \A i \in 1..(n - 1) : s[i] \in S
    BY <1>1
  <2>2. /\ SubSeq(s, 1, n - 1) \in Seq(S)
        /\ Len(SubSeq(s, 1, n - 1)) = IF 1 <= n - 1 THEN (n - 1) - 1 + 1 ELSE 0
        /\ \A k \in 1..((n - 1) - 1 + 1) : SubSeq(s, 1, n - 1)[k] = s[1 + k - 1]
    BY <1>1, <2>1, SubSeqProperties
  <2>3. (n - 1) - 1 + 1 = n - 1 /\ \A k \in 1..(n - 1) : 1 + k - 1 = k
    BY <1>1
  <2> QED BY <1>1, <2>2, <2>3
<1>3. \A i, j \in 1..n : s[i] = s[j] => i = j
  BY DEF Distinct
<1>4. Entries(s) = {s[i] : i \in 1..n} /\ Entries(t) = {t[i] : i \in 1..Len(t)}
  BY DEF Entries
<1>5. Distinct(t) <=> \A i, j \in 1..Len(t) : t[i] = t[j] => i = j
  BY DEF Distinct
<1>6. Ext!Front(s) = t /\ Ext!Last(s) = s[n]
  BY DEF Ext!Front, Ext!Last
<1> HIDE DEF n, t
<1>7. 1..n = (1..(n - 1)) \cup {n} /\ n \notin 1..(n - 1)
  BY <1>1
<1>8. Entries(t) = {s[i] : i \in 1..(n - 1)}
  BY <1>2, <1>4
<1>9. Entries(t) = Entries(s) \ {s[n]}
  <2>1. n \in 1..n /\ \A i \in 1..(n - 1) : i \in 1..n /\ s[i] # s[n]
    BY <1>1, <1>3, <1>7
  <2> QED BY <1>4, <1>7, <1>8, <2>1
<1>10. \A i, j \in 1..(n - 1) : t[i] = t[j] => i = j
  BY <1>2, <1>3, <1>7
<1>11. s[n] \in S /\ s[n] \in Entries(s)
  BY <1>1, <1>4
<1> QED BY <1>2, <1>5, <1>6, <1>9, <1>10, <1>11

\* Every slot, the first on top.
LEMMA AllReversed ==
  ASSUME NEW n \in Nat, NEW r, r = [i \in 1..n |-> (n - i) + 1]
  PROVE  r \in Seq(1..n) /\ Distinct(r) /\ Entries(r) = 1..n
<1>1. r \in [1..n -> 1..n]
  OBVIOUS
<1>2. r \in Seq(1..n) /\ Len(r) = n
  BY <1>1, LenProperties
<1>3. Distinct(r)
  BY <1>2 DEF Distinct
<1>4. \A k \in 1..n : (n - k) + 1 \in 1..n /\ r[(n - k) + 1] = k
  OBVIOUS
<1>5. Entries(r) = 1..n
  BY <1>1, <1>2, <1>4 DEF Entries
<1> QED BY <1>2, <1>3, <1>5

-----------------------------------------------------------------------------
(***************************************************************************)
(* slot_map: the inductive invariant.                                      *)
(***************************************************************************)

\* The generation k bumps after g, for less than a whole cycle.
Turned(g, k) == IF g + k < Generations THEN g + k ELSE g + k - (Generations - 1)

After(n) == Cardinality(Map!Successors(n))
At(n) == issued[n].index
Bumps(n) == IF values[At(n)] = Map!Vacant THEN After(n) + 1 ELSE After(n)
Occupied == {i \in Map!Slots : values[i] # Map!Vacant}
Unoccupied == {i \in Map!Slots : values[i] = Map!Vacant}

MapTyped ==
  /\ values \in Seq(Nat) /\ Len(values) <= MaxSlots
  /\ generations \in Seq(1..Generations - 1) /\ Len(generations) = Len(values)
  /\ free \in Seq(Map!Slots)
  /\ issued \in Seq([index : Nat, generation : 1..Generations - 1]) /\ Len(issued) <= MaxElements
  /\ \A n \in 1..Len(issued) : At(n) \in Map!Slots

\* size and the free list say which slots are vacant.
Vacancies ==
  /\ size = Cardinality(Occupied)
  /\ Distinct(free) /\ Entries(free) = Unoccupied

\* An element in the map is the last that was put into its slot.
Latest ==
  \A i \in Occupied : /\ values[i] \in 1..Len(issued)
                      /\ issued[values[i]].index = i
                      /\ \A m \in 1..Len(issued) : m > values[i] => At(m) # i

\* A slot was bumped once for every element since, and for the vacancy if it is vacant.
Cycled ==
  \A n \in 1..Len(issued) :
    After(n) < Generations - 1 => generations[At(n)] = Turned(issued[n].generation, Bumps(n))

MapInv == MapTyped /\ Vacancies /\ Latest /\ Cycled

\* One more bump.
LEMMA BumpTurns ==
  ASSUME Map!SlotMapAssumption, NEW g \in 1..Generations - 1
  PROVE  /\ Map!Bumped(g) \in 1..Generations - 1
         /\ Turned(g, 0) = g
         /\ \A k \in Nat : k < Generations - 1 =>
              /\ Turned(g, k) \in 1..Generations - 1
              /\ Map!Bumped(Turned(g, k)) = Turned(g, k + 1)
              /\ k # 0 => Turned(g, k) # g
<1>1. Generations \in Nat /\ Generations > 1
  BY DEF Map!SlotMapAssumption
<1>2. ASSUME NEW x \in 1..Generations - 1
      PROVE  Map!Bumped(x) = IF x + 1 = Generations THEN 1 ELSE x + 1
  <2>1. CASE x + 1 = Generations
    <3>1. (x + 1) % Generations = 0
      BY <1>1, <2>1
    <3> QED BY <2>1, <3>1 DEF Map!Bumped, Map!NullGeneration, Map!FirstGeneration
  <2>2. CASE x + 1 # Generations
    <3>1. (x + 1) % Generations = x + 1 /\ x + 1 # 0
      BY <1>1, <2>2
    <3> QED BY <2>2, <3>1 DEF Map!Bumped, Map!NullGeneration, Map!FirstGeneration
  <2> QED BY <2>1, <2>2
<1>3. Map!Bumped(g) \in 1..Generations - 1 /\ Turned(g, 0) = g
  BY <1>1, <1>2 DEF Turned
<1>4. ASSUME NEW k \in Nat, k < Generations - 1
      PROVE  /\ Turned(g, k) \in 1..Generations - 1
             /\ Map!Bumped(Turned(g, k)) = Turned(g, k + 1)
             /\ k # 0 => Turned(g, k) # g
  <2>1. Turned(g, k) \in 1..Generations - 1 /\ (k # 0 => Turned(g, k) # g)
    BY <1>1, <1>4 DEF Turned
  <2>2. Map!Bumped(Turned(g, k))
          = IF Turned(g, k) + 1 = Generations THEN 1 ELSE Turned(g, k) + 1
    BY <1>2, <2>1
  <2>3. Turned(g, k + 1) = IF Turned(g, k) + 1 = Generations THEN 1 ELSE Turned(g, k) + 1
    BY <1>1, <1>4 DEF Turned
  <2> QED BY <2>1, <2>2, <2>3
<1> QED BY <1>3, <1>4

-----------------------------------------------------------------------------
(***************************************************************************)
(* slot_map: the steps.                                                    *)
(***************************************************************************)
MapKeys == [index : Nat, generation : 1..Generations - 1]

LEMMA SuccessorsFinite ==
  ASSUME MapInv, NEW n \in 1..Len(issued)
  PROVE  IsFiniteSet(Map!Successors(n)) /\ After(n) \in Nat
<1>1. Len(issued) \in Nat
  BY LenProperties DEF MapInv, MapTyped
<1>2. IsFiniteSet(n + 1 .. Len(issued))
  BY <1>1, FS_Interval
<1>3. Map!Successors(n) \subseteq n + 1 .. Len(issued)
  BY DEF Map!Successors
<1>4. IsFiniteSet(Map!Successors(n))
  BY <1>2, <1>3, FS_Subset
<1> QED BY <1>4, FS_CardinalityType DEF After

LEMMA OccupiedFinite ==
  ASSUME MapInv
  PROVE  /\ Len(values) \in Nat /\ Occupied \subseteq 1..Len(values) /\ IsFiniteSet(Occupied)
         /\ Cardinality(Occupied) \in 0..Len(values)
<1>1. Len(values) \in Nat
  BY LenProperties DEF MapInv, MapTyped
<1>2. IsFiniteSet(1..Len(values)) /\ Cardinality(1..Len(values)) = Len(values)
  BY <1>1, UpToCount
<1>3. Occupied \subseteq 1..Len(values)
  BY DEF Occupied, Map!Slots
<1>4. IsFiniteSet(Occupied) /\ Cardinality(Occupied) <= Cardinality(1..Len(values))
  BY <1>2, <1>3, FS_Subset
<1>5. Cardinality(Occupied) \in Nat
  BY <1>4, FS_CardinalityType
<1> QED BY <1>1, <1>2, <1>3, <1>4, <1>5

\* A key is returned for a new element.
LEMMA KeyIssued ==
  ASSUME MapInv, NEW k \in MapKeys, issued' = Append(issued, k)
  PROVE  /\ issued' \in Seq(MapKeys) /\ Len(issued) \in Nat /\ Len(issued') = Len(issued) + 1
         /\ \A n \in 1..Len(issued) :
              /\ issued'[n] = issued[n]
              /\ At(n)' = At(n)
              /\ After(n)' = IF k.index = At(n) THEN After(n) + 1 ELSE After(n)
         /\ \A n \in 1..Len(issued') : n > Len(issued) =>
              n = Len(issued) + 1 /\ issued'[n] = k /\ At(n)' = k.index /\ After(n)' = 0
<1> DEFINE m == Len(issued)
<1>1. /\ issued' \in Seq(MapKeys) /\ m \in Nat /\ Len(issued') = m + 1
      /\ \A n \in 1..m : issued'[n] = issued[n]
      /\ issued'[m + 1] = k
  BY AppendProperties, LenProperties DEF MapInv, MapTyped, MapKeys
<1>2. \A n : /\ Map!Successors(n) = {j \in n + 1 .. m : issued[j].index = issued[n].index}
             /\ Map!Successors(n)' = {j \in n + 1 .. m + 1 : issued'[j].index = issued'[n].index}
  BY <1>1 DEF Map!Successors
<1> HIDE DEF m
<1>3. ASSUME NEW n \in 1..m
      PROVE  /\ At(n)' = At(n)
             /\ After(n)' = IF k.index = At(n) THEN After(n) + 1 ELSE After(n)
  <2>1. At(n)' = At(n)
    BY <1>1 DEF At
  <2>2. n + 1 .. m + 1 = (n + 1 .. m) \cup {m + 1} /\ m + 1 \notin n + 1 .. m
    BY <1>1
  <2>3. \A j \in n + 1 .. m : issued'[j] = issued[j]
    BY <1>1
  <2>4. IsFiniteSet(Map!Successors(n)) /\ m + 1 \notin Map!Successors(n)
    BY <1>2, <2>2, SuccessorsFinite DEF m
  <2>5. CASE k.index = At(n)
    <3>1. Map!Successors(n)' = Map!Successors(n) \cup {m + 1}
      BY <1>1, <1>2, <2>2, <2>3, <2>5 DEF At
    <3>2. Cardinality(Map!Successors(n) \cup {m + 1}) = Cardinality(Map!Successors(n)) + 1
      BY <2>4, FS_AddElement
    <3> QED BY <2>1, <2>5, <3>1, <3>2 DEF After
  <2>6. CASE k.index # At(n)
    <3>1. Map!Successors(n)' = Map!Successors(n)
      BY <1>1, <1>2, <2>2, <2>3, <2>6 DEF At
    <3> QED BY <2>1, <2>6, <3>1 DEF After
  <2> QED BY <2>1, <2>5, <2>6
<1>4. ASSUME NEW n \in 1..m + 1, n > m
      PROVE  n = m + 1 /\ issued'[n] = k /\ At(n)' = k.index /\ After(n)' = 0
  <2>1. n = m + 1
    BY <1>1, <1>4
  <2>2. n + 1 .. m + 1 = {}
    BY <1>1, <2>1
  <2>3. Map!Successors(n)' = {}
    BY <1>2, <2>2
  <2>4. After(n)' = 0
    BY <2>3, FS_EmptySet DEF After
  <2> QED BY <1>1, <2>1, <2>4 DEF At
<1> QED BY <1>1, <1>3, <1>4 DEF m

\* An element is put into a vacant slot or a new one.
LEMMA ElementPlaced ==
  ASSUME Map!SlotMapAssumption, MapInv, NEW i \in Nat, NEW g \in 1..Generations - 1,
         Len(issued) < MaxElements, issued' = Append(issued, [index |-> i, generation |-> g]),
         i \notin Occupied, Map!Slots' = Map!Slots \cup {i},
         values'[i] = Len(issued) + 1, \A j \in Map!Slots : j # i => values'[j] = values[j],
         generations'[i] = g, \A j \in Map!Slots : generations'[j] = generations[j],
         size' = size + 1
  PROVE  /\ issued' \in Seq(MapKeys) /\ Len(issued') <= MaxElements
         /\ \A n \in 1..Len(issued') : At(n)' \in Map!Slots'
         /\ Unoccupied' = Unoccupied \ {i}
         /\ size' = Cardinality(Occupied')
         /\ Latest' /\ Cycled'
<1> DEFINE k == [index |-> i, generation |-> g]
           m == Len(issued)
<1>1. k \in MapKeys
  BY DEF MapKeys
<1>2. /\ issued' \in Seq(MapKeys) /\ m \in Nat /\ Len(issued') = m + 1
      /\ \A n \in 1..m : /\ issued'[n] = issued[n]
                         /\ At(n)' = At(n)
                         /\ After(n)' = IF i = At(n) THEN After(n) + 1 ELSE After(n)
      /\ \A n \in 1..m + 1 : n > m =>
           n = m + 1 /\ issued'[n].generation = g /\ At(n)' = i /\ After(n)' = 0
  <2> DEFINE goal == /\ issued' \in Seq(MapKeys) /\ Len(issued) \in Nat
                     /\ Len(issued') = Len(issued) + 1
                     /\ \A n \in 1..Len(issued) :
                          /\ issued'[n] = issued[n]
                          /\ At(n)' = At(n)
                          /\ After(n)' = IF k.index = At(n) THEN After(n) + 1 ELSE After(n)
                     /\ \A n \in 1..Len(issued') : n > Len(issued) =>
                          n = Len(issued) + 1 /\ issued'[n] = k /\ At(n)' = k.index /\ After(n)' = 0
  <2>1. goal
    BY <1>1, KeyIssued
  <2> QED BY <2>1
<1> HIDE DEF k, m
<1>3. /\ \A j \in Occupied : j \in Map!Slots /\ values[j] # Map!Vacant
      /\ \A j \in Map!Slots : j \in Occupied <=> values[j] # Map!Vacant
      /\ \A j \in Map!Slots : j \in Unoccupied <=> values[j] = Map!Vacant
      /\ Occupied \subseteq Map!Slots /\ Unoccupied \subseteq Map!Slots
  BY DEF Occupied, Unoccupied
<1>4. values'[i] = m + 1 /\ m + 1 # Map!Vacant
  BY <1>2 DEF m, Map!Vacant
<1>5. /\ Occupied' = {j \in Map!Slots \cup {i} : values'[j] # Map!Vacant}
      /\ Unoccupied' = {j \in Map!Slots \cup {i} : values'[j] = Map!Vacant}
  BY DEF Occupied, Unoccupied, Map!Vacant
<1>6. Occupied' = Occupied \cup {i} /\ Unoccupied' = Unoccupied \ {i}
  BY <1>3, <1>4, <1>5
<1>7. size' = Cardinality(Occupied')
  <2>1. Cardinality(Occupied \cup {i}) = Cardinality(Occupied) + 1
    BY OccupiedFinite, FS_AddElement
  <2> QED BY <1>6, <2>1 DEF MapInv, Vacancies
<1>8. \A n \in 1..m : At(n) \in Map!Slots
  BY DEF MapInv, MapTyped, m
<1>9. \A n \in 1..m + 1 : n \in 1..m \/ n > m
  BY <1>2
<1>10. ASSUME NEW n \in 1..m + 1 PROVE At(n)' \in Map!Slots'
  BY <1>2, <1>8, <1>9
<1>11. ASSUME NEW j \in Occupied'
       PROVE  /\ values'[j] \in 1..m + 1
              /\ issued'[values'[j]].index = j
              /\ \A n \in 1..m + 1 : n > values'[j] => At(n)' # j
  <2>1. CASE j = i
    <3>1. values'[j] = m + 1 /\ m + 1 \in 1..m + 1 /\ m + 1 > m
      BY <1>2, <1>4, <2>1
    <3>2. \A n \in 1..m + 1 : ~(n > m + 1)
      BY <1>2
    <3>3. issued'[m + 1].index = i
      <4>1. \A n \in 1..m + 1 : n > m => At(n)' = i
        BY <1>2
      <4>2. \A n \in 1..m + 1 : n > m => issued'[n].index = i
        BY <4>1 DEF At
      <4> QED BY <3>1, <4>2
    <3> QED BY <2>1, <3>1, <3>2, <3>3
  <2>2. CASE j # i
    <3>1. j \in Occupied /\ values'[j] = values[j]
      BY <1>3, <1>6, <2>2
    <3>2. /\ values[j] \in 1..m /\ issued[values[j]].index = j
          /\ \A n \in 1..m : n > values[j] => At(n) # j
      BY <3>1 DEF MapInv, Latest, m
    <3>3. issued'[values[j]].index = j /\ values[j] \in 1..m + 1
      BY <1>2, <3>2
    <3>4. \A n \in 1..m + 1 : n > values[j] => At(n)' # j
      BY <1>2, <1>9, <2>2, <3>2
    <3> QED BY <3>1, <3>3, <3>4
  <2> QED BY <2>1, <2>2
<1>12. Latest'
  BY <1>2, <1>11 DEF Latest
<1>13. ASSUME NEW n \in 1..m + 1, After(n)' < Generations - 1
       PROVE  generations'[At(n)'] = Turned(issued'[n].generation, Bumps(n)')
  <2>1. CASE n > m
    <3>1. issued'[n].generation = g /\ At(n)' = i /\ After(n)' = 0
      BY <1>2, <2>1
    <3>2. Bumps(n)' = 0
      BY <1>4, <3>1 DEF Bumps, Map!Vacant
    <3>3. Turned(g, 0) = g
      BY BumpTurns
    <3> QED BY <3>1, <3>2, <3>3
  <2>2. CASE n \in 1..m
    <3>1. /\ issued'[n] = issued[n] /\ At(n)' = At(n) /\ At(n) \in Map!Slots
          /\ After(n)' = IF i = At(n) THEN After(n) + 1 ELSE After(n)
      BY <1>2, <1>8, <2>2
    <3>2. After(n) \in Nat
      BY <2>2, SuccessorsFinite DEF m
    <3>3. generations'[At(n)] = generations[At(n)]
      BY <3>1
    <3>4. Bumps(n)' = Bumps(n)
      <4>1. Bumps(n)' = IF values'[At(n)] = Map!Vacant THEN After(n)' + 1 ELSE After(n)'
        BY <3>1 DEF Bumps, Map!Vacant
      <4>2. CASE i = At(n)
        <5>1. values[At(n)] = Map!Vacant /\ values'[At(n)] # Map!Vacant
          BY <1>3, <1>4, <3>1, <4>2
        <5> QED BY <3>1, <4>1, <4>2, <5>1 DEF Bumps
      <4>3. CASE i # At(n)
        BY <3>1, <4>1, <4>3 DEF Bumps
      <4> QED BY <4>2, <4>3
    <3>5. After(n) < Generations - 1
      <4>1. Generations \in Nat
        BY DEF Map!SlotMapAssumption
      <4>2. After(n) <= After(n)'
        BY <3>1, <3>2
      <4>3. After(n)' \in Nat
        BY <3>1, <3>2
      <4> QED BY <1>13, <3>2, <4>1, <4>2, <4>3
    <3>6. generations[At(n)] = Turned(issued[n].generation, Bumps(n))
      BY <2>2, <3>5 DEF MapInv, Cycled, m
    <3> QED BY <3>1, <3>3, <3>4, <3>6
  <2> QED BY <1>9, <2>1, <2>2
<1>14. Cycled'
  <2>1. ASSUME NEW n \in 1..Len(issued')
        PROVE  After(n)' < Generations - 1
                 => generations'[At(n)'] = Turned(issued'[n].generation, Bumps(n)')
    BY <1>2, <1>13
  <2> QED BY <2>1 DEF Cycled, Turned
<1>15. Len(issued') <= MaxElements
  <2>1. MaxElements \in Nat /\ m < MaxElements
    BY DEF m, Map!SlotMapAssumption
  <2> QED BY <1>2, <2>1
<1>16. \A n \in 1..Len(issued') : At(n)' \in Map!Slots'
  BY <1>2, <1>10
<1> QED BY <1>2, <1>6, <1>7, <1>12, <1>14, <1>15, <1>16

LEMMA MapEmplace == Map!SlotMapAssumption /\ MapInv /\ Map!Emplace => MapInv'
<1> SUFFICES ASSUME Map!SlotMapAssumption, MapInv, Map!Emplace PROVE MapInv'
  OBVIOUS
<1> DEFINE m == Len(issued)
           n == Len(values)
           Key(i, g) == [index |-> i, generation |-> g]
<1>1. /\ values \in Seq(Nat) /\ n \in Nat /\ n <= MaxSlots /\ m \in Nat
      /\ generations \in Seq(1..Generations - 1) /\ Len(generations) = n
      /\ free \in Seq(1..n) /\ Map!Slots = 1..n
      /\ 1 \in 1..Generations - 1 /\ MaxSlots \in Nat
      /\ Distinct(free) /\ Entries(free) = Unoccupied
      /\ Unoccupied = {j \in 1..n : values[j] = 0} /\ Occupied = {j \in 1..n : values[j] # 0}
  BY LenProperties
  DEF MapInv, MapTyped, Vacancies, Map!Slots, Map!SlotMapAssumption, Unoccupied, Occupied, Map!Vacant
<1>2. CASE free # << >>
  <2> DEFINE i == Ext!Last(free)
             g == generations[i]
  <2>1. /\ Map!Ext!Last(free) = i /\ Map!Ext!Front(free) = Ext!Front(free)
    BY DEF Map!Ext!Last, Map!Ext!Front, Ext!Last, Ext!Front
  <2>2. /\ free' = Ext!Front(free) /\ values' = [values EXCEPT ![i] = m + 1]
        /\ m < MaxElements /\ issued' = Append(issued, Key(i, g)) /\ size' = size + 1
        /\ generations' = generations
    BY <1>2, <2>1 DEF Map!Emplace, Map!Issue, Map!NewElement
  <2>3. /\ free' \in Seq(1..n) /\ Distinct(free') /\ i \in Unoccupied
        /\ Entries(free') = Unoccupied \ {i}
    BY <1>1, <1>2, <2>2, EntryTaken
  <2>4. i \in 1..n /\ i \notin Occupied /\ i \in Nat
    BY <1>1, <2>3
  <2>5. g \in 1..Generations - 1
    BY <1>1, <2>4, ElementOfSeq
  <2>6. /\ values' \in Seq(Nat) /\ Len(values') = n /\ values'[i] = m + 1
        /\ \A j \in 1..n : j # i => values'[j] = values[j]
    BY <1>1, <2>2, <2>4, ExceptSeq
  <2>7. Map!Slots' = Map!Slots /\ Map!Slots = Map!Slots \cup {i}
    BY <1>1, <2>4, <2>6 DEF Map!Slots
  <2> HIDE DEF i, g
  <2>8. /\ issued' \in Seq(MapKeys) /\ Len(issued') <= MaxElements
        /\ \A k \in 1..Len(issued') : At(k)' \in Map!Slots'
        /\ Unoccupied' = Unoccupied \ {i}
        /\ size' = Cardinality(Occupied')
        /\ Latest' /\ Cycled'
    <3>1. generations'[i] = g /\ \A j \in Map!Slots : generations'[j] = generations[j]
      BY <2>2 DEF g
    <3>2. \A j \in Map!Slots : j # i => values'[j] = values[j]
      BY <1>1, <2>6
    <3>3. Map!Slots' = Map!Slots \cup {i}
      BY <2>7
    <3> QED BY <2>2, <2>4, <2>5, <2>6, <3>1, <3>2, <3>3, ElementPlaced
  <2>9. MapTyped'
    <3>1. free' \in Seq(Map!Slots') /\ generations' \in Seq(1..Generations - 1)
          /\ Len(generations') = Len(values')
      BY <1>1, <2>2, <2>3, <2>6, <2>7
    <3> QED BY <1>1, <2>6, <2>8, <3>1 DEF MapTyped, MapKeys
  <2>10. Vacancies'
    BY <2>3, <2>8 DEF Vacancies
  <2> QED BY <2>8, <2>9, <2>10 DEF MapInv
<1>3. CASE free = << >>
  <2> DEFINE i == n + 1
  <2>1. /\ n < MaxSlots /\ values' = Append(values, m + 1) /\ generations' = Append(generations, 1)
        /\ m < MaxElements /\ issued' = Append(issued, Key(i, 1)) /\ size' = size + 1
        /\ free' = << >>
    BY <1>3 DEF Map!Emplace, Map!Issue, Map!NewElement, Map!FirstGeneration
  <2>2. /\ values' \in Seq(Nat) /\ Len(values') = i /\ values'[i] = m + 1
        /\ \A j \in 1..n : values'[j] = values[j]
    BY <1>1, <2>1, AppendProperties
  <2>3. /\ generations' \in Seq(1..Generations - 1) /\ Len(generations') = i /\ generations'[i] = 1
        /\ \A j \in 1..n : generations'[j] = generations[j]
    BY <1>1, <2>1, AppendProperties
  <2>4. i \in Nat /\ i \notin 1..n /\ 1..i = 1..n \cup {i} /\ i <= MaxSlots
    BY <1>1, <2>1
  <2>5. Map!Slots' = 1..i
    BY <2>2 DEF Map!Slots
  <2>6. i \notin Occupied /\ i \notin Unoccupied
    BY <1>1, <2>4
  <2> HIDE DEF i
  <2>7. /\ issued' \in Seq(MapKeys) /\ Len(issued') <= MaxElements
        /\ \A k \in 1..Len(issued') : At(k)' \in Map!Slots'
        /\ Unoccupied' = Unoccupied \ {i}
        /\ size' = Cardinality(Occupied')
        /\ Latest' /\ Cycled'
    <3>1. \A j \in Map!Slots : (j # i => values'[j] = values[j]) /\ generations'[j] = generations[j]
      BY <1>1, <2>2, <2>3
    <3>2. Map!Slots' = Map!Slots \cup {i}
      BY <1>1, <2>4, <2>5
    <3> QED BY <1>1, <2>1, <2>2, <2>3, <2>4, <2>6, <3>1, <3>2, ElementPlaced
  <2>8. free' \in Seq(1..i) /\ Distinct(free') /\ Entries(free') = Unoccupied'
    <3>1. Entries(free) = {}
      BY <1>3, NoEntries
    <3>2. Unoccupied' = {}
      BY <1>1, <2>6, <2>7, <3>1
    <3> QED BY <2>1, <3>2, NoEntries, EmptySeq
  <2>9. MapTyped'
    BY <2>2, <2>3, <2>4, <2>5, <2>7, <2>8 DEF MapTyped, MapKeys
  <2>10. Vacancies'
    BY <2>7, <2>8 DEF Vacancies
  <2> QED BY <2>7, <2>9, <2>10 DEF MapInv
<1> QED BY <1>2, <1>3

\* Slots are vacated and bumped.
LEMMA SlotsVacated ==
  ASSUME Map!SlotMapAssumption, MapInv, NEW V \in SUBSET Occupied,
         Map!Slots' = Map!Slots, issued' = issued,
         \A j \in Map!Slots : /\ values'[j] = IF j \in V THEN Map!Vacant ELSE values[j]
                              /\ generations'[j] = IF j \in V THEN Map!Bumped(generations[j])
                                                              ELSE generations[j]
  PROVE  /\ Occupied' = Occupied \ V /\ Unoccupied' = Unoccupied \cup V
         /\ Latest' /\ Cycled'
<1>1. /\ Occupied' = {j \in Map!Slots : values'[j] # Map!Vacant}
      /\ Unoccupied' = {j \in Map!Slots : values'[j] = Map!Vacant}
  BY DEF Occupied, Unoccupied, Map!Vacant
<1>2. Occupied' = Occupied \ V /\ Unoccupied' = Unoccupied \cup V
  BY <1>1 DEF Occupied, Unoccupied
<1>3. \A n : At(n)' = At(n) /\ After(n)' = After(n)
  BY DEF At, After, Map!Successors
<1>4. Latest'
  <2> SUFFICES ASSUME NEW j \in Occupied'
               PROVE  /\ values'[j] \in 1..Len(issued)
                      /\ issued[values'[j]].index = j
                      /\ \A m \in 1..Len(issued) : m > values'[j] => At(m) # j
    BY <1>3 DEF Latest
  <2>1. j \in Occupied /\ values'[j] = values[j]
    BY <1>2 DEF Occupied
  <2> QED BY <2>1 DEF MapInv, Latest
<1>5. Cycled'
  <2> SUFFICES ASSUME NEW n \in 1..Len(issued), After(n) < Generations - 1
               PROVE  generations'[At(n)] = Turned(issued[n].generation, Bumps(n)')
    BY <1>3 DEF Cycled, Turned
  <2>1. At(n) \in Map!Slots /\ issued[n].generation \in 1..Generations - 1 /\ After(n) \in Nat
    <3>1. issued[n] \in MapKeys
      BY ElementOfSeq DEF MapInv, MapTyped, MapKeys
    <3> QED BY <3>1, SuccessorsFinite DEF MapInv, MapTyped, MapKeys
  <2>2. generations[At(n)] = Turned(issued[n].generation, Bumps(n))
    BY DEF MapInv, Cycled
  <2>3. Bumps(n)' = IF values'[At(n)] = Map!Vacant THEN After(n) + 1 ELSE After(n)
    BY <1>3 DEF Bumps, Map!Vacant
  <2>4. CASE At(n) \in V
    <3>1. Bumps(n)' = After(n) + 1 /\ Bumps(n) = After(n)
      BY <2>1, <2>3, <2>4 DEF Bumps, Occupied
    <3>2. Map!Bumped(Turned(issued[n].generation, After(n)))
            = Turned(issued[n].generation, After(n) + 1)
      BY <2>1, BumpTurns
    <3> QED BY <2>1, <2>2, <2>4, <3>1, <3>2
  <2>5. CASE At(n) \notin V
    <3>1. values'[At(n)] = values[At(n)] /\ generations'[At(n)] = generations[At(n)]
      BY <2>1, <2>5
    <3> QED BY <2>2, <2>3, <3>1 DEF Bumps
  <2> QED BY <2>4, <2>5
<1> QED BY <1>2, <1>4, <1>5

LEMMA MapErase ==
  ASSUME Map!SlotMapAssumption, MapInv, NEW k \in 1..Len(issued), Map!Erase(issued[k])
  PROVE  MapInv'
<1> DEFINE n == Len(values)
           i == issued[k].index
<1>1. /\ i \in 1..n /\ values[i] # 0
      /\ values' = [values EXCEPT ![i] = 0]
      /\ generations' = [generations EXCEPT ![i] = Map!Bumped(generations[i])]
      /\ free' = Append(free, i) /\ size' = size - 1 /\ issued' = issued
  BY DEF Map!Erase, Map!IsLive, Map!Slots, Map!Vacant
<1>2. /\ values \in Seq(Nat) /\ n \in Nat /\ n <= MaxSlots
      /\ generations \in Seq(1..Generations - 1) /\ Len(generations) = n
      /\ free \in Seq(1..n) /\ Map!Slots = 1..n
      /\ Distinct(free) /\ Entries(free) = Unoccupied
      /\ Unoccupied = {j \in 1..n : values[j] = 0} /\ Occupied = {j \in 1..n : values[j] # 0}
  BY LenProperties DEF MapInv, MapTyped, Vacancies, Map!Slots, Unoccupied, Occupied, Map!Vacant
<1> HIDE DEF i
<1>3. /\ values' \in Seq(Nat) /\ Len(values') = n
      /\ \A j \in 1..n : values'[j] = IF j = i THEN 0 ELSE values[j]
  BY <1>1, <1>2, ExceptSeq
<1>4. /\ generations' \in Seq(1..Generations - 1) /\ Len(generations') = n
      /\ \A j \in 1..n : generations'[j] = IF j = i THEN Map!Bumped(generations[j])
                                                    ELSE generations[j]
  <2>1. generations[i] \in 1..Generations - 1
    BY <1>1, <1>2, ElementOfSeq
  <2>2. Map!Bumped(generations[i]) \in 1..Generations - 1
    BY <2>1, BumpTurns
  <2> QED BY <1>1, <1>2, <2>2, ExceptSeq
<1>5. Map!Slots' = 1..n
  BY <1>3 DEF Map!Slots
<1>6. i \in Occupied /\ i \notin Unoccupied
  BY <1>1, <1>2
<1>7. Occupied' = Occupied \ {i} /\ Unoccupied' = Unoccupied \cup {i} /\ Latest' /\ Cycled'
  <2>1. \A j \in Map!Slots :
          /\ values'[j] = IF j \in {i} THEN Map!Vacant ELSE values[j]
          /\ generations'[j] = IF j \in {i} THEN Map!Bumped(generations[j]) ELSE generations[j]
    BY <1>2, <1>3, <1>4 DEF Map!Vacant
  <2>2. {i} \in SUBSET Occupied /\ Map!Slots' = Map!Slots /\ issued' = issued
    BY <1>1, <1>2, <1>5, <1>6
  <2> QED BY <2>1, <2>2, SlotsVacated
<1>8. free' \in Seq(1..n) /\ Distinct(free') /\ Entries(free') = Unoccupied \cup {i}
  BY <1>1, <1>2, <1>6, EntryAdded
<1>9. Cardinality(Occupied') = Cardinality(Occupied) - 1
  BY <1>6, <1>7, OccupiedFinite, FS_RemoveElement
<1>10. MapTyped'
  <2>1. \A m \in 1..Len(issued') : At(m)' \in Map!Slots'
    BY <1>1, <1>2, <1>5 DEF At, MapInv, MapTyped
  <2>2. issued' \in Seq(MapKeys) /\ Len(issued') <= MaxElements
    BY <1>1 DEF MapInv, MapTyped, MapKeys
  <2> QED BY <1>2, <1>3, <1>4, <1>5, <1>8, <2>1, <2>2 DEF MapTyped, MapKeys
<1>11. Vacancies'
  BY <1>1, <1>7, <1>8, <1>9 DEF Vacancies, MapInv
<1> QED BY <1>7, <1>10, <1>11 DEF MapInv

LEMMA MapClear == Map!SlotMapAssumption /\ MapInv /\ Map!Clear => MapInv'
<1> SUFFICES ASSUME Map!SlotMapAssumption, MapInv, Map!Clear PROVE MapInv'
  OBVIOUS
<1> DEFINE n == Len(values)
<1>1. /\ values \in Seq(Nat) /\ n \in Nat /\ n <= MaxSlots
      /\ generations \in Seq(1..Generations - 1) /\ Len(generations) = n
      /\ Map!Slots = 1..n
      /\ Unoccupied = {j \in 1..n : values[j] = 0} /\ Occupied = {j \in 1..n : values[j] # 0}
  BY LenProperties DEF MapInv, MapTyped, Map!Slots, Unoccupied, Occupied, Map!Vacant
<1>2. /\ values' = [j \in 1..n |-> 0]
      /\ generations' = [j \in 1..n |-> IF values[j] = 0 THEN generations[j]
                                                        ELSE Map!Bumped(generations[j])]
      /\ free' = Map!Ext!Reverse([j \in 1..n |-> j])
      /\ size' = 0 /\ issued' = issued
  BY <1>1 DEF Map!Clear, Map!Vacant
<1> HIDE DEF n
<1>3. values' \in Seq(Nat) /\ Len(values') = n
  <2>1. values' \in [1..n -> Nat]
    BY <1>2
  <2> QED BY <1>1, <2>1, ListOf
<1>4. generations' \in Seq(1..Generations - 1) /\ Len(generations') = n
  <2>1. \A j \in 1..n : generations[j] \in 1..Generations - 1
    BY <1>1, ElementOfSeq
  <2>2. \A j \in 1..n : Map!Bumped(generations[j]) \in 1..Generations - 1
    BY <2>1, BumpTurns
  <2>3. generations' \in [1..n -> 1..Generations - 1]
    BY <1>2, <2>1, <2>2
  <2> QED BY <1>1, <2>3, ListOf
<1>5. Map!Slots' = 1..n
  BY <1>3 DEF Map!Slots
<1>6. Occupied' = Occupied \ Occupied /\ Unoccupied' = Unoccupied \cup Occupied
      /\ Latest' /\ Cycled'
  <2>1. \A j \in Map!Slots :
          /\ values'[j] = IF j \in Occupied THEN Map!Vacant ELSE values[j]
          /\ generations'[j] = IF j \in Occupied THEN Map!Bumped(generations[j]) ELSE generations[j]
    BY <1>1, <1>2 DEF Map!Vacant
  <2> QED BY <1>1, <1>2, <1>5, <2>1, SlotsVacated
<1>7. free' \in Seq(1..n) /\ Distinct(free') /\ Entries(free') = 1..n
  <2>1. PICK all : all = [j \in 1..n |-> j]
    OBVIOUS
  <2>2. Len(all) = n
    BY <1>1, <2>1, ListOf
  <2>3. free' = [i \in 1..n |-> all[(n - i) + 1]]
    <3>1. free' = Map!Ext!Reverse(all)
      BY <1>2, <2>1
    <3>2. free' = [i \in 1..Len(all) |-> all[(Len(all) - i) + 1]]
      BY <3>1 DEF Map!Ext!Reverse
    <3> QED BY <2>2, <3>2
  <2>4. \A i \in 1..n : all[(n - i) + 1] = (n - i) + 1
    BY <1>1, <2>1
  <2>5. free' = [i \in 1..n |-> (n - i) + 1]
    BY <2>3, <2>4
  <2> QED BY <1>1, <2>5, AllReversed
<1>8. Unoccupied' = 1..n /\ size' = Cardinality(Occupied')
  <2>1. Unoccupied \cup Occupied = 1..n /\ Occupied' = {}
    BY <1>1, <1>6
  <2> QED BY <1>2, <1>6, <2>1, FS_EmptySet
<1>9. MapTyped'
  <2>1. \A m \in 1..Len(issued') : At(m)' \in Map!Slots'
    BY <1>1, <1>2, <1>5 DEF At, MapInv, MapTyped
  <2>2. issued' \in Seq(MapKeys) /\ Len(issued') <= MaxElements
    BY <1>2 DEF MapInv, MapTyped, MapKeys
  <2> QED BY <1>1, <1>3, <1>4, <1>5, <1>7, <2>1, <2>2 DEF MapTyped, MapKeys
<1>10. Vacancies'
  BY <1>7, <1>8 DEF Vacancies
<1> QED BY <1>6, <1>9, <1>10 DEF MapInv

LEMMA MapInit == Map!SlotMapAssumption /\ Map!Init => MapInv
<1> SUFFICES ASSUME Map!SlotMapAssumption, Map!Init PROVE MapInv
  OBVIOUS
<1>1. /\ values = << >> /\ generations = << >> /\ free = << >> /\ size = 0 /\ issued = << >>
      /\ MaxSlots \in Nat /\ MaxElements \in Nat
  BY DEF Map!Init, Map!SlotMapAssumption
<1>2. \A S : << >> \in Seq(S)
  BY EmptySeq
<1>3. Len(<< >>) = 0 /\ 1..0 = {}
  OBVIOUS
<1>4. Occupied = {} /\ Unoccupied = {}
  BY <1>1, <1>3 DEF Occupied, Unoccupied, Map!Slots
<1>5. MapTyped
  BY <1>1, <1>2, <1>3 DEF MapTyped
<1>6. Vacancies
  BY <1>1, <1>4, NoEntries, FS_EmptySet DEF Vacancies
<1>7. Latest /\ Cycled
  BY <1>1, <1>3, <1>4 DEF Latest, Cycled
<1> QED BY <1>5, <1>6, <1>7 DEF MapInv

LEMMA SameCardinality == \A S : Map!Cardinality(S) = Cardinality(S)
BY DEF Map!Cardinality, Cardinality

\* A key reaches its own element or nothing.
LEMMA KeysReach ==
  ASSUME Map!SlotMapAssumption, MapInv
  PROVE  Map!KeysExact
<1>1. /\ values \in Seq(Nat) /\ Len(values) \in Nat /\ Len(values) <= MaxSlots
      /\ generations \in Seq(1..Generations - 1) /\ Len(generations) = Len(values)
      /\ free \in Seq(1..Len(values)) /\ Map!Slots = 1..Len(values)
      /\ issued \in Seq(MapKeys) /\ Len(issued) \in Nat /\ Len(issued) <= MaxElements
      /\ \A n \in 1..Len(issued) : At(n) \in 1..Len(values)
      /\ MaxSlots \in Nat /\ MaxElements \in Nat /\ Generations \in Nat
  BY LenProperties DEF MapInv, MapTyped, MapKeys, Map!Slots, Map!SlotMapAssumption
<1>2. Map!TypeOK
  <2>1. values \in Seq(0..MaxElements)
    <3>1. \A i \in 1..Len(values) : values[i] \in 0..MaxElements
      <4> TAKE i \in 1..Len(values)
      <4>1. CASE i \in Occupied
        <5>1. values[i] \in 1..Len(issued)
          BY <4>1 DEF MapInv, Latest
        <5> QED BY <1>1, <5>1
      <4>2. CASE i \notin Occupied
        <5>1. values[i] = 0
          BY <1>1, <4>2 DEF Occupied, Map!Vacant
        <5> QED BY <1>1, <5>1
      <4> QED BY <4>1, <4>2
    <3> QED BY <1>1, <3>1, Retyped
  <2>2. generations \in [Map!Slots -> 1..Generations - 1]
    BY <1>1, LenProperties
  <2>3. size \in 0..MaxSlots
    <3>1. Cardinality(Occupied) \in 0..Len(values)
      BY OccupiedFinite
    <3> QED BY <1>1, <3>1 DEF MapInv, Vacancies
  <2>4. issued \in Seq(Map!Key)
    <3>1. \A n \in 1..Len(issued) : issued[n] \in Map!Key
      <4> TAKE n \in 1..Len(issued)
      <4>1. issued[n] \in MapKeys /\ issued[n].index \in 1..Len(values)
        BY <1>1, ElementOfSeq DEF At
      <4>2. issued[n].index \in 1..MaxSlots
        BY <1>1, <4>1
      <4> QED BY <4>1, <4>2 DEF MapKeys, Map!Key
    <3> QED BY <1>1, <3>1, Retyped
  <2>5. free \in Seq(Map!Slots)
    BY <1>1
  <2> QED BY <1>1, <2>1, <2>2, <2>3, <2>4, <2>5 DEF Map!TypeOK
<1>3. Map!Ext!IsInjective(free) /\ Map!Ext!ToSet(free) = {i \in Map!Slots : values[i] = Map!Vacant}
  BY <1>1, ListForms DEF MapInv, Vacancies, Unoccupied
<1>4. size = Cardinality({i \in Map!Slots : values[i] # Map!Vacant})
  BY DEF MapInv, Vacancies, Occupied
<1>5. ASSUME NEW n \in 1..Len(issued), Cardinality(Map!Successors(n)) < Generations - 1
      PROVE  /\ Map!IsLive(issued[n]) => values[issued[n].index] = n
             /\ (\E i \in Map!Slots : values[i] = n) => Map!IsLive(issued[n])
  <2> DEFINE g == issued[n].generation
             i == issued[n].index
  <2>1. g \in 1..Generations - 1 /\ i \in Map!Slots /\ At(n) = i
    <3>1. issued[n] \in MapKeys
      BY <1>1, ElementOfSeq
    <3>2. At(n) \in Map!Slots
      BY <1>1
    <3> QED BY <3>1, <3>2 DEF MapKeys, At
  <2>2. After(n) \in Nat /\ After(n) < Generations - 1 /\ IsFiniteSet(Map!Successors(n))
    BY <1>5, SuccessorsFinite DEF After
  <2>3. generations[i] = Turned(g, Bumps(n))
    BY <2>1, <2>2 DEF MapInv, Cycled
  <2>4. After(n) = 0 <=> Map!Successors(n) = {}
    BY <2>2, FS_EmptySet DEF After
  <2>5. Map!IsLive(issued[n]) <=> generations[i] = g /\ values[i] # Map!Vacant
    BY <2>1 DEF Map!IsLive
  <2> HIDE DEF g
  <2>6. ASSUME Map!IsLive(issued[n]) PROVE values[i] = n
    <3>1. Turned(g, After(n)) = g /\ i \in Occupied
      BY <2>1, <2>3, <2>5, <2>6 DEF Bumps, Occupied
    <3>2. After(n) = 0
      BY <2>1, <2>2, <3>1, BumpTurns
    <3>3. \A m \in n + 1 .. Len(issued) : issued[m].index # i
      BY <2>4, <3>2 DEF Map!Successors
    <3>4. /\ values[i] \in 1..Len(issued) /\ issued[values[i]].index = i
          /\ \A m \in 1..Len(issued) : m > values[i] => At(m) # i
      BY <3>1 DEF MapInv, Latest
    <3>5. ~(n > values[i])
      BY <2>1, <3>4
    <3>6. ~(values[i] > n)
      <4> HIDE DEF i
      <4> SUFFICES ASSUME values[i] > n PROVE FALSE
        OBVIOUS
      <4>1. values[i] \in n + 1 .. Len(issued)
        <5>1. values[i] \in 1..Len(issued) /\ Len(issued) \in Nat /\ n \in 1..Len(issued)
          BY <1>1, <3>4
        <5> QED BY <5>1
      <4> QED BY <3>3, <3>4, <4>1
    <3> QED BY <1>1, <3>4, <3>5, <3>6
  <2>7. ASSUME NEW j \in Map!Slots, values[j] = n PROVE Map!IsLive(issued[n])
    <3>1. j \in Occupied
      BY <1>1, <2>7 DEF Occupied, Map!Vacant
    <3>2. /\ j = i
          /\ \A m \in 1..Len(issued) : m > n => At(m) # j
      BY <2>7, <3>1 DEF MapInv, Latest
    <3>3. Map!Successors(n) = {}
      <4>1. \A m \in n + 1 .. Len(issued) : m \in 1..Len(issued) /\ m > n
        BY <1>1
      <4> QED BY <3>2, <4>1 DEF Map!Successors, At
    <3>4. Bumps(n) = 0
      BY <2>1, <2>4, <3>1, <3>2, <3>3 DEF Bumps, Occupied
    <3>5. Turned(g, 0) = g
      BY <2>1, BumpTurns
    <3> QED BY <2>3, <2>5, <3>1, <3>2, <3>4, <3>5 DEF Occupied
  <2> QED BY <2>6, <2>7
<1> QED BY <1>2, <1>3, <1>4, <1>5, SameCardinality DEF Map!KeysExact

\* The invariant of slot_map is inductive.
THEOREM MapInvariantHolds ==
  ASSUME Map!SlotMapAssumption
  PROVE  Map!Spec => []MapInv
<1>1. Map!Init => MapInv
  BY MapInit
<1>2. MapInv /\ [Map!Next]_(Map!vars) => MapInv'
  <2> SUFFICES ASSUME MapInv, [Map!Next]_(Map!vars) PROVE MapInv'
    OBVIOUS
  <2>1. CASE Map!Emplace
    BY <2>1, MapEmplace
  <2>2. CASE \E n \in 1..Len(issued) : Map!Erase(issued[n])
    BY <2>2, MapErase
  <2>3. CASE Map!Clear
    BY <2>3, MapClear
  <2>4. CASE UNCHANGED Map!vars
    BY <2>4 DEF Map!vars, MapInv, MapTyped, Vacancies, Latest, Cycled, At, After, Bumps,
                Occupied, Unoccupied, Turned, Map!Slots, Map!Successors, Map!Vacant
  <2> QED BY <2>1, <2>2, <2>3, <2>4 DEF Map!Next
<1> QED BY <1>1, <1>2, PTL DEF Map!Spec

\* A slot_map key reaches its element or nothing, until its slot has used up the generations.
THEOREM KeysAreExact ==
  ASSUME Map!SlotMapAssumption
  PROVE  Map!Spec => []Map!KeysExact
<1>1. MapInv => Map!KeysExact
  BY KeysReach
<1> QED BY <1>1, MapInvariantHolds, PTL

-----------------------------------------------------------------------------
(***************************************************************************)
(* component_pool: its operations keep a pool exact.                       *)
(***************************************************************************)

\* The parts of an exact pool.
Agree(sparse, slots, n) ==
  \A k \in Keys, slot \in 1..n : sparse[k] = slot <=> slots[slot] = k
Tombstones(slots, n) == {slot \in 1..n : slots[slot] = Tombstone}
Stored(sparse) == {k \in Keys : sparse[k] # Absent}

LEMMA ExactParts ==
  ASSUME NEW pool, Exact(pool)
  PROVE  /\ SlotCount(pool) \in Nat /\ Len(pool.slots) = SlotCount(pool)
         /\ pool.slots \in Seq(Keys \cup {Tombstone})
         /\ pool.sparse \in [Keys -> 0..SlotCount(pool)]
         /\ pool.free \in Seq(1..SlotCount(pool))
         /\ pool.size \in Nat
         /\ Agree(pool.sparse, pool.slots, SlotCount(pool))
         /\ Distinct(pool.free)
         /\ Entries(pool.free) = Tombstones(pool.slots, SlotCount(pool))
         /\ pool.size = Cardinality(Stored(pool.sparse))
<1>1. /\ pool.slots \in Seq(Keys \cup {Tombstone})
      /\ pool.sparse \in [Keys -> 0..SlotCount(pool)]
      /\ pool.free \in Seq(1..SlotCount(pool))
      /\ pool.size \in Nat
  BY DEF Exact, PoolType
<1>2. SlotCount(pool) \in Nat /\ Len(pool.slots) = SlotCount(pool)
  BY <1>1, LenProperties DEF SlotCount
<1>3. Agree(pool.sparse, pool.slots, SlotCount(pool))
  BY DEF Exact, Agree
<1>4. Distinct(pool.free) /\ Entries(pool.free) = Tombstones(pool.slots, SlotCount(pool))
  BY <1>1, ListForms DEF Exact, IsLive, Tombstones
<1>5. pool.size = Cardinality(Stored(pool.sparse))
  BY DEF Exact, Contains, Stored
<1> QED BY <1>1, <1>2, <1>3, <1>4, <1>5

LEMMA ExactRecord ==
  ASSUME PoolAssumption, NEW n \in Nat,
         NEW slots \in Seq(Keys \cup {Tombstone}), Len(slots) = n,
         NEW sparse \in [Keys -> 0..n], NEW list \in Seq(1..n), NEW count_,
         Agree(sparse, slots, n), Distinct(list), Entries(list) = Tombstones(slots, n),
         count_ = Cardinality(Stored(sparse))
  PROVE  Exact([sparse |-> sparse, slots |-> slots, free |-> list, size |-> count_])
<1> DEFINE r == [sparse |-> sparse, slots |-> slots, free |-> list, size |-> count_]
<1>1. /\ DOMAIN r = {"sparse", "slots", "free", "size"}
      /\ r.sparse = sparse /\ r.slots = slots /\ r.free = list /\ r.size = count_
  OBVIOUS
<1> HIDE DEF r
<1>2. SlotCount(r) = n
  BY <1>1 DEF SlotCount
<1>3. count_ \in Nat
  <2>1. IsFiniteSet(Stored(sparse))
    BY FS_Subset DEF Stored, PoolAssumption
  <2> QED BY <2>1, FS_CardinalityType
<1>4. PoolType(r)
  BY <1>1, <1>2, <1>3 DEF PoolType
<1>5. \A k \in Keys, slot \in 1..SlotCount(r) : r.sparse[k] = slot <=> r.slots[slot] = k
  BY <1>1, <1>2 DEF Agree
<1>6. Ext!IsInjective(r.free) /\ Ext!ToSet(r.free) = {slot \in 1..SlotCount(r) : ~IsLive(r, slot)}
  BY <1>1, <1>2, ListForms DEF IsLive, Tombstones
<1>7. r.size = Cardinality({k \in Keys : Contains(r, k)})
  BY <1>1 DEF Stored, Contains
<1>8. Exact(r)
  BY <1>4, <1>5, <1>6, <1>7 DEF Exact
<1> QED BY <1>8 DEF r

\* insert_or_assign: the key gets a slot, and no other key moves.
LEMMA InsertKeepsExact ==
  ASSUME PoolAssumption, NEW pool, Exact(pool), NEW k \in Keys, ~Contains(pool, k)
  PROVE  /\ Exact(Inserted(pool, k))
         /\ SlotCount(Inserted(pool, k)) >= SlotCount(pool)
         /\ \A j \in Keys : j # k => Inserted(pool, k).sparse[j] = pool.sparse[j]
<1> DEFINE n == SlotCount(pool)
           sp == pool.sparse
           sl == pool.slots
<1>1. /\ n \in Nat /\ Len(sl) = n /\ sl \in Seq(Keys \cup {Tombstone}) /\ sp \in [Keys -> 0..n]
      /\ pool.free \in Seq(1..n) /\ Distinct(pool.free) /\ Entries(pool.free) = Tombstones(sl, n)
      /\ Agree(sp, sl, n) /\ pool.size = Cardinality(Stored(sp))
  BY ExactParts
<1>2. k # Tombstone /\ IsFiniteSet(Keys) /\ Tombstone \notin Keys
  BY DEF PoolAssumption
<1>3. sp[k] = 0
  BY DEF Contains, Absent
<1>4. ASSUME NEW e \in Nat, e # 0
      PROVE  Cardinality(Stored([sp EXCEPT ![k] = e])) = pool.size + 1
  <2>1. Stored([sp EXCEPT ![k] = e]) = Stored(sp) \cup {k} /\ k \notin Stored(sp)
    BY <1>1, <1>3, <1>4 DEF Stored, Absent
  <2>2. IsFiniteSet(Stored(sp))
    BY <1>2, FS_Subset DEF Stored
  <2>3. Cardinality(Stored(sp) \cup {k}) = Cardinality(Stored(sp)) + 1
    BY <2>1, <2>2, FS_AddElement
  <2> QED BY <1>1, <2>1, <2>3
<1> HIDE DEF n, sp, sl
<1>5. CASE pool.free # << >>
  <2>1. PICK e : e = Ext!Last(pool.free)
    OBVIOUS
  <2>2. PICK list : list = Ext!Front(pool.free)
    OBVIOUS
  <2>3. /\ e \in 1..n /\ e \in Tombstones(sl, n)
        /\ list \in Seq(1..n) /\ Distinct(list) /\ Entries(list) = Tombstones(sl, n) \ {e}
    <3> PICK old : old = pool.free
      OBVIOUS
    <3>1. /\ Ext!Front(old) \in Seq(1..n) /\ Distinct(Ext!Front(old))
          /\ Ext!Last(old) \in Entries(old) /\ Ext!Last(old) \in 1..n
          /\ Entries(Ext!Front(old)) = Entries(old) \ {Ext!Last(old)}
      BY <1>1, <1>5, EntryTaken
    <3> QED BY <1>1, <2>1, <2>2, <3>1
  <2>4. sl[e] = Tombstone /\ e # 0 /\ e \in Nat
    BY <1>1, <2>3 DEF Tombstones
  <2>5. PICK sp2 : sp2 = [sp EXCEPT ![k] = e]
    OBVIOUS
  <2>6. PICK sl2 : sl2 = [sl EXCEPT ![e] = k]
    OBVIOUS
  <2>7. Inserted(pool, k) = [sparse |-> sp2, slots |-> sl2, free |-> list, size |-> pool.size + 1]
    BY <1>5, <2>1, <2>2, <2>5, <2>6 DEF Inserted, sp, sl
  <2>8. /\ sl2 \in Seq(Keys \cup {Tombstone}) /\ Len(sl2) = n
        /\ \A s \in 1..n : sl2[s] = IF s = e THEN k ELSE sl[s]
    BY <1>1, <2>3, <2>6, ExceptSeq
  <2>9. sp2 \in [Keys -> 0..n] /\ \A j \in Keys : sp2[j] = IF j = k THEN e ELSE sp[j]
    BY <1>1, <2>3, <2>5
  <2>10. Agree(sp2, sl2, n)
    <3> SUFFICES ASSUME NEW j \in Keys, NEW s \in 1..n PROVE sp2[j] = s <=> sl2[s] = j
      BY DEF Agree
    <3>1. sp[j] = s <=> sl[s] = j
      BY <1>1 DEF Agree
    <3>2. (sp[j] = e <=> sl[e] = j) /\ (sp[k] = s <=> sl[s] = k)
      BY <1>1, <2>3 DEF Agree
    <3> QED BY <1>2, <1>3, <2>4, <2>8, <2>9, <3>1, <3>2
  <2>11. Tombstones(sl2, n) = Tombstones(sl, n) \ {e}
    BY <1>2, <2>8 DEF Tombstones
  <2>12. Cardinality(Stored(sp2)) = pool.size + 1
    BY <1>4, <2>4, <2>5
  <2>13. Exact(Inserted(pool, k))
    <3>1. PICK c : c = pool.size + 1
      OBVIOUS
    <3>2. c = Cardinality(Stored(sp2)) /\ Entries(list) = Tombstones(sl2, n)
      BY <2>3, <2>11, <2>12, <3>1
    <3>3. Exact([sparse |-> sp2, slots |-> sl2, free |-> list, size |-> c])
      BY <1>1, <2>3, <2>8, <2>9, <2>10, <3>2, ExactRecord
    <3> QED BY <2>7, <3>1, <3>3
  <2>14. SlotCount(Inserted(pool, k)) = n /\ Inserted(pool, k).sparse = sp2
    BY <2>7, <2>8 DEF SlotCount
  <2> QED BY <1>1, <2>9, <2>13, <2>14 DEF n, sp
<1>6. CASE pool.free = << >>
  <2>1. PICK e : e = n + 1
    OBVIOUS
  <2>2. e \in Nat /\ e # 0 /\ 1..e = 1..n \cup {e} /\ e \notin 1..n /\ e >= n /\ 0..n \subseteq 0..e
        /\ e \in 0..e
    BY <1>1, <2>1
  <2>3. PICK sp2 : sp2 = [sp EXCEPT ![k] = e]
    OBVIOUS
  <2>4. PICK sl2 : sl2 = Append(sl, k)
    OBVIOUS
  <2>5. Inserted(pool, k) = [sparse |-> sp2, slots |-> sl2, free |-> << >>, size |-> pool.size + 1]
    BY <1>6, <2>1, <2>3, <2>4 DEF Inserted, sp, sl, n
  <2>6. /\ sl2 \in Seq(Keys \cup {Tombstone}) /\ Len(sl2) = e
        /\ sl2[e] = k /\ \A s \in 1..n : sl2[s] = sl[s]
    BY <1>1, <2>1, <2>4, AppendProperties
  <2>7. sp2 \in [Keys -> 0..e] /\ \A j \in Keys : sp2[j] = IF j = k THEN e ELSE sp[j]
    BY <1>1, <2>2, <2>3
  <2>8. \A j \in Keys : sp[j] \in 0..n
    BY <1>1
  <2>9. Agree(sp2, sl2, e)
    <3> SUFFICES ASSUME NEW j \in Keys, NEW s \in 1..e PROVE sp2[j] = s <=> sl2[s] = j
      BY DEF Agree
    <3>1. CASE s = e
      <4>1. j # k => sp2[j] # e
        BY <2>1, <2>7, <2>8, <1>1
      <4> QED BY <2>6, <2>7, <3>1, <4>1
    <3>2. CASE s \in 1..n
      <4>1. (sp[j] = s <=> sl[s] = j) /\ (sp[k] = s <=> sl[s] = k)
        BY <1>1, <3>2 DEF Agree
      <4>2. s # e /\ s # 0
        BY <1>1, <2>2, <3>2
      <4> QED BY <1>3, <2>6, <2>7, <3>2, <4>1, <4>2
    <3> QED BY <2>2, <3>1, <3>2
  <2>10. Tombstones(sl, n) = {}
    BY <1>1, <1>6, NoEntries
  <2>11. Tombstones(sl2, e) = {}
    BY <1>2, <2>2, <2>6, <2>10 DEF Tombstones
  <2>12. Cardinality(Stored(sp2)) = pool.size + 1
    BY <1>4, <2>2, <2>3
  <2>13. << >> \in Seq(1..e)
    BY EmptySeq
  <2>14. Exact(Inserted(pool, k))
    <3>1. PICK c : c = pool.size + 1
      OBVIOUS
    <3>2. PICK list : list = << >>
      OBVIOUS
    <3>3. /\ c = Cardinality(Stored(sp2)) /\ list \in Seq(1..e)
          /\ Distinct(list) /\ Entries(list) = Tombstones(sl2, e)
      BY <2>11, <2>12, <2>13, <3>1, <3>2, NoEntries
    <3>4. Exact([sparse |-> sp2, slots |-> sl2, free |-> list, size |-> c])
      BY <2>2, <2>6, <2>7, <2>9, <3>3, ExactRecord
    <3> QED BY <2>5, <3>1, <3>2, <3>4
  <2>15. SlotCount(Inserted(pool, k)) = e /\ Inserted(pool, k).sparse = sp2
    BY <2>5, <2>6 DEF SlotCount
  <2> QED BY <2>2, <2>7, <2>14, <2>15 DEF n, sp
<1> QED BY <1>5, <1>6

\* erase: the key loses its slot, and no other key moves.
LEMMA EraseKeepsExact ==
  ASSUME PoolAssumption, NEW pool, Exact(pool), NEW k \in Keys
  PROVE  /\ Exact(Erased(pool, k))
         /\ SlotCount(Erased(pool, k)) = SlotCount(pool)
         /\ ~Contains(Erased(pool, k), k)
         /\ \A j \in Keys : j # k => Erased(pool, k).sparse[j] = pool.sparse[j]
<1>1. CASE ~Contains(pool, k)
  BY <1>1 DEF Erased
<1>2. CASE Contains(pool, k)
  <2> DEFINE n == SlotCount(pool)
             sp == pool.sparse
             sl == pool.slots
             e == pool.sparse[k]
  <2>1. /\ n \in Nat /\ Len(sl) = n /\ sl \in Seq(Keys \cup {Tombstone}) /\ sp \in [Keys -> 0..n]
        /\ pool.free \in Seq(1..n) /\ Distinct(pool.free) /\ Entries(pool.free) = Tombstones(sl, n)
        /\ Agree(sp, sl, n) /\ pool.size = Cardinality(Stored(sp))
    BY ExactParts
  <2>2. k # Tombstone /\ IsFiniteSet(Keys) /\ Tombstone \notin Keys
    BY DEF PoolAssumption
  <2>3. e \in 1..n /\ e = sp[k]
    <3>1. e \in 0..n /\ e # 0
      BY <1>2, <2>1 DEF Contains, Absent
    <3> QED BY <2>1, <3>1
  <2> HIDE DEF n, sp, sl, e
  <2>4. sl[e] = k
    BY <2>1, <2>3 DEF Agree
  <2>5. PICK sp2 : sp2 = [sp EXCEPT ![k] = 0]
    OBVIOUS
  <2>6. PICK sl2 : sl2 = [sl EXCEPT ![e] = Tombstone]
    OBVIOUS
  <2>7. PICK list : list = Append(pool.free, e)
    OBVIOUS
  <2>8. Erased(pool, k) = [sparse |-> sp2, slots |-> sl2, free |-> list, size |-> pool.size - 1]
    BY <1>2, <2>5, <2>6, <2>7 DEF Erased, sp, sl, e, Absent
  <2>9. e \notin Tombstones(sl, n)
    BY <2>2, <2>4 DEF Tombstones
  <2>10. list \in Seq(1..n) /\ Distinct(list) /\ Entries(list) = Tombstones(sl, n) \cup {e}
    BY <2>1, <2>3, <2>7, <2>9, EntryAdded
  <2>11. /\ sl2 \in Seq(Keys \cup {Tombstone}) /\ Len(sl2) = n
         /\ \A s \in 1..n : sl2[s] = IF s = e THEN Tombstone ELSE sl[s]
    BY <2>1, <2>3, <2>6, ExceptSeq
  <2>12. sp2 \in [Keys -> 0..n] /\ \A j \in Keys : sp2[j] = IF j = k THEN 0 ELSE sp[j]
    BY <2>1, <2>5
  <2>13. Agree(sp2, sl2, n)
    <3> SUFFICES ASSUME NEW j \in Keys, NEW s \in 1..n PROVE sp2[j] = s <=> sl2[s] = j
      BY DEF Agree
    <3>1. (sp[j] = s <=> sl[s] = j) /\ (sp[k] = s <=> sl[s] = k) /\ (sp[j] = e <=> sl[e] = j)
      BY <2>1, <2>3 DEF Agree
    <3>2. s # 0 /\ Tombstone # j
      BY <2>1, <2>2
    <3> QED BY <2>3, <2>4, <2>11, <2>12, <3>1, <3>2
  <2>14. Tombstones(sl2, n) = Tombstones(sl, n) \cup {e}
    BY <2>3, <2>11 DEF Tombstones
  <2>15. Cardinality(Stored(sp2)) = pool.size - 1
    <3>1. Stored(sp2) = Stored(sp) \ {k} /\ k \in Stored(sp)
      <4>1. e # 0
        BY <2>1, <2>3
      <4> QED BY <2>3, <2>12, <4>1 DEF Stored, Absent
    <3>2. IsFiniteSet(Stored(sp))
      BY <2>2, FS_Subset DEF Stored
    <3> QED BY <2>1, <3>1, <3>2, FS_RemoveElement
  <2>16. Exact(Erased(pool, k))
    <3>1. PICK c : c = pool.size - 1
      OBVIOUS
    <3>2. c = Cardinality(Stored(sp2)) /\ Entries(list) = Tombstones(sl2, n)
      BY <2>10, <2>14, <2>15, <3>1
    <3>3. Exact([sparse |-> sp2, slots |-> sl2, free |-> list, size |-> c])
      BY <2>1, <2>10, <2>11, <2>12, <2>13, <3>2, ExactRecord
    <3> QED BY <2>8, <3>1, <3>3
  <2>17. SlotCount(Erased(pool, k)) = n /\ Erased(pool, k).sparse = sp2
    BY <2>8, <2>11 DEF SlotCount
  <2>18. ~Contains(Erased(pool, k), k)
    BY <2>12, <2>17 DEF Contains, Absent
  <2> QED BY <2>12, <2>16, <2>17, <2>18 DEF n, sp
<1> QED BY <1>1, <1>2

\* The first filling.
LEMMA FilledIsExact ==
  ASSUME PoolAssumption, NEW order \in Orders
  PROVE  Exact(Filled(order))
<1>1. PICK n \in 0..Cardinality(Keys) : order \in [1..n -> Keys]
  BY DEF Orders
<1>2. n \in Nat /\ order \in Seq(Keys) /\ Len(order) = n
  <2>1. Cardinality(Keys) \in Nat
    BY FS_CardinalityType DEF PoolAssumption
  <2>2. n \in Nat
    BY <2>1
  <2> QED BY <1>1, <2>2, ListOf
<1>3. Distinct(order) /\ Entries(order) \subseteq Keys /\ Ext!ToSet(order) = Entries(order)
  BY <1>2, ListForms DEF Orders
<1>4. PICK sp : sp = Filled(order).sparse
  OBVIOUS
<1>5. \A k \in Keys : /\ k \in Entries(order) => sp[k] \in 1..n /\ order[sp[k]] = k
                      /\ k \notin Entries(order) => sp[k] = 0
  <2> TAKE k \in Keys
  <2>1. sp[k] = IF k \in Entries(order)
                  THEN CHOOSE slot \in DOMAIN order : order[slot] = k ELSE 0
    BY <1>3, <1>4 DEF Filled, Absent
  <2>2. DOMAIN order = 1..n
    BY <1>1
  <2>3. k \in Entries(order) => \E slot \in 1..n : order[slot] = k
    BY <1>2 DEF Entries
  <2> QED BY <2>1, <2>2, <2>3
<1>6. sp \in [Keys -> 0..n]
  <2>1. \A k \in Keys : sp[k] \in 0..n
    BY <1>2, <1>5
  <2>2. \E f : sp = [k \in Keys |-> f[k]]
    <3>1. sp = [k \in Keys |-> IF k \in Ext!ToSet(order)
                                THEN CHOOSE slot \in DOMAIN order : order[slot] = k ELSE Absent]
      BY <1>4 DEF Filled
    <3>2. sp = [k \in Keys |-> sp[k]]
      BY <3>1
    <3> QED BY <3>2
  <2> QED BY <2>1, <2>2
<1>7. Filled(order) = [sparse |-> sp, slots |-> order, free |-> << >>, size |-> n]
  BY <1>2, <1>4 DEF Filled
<1>8. Agree(sp, order, n)
  <2> SUFFICES ASSUME NEW k \in Keys, NEW s \in 1..n PROVE sp[k] = s <=> order[s] = k
    BY DEF Agree
  <2>1. ASSUME sp[k] = s PROVE order[s] = k
    <3>1. s # 0
      BY <1>2
    <3> QED BY <1>5, <2>1, <3>1
  <2>2. ASSUME order[s] = k PROVE sp[k] = s
    <3>1. k \in Entries(order)
      BY <1>2, <2>2 DEF Entries
    <3>2. sp[k] \in 1..n /\ order[sp[k]] = order[s]
      BY <1>5, <2>2, <3>1
    <3> QED BY <1>2, <1>3, <3>2 DEF Distinct
  <2> QED BY <2>1, <2>2
<1>9. Tombstones(order, n) = {}
  <2>1. \A s \in 1..n : order[s] \in Keys
    BY <1>1
  <2> QED BY <2>1 DEF Tombstones, PoolAssumption
<1>10. n = Cardinality(Stored(sp))
  <2>1. Stored(sp) = Entries(order)
    <3>1. \A k \in Keys : sp[k] # 0 <=> k \in Entries(order)
      BY <1>2, <1>5
    <3> QED BY <1>3, <3>1 DEF Stored, Absent
  <2>2. order \in Bijection(1..n, Entries(order))
    <3>1. order \in [1..n -> Entries(order)]
      BY <1>1, <1>2 DEF Entries
    <3>2. \A a, b \in 1..n : order[a] = order[b] => a = b
      BY <1>2, <1>3 DEF Distinct
    <3>3. \A t \in Entries(order) : \E s \in 1..n : order[s] = t
      BY <1>2 DEF Entries
    <3> QED BY <3>1, <3>2, <3>3 DEF Bijection, Injection, Surjection, IsInjective
  <2>3. IsFiniteSet(1..n) /\ Cardinality(1..n) = n
    BY <1>2, UpToCount
  <2>4. Cardinality(Entries(order)) = Cardinality(1..n)
    BY <2>2, <2>3, FS_Bijection DEF ExistsBijection
  <2> QED BY <2>1, <2>3, <2>4
<1>11. order \in Seq(Keys \cup {Tombstone}) /\ << >> \in Seq(1..n)
  BY <1>1, <1>2, EmptySeq
<1> QED BY <1>2, <1>6, <1>7, <1>8, <1>9, <1>10, <1>11, NoEntries, ExactRecord

-----------------------------------------------------------------------------
(***************************************************************************)
(* view: the inductive invariant.                                          *)
(***************************************************************************)

\* Of the undisturbed entities, the walk has passed those whose slot in the driver it has
\* reached, and it will reach the slots of the others.
Walked ==
  Walking => /\ driver \in Ext!ToSet(Includes) /\ count \in Nat
             /\ \A k \in undisturbed :
                  /\ pools[driver].sparse[k] <= count
                  /\ k \in visited <=> pools[driver].sparse[k] <= cursor

ViewInv == PoolsExact /\ Walked

\* What a change may do to the storages.
Steady ==
  \A T \in Types, k \in Keys :
    Contains(pools[T], k) /\ Contains(pools'[T], k) => pools'[T].sparse[k] = pools[T].sparse[k]

LEMMA Least ==
  ASSUME NEW S \in SUBSET Nat, S # {}
  PROVE  \E m \in S : \A n \in S : m <= n
<1>1. IsWellFoundedOn(OpToRel(<, Nat), Nat)
  BY NatLessThanWellFounded
<1>2. PICK m \in S : \A n \in S : ~(<<n, m>> \in OpToRel(<, Nat))
  BY <1>1, WFMin
<1>3. \A n \in S : ~(n < m)
  BY <1>2 DEF OpToRel
<1>4. \A n \in S : m <= n
  BY <1>3
<1> QED BY <1>4

LEMMA DriverIsIncluded ==
  ASSUME ViewAssumption, PoolsExact
  PROVE  Smallest \in Ext!ToSet(Includes)
<1> DEFINE D == 1..Len(Includes)
           Size(i) == pools[Includes[i]].size
           Sizes == {Size(i) : i \in D}
<1>1. Includes \in Seq(Ext!ToSet(Includes)) /\ Includes # << >>
  BY DEF ViewAssumption
<1>2. /\ Len(Includes) \in Nat /\ Len(Includes) # 0 /\ DOMAIN Includes = D
      /\ \A i \in D : Includes[i] \in Ext!ToSet(Includes)
  BY <1>1, EmptySeq, LenProperties, ElementOfSeq
<1>3. \A i \in D : Size(i) \in Nat
  <2> TAKE i \in D
  <2>1. Includes[i] \in Types
    BY <1>2 DEF Types
  <2>2. Exact(pools[Includes[i]])
    BY <2>1 DEF PoolsExact
  <2> QED BY <2>2 DEF Exact, PoolType
<1>4. D \subseteq Nat /\ D # {}
  BY <1>2
<1> HIDE DEF D, Size
<1>5. PICK m \in Sizes : \A n \in Sizes : m <= n
  <2>1. Sizes \in SUBSET Nat /\ Sizes # {}
    BY <1>3, <1>4
  <2> QED BY <2>1, Least
<1>6. PICK i \in D : Size(i) = m /\ \A j \in D : Size(j) = m => i <= j
  <2>1. PICK S : S = {i \in D : Size(i) = m}
    OBVIOUS
  <2>2. S \in SUBSET Nat /\ S # {}
    BY <1>4, <1>5, <2>1
  <2>3. PICK i \in S : \A j \in S : i <= j
    BY <2>2, Least
  <2> QED BY <2>1, <2>3
<1>7. \A j \in D : Size(i) < Size(j) \/ (Size(i) = Size(j) /\ i <= j)
  <2> TAKE j \in D
  <2>1. Size(i) \in Nat /\ Size(j) \in Nat /\ Size(i) <= Size(j)
    BY <1>3, <1>5, <1>6
  <2>2. Size(j) = Size(i) => i <= j
    BY <1>6
  <2> QED BY <2>1, <2>2
<1>8. \E c \in DOMAIN Includes :
        \A j \in DOMAIN Includes :
          \/ pools[Includes[c]].size < pools[Includes[j]].size
          \/ pools[Includes[c]].size = pools[Includes[j]].size /\ c <= j
  BY <1>2, <1>7 DEF Size
<1>9. \E c \in DOMAIN Includes : Smallest = Includes[c]
  BY <1>8 DEF Smallest
<1> QED BY <1>2, <1>9

\* What there is to know of an entity that matches, in the driver.
LEMMA MatchIsVisible ==
  ASSUME PoolAssumption, PoolsExact, driver \in Ext!ToSet(Includes), NEW k \in Matching
  PROVE  /\ pools[driver].sparse[k] \in 1..SlotCount(pools[driver])
         /\ Visible(pools[driver].sparse[k])
         /\ \A s \in 1..SlotCount(pools[driver]) :
              pools[driver].slots[s] = k <=> pools[driver].sparse[k] = s
<1>1. PICK pool : pool = pools[driver]
  OBVIOUS
<1>2. Exact(pool)
  BY <1>1 DEF PoolsExact, Types
<1>3. /\ SlotCount(pool) \in Nat /\ pool.sparse \in [Keys -> 0..SlotCount(pool)]
      /\ Agree(pool.sparse, pool.slots, SlotCount(pool))
  BY <1>2, ExactParts
<1>4. k \in Keys /\ Passes(k) /\ pool.sparse[k] # 0
  BY <1>1 DEF Matching, Passes, Contains, Absent
<1>5. pool.sparse[k] \in 1..SlotCount(pool)
  <2>1. pool.sparse[k] \in 0..SlotCount(pool)
    BY <1>3, <1>4
  <2> QED BY <1>3, <1>4, <2>1
<1>6. \A s \in 1..SlotCount(pool) : pool.slots[s] = k <=> pool.sparse[k] = s
  BY <1>3, <1>4 DEF Agree
<1>7. pool.slots[pool.sparse[k]] = k
  BY <1>5, <1>6
<1>8. k # Tombstone
  BY <1>4 DEF PoolAssumption
<1> QED BY <1>1, <1>4, <1>5, <1>6, <1>7, <1>8 DEF Visible, IsLive

\* The walk goes on to the next visible slot.
LEMMA NextSlot ==
  ASSUME PoolAssumption, PoolsExact, driver \in Ext!ToSet(Includes),
         NEW c \in Nat, NEW last \in Nat, last <= SlotCount(pools[driver]),
         NEW already, Ahead(c, last) # {}, GoTo(Ahead(c, last), already)
  PROVE  /\ cursor' \in 1..last /\ cursor' > c
         /\ pools[driver].slots[cursor'] \in Matching
         /\ visited' = already \cup {pools[driver].slots[cursor']}
         /\ \A k \in Matching : pools[driver].sparse[k] > c /\ pools[driver].sparse[k] <= last
              => cursor' <= pools[driver].sparse[k]
<1>1. PICK A : A = Ahead(c, last)
  OBVIOUS
<1>2. A \in SUBSET Nat /\ A # {} /\ \A s \in A : s \in 1..last /\ s > c /\ Visible(s)
  BY <1>1 DEF Ahead
<1>3. cursor' \in A /\ \A s \in A : cursor' <= s
  <2>1. \E m \in A : \A n \in A : m <= n
    BY <1>2, Least
  <2>2. cursor' = CHOOSE s \in A : \A t \in A : s <= t
    BY <1>1 DEF GoTo
  <2> QED BY <2>1, <2>2
<1>4. visited' = already \cup {pools[driver].slots[cursor']}
  BY DEF GoTo
<1>5. cursor' \in 1..last /\ cursor' > c /\ Visible(cursor')
  BY <1>2, <1>3
<1>6. pools[driver].slots[cursor'] \in Matching
  <2>1. Exact(pools[driver])
    BY DEF PoolsExact, Types
  <2>2. SlotCount(pools[driver]) \in Nat /\ pools[driver].slots \in Seq(Keys \cup {Tombstone})
        /\ Len(pools[driver].slots) = SlotCount(pools[driver])
    BY <2>1, ExactParts
  <2>3. cursor' \in 1..SlotCount(pools[driver])
    BY <1>5, <2>2
  <2>4. pools[driver].slots[cursor'] \in Keys \cup {Tombstone}
    BY <2>2, <2>3, ElementOfSeq
  <2> QED BY <1>5, <2>4 DEF Visible, IsLive, Matching
<1>7. ASSUME NEW k \in Matching, pools[driver].sparse[k] > c, pools[driver].sparse[k] <= last
      PROVE  cursor' <= pools[driver].sparse[k]
  <2>1. pools[driver].sparse[k] \in Nat /\ Visible(pools[driver].sparse[k])
    BY MatchIsVisible
  <2>2. pools[driver].sparse[k] \in c + 1 .. last
    BY <1>7, <2>1
  <2>3. pools[driver].sparse[k] \in A
    BY <1>1, <2>1, <2>2 DEF Ahead
  <2> QED BY <1>3, <2>3
<1> QED BY <1>4, <1>5, <1>6, <1>7

-----------------------------------------------------------------------------
(***************************************************************************)
(* view: the steps.                                                        *)
(***************************************************************************)

\* A change that moves nothing disturbs no walk.
LEMMA Changed ==
  ASSUME ViewAssumption, ViewInv, NEW newPools, Change(newPools),
         DOMAIN newPools = Types,
         \A T \in Types :
           /\ Exact(newPools[T]) /\ SlotCount(newPools[T]) >= SlotCount(pools[T])
           /\ \A k \in Keys : Contains(pools[T], k) /\ Contains(newPools[T], k)
                                => newPools[T].sparse[k] = pools[T].sparse[k]
  PROVE  ViewInv' /\ Steady
<1>1. /\ changes < MaxChanges /\ changes' = changes + 1 /\ pools' = newPools
      /\ undisturbed' = undisturbed \cap Matching'
      /\ driver' = driver /\ cursor' = cursor /\ count' = count /\ visited' = visited
  BY DEF Change, walk
<1>2. Steady
  BY <1>1 DEF Steady
<1>3. DOMAIN pools' = Types /\ \A T \in Types : Exact(pools'[T])
  BY <1>1
<1>4. /\ driver \in Ext!ToSet(Includes) \cup {NoType}
      /\ Walking => count <= SlotCount(pools[driver]) /\ cursor \in 1..count
      /\ visited \subseteq Keys /\ undisturbed \subseteq Matching
      /\ changes \in 0..MaxChanges
  BY DEF ViewInv, PoolsExact
<1>5. Walking' <=> Walking
  BY <1>1 DEF Walking
<1>6. changes' \in 0..MaxChanges
  BY <1>1, <1>4 DEF ViewAssumption
<1>7. CASE ~Walking
  BY <1>1, <1>2, <1>3, <1>4, <1>5, <1>6, <1>7 DEF ViewInv, PoolsExact, Walked, Types
<1>8. CASE Walking
  <2>1. driver \in Ext!ToSet(Includes) /\ driver \in Types
    BY <1>8 DEF ViewInv, Walked, Types
  <2>2. count <= SlotCount(pools'[driver])
    <3>1. Exact(pools[driver]) /\ Exact(pools'[driver])
      BY <1>3, <2>1 DEF ViewInv, PoolsExact
    <3>2. SlotCount(pools[driver]) \in Nat /\ SlotCount(pools'[driver]) \in Nat
      BY <3>1, ExactParts
    <3>3. cursor \in 1..count /\ count <= SlotCount(pools[driver])
      BY <1>4, <1>8
    <3>4. SlotCount(pools'[driver]) >= SlotCount(pools[driver])
      BY <1>1, <2>1
    <3>5. count \in Int
      BY <1>8 DEF ViewInv, Walked
    <3> QED BY <3>2, <3>3, <3>4, <3>5
  <2>3. \A k \in undisturbed' : /\ k \in undisturbed
                                /\ pools'[driver].sparse[k] = pools[driver].sparse[k]
    <3> TAKE k \in undisturbed'
    <3>1. k \in undisturbed /\ k \in Matching /\ k \in Matching'
      BY <1>1, <1>4
    <3>2. k \in Keys /\ Contains(pools[driver], k) /\ Contains(pools'[driver], k)
      BY <1>1, <2>1, <3>1 DEF Matching, Passes, Contains
    <3> QED BY <1>2, <2>1, <3>1, <3>2 DEF Steady
  <2>4. PoolsExact'
    BY <1>1, <1>3, <1>4, <1>5, <1>6, <1>8, <2>2 DEF PoolsExact, Types, SlotCount
  <2>5. Walked'
    BY <1>1, <1>8, <2>1, <2>3 DEF Walked, ViewInv
  <2> QED BY <1>2, <2>4, <2>5 DEF ViewInv
<1> QED BY <1>7, <1>8

\* registry::add, remove and destroy are such changes.
LEMMA AddKeeps ==
  ASSUME PoolAssumption, ViewAssumption, ViewInv, NEW T \in Types, NEW k \in Keys, Add(T, k)
  PROVE  ViewInv' /\ Steady
<1>1. PICK new : new = [pools EXCEPT ![T] = Inserted(pools[T], k)]
  OBVIOUS
<1>2. ~Contains(pools[T], k) /\ Change(new)
  BY <1>1 DEF Add
<1>3. DOMAIN pools = Types /\ \A U \in Types : Exact(pools[U])
  BY DEF ViewInv, PoolsExact
<1>4. DOMAIN new = Types /\ \A U \in Types : new[U] = IF U = T THEN Inserted(pools[T], k) ELSE pools[U]
  BY <1>1, <1>3
<1>5. ASSUME NEW U \in Types
      PROVE  /\ Exact(new[U]) /\ SlotCount(new[U]) >= SlotCount(pools[U])
             /\ \A j \in Keys : Contains(pools[U], j) /\ Contains(new[U], j)
                                  => new[U].sparse[j] = pools[U].sparse[j]
  <2>1. CASE U = T
    <3>1. /\ Exact(Inserted(pools[T], k))
          /\ SlotCount(Inserted(pools[T], k)) >= SlotCount(pools[T])
          /\ \A j \in Keys : j # k => Inserted(pools[T], k).sparse[j] = pools[T].sparse[j]
      BY <1>2, <1>3, InsertKeepsExact
    <3>2. new[U] = Inserted(pools[T], k)
      BY <1>4, <2>1
    <3> QED BY <1>2, <2>1, <3>1, <3>2
  <2>2. CASE U # T
    <3>1. new[U] = pools[U] /\ SlotCount(pools[U]) \in Nat
      BY <1>3, <1>4, <2>2, ExactParts
    <3>2. SlotCount(pools[U]) >= SlotCount(pools[U])
      BY <3>1
    <3> QED BY <1>3, <3>1, <3>2
  <2> QED BY <2>1, <2>2
<1> QED BY <1>2, <1>4, <1>5, Changed

LEMMA EraseMovesNothing ==
  ASSUME PoolAssumption, NEW pool, Exact(pool), NEW k \in Keys
  PROVE  /\ Exact(Erased(pool, k)) /\ SlotCount(Erased(pool, k)) >= SlotCount(pool)
         /\ \A j \in Keys : Contains(pool, j) /\ Contains(Erased(pool, k), j)
                              => Erased(pool, k).sparse[j] = pool.sparse[j]
<1>1. SlotCount(pool) \in Nat
  BY ExactParts
<1>2. /\ Exact(Erased(pool, k)) /\ SlotCount(Erased(pool, k)) = SlotCount(pool)
      /\ ~Contains(Erased(pool, k), k)
      /\ \A j \in Keys : j # k => Erased(pool, k).sparse[j] = pool.sparse[j]
  BY EraseKeepsExact
<1>3. SlotCount(Erased(pool, k)) >= SlotCount(pool)
  BY <1>1, <1>2
<1> QED BY <1>2, <1>3

LEMMA RemoveKeeps ==
  ASSUME PoolAssumption, ViewAssumption, ViewInv, NEW T \in Types, NEW k \in Keys, Remove(T, k)
  PROVE  ViewInv' /\ Steady
<1>1. PICK new : new = [pools EXCEPT ![T] = Erased(pools[T], k)]
  OBVIOUS
<1>2. Change(new)
  BY <1>1 DEF Remove
<1>3. DOMAIN pools = Types /\ \A U \in Types : Exact(pools[U])
  BY DEF ViewInv, PoolsExact
<1>4. DOMAIN new = Types /\ \A U \in Types : new[U] = IF U = T THEN Erased(pools[T], k) ELSE pools[U]
  BY <1>1, <1>3
<1>5. ASSUME NEW U \in Types
      PROVE  /\ Exact(new[U]) /\ SlotCount(new[U]) >= SlotCount(pools[U])
             /\ \A j \in Keys : Contains(pools[U], j) /\ Contains(new[U], j)
                                  => new[U].sparse[j] = pools[U].sparse[j]
  <2>1. CASE U = T
    <3>1. new[U] = Erased(pools[U], k) /\ Exact(pools[U])
      BY <1>3, <1>4, <2>1
    <3> QED BY <3>1, EraseMovesNothing
  <2>2. CASE U # T
    <3>1. new[U] = pools[U] /\ SlotCount(pools[U]) \in Nat
      BY <1>3, <1>4, <2>2, ExactParts
    <3>2. SlotCount(pools[U]) >= SlotCount(pools[U])
      BY <3>1
    <3> QED BY <1>3, <3>1, <3>2
  <2> QED BY <2>1, <2>2
<1> QED BY <1>2, <1>4, <1>5, Changed

LEMMA DestroyKeeps ==
  ASSUME PoolAssumption, ViewAssumption, ViewInv, NEW k \in Keys, Destroy(k)
  PROVE  ViewInv' /\ Steady
<1>1. PICK new : new = [T \in Types |-> Erased(pools[T], k)]
  OBVIOUS
<1>2. Change(new)
  BY <1>1 DEF Destroy
<1>3. DOMAIN new = Types /\ \A U \in Types : new[U] = Erased(pools[U], k) /\ Exact(pools[U])
  BY <1>1 DEF ViewInv, PoolsExact
<1>4. \A U \in Types :
        /\ Exact(new[U]) /\ SlotCount(new[U]) >= SlotCount(pools[U])
        /\ \A j \in Keys : Contains(pools[U], j) /\ Contains(new[U], j)
                             => new[U].sparse[j] = pools[U].sparse[j]
  <2> TAKE U \in Types
  <2>1. new[U] = Erased(pools[U], k) /\ Exact(pools[U])
    BY <1>3
  <2> QED BY <2>1, EraseMovesNothing
<1> QED BY <1>2, <1>3, <1>4, Changed

LEMMA ConstructKeeps ==
  ASSUME PoolAssumption, ViewAssumption, ViewInv, Construct
  PROVE  ViewInv'
<1>1. /\ ~Walking /\ driver' = Smallest /\ pools' = pools /\ cursor' = cursor /\ count' = count
      /\ visited' = visited /\ undisturbed' = undisturbed /\ changes' = changes
  BY DEF Construct, walk
<1>2. driver' \in Ext!ToSet(Includes)
  BY <1>1, DriverIsIncluded DEF ViewInv
<1>3. ~Walking' /\ Matching' = Matching
  BY <1>1 DEF Walking, Matching, Passes, Contains
<1>4. PoolsExact'
  BY <1>1, <1>2, <1>3 DEF ViewInv, PoolsExact, Types
<1>5. Walked'
  BY <1>3 DEF Walked
<1> QED BY <1>4, <1>5 DEF ViewInv

LEMMA BeginKeeps ==
  ASSUME PoolAssumption, ViewAssumption, ViewInv, Begin
  PROVE  ViewInv'
<1> DEFINE n == SlotCount(pools[driver])
           sp == pools[driver].sparse
           sl == pools[driver].slots
<1>1. /\ driver # NoType /\ Ahead(0, n) # {} /\ count' = n /\ GoTo(Ahead(0, n), {})
      /\ undisturbed' = Matching /\ pools' = pools /\ driver' = driver /\ changes' = changes
  BY DEF Begin
<1>2. /\ DOMAIN pools = Types /\ \A T \in Types : Exact(pools[T])
      /\ driver \in Ext!ToSet(Includes) /\ changes \in 0..MaxChanges
  BY <1>1 DEF ViewInv, PoolsExact
<1>3. n \in Nat
  <2>1. Exact(pools[driver])
    BY <1>2 DEF Types
  <2> QED BY <2>1, ExactParts
<1>4. /\ cursor' \in 1..n /\ sl[cursor'] \in Matching /\ visited' = {} \cup {sl[cursor']}
      /\ \A k \in Matching : sp[k] > 0 /\ sp[k] <= n => cursor' <= sp[k]
  <2>1. n <= n
    BY <1>3
  <2>2. 0 \in Nat
    OBVIOUS
  <2> QED BY <1>1, <1>2, <1>3, <2>1, <2>2, NextSlot DEF ViewInv
<1>5. \A k \in Matching : sp[k] \in 1..n /\ \A s \in 1..n : sl[s] = k <=> sp[k] = s
  BY <1>2, MatchIsVisible DEF ViewInv
<1> HIDE DEF n, sp, sl
<1>6. Matching' = Matching
  BY <1>1 DEF Matching, Passes, Contains
<1>7. \A k \in undisturbed' : sp[k] <= n /\ (k \in visited' <=> sp[k] <= cursor')
  <2> TAKE k \in undisturbed'
  <2>1. sp[k] \in 1..n /\ (sl[cursor'] = k <=> sp[k] = cursor') /\ cursor' <= sp[k]
    <3>1. k \in Matching
      BY <1>1
    <3>2. sp[k] \in 1..n /\ (sl[cursor'] = k <=> sp[k] = cursor')
      BY <1>4, <1>5, <3>1
    <3>3. sp[k] > 0 /\ sp[k] <= n
      BY <1>3, <3>2
    <3> QED BY <1>4, <3>1, <3>2, <3>3
  <2>2. k \in visited' <=> sl[cursor'] = k
    BY <1>4
  <2>3. cursor' \in Nat /\ sp[k] \in Nat /\ sp[k] <= n
    BY <1>3, <1>4, <2>1
  <2> QED BY <2>1, <2>2, <2>3
<1>8. visited' \subseteq Keys
  BY <1>4 DEF Matching
<1>9. PoolsExact'
  <2>1. count' <= SlotCount(pools'[driver']) /\ cursor' \in 1..count'
    BY <1>1, <1>3, <1>4 DEF n
  <2> QED BY <1>1, <1>2, <1>6, <1>8, <2>1 DEF PoolsExact, Types
<1>10. Walked'
  <2>1. \A k \in undisturbed' : /\ pools'[driver'].sparse[k] <= count'
                                /\ k \in visited' <=> pools'[driver'].sparse[k] <= cursor'
    BY <1>1, <1>7 DEF sp, n
  <2> QED BY <1>1, <1>2, <1>3, <2>1 DEF Walked
<1> QED BY <1>9, <1>10 DEF ViewInv

\* What the callback returned from sees, and where the walk goes then.
LEMMA AdvanceKeeps ==
  ASSUME PoolAssumption, ViewInv, Advance
  PROVE  /\ ViewInv'
         /\ visited' \subseteq visited \cup Matching
         /\ pools[driver].slots[cursor'] \in undisturbed
              => pools[driver].slots[cursor'] \notin visited
<1> DEFINE n == SlotCount(pools[driver])
           sp == pools[driver].sparse
           sl == pools[driver].slots
<1>1. /\ Walking /\ Ahead(cursor, count) # {} /\ GoTo(Ahead(cursor, count), visited)
      /\ pools' = pools /\ driver' = driver /\ count' = count /\ undisturbed' = undisturbed
      /\ changes' = changes
  BY DEF Advance
<1>2. /\ DOMAIN pools = Types /\ \A T \in Types : Exact(pools[T])
      /\ driver \in Ext!ToSet(Includes) /\ changes \in 0..MaxChanges
      /\ count \in Nat /\ count <= n /\ cursor \in 1..count
      /\ visited \subseteq Keys /\ undisturbed \subseteq Matching
      /\ \A k \in undisturbed : sp[k] <= count /\ (k \in visited <=> sp[k] <= cursor)
  BY <1>1 DEF ViewInv, PoolsExact, Walked
<1>3. n \in Nat
  <2>1. Exact(pools[driver])
    BY <1>2 DEF Types
  <2> QED BY <2>1, ExactParts
<1>4. /\ cursor' \in 1..count /\ cursor' > cursor
      /\ sl[cursor'] \in Matching /\ visited' = visited \cup {sl[cursor']}
      /\ \A k \in Matching : sp[k] > cursor /\ sp[k] <= count => cursor' <= sp[k]
  <2>1. cursor \in Nat
    BY <1>2
  <2> QED BY <1>1, <1>2, <2>1, NextSlot DEF ViewInv
<1>5. \A k \in Matching : sp[k] \in 1..n /\ \A s \in 1..n : sl[s] = k <=> sp[k] = s
  BY <1>2, MatchIsVisible DEF ViewInv
<1> HIDE DEF n, sp, sl
<1>6. Matching' = Matching
  BY <1>1 DEF Matching, Passes, Contains
<1>7. cursor' \in 1..n /\ cursor' \in Nat /\ cursor \in Nat
  BY <1>2, <1>3, <1>4
<1>8. \A k \in undisturbed :
        /\ sp[k] \in Nat /\ (sl[cursor'] = k <=> sp[k] = cursor')
        /\ sp[k] > cursor => cursor' <= sp[k]
  <2> TAKE k \in undisturbed
  <2>1. k \in Matching /\ sp[k] <= count
    BY <1>2
  <2>2. sp[k] \in 1..n /\ (sl[cursor'] = k <=> sp[k] = cursor')
    BY <1>5, <1>7, <2>1
  <2> QED BY <1>4, <2>1, <2>2
<1>9. \A k \in undisturbed : k \in visited' <=> sp[k] <= cursor'
  <2> TAKE k \in undisturbed
  <2>1. k \in visited' <=> (sp[k] <= cursor \/ sp[k] = cursor')
    BY <1>2, <1>4, <1>8
  <2>2. sp[k] \in Nat /\ (sp[k] > cursor => cursor' <= sp[k]) /\ cursor' > cursor
    BY <1>4, <1>8
  <2> QED BY <1>7, <2>1, <2>2
<1>10. visited' \subseteq Keys /\ visited' \subseteq visited \cup Matching
  BY <1>2, <1>4 DEF Matching
<1>11. ASSUME sl[cursor'] \in undisturbed PROVE sl[cursor'] \notin visited
  <2>1. PICK k \in undisturbed : k = sl[cursor']
    BY <1>11
  <2>2. sp[k] = cursor' /\ ~(cursor' <= cursor)
    BY <1>4, <1>7, <1>8, <2>1
  <2> QED BY <1>2, <2>1, <2>2
<1>12. PoolsExact'
  <2>1. count' <= SlotCount(pools'[driver']) /\ cursor' \in 1..count'
    BY <1>1, <1>2, <1>4 DEF n
  <2> QED BY <1>1, <1>2, <1>6, <1>10, <2>1 DEF PoolsExact, Types
<1>13. Walked'
  <2>1. \A k \in undisturbed' : /\ pools'[driver'].sparse[k] <= count'
                                /\ k \in visited' <=> pools'[driver'].sparse[k] <= cursor'
    BY <1>1, <1>2, <1>9 DEF sp
  <2> QED BY <1>1, <1>2, <2>1 DEF Walked
<1> QED BY <1>10, <1>11, <1>12, <1>13 DEF ViewInv, sl

LEMMA EndKeeps ==
  ASSUME PoolAssumption, ViewInv, End
  PROVE  ViewInv' /\ undisturbed \subseteq visited
<1>1. /\ Walking /\ Ahead(cursor, count) = {} /\ cursor' = 0
      /\ visited' = {} /\ undisturbed' = {}
      /\ pools' = pools /\ driver' = driver /\ changes' = changes
  BY DEF End
<1>2. PoolsExact' /\ Walked'
  BY <1>1 DEF ViewInv, PoolsExact, Walked, Walking, Types
<1>3. ASSUME NEW k \in undisturbed PROVE k \in visited
  <2> DEFINE s == pools[driver].sparse[k]
  <2>1. /\ driver \in Ext!ToSet(Includes) /\ k \in Matching /\ s <= count /\ count \in Nat
        /\ cursor \in 1..count /\ (k \in visited <=> s <= cursor)
    BY <1>1 DEF ViewInv, PoolsExact, Walked
  <2>2. s \in Nat /\ Visible(s)
    BY <2>1, MatchIsVisible DEF ViewInv
  <2>3. s \notin cursor + 1 .. count
    BY <1>1, <2>2 DEF Ahead
  <2> HIDE DEF s
  <2>4. s <= cursor
    BY <2>1, <2>2, <2>3
  <2> QED BY <2>1, <2>4
<1> QED BY <1>2, <1>3 DEF ViewInv

LEMMA ViewInit == PoolAssumption /\ ViewAssumption /\ Init => ViewInv
<1> SUFFICES ASSUME PoolAssumption, ViewAssumption, Init PROVE ViewInv
  OBVIOUS
<1>1. /\ pools \in [Types -> {Filled(order) : order \in Orders}]
      /\ driver = NoType /\ cursor = 0 /\ visited = {} /\ undisturbed = {} /\ changes = 0
  BY DEF Init
<1>2. DOMAIN pools = Types /\ \A T \in Types : Exact(pools[T])
  <2>1. \A T \in Types : \E order \in Orders : pools[T] = Filled(order)
    BY <1>1
  <2> QED BY <1>1, <2>1, FilledIsExact
<1>3. ~Walking
  BY <1>1 DEF Walking
<1>4. changes \in 0..MaxChanges
  BY <1>1 DEF ViewAssumption
<1> QED BY <1>1, <1>2, <1>3, <1>4 DEF ViewInv, PoolsExact, Walked

LEMMA ViewStutters == ViewInv /\ UNCHANGED vars => ViewInv'
<1> SUFFICES ASSUME ViewInv, UNCHANGED vars PROVE ViewInv'
  OBVIOUS
<1>1. /\ pools' = pools /\ driver' = driver /\ cursor' = cursor /\ count' = count
      /\ visited' = visited /\ undisturbed' = undisturbed /\ changes' = changes
  BY DEF vars, walk
<1>2. (Walking' <=> Walking) /\ Matching' = Matching
  BY <1>1 DEF Walking, Matching, Passes, Contains
<1>3. PoolsExact'
  BY <1>1, <1>2 DEF ViewInv, PoolsExact, Types
<1>4. Walked'
  BY <1>1, <1>2 DEF ViewInv, Walked
<1> QED BY <1>3, <1>4 DEF ViewInv

LEMMA ViewNext == PoolAssumption /\ ViewAssumption /\ ViewInv /\ [Next]_vars => ViewInv'
<1> SUFFICES ASSUME PoolAssumption, ViewAssumption, ViewInv, [Next]_vars PROVE ViewInv'
  OBVIOUS
<1>1. CASE \E T \in Types, k \in Keys : Add(T, k) \/ Remove(T, k)
  BY <1>1, AddKeeps, RemoveKeeps
<1>2. CASE \E k \in Keys : Destroy(k)
  BY <1>2, DestroyKeeps
<1>3. CASE Construct
  BY <1>3, ConstructKeeps
<1>4. CASE Begin
  BY <1>4, BeginKeeps
<1>5. CASE Advance
  BY <1>5, AdvanceKeeps
<1>6. CASE End
  BY <1>6, EndKeeps
<1>7. CASE UNCHANGED vars
  BY <1>7, ViewStutters
<1> QED BY <1>1, <1>2, <1>3, <1>4, <1>5, <1>6, <1>7 DEF Next

-----------------------------------------------------------------------------
(***************************************************************************)
(* The theorems about pools and views.                                     *)
(***************************************************************************)

\* The invariant of the pools and of the walk over them is inductive.
THEOREM ViewInvariantHolds ==
  ASSUME PoolAssumption, ViewAssumption
  PROVE  Spec => []ViewInv
<1>1. Init => ViewInv
  BY ViewInit
<1>2. ViewInv /\ [Next]_vars => ViewInv'
  BY ViewNext
<1> QED BY <1>1, <1>2, PTL DEF Spec

\* In every storage of a registry keys, slots, tombstones and the size agree, whatever a
\* callback does in the middle of a walk.
THEOREM PoolsAreExact ==
  ASSUME PoolAssumption, ViewAssumption
  PROVE  Spec => []PoolsExact
<1>1. ViewInv => PoolsExact
  BY DEF ViewInv
<1> QED BY <1>1, ViewInvariantHolds, PTL

\* view::each passes every lasting match to the callback once, and a component that stays
\* keeps its slot.
THEOREM EachIsOnce ==
  ASSUME PoolAssumption, ViewAssumption
  PROVE  Spec => EachOnce
<1> DEFINE Once ==
      /\ Advance => /\ visited' \subseteq visited \cup Matching
                    /\ pools[driver].slots[cursor'] \in undisturbed
                         => pools[driver].slots[cursor'] \notin visited
      /\ End => undisturbed \subseteq visited
      /\ \A T \in Types, k \in Keys :
           Contains(pools[T], k) /\ Contains(pools'[T], k)
             => pools'[T].sparse[k] = pools[T].sparse[k]
<1>1. ViewInv /\ [Next]_vars => [Once]_vars
  <2> SUFFICES ASSUME ViewInv, Next PROVE Once
    OBVIOUS
  <2>1. Advance => /\ visited' \subseteq visited \cup Matching
                   /\ pools[driver].slots[cursor'] \in undisturbed
                        => pools[driver].slots[cursor'] \notin visited
    BY AdvanceKeeps
  <2>2. End => undisturbed \subseteq visited
    BY EndKeeps
  <2>3. Steady
    <3>1. CASE \E T \in Types, k \in Keys : Add(T, k) \/ Remove(T, k)
      BY <3>1, AddKeeps, RemoveKeeps
    <3>2. CASE \E k \in Keys : Destroy(k)
      BY <3>2, DestroyKeeps
    <3>3. CASE Construct \/ Begin \/ Advance \/ End
      <4>1. pools' = pools
        BY <3>3 DEF Construct, Begin, Advance, End
      <4> QED BY <4>1 DEF Steady
    <3> QED BY <3>1, <3>2, <3>3 DEF Next
  <2> QED BY <2>1, <2>2, <2>3 DEF Steady
<1> QED BY <1>1, ViewInvariantHolds, PTL DEF Spec, EachOnce
=============================================================================
