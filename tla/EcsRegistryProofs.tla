-------------------------- MODULE EcsRegistryProofs --------------------------
(***************************************************************************)
(* Proofs about EcsRegistry, for any number of indices, generations,       *)
(* component types and nested operations; and, from the theorems of        *)
(* StoresProofs, about the composition of the stores in MCStores.          *)
(***************************************************************************)
EXTENDS MCStores, SequenceTheorems, WellFoundedInduction, TLAPS

(***************************************************************************)
(* The inductive invariant.                                                *)
(***************************************************************************)

\* Room for the generations to come: a dying index's, and every index's while clear
\* is in progress.
RoomToBump ==
  /\ \A i \in 1..Len(generations) :
       generations[i] <= IF "clear" \in Ops THEN MaxGeneration ELSE MaxGeneration + 1
  /\ \A i \in Dying : generations[i] < MaxGeneration

\* Only listeners call further operations, and none of them clear.
Nesting ==
  \A k \in 1..Len(frames) :
    /\ frames[k].op = "clear" => k = 1
    /\ k < Len(frames) \/ frames[k].op \in {"notify", "remove"} => frames[k].type # NoType

\* What a frame hands to its listeners is there, and no operation above it takes it away.
Delivering ==
  /\ \A k \in 1..Len(frames) : frames[k].type # NoType => frames[k].index \in has[frames[k].type]
  /\ \A j, k \in 1..Len(frames) : j < k =>
       /\ frames[k].op = "remove" =>
            ~(frames[j].type = frames[k].type /\ frames[j].index = frames[k].index)
       /\ frames[k].op = "destroy" => frames[j].index # frames[k].index

\* Components belong to entities that are alive or being destroyed; destroy has still to
\* erase those from the type it has reached up to the table it began with.
Placed ==
  /\ \A T \in Types : has[T] \subseteq alive \cup Dying
  /\ \A k \in Destroying : \A T \in Types :
       frames[k].index \in has[T] => frames[k].type <= T /\ T <= frames[k].count

Erasing == {k \in 1..Len(frames) : frames[k].op \in {"remove", "destroy"}}

\* remove and destroy have announced what they are about to erase, and outside clear
\* nothing else is announced.
Announced ==
  /\ \A k \in Erasing : frames[k].type # NoType => <<frames[k].type, frames[k].index>> \in fired
  /\ "clear" \notin Ops =>
       \A c \in fired : \E k \in Erasing : c = <<frames[k].type, frames[k].index>>

\* What clear still owes an announcement is there, ahead of it.
Owing ==
  /\ owed \subseteq Components
  /\ "clear" \notin Ops => owed = {}
  /\ Busy /\ frames[1].op = "clear" =>
       \A c \in owed :
         \/ c[2] \in frames[1].todo
         \/ c[2] = frames[1].index /\ frames[1].type < c[1] /\ c[1] <= frames[1].count

Inv ==
  /\ FreeListExact /\ RoomToBump /\ Nesting
  /\ Delivering /\ Placed /\ Announced /\ Owing

-----------------------------------------------------------------------------
(***************************************************************************)
(* Lemmas about the operators of the model.                                *)
(***************************************************************************)

\* The loops over the storages find the least type first.
LEMMA LeastType ==
  ASSUME NEW S \in SUBSET Types, S # {}
  PROVE  First(S) \in S /\ \A T \in S : First(S) <= T
<1>1. S \subseteq Nat
  BY BoundsAssumption DEF Types
<1>2. IsWellFoundedOn(OpToRel(<, Nat), Nat)
  BY NatLessThanWellFounded
<1>3. PICK m \in S : \A T \in S : ~(<<T, m>> \in OpToRel(<, Nat))
  BY <1>1, <1>2, WFMin
<1>4. \A T \in S : ~(T < m)
  BY <1>1, <1>3 DEF OpToRel
<1>5. \A T \in S : m <= T
  BY <1>1, <1>4
<1> QED BY <1>5 DEF First

\* The set on the free list.
Free == {free[k] : k \in 1..Len(free)}

LEMMA FreeIsToSet ==
  ASSUME NEW S, free \in Seq(S)
  PROVE  Ext!ToSet(free) = Free
BY LenProperties DEF Ext!ToSet, Free

\* An operation begins.
LEMMA Pushed ==
  ASSUME NEW S, frames \in Seq(S), NEW f \in S, frames' = Append(frames, f)
  PROVE  /\ frames' \in Seq(S) /\ Len(frames) \in Nat /\ Len(frames') = Len(frames) + 1
         /\ \A k \in 1..Len(frames) : frames'[k] = frames[k]
         /\ frames'[Len(frames) + 1] = f
         /\ Ops' = Ops \cup {f.op}
         /\ Destroying' = IF f.op = "destroy" THEN Destroying \cup {Len(frames) + 1} ELSE Destroying
         /\ Dying' = IF f.op = "destroy" THEN Dying \cup {f.index} ELSE Dying
         /\ Busy'
<1> DEFINE n == Len(frames)
<1>1. /\ frames' \in Seq(S) /\ n \in Nat /\ Len(frames') = n + 1
      /\ \A k \in 1..n : frames'[k] = frames[k]
      /\ frames'[n + 1] = f
  BY AppendProperties, LenProperties
<1> HIDE DEF n
<1>2. 1..(n + 1) = (1..n) \cup {n + 1} /\ n + 1 \notin 1..n
  BY <1>1
<1>3. Ops' = {frames'[k].op : k \in 1..(n + 1)} /\ Ops = {frames[k].op : k \in 1..n}
  BY <1>1 DEF Ops, n
<1>4. Ops' = Ops \cup {f.op}
  BY <1>1, <1>2, <1>3
<1>5. /\ Destroying' = {k \in 1..(n + 1) : frames'[k].op = "destroy"}
      /\ Destroying = {k \in 1..n : frames[k].op = "destroy"}
  BY <1>1 DEF Destroying, n
<1>6. Destroying' = IF f.op = "destroy" THEN Destroying \cup {n + 1} ELSE Destroying
  BY <1>1, <1>2, <1>5
<1>7. Dying' = {frames'[k].index : k \in Destroying'} /\ Dying = {frames[k].index : k \in Destroying}
  BY DEF Dying
<1>8. \A k \in Destroying : frames'[k].index = frames[k].index
  BY <1>1, <1>5
<1>9. Dying' = IF f.op = "destroy" THEN Dying \cup {f.index} ELSE Dying
  <2>1. CASE f.op = "destroy"
    <3>1. Destroying' = Destroying \cup {n + 1}
      BY <1>6, <2>1
    <3>2. Dying' = {frames'[k].index : k \in Destroying} \cup {frames'[n + 1].index}
      BY <1>7, <3>1
    <3>3. {frames'[k].index : k \in Destroying} = Dying
      BY <1>7, <1>8
    <3>4. frames'[n + 1].index = f.index
      BY <1>1
    <3> QED BY <2>1, <3>2, <3>3, <3>4
  <2>2. CASE f.op # "destroy"
    <3>1. Destroying' = Destroying
      BY <1>6, <2>2
    <3> QED BY <1>7, <1>8, <2>2, <3>1
  <2> QED BY <2>1, <2>2
<1>10. Busy'
  BY <1>1, EmptySeq DEF Busy
<1> QED BY <1>1, <1>4, <1>6, <1>9, <1>10 DEF n

\* The topmost operation ends.
LEMMA Popped ==
  ASSUME NEW S, frames \in Seq(S), Busy, Pop
  PROVE  /\ frames' \in Seq(S) /\ Len(frames) \in Nat \ {0} /\ Len(frames') = Len(frames) - 1
         /\ \A k \in 1..(Len(frames) - 1) : frames'[k] = frames[k]
         /\ Top = frames[Len(frames)]
         /\ Ops = Ops' \cup {Top.op}
         /\ Destroying' = Destroying \ {Len(frames)}
         /\ Dying = IF Top.op = "destroy" THEN Dying' \cup {Top.index} ELSE Dying'
<1> DEFINE n == Len(frames)
<1>1. n \in Nat /\ n # 0
  BY EmptySeq, LenProperties DEF Busy
<1>2. /\ frames' \in Seq(S) /\ Len(frames') = n - 1
      /\ \A k \in 1..(n - 1) : frames'[k] = frames[k]
  <2>1. \A k \in 1..(n - 1) : frames[k] \in S
    BY <1>1, ElementOfSeq
  <2>2. /\ SubSeq(frames, 1, n - 1) \in Seq(S)
        /\ Len(SubSeq(frames, 1, n - 1)) = IF 1 <= n - 1 THEN (n - 1) - 1 + 1 ELSE 0
        /\ \A k \in 1..((n - 1) - 1 + 1) : SubSeq(frames, 1, n - 1)[k] = frames[1 + k - 1]
    BY <1>1, <2>1, SubSeqProperties
  <2>3. frames' = SubSeq(frames, 1, n - 1)
    BY DEF Pop
  <2>4. (n - 1) - 1 + 1 = n - 1 /\ \A k \in 1..(n - 1) : 1 + k - 1 = k
    BY <1>1
  <2> QED BY <1>1, <2>2, <2>3, <2>4
<1>3. Top = frames[n]
  BY DEF Top
<1> HIDE DEF n
<1>4. 1..n = (1..(n - 1)) \cup {n} /\ n \notin 1..(n - 1)
  BY <1>1
<1>5. Ops' = {frames'[k].op : k \in 1..(n - 1)} /\ Ops = {frames[k].op : k \in 1..n}
  BY <1>2 DEF Ops, n
<1>6. Ops = Ops' \cup {Top.op}
  BY <1>2, <1>3, <1>4, <1>5
<1>7. /\ Destroying' = {k \in 1..(n - 1) : frames'[k].op = "destroy"}
      /\ Destroying = {k \in 1..n : frames[k].op = "destroy"}
  BY <1>2 DEF Destroying, n
<1>8. Destroying' = Destroying \ {n}
  BY <1>2, <1>4, <1>7
<1>9. Dying' = {frames'[k].index : k \in Destroying'} /\ Dying = {frames[k].index : k \in Destroying}
  BY DEF Dying
<1>10. \A k \in Destroying' : frames'[k].index = frames[k].index
  BY <1>2, <1>7
<1>11. Dying = IF Top.op = "destroy" THEN Dying' \cup {Top.index} ELSE Dying'
  <2>1. CASE Top.op = "destroy"
    <3>1. Destroying = Destroying' \cup {n}
      BY <1>3, <1>4, <1>7, <1>8, <2>1
    <3> QED BY <1>3, <1>9, <1>10, <2>1, <3>1
  <2>2. CASE Top.op # "destroy"
    <3>1. Destroying = Destroying'
      BY <1>3, <1>4, <1>7, <1>8, <2>2
    <3> QED BY <1>9, <1>10, <2>2, <3>1
  <2> QED BY <2>1, <2>2
<1> QED BY <1>1, <1>2, <1>3, <1>6, <1>8, <1>11 DEF n

\* The topmost operation goes on to its next signal.
LEMMA TopWasSet ==
  ASSUME NEW S, frames \in Seq(S), Busy, NEW f \in S, SetTop(f), f.op = Top.op,
         f.op = "destroy" => f.index = Top.index
  PROVE  /\ frames' \in Seq(S) /\ Len(frames) \in Nat \ {0} /\ Len(frames') = Len(frames)
         /\ \A k \in 1..(Len(frames) - 1) : frames'[k] = frames[k]
         /\ Top = frames[Len(frames)] /\ frames'[Len(frames)] = f /\ Top' = f
         /\ Ops' = Ops /\ Destroying' = Destroying /\ Dying' = Dying /\ Busy'
<1> DEFINE n == Len(frames)
<1>1. n \in Nat /\ n # 0 /\ n \in 1..n
  BY EmptySeq, LenProperties DEF Busy
<1>2. /\ frames' \in Seq(S) /\ Len(frames') = n
      /\ \A k \in 1..n : frames'[k] = IF k = n THEN f ELSE frames[k]
  BY <1>1, ExceptSeq, LenProperties DEF SetTop
<1>3. Top = frames[n] /\ Top' = f
  BY <1>1, <1>2 DEF Top
<1> HIDE DEF n
<1>4. \A k \in 1..n : frames'[k].op = frames[k].op
  BY <1>2, <1>3
<1>5. Ops' = {frames'[k].op : k \in 1..n} /\ Ops = {frames[k].op : k \in 1..n}
  BY <1>2 DEF Ops, n
<1>6. Ops' = Ops
  BY <1>4, <1>5
<1>7. /\ Destroying' = {k \in 1..n : frames'[k].op = "destroy"}
      /\ Destroying = {k \in 1..n : frames[k].op = "destroy"}
  BY <1>2 DEF Destroying, n
<1>8. Destroying' = Destroying
  BY <1>4, <1>7
<1>9. Dying' = {frames'[k].index : k \in Destroying'} /\ Dying = {frames[k].index : k \in Destroying}
  BY DEF Dying
<1>10. \A k \in Destroying : frames'[k].index = frames[k].index
  BY <1>2, <1>3, <1>7
<1>11. Dying' = Dying
  BY <1>8, <1>9, <1>10
<1>12. \A k \in 1..(n - 1) : frames'[k] = frames[k]
  BY <1>1, <1>2
<1>13. frames'[n] = f /\ Busy'
  BY <1>1, <1>2, EmptySeq DEF Busy
<1> QED BY <1>1, <1>2, <1>3, <1>6, <1>8, <1>11, <1>12, <1>13 DEF n

-----------------------------------------------------------------------------
(***************************************************************************)
(* The frames under the invariant.                                         *)
(***************************************************************************)

LEMMA TypesGrow ==
  ASSUME frames \in Seq(FrameType), table \in Nat, table' \in Nat, table <= table'
  PROVE  frames \in Seq(FrameType')
<1>1. FrameType \subseteq FrameType'
  BY DEF FrameType
<1> QED BY <1>1, SeqMonotonic

\* The fields of a frame.
LEMMA FrameFields ==
  ASSUME TypeOK, NEW k \in 1..Len(frames)
  PROVE  /\ frames[k].op \in {"notify", "remove", "destroy", "clear"}
         /\ frames[k].type \in Types \cup {NoType} /\ frames[k].index \in Indices \cup {NoIndex}
         /\ frames[k].count \in 0..table /\ frames[k].todo \subseteq Indices
<1>1. frames[k] \in FrameType
  BY ElementOfSeq DEF TypeOK
<1> QED BY <1>1 DEF FrameType

\* While user code runs, every operation in progress delivers a component.
LEMMA AllDeliver ==
  ASSUME Inv, UserRuns, NEW k \in 1..Len(frames)
  PROVE  /\ frames[k].type \in Types /\ frames[k].type # NoType
         /\ frames[k].index \in has[frames[k].type] /\ frames[k].index \in Indices
         /\ <<frames[k].type, frames[k].index>> \in Delivered
<1>0. TypeOK /\ Nesting /\ Delivering
  BY DEF Inv, FreeListExact
<1>1. Len(frames) \in Nat /\ Busy
  BY <1>0, LenProperties DEF TypeOK, Busy
<1>2. frames[k].type # NoType
  BY <1>0, <1>1 DEF Nesting, UserRuns, Top
<1>3. frames[k].type \in Types
  BY <1>0, <1>2, FrameFields
<1>4. frames[k].index \in has[frames[k].type]
  BY <1>0, <1>2 DEF Delivering
<1>5. has[frames[k].type] \subseteq 1..Len(generations) /\ Len(generations) <= MaxSlots /\ Len(generations) \in Nat
  BY <1>0, <1>3, LenProperties DEF TypeOK
<1>6. frames[k].index \in Indices
  BY <1>4, <1>5, BoundsAssumption DEF Indices
<1> QED BY <1>2, <1>3, <1>4, <1>6 DEF Delivered

\* An index within the table is an index.
LEMMA IndexTypes ==
  ASSUME TypeOK
  PROVE  /\ Len(generations) \in Nat /\ 1..Len(generations) \subseteq Indices
         /\ Len(frames) \in Nat /\ Len(free) \in Nat /\ table \in Nat
         /\ \A T \in Types : has[T] \subseteq 1..Len(generations) /\ T \in Nat /\ T # NoType /\ T <= MaxType
<1>1. /\ Len(generations) \in Nat /\ Len(generations) <= MaxSlots /\ Len(frames) \in Nat
      /\ Len(free) \in Nat
  BY LenProperties DEF TypeOK
<1> QED BY <1>1, BoundsAssumption DEF TypeOK, Indices, Types, NoType

-----------------------------------------------------------------------------
(***************************************************************************)
(* The steps.                                                              *)
(***************************************************************************)

\* add, patch and remove, up to their signal.
LEMMA CallStep ==
  ASSUME Inv, UserRuns, NEW T \in Types, NEW i \in alive, NEW op \in {"notify", "remove"},
         UNCHANGED entities, has' = [has EXCEPT ![T] = @ \cup {i}],
         table' = IF T > table THEN T ELSE table, Push(Frame(op, T, i)),
         IF op = "remove" THEN MayDetach({<<T, i>>}) /\ Announce(<<T, i>>, fired) /\ i \in has[T]
                          ELSE UNCHANGED told
  PROVE  Inv'
<1> DEFINE f == Frame(op, T, i)
           n == Len(frames)
           m == Len(generations)
<1>0. /\ FreeListExact /\ TypeOK /\ RoomToBump /\ Nesting /\ Delivering /\ Placed /\ Announced /\ Owing
  BY DEF Inv, FreeListExact
<1>1. /\ n \in Nat /\ m \in Nat /\ 1..m \subseteq Indices /\ table \in 0..MaxType
      /\ T \in Nat /\ T # NoType /\ T <= MaxType /\ i \in 1..m /\ i \in Indices
      /\ table' \in 0..MaxType /\ table <= table' /\ T <= table' /\ table' \in Nat /\ table \in Nat
  <2>1. n \in Nat /\ m \in Nat /\ 1..m \subseteq Indices /\ T \in Nat /\ T # NoType /\ T <= MaxType
    BY <1>0, IndexTypes
  <2>2. table \in 0..MaxType /\ i \in 1..m
    BY <1>0 DEF TypeOK
  <2> QED BY <2>1, <2>2, BoundsAssumption
<1>2. f.op = op /\ f.type = T /\ f.index = i /\ f.todo = {} /\ f \in FrameType'
  BY <1>1 DEF Frame, FrameType
<1>3. frames \in Seq(FrameType')
  BY <1>0, <1>1, TypesGrow DEF TypeOK
<1> HIDE DEF f
<1>4. /\ frames' \in Seq(FrameType') /\ Len(frames') = n + 1 /\ n + 1 <= MaxDepth
      /\ \A k \in 1..n : frames'[k] = frames[k]
      /\ frames'[n + 1] = f
      /\ "clear" \in Ops' <=> "clear" \in Ops
      /\ Destroying' = Destroying /\ Dying' = Dying /\ Busy'
  <2>1. frames' = Append(frames, f) /\ n < MaxDepth
    BY DEF Push, f
  <2>2. n + 1 <= MaxDepth
    BY <1>1, <2>1, BoundsAssumption
  <2> QED BY <1>2, <1>3, <2>1, <2>2, Pushed
<1>5. /\ has' \in [Types -> SUBSET (1..m)]
      /\ \A U \in Types : has'[U] = IF U = T THEN has[U] \cup {i} ELSE has[U]
  BY <1>0, <1>1 DEF TypeOK
<1>6. /\ generations' = generations /\ free' = free /\ alive' = alive
  BY DEF entities
<1>7. /\ <<T, i>> \in Component /\ fired \subseteq fired' /\ owed' \subseteq owed
      /\ fired' \subseteq Component /\ owed' \subseteq Component \ fired'
      /\ op = "notify" => fired' = fired /\ owed' = owed
      /\ op = "remove" => fired' = fired \cup {<<T, i>>} /\ owed' = owed \ {<<T, i>>}
  <2>1. <<T, i>> \in Component
    BY <1>1 DEF Component
  <2>2. fired \subseteq Component /\ owed \subseteq Component \ fired
    BY <1>0 DEF TypeOK
  <2> QED BY <2>1, <2>2 DEF Announce, told
<1>8. TypeOK'
  <2>1. \A U \in Types : has'[U] # {} => U <= table'
    BY <1>0, <1>1, <1>5 DEF TypeOK
  <2> QED BY <1>0, <1>1, <1>4, <1>5, <1>6, <1>7, <2>1 DEF TypeOK
<1>9. \A j, k \in Destroying' : frames'[j].index = frames'[k].index => j = k
  BY <1>0, <1>4 DEF FreeListExact, Destroying
<1>10. FreeListExact'
  BY <1>0, <1>4, <1>6, <1>8, <1>9 DEF FreeListExact
<1>11. RoomToBump'
  BY <1>0, <1>4, <1>6 DEF RoomToBump
<1>12. Nesting'
  <2> SUFFICES ASSUME NEW k \in 1..(n + 1)
               PROVE  /\ frames'[k].op = "clear" => k = 1
                      /\ frames'[k].type # NoType
    BY <1>4 DEF Nesting
  <2>1. CASE k \in 1..n
    BY <1>0, <1>4, <2>1, AllDeliver DEF Nesting
  <2>2. CASE k = n + 1
    BY <1>1, <1>2, <1>4, <2>2
  <2> QED BY <1>1, <2>1, <2>2
<1>13. Delivering'
  <2>1. ASSUME NEW k \in 1..(n + 1) PROVE frames'[k].index \in has'[frames'[k].type]
    <3>1. CASE k \in 1..n
      BY <1>4, <1>5, <3>1, AllDeliver
    <3>2. CASE k = n + 1
      BY <1>2, <1>4, <1>5, <3>2
    <3> QED BY <1>1, <3>1, <3>2
  <2>2. ASSUME NEW j \in 1..(n + 1), NEW k \in 1..(n + 1), j < k
        PROVE  /\ frames'[k].op = "remove" =>
                    ~(frames'[j].type = frames'[k].type /\ frames'[j].index = frames'[k].index)
               /\ frames'[k].op = "destroy" => frames'[j].index # frames'[k].index
    <3>1. j \in 1..n /\ frames'[j] = frames[j]
      BY <1>1, <1>4, <2>2
    <3>2. CASE k \in 1..n
      BY <1>0, <1>4, <2>2, <3>1, <3>2 DEF Delivering
    <3>3. CASE k = n + 1
      <4>1. <<frames[j].type, frames[j].index>> \in Delivered
        BY <3>1, AllDeliver
      <4>2. op = "remove" => <<frames[j].type, frames[j].index>> # <<T, i>>
        BY <4>1 DEF MayDetach
      <4> QED BY <1>2, <1>4, <3>1, <3>3, <4>2
    <3> QED BY <1>1, <3>2, <3>3
  <2> QED BY <1>4, <2>1, <2>2 DEF Delivering
<1>14. Placed'
  <2>1. \A U \in Types : has'[U] \subseteq alive' \cup Dying'
    BY <1>0, <1>4, <1>5, <1>6 DEF Placed
  <2>2. ASSUME NEW k \in Destroying', NEW U \in Types, frames'[k].index \in has'[U]
        PROVE  frames'[k].type <= U /\ U <= frames'[k].count
    <3>1. k \in Destroying /\ k \in 1..n /\ frames'[k] = frames[k]
      BY <1>4 DEF Destroying
    <3>2. frames[k].index # i
      BY <1>0, <3>1 DEF FreeListExact, Dying
    <3> QED BY <1>0, <1>5, <2>2, <3>1, <3>2 DEF Placed
  <2> QED BY <2>1, <2>2 DEF Placed
<1>15. Announced'
  <2>1. ASSUME NEW k \in 1..(n + 1), frames'[k].op \in {"remove", "destroy"}
        PROVE  <<frames'[k].type, frames'[k].index>> \in fired'
    <3>1. CASE k \in 1..n
      <4>1. k \in Erasing /\ frames'[k] = frames[k] /\ frames[k].type # NoType
        BY <1>4, <2>1, <3>1, AllDeliver DEF Erasing
      <4> QED BY <1>0, <1>7, <4>1 DEF Announced
    <3>2. CASE k = n + 1
      BY <1>2, <1>4, <1>7, <2>1, <3>2
    <3> QED BY <1>1, <3>1, <3>2
  <2>2. ASSUME "clear" \notin Ops', NEW c \in fired'
        PROVE  \E k \in Erasing' : c = <<frames'[k].type, frames'[k].index>>
    <3>1. CASE c \in fired
      <4>1. PICK k \in Erasing : c = <<frames[k].type, frames[k].index>>
        BY <1>0, <1>4, <2>2, <3>1 DEF Announced
      <4>2. k \in Erasing' /\ frames'[k] = frames[k]
        BY <1>1, <1>4, <4>1 DEF Erasing
      <4> QED BY <4>1, <4>2
    <3>2. CASE c \notin fired
      <4>1. op = "remove" /\ c = <<T, i>>
        BY <1>7, <2>2, <3>2
      <4>2. n + 1 \in Erasing'
        BY <1>1, <1>2, <1>4, <4>1 DEF Erasing
      <4> QED BY <1>2, <1>4, <4>1, <4>2
    <3> QED BY <3>1, <3>2
  <2> QED BY <1>4, <2>1, <2>2 DEF Announced, Erasing
<1>16. Owing'
  <2>1. Components \subseteq Components'
    BY <1>5 DEF Components, Component
  <2>2. Busy' /\ frames'[1].op = "clear" =>
          Busy /\ 1 \in 1..n /\ frames'[1] = frames[1]
    BY <1>1, <1>2, <1>4, EmptySeq DEF Busy
  <2>3. "clear" \notin Ops' => owed' = {}
    BY <1>0, <1>4, <1>7 DEF Owing
  <2>4. owed' \subseteq Components'
    BY <1>0, <1>7, <2>1 DEF Owing
  <2>5. Busy' /\ frames'[1].op = "clear" =>
          \A c \in owed' :
            \/ c[2] \in frames'[1].todo
            \/ c[2] = frames'[1].index /\ frames'[1].type < c[1] /\ c[1] <= frames'[1].count
    BY <1>0, <1>7, <2>2 DEF Owing
  <2> QED BY <2>3, <2>4, <2>5 DEF Owing
<1> QED BY <1>10, <1>11, <1>12, <1>13, <1>14, <1>15, <1>16 DEF Inv

\* destroy, up to its first signal: the index leaves the alive set.
LEMMA DestroyStep ==
  ASSUME Inv, NEW i \in Indices, Destroy(i)
  PROVE  Inv'
<1> DEFINE f == [Frame("destroy", NoType, i) EXCEPT !.count = table]
           n == Len(frames)
           m == Len(generations)
<1>0. /\ FreeListExact /\ TypeOK /\ RoomToBump /\ Nesting /\ Delivering /\ Placed /\ Announced /\ Owing
  BY DEF Inv, FreeListExact
<1>1. /\ UserRuns /\ i \in alive /\ generations[i] < MaxGeneration /\ MayDetach(OfIndex(i))
      /\ alive' = alive \ {i} /\ Push(f)
      /\ UNCHANGED <<generations, free, table, has, fired, owed>>
  BY DEF Destroy, storages, told
<1>2. f.op = "destroy" /\ f.type = NoType /\ f.index = i /\ f.count = table /\ f \in FrameType
  <2>1. table \in Nat
    BY <1>0, IndexTypes
  <2>2. f = [op |-> "destroy", type |-> NoType, index |-> i, count |-> table, todo |-> {}]
    BY DEF Frame
  <2> QED BY <2>1, <2>2 DEF FrameType
<1> HIDE DEF f
<1>3. n \in Nat /\ m \in Nat
  BY <1>0, IndexTypes
<1>4. /\ frames' \in Seq(FrameType) /\ Len(frames') = n + 1 /\ n + 1 <= MaxDepth
      /\ \A k \in 1..n : frames'[k] = frames[k]
      /\ frames'[n + 1] = f
      /\ Ops' = Ops \cup {"destroy"}
      /\ Destroying' = Destroying \cup {n + 1} /\ Dying' = Dying \cup {i} /\ Busy'
  <2>1. frames' = Append(frames, f) /\ n < MaxDepth /\ frames \in Seq(FrameType)
    BY <1>0, <1>1 DEF Push, TypeOK
  <2>2. n + 1 <= MaxDepth
    BY <1>3, <2>1, BoundsAssumption
  <2> QED BY <1>2, <2>1, <2>2, Pushed
<1>5. \A k \in 1..n : frames[k].index # i
  <2> SUFFICES ASSUME NEW k \in 1..n, frames[k].index = i PROVE FALSE
    OBVIOUS
  <2>1. /\ <<frames[k].type, frames[k].index>> \in Delivered
        /\ frames[k].type \in Types /\ frames[k].index \in Indices
    BY <1>1, AllDeliver
  <2>2. <<frames[k].type, i>> \in OfIndex(i)
    BY <2>1 DEF OfIndex, Component
  <2> QED BY <1>1, <2>1, <2>2 DEF MayDetach
<1>6. TypeOK'
  <2>1. FrameType' = FrameType
    BY <1>1 DEF FrameType
  <2> QED BY <1>0, <1>1, <1>4, <2>1 DEF TypeOK
<1>7. \A j, k \in Destroying' : frames'[j].index = frames'[k].index => j = k
  <2>1. \A k \in Destroying : k \in 1..n /\ frames'[k] = frames[k] /\ frames[k].index # i
    BY <1>4, <1>5 DEF Destroying
  <2>2. frames'[n + 1].index = i
    BY <1>2, <1>4
  <2>3. \A j, k \in Destroying : frames[j].index = frames[k].index => j = k
    BY <1>0 DEF FreeListExact
  <2>4. \A k \in Destroying' : k \in Destroying \/ k = n + 1
    BY <1>4
  <2> QED BY <2>1, <2>2, <2>3, <2>4
<1>8. FreeListExact'
  <2>1. Ext!ToSet(free)' = Ext!ToSet(free)
    BY <1>1
  <2>2. /\ alive' \cup Ext!ToSet(free) \cup Dying' = 1..Len(generations')
        /\ alive' \cap Ext!ToSet(free) = {} /\ alive' \cap Dying' = {} /\ Ext!ToSet(free) \cap Dying' = {}
    BY <1>0, <1>1, <1>4 DEF FreeListExact
  <2>3. \A j, k \in 1..Len(free') : free'[j] = free'[k] => j = k
    BY <1>0, <1>1 DEF FreeListExact
  <2> QED BY <1>6, <1>7, <2>1, <2>2, <2>3 DEF FreeListExact
<1>9. RoomToBump'
  BY <1>0, <1>1, <1>4 DEF RoomToBump
<1>10. Nesting'
  <2> SUFFICES ASSUME NEW k \in 1..(n + 1)
               PROVE  /\ frames'[k].op = "clear" => k = 1
                      /\ k < n + 1 \/ frames'[k].op \in {"notify", "remove"} => frames'[k].type # NoType
    BY <1>4 DEF Nesting
  <2>1. CASE k \in 1..n
    BY <1>0, <1>1, <1>4, <2>1, AllDeliver DEF Nesting
  <2>2. CASE k = n + 1
    BY <1>2, <1>3, <1>4, <2>2
  <2> QED BY <1>3, <2>1, <2>2
<1>11. Delivering'
  <2>1. ASSUME NEW k \in 1..(n + 1), frames'[k].type # NoType
        PROVE  frames'[k].index \in has'[frames'[k].type]
    <3>1. k \in 1..n
      BY <1>2, <1>3, <1>4, <2>1
    <3> QED BY <1>1, <1>4, <3>1, AllDeliver
  <2>2. ASSUME NEW j \in 1..(n + 1), NEW k \in 1..(n + 1), j < k
        PROVE  /\ frames'[k].op = "remove" =>
                    ~(frames'[j].type = frames'[k].type /\ frames'[j].index = frames'[k].index)
               /\ frames'[k].op = "destroy" => frames'[j].index # frames'[k].index
    <3>1. j \in 1..n /\ frames'[j] = frames[j]
      BY <1>3, <1>4, <2>2
    <3>2. CASE k \in 1..n
      BY <1>0, <1>4, <2>2, <3>1, <3>2 DEF Delivering
    <3>3. CASE k = n + 1
      BY <1>2, <1>4, <1>5, <3>1, <3>3
    <3> QED BY <1>3, <3>2, <3>3
  <2> QED BY <1>4, <2>1, <2>2 DEF Delivering
<1>12. Placed'
  <2>1. \A U \in Types : has'[U] \subseteq alive' \cup Dying'
    BY <1>0, <1>1, <1>4 DEF Placed
  <2>2. ASSUME NEW k \in Destroying', NEW U \in Types, frames'[k].index \in has'[U]
        PROVE  frames'[k].type <= U /\ U <= frames'[k].count
    <3>1. CASE k \in Destroying
      <4>1. frames'[k] = frames[k]
        BY <1>4, <3>1 DEF Destroying
      <4> QED BY <1>0, <1>1, <2>2, <3>1, <4>1 DEF Placed
    <3>2. CASE k = n + 1
      <4>1. U <= table /\ U \in Nat
        BY <1>0, <1>1, <2>2, IndexTypes DEF TypeOK
      <4> QED BY <1>2, <1>4, <3>2, <4>1 DEF NoType
    <3> QED BY <1>4, <3>1, <3>2
  <2> QED BY <2>1, <2>2 DEF Placed
<1>13. Announced'
  <2>1. \A k \in Erasing : k \in Erasing' /\ frames'[k] = frames[k]
    BY <1>3, <1>4 DEF Erasing
  <2>2. \A k \in Erasing' : k \in Erasing \/ k = n + 1
    BY <1>3, <1>4 DEF Erasing
  <2>3. \A k \in Erasing' : frames'[k].type # NoType => <<frames'[k].type, frames'[k].index>> \in fired'
    BY <1>0, <1>1, <1>2, <1>4, <2>1, <2>2 DEF Announced
  <2>4. "clear" \notin Ops' => \A c \in fired' : \E k \in Erasing' : c = <<frames'[k].type, frames'[k].index>>
    <3> SUFFICES ASSUME "clear" \notin Ops', NEW c \in fired'
                 PROVE  \E k \in Erasing' : c = <<frames'[k].type, frames'[k].index>>
      OBVIOUS
    <3>1. PICK k \in Erasing : c = <<frames[k].type, frames[k].index>>
      BY <1>0, <1>1, <1>4 DEF Announced
    <3> QED BY <2>1, <3>1
  <2> QED BY <2>3, <2>4 DEF Announced
<1>14. Owing'
  <2>1. Components' = Components
    BY <1>1 DEF Components
  <2>2. Busy' /\ frames'[1].op = "clear" => Busy /\ frames'[1] = frames[1]
    BY <1>2, <1>3, <1>4, EmptySeq DEF Busy
  <2> QED BY <1>0, <1>1, <1>4, <2>1, <2>2 DEF Owing
<1> QED BY <1>8, <1>9, <1>10, <1>11, <1>12, <1>13, <1>14 DEF Inv

\* clear, up to its first index: no operation is in progress.
LEMMA ClearStep ==
  ASSUME Inv, Clear
  PROVE  Inv'
<1> DEFINE f == [Frame("clear", NoType, NoIndex) EXCEPT !.todo = alive]
           m == Len(generations)
<1>0. /\ FreeListExact /\ TypeOK /\ RoomToBump /\ Placed /\ Announced
  BY DEF Inv, FreeListExact
<1>1. /\ frames = << >> /\ Push(f) /\ owed' = Components
      /\ \A i \in 1..m : generations[i] < MaxGeneration
      /\ UNCHANGED <<generations, free, alive, table, has, fired>>
  BY DEF Clear, Busy, entities, storages
<1>2. m \in Nat /\ 1..m \subseteq Indices /\ table \in Nat /\ Len(frames) = 0
  BY <1>0, <1>1, IndexTypes
<1>3. f.op = "clear" /\ f.type = NoType /\ f.index = NoIndex /\ f.todo = alive /\ f \in FrameType
  <2>1. f = [op |-> "clear", type |-> NoType, index |-> NoIndex, count |-> 0, todo |-> alive]
    BY DEF Frame
  <2>2. alive \subseteq Indices
    BY <1>0, <1>2 DEF TypeOK
  <2> QED BY <1>2, <2>1, <2>2 DEF FrameType
<1> HIDE DEF f
<1>4. /\ frames' \in Seq(FrameType) /\ Len(frames') = 1 /\ 1 <= MaxDepth
      /\ frames'[1] = f
      /\ Ops' = Ops \cup {"clear"}
      /\ Destroying' = Destroying /\ Dying' = Dying /\ Busy'
  <2>1. frames' = Append(frames, f) /\ Len(frames) < MaxDepth /\ frames \in Seq(FrameType)
    BY <1>0, <1>1 DEF Push, TypeOK
  <2>2. 1 <= MaxDepth
    BY <1>2, <2>1, BoundsAssumption
  <2> QED BY <1>2, <1>3, <2>1, <2>2, Pushed
<1>5. Ops = {} /\ Destroying = {} /\ Dying = {} /\ Erasing = {}
  BY <1>2 DEF Ops, Destroying, Dying, Erasing
<1>6. fired = {}
  BY <1>0, <1>5 DEF Announced
<1>7. Components \subseteq Component /\ Components' = Components
  BY <1>1 DEF Components
<1>8. TypeOK'
  <2>1. FrameType' = FrameType
    BY <1>1 DEF FrameType
  <2> QED BY <1>0, <1>1, <1>4, <1>6, <1>7, <2>1 DEF TypeOK
<1>9. FreeListExact'
  <2>1. Ext!ToSet(free)' = Ext!ToSet(free)
    BY <1>1
  <2> QED BY <1>0, <1>1, <1>4, <1>5, <1>8, <2>1 DEF FreeListExact
<1>10. RoomToBump'
  <2>1. \A i \in 1..m : generations[i] <= MaxGeneration
    <3> TAKE i \in 1..m
    <3>1. generations[i] \in Nat
      BY <1>0, ElementOfSeq DEF TypeOK
    <3> QED BY <1>1, <3>1, BoundsAssumption
  <2> QED BY <1>1, <1>4, <1>5, <2>1 DEF RoomToBump
<1>11. Nesting' /\ Delivering'
  BY <1>3, <1>4 DEF Nesting, Delivering
<1>12. Placed'
  BY <1>0, <1>1, <1>4, <1>5 DEF Placed
<1>13. Announced'
  <2>1. Erasing' = {}
    BY <1>3, <1>4 DEF Erasing
  <2> QED BY <1>4, <2>1 DEF Announced
<1>14. Owing'
  <2>1. \A c \in owed' : c[2] \in frames'[1].todo
    <3> TAKE c \in owed'
    <3>1. c \in Types \X Indices /\ c[2] \in has[c[1]]
      BY <1>1 DEF Components, Component
    <3>2. c[2] \in alive
      BY <1>0, <1>5, <3>1 DEF Placed
    <3> QED BY <1>3, <1>4, <3>2
  <2> QED BY <1>1, <1>4, <1>7, <2>1 DEF Owing
<1> QED BY <1>9, <1>10, <1>11, <1>12, <1>13, <1>14 DEF Inv

\* create: the last free index, or a new one.
LEMMA CreateStep ==
  ASSUME Inv, Create
  PROVE  Inv'
<1> DEFINE m == Len(generations)
           n == Len(free)
<1>0. /\ FreeListExact /\ TypeOK /\ RoomToBump /\ Nesting /\ Delivering /\ Placed /\ Announced /\ Owing
  BY DEF Inv, FreeListExact
<1>1. UNCHANGED <<table, has, frames, fired, owed>>
  BY DEF Create, storages, told
<1>2. /\ Ops' = Ops /\ Destroying' = Destroying /\ Dying' = Dying /\ Erasing' = Erasing
      /\ Components' = Components /\ FrameType' = FrameType /\ Busy' = Busy
  BY <1>1 DEF Ops, Destroying, Dying, Erasing, Components, FrameType, Busy
<1>3. /\ m \in Nat /\ n \in Nat /\ m <= MaxSlots /\ free \in Seq(1..m) /\ generations \in Seq(Nat \ {0})
      /\ \A j, k \in 1..n : free[j] = free[k] => j = k
      /\ alive \cup Free \cup Dying = 1..m
      /\ alive \cap Free = {} /\ alive \cap Dying = {} /\ Free \cap Dying = {}
  <2>1. Ext!ToSet(free) = Free
    BY <1>0, FreeIsToSet DEF TypeOK
  <2> QED BY <1>0, <2>1, IndexTypes DEF FreeListExact, TypeOK
<1>4. /\ generations' \in Seq(Nat \ {0}) /\ Len(generations') \in Nat /\ m <= Len(generations')
      /\ Len(generations') <= MaxSlots /\ free' \in Seq(1..Len(generations'))
      /\ \A i \in 1..m : generations'[i] = generations[i]
      /\ \A i \in 1..Len(generations') : i \in 1..m \/ generations'[i] = FirstGeneration
      /\ \A j, k \in 1..Len(free') : free'[j] = free'[k] => j = k
      /\ alive' \cup Free' \cup Dying = 1..Len(generations')
      /\ alive' \cap Free' = {} /\ alive' \cap Dying = {} /\ Free' \cap Dying = {}
      /\ alive \subseteq alive'
  <2>1. CASE free # << >>
    <3>1. n \in 1..n
      BY <1>3, <2>1, EmptySeq
    <3>2. free' = SubSeq(free, 1, n - 1) /\ alive' = alive \cup {free[n]} /\ generations' = generations
      BY <2>1 DEF Create, Ext!Front, Ext!Last
    <3>3. \A k \in 1..n : free[k] \in 1..m
      BY <1>3, ElementOfSeq
    <3>4. free' \in Seq(1..m) /\ Len(free') = n - 1 /\ \A k \in 1..(n - 1) : free'[k] = free[k]
      <4>1. \A k \in 1..(n - 1) : free[k] \in 1..m
        BY <1>3, <3>3
      <4>2. /\ SubSeq(free, 1, n - 1) \in Seq(1..m)
            /\ Len(SubSeq(free, 1, n - 1)) = IF 1 <= n - 1 THEN (n - 1) - 1 + 1 ELSE 0
            /\ \A k \in 1..((n - 1) - 1 + 1) : SubSeq(free, 1, n - 1)[k] = free[1 + k - 1]
        BY <1>3, <4>1, SubSeqProperties
      <4>3. (n - 1) - 1 + 1 = n - 1 /\ \A k \in 1..(n - 1) : 1 + k - 1 = k
        BY <1>3
      <4> QED BY <1>3, <3>1, <3>2, <4>2, <4>3
    <3>5. Free' = {free[k] : k \in 1..(n - 1)}
      BY <3>4 DEF Free
    <3>6. Free = Free' \cup {free[n]} /\ free[n] \notin Free'
      <4>1. 1..n = (1..(n - 1)) \cup {n} /\ n \notin 1..(n - 1)
        BY <3>1
      <4>2. Free = Free' \cup {free[n]}
        BY <3>5, <4>1 DEF Free
      <4>3. \A k \in 1..(n - 1) : free[k] # free[n]
        BY <1>3, <3>1, <4>1
      <4> QED BY <3>5, <4>2, <4>3
    <3>7. \A j, k \in 1..Len(free') : free'[j] = free'[k] => j = k
      <4>1. Len(free') = n - 1 /\ \A j \in 1..(n - 1) : free'[j] = free[j]
        BY <3>4
      <4>2. \A j \in 1..(n - 1) : j \in 1..n
        BY <1>3
      <4>3. \A j, k \in 1..n : free[j] = free[k] => j = k
        BY <1>3
      <4> QED BY <4>1, <4>2, <4>3
    <3> QED BY <1>3, <3>2, <3>4, <3>6, <3>7
  <2>2. CASE free = << >>
    <3>1. /\ m < MaxSlots /\ generations' = Append(generations, FirstGeneration)
          /\ alive' = alive \cup {m + 1} /\ free' = free
      BY <2>2 DEF Create
    <3>2. /\ generations' \in Seq(Nat \ {0}) /\ Len(generations') = m + 1
          /\ \A i \in 1..m : generations'[i] = generations[i]
          /\ generations'[m + 1] = FirstGeneration
      BY <1>3, <3>1, AppendProperties DEF FirstGeneration
    <3>3. 1..(m + 1) = (1..m) \cup {m + 1} /\ m + 1 \notin 1..m /\ m + 1 <= MaxSlots
      BY <1>3, <3>1, BoundsAssumption
    <3>4. free' \in Seq(1..(m + 1)) /\ Free = {} /\ Free' = {} /\ Len(free') = 0
      BY <2>2, <3>1, EmptySeq DEF Free
    <3>5. \A j, k \in 1..Len(free') : free'[j] = free'[k] => j = k
      BY <3>4
    <3> QED BY <1>3, <3>1, <3>2, <3>3, <3>4, <3>5
  <2> QED BY <2>1, <2>2
<1>5. 1..m \subseteq 1..Len(generations')
  BY <1>3, <1>4
<1>6. TypeOK'
  <2>1. has' \in [Types -> SUBSET (1..Len(generations'))]
    BY <1>0, <1>1, <1>5 DEF TypeOK
  <2>2. alive' \subseteq 1..Len(generations')
    BY <1>4
  <2> QED BY <1>0, <1>1, <1>2, <1>4, <2>1, <2>2 DEF TypeOK
<1>7. FreeListExact'
  <2>1. Ext!ToSet(free)' = Free'
    BY <1>4 DEF Ext!ToSet, Free
  <2>2. \A j, k \in Destroying' : frames'[j].index = frames'[k].index => j = k
    BY <1>0, <1>1, <1>2 DEF FreeListExact
  <2> QED BY <1>2, <1>4, <1>6, <2>1, <2>2 DEF FreeListExact
<1>8. RoomToBump'
  <2>1. \A i \in Dying : i \in 1..m /\ generations'[i] < MaxGeneration
    BY <1>0, <1>3, <1>4 DEF RoomToBump
  <2>2. \A i \in 1..Len(generations') :
          generations'[i] <= IF "clear" \in Ops THEN MaxGeneration ELSE MaxGeneration + 1
    <3> PICK b : b = IF "clear" \in Ops THEN MaxGeneration ELSE MaxGeneration + 1
      OBVIOUS
    <3>1. b \in Nat /\ 1 <= b
      BY BoundsAssumption
    <3>2. \A i \in 1..m : generations[i] <= b
      BY <1>0 DEF RoomToBump
    <3>3. \A i \in 1..Len(generations') : generations'[i] <= b
      BY <1>4, <3>1, <3>2 DEF FirstGeneration
    <3> QED BY <3>3
  <2> QED BY <1>2, <2>1, <2>2 DEF RoomToBump
<1>9. Nesting' /\ Delivering'
  BY <1>0, <1>1 DEF Nesting, Delivering
<1>10. Placed'
  BY <1>0, <1>1, <1>2, <1>4 DEF Placed
<1>11. Announced' /\ Owing'
  BY <1>0, <1>1, <1>2 DEF Announced, Owing
<1> QED BY <1>7, <1>8, <1>9, <1>10, <1>11 DEF Inv

\* Below the topmost frame nothing changes when it goes.
LEMMA PopKeeps ==
  ASSUME Inv, Busy, Pop
  PROVE  /\ Nesting'
         /\ \A k \in 1..Len(frames') : k < Len(frames) /\ k \in 1..Len(frames) /\ frames'[k] = frames[k]
         /\ Erasing' = Erasing \ {Len(frames)}
         /\ Top.op \in {"remove", "destroy"} => Len(frames) \in Erasing
         /\ \A j, k \in Destroying' : frames'[j].index = frames'[k].index => j = k
         /\ Busy' /\ frames'[1].op = "clear" => frames'[1] = frames[1]
         /\ frames' \in Seq(FrameType) /\ Len(frames') <= MaxDepth
<1> DEFINE n == Len(frames)
<1>0. FreeListExact /\ TypeOK /\ Nesting
  BY DEF Inv, FreeListExact
<1>1. /\ frames' \in Seq(FrameType) /\ n \in Nat \ {0} /\ Len(frames') = n - 1
      /\ \A k \in 1..(n - 1) : frames'[k] = frames[k]
      /\ Top = frames[n] /\ Destroying' = Destroying \ {n}
  BY <1>0, Popped DEF TypeOK
<1>2. \A k \in 1..Len(frames') : k < n /\ k \in 1..n /\ frames'[k] = frames[k]
  BY <1>1
<1>3. Nesting'
  BY <1>0, <1>1, <1>2 DEF Nesting
<1>4. Erasing' = Erasing \ {n}
  BY <1>1, <1>2 DEF Erasing
<1>5. Top.op \in {"remove", "destroy"} => n \in Erasing
  BY <1>1 DEF Erasing
<1>6. \A j, k \in Destroying' : frames'[j].index = frames'[k].index => j = k
  <2>1. \A k \in Destroying' : k \in Destroying /\ frames'[k] = frames[k]
    BY <1>1, <1>2 DEF Destroying
  <2> QED BY <1>0, <2>1 DEF FreeListExact
<1>7. Busy' /\ frames'[1].op = "clear" => frames'[1] = frames[1]
  <2>1. Busy' => 1 \in 1..Len(frames')
    BY <1>1, EmptySeq DEF Busy
  <2> QED BY <1>2, <2>1
<1>8. Len(frames') <= MaxDepth
  BY <1>0, <1>1, BoundsAssumption DEF TypeOK
<1> QED BY <1>1, <1>2, <1>3, <1>4, <1>5, <1>6, <1>7, <1>8

\* The listeners of add and patch have returned.
LEMMA NotifyEndStep ==
  ASSUME Inv, NotifyEnd
  PROVE  Inv'
<1> DEFINE n == Len(frames)
<1>0. /\ FreeListExact /\ TypeOK /\ RoomToBump /\ Nesting /\ Delivering /\ Placed /\ Announced /\ Owing
  BY DEF Inv, FreeListExact
<1>1. /\ Busy /\ Pop /\ Top.op = "notify"
      /\ UNCHANGED <<generations, free, alive, table, has, fired, owed>>
  BY DEF NotifyEnd, entities, storages, told
<1>2. /\ n \in Nat \ {0} /\ Top = frames[n] /\ Ops = Ops' \cup {"notify"}
      /\ Destroying' = Destroying \ {n} /\ Dying' = Dying
  BY <1>0, <1>1, Popped DEF TypeOK
<1>3. /\ Nesting' /\ frames' \in Seq(FrameType) /\ Len(frames') <= MaxDepth
      /\ \A k \in 1..Len(frames') : k < n /\ k \in 1..n /\ frames'[k] = frames[k]
      /\ Erasing' = Erasing
      /\ \A j, k \in Destroying' : frames'[j].index = frames'[k].index => j = k
      /\ Busy' /\ frames'[1].op = "clear" => frames'[1] = frames[1]
  <2>1. n \notin Erasing
    BY <1>1, <1>2 DEF Erasing
  <2> QED BY <1>0, <1>1, <2>1, PopKeeps
<1>4. TypeOK'
  <2>1. FrameType' = FrameType
    BY <1>1 DEF FrameType
  <2> QED BY <1>0, <1>1, <1>3, <2>1 DEF TypeOK
<1>5. FreeListExact'
  <2>1. Ext!ToSet(free)' = Ext!ToSet(free)
    BY <1>1
  <2> QED BY <1>0, <1>1, <1>2, <1>3, <1>4, <2>1 DEF FreeListExact
<1>6. RoomToBump'
  BY <1>0, <1>1, <1>2 DEF RoomToBump
<1>7. Delivering'
  BY <1>0, <1>1, <1>3 DEF Delivering
<1>8. Placed'
  <2>1. \A k \in Destroying' : k \in Destroying /\ frames'[k] = frames[k]
    BY <1>2, <1>3 DEF Destroying
  <2> QED BY <1>0, <1>1, <1>2, <2>1 DEF Placed
<1>9. Announced'
  <2>1. \A k \in Erasing : frames'[k] = frames[k]
    BY <1>3 DEF Erasing
  <2> QED BY <1>0, <1>1, <1>2, <1>3, <2>1 DEF Announced
<1>10. Owing'
  <2>1. Components' = Components
    BY <1>1 DEF Components
  <2> QED BY <1>0, <1>1, <1>2, <1>3, <2>1 DEF Owing
<1> QED BY <1>3, <1>5, <1>6, <1>7, <1>8, <1>9, <1>10 DEF Inv

\* The listeners of remove have returned: the component is erased.
LEMMA RemoveEndStep ==
  ASSUME Inv, RemoveEnd
  PROVE  Inv'
<1> DEFINE n == Len(frames)
<1>0. /\ FreeListExact /\ TypeOK /\ RoomToBump /\ Nesting /\ Delivering /\ Placed /\ Announced /\ Owing
  BY DEF Inv, FreeListExact
<1>1. /\ Busy /\ Pop /\ Top.op = "remove"
      /\ has' = [has EXCEPT ![Top.type] = @ \ {Top.index}]
      /\ fired' = fired \ {<<Top.type, Top.index>>}
      /\ UNCHANGED <<generations, free, alive, table, owed>>
  BY DEF RemoveEnd, entities
<1>2. /\ n \in Nat \ {0} /\ n \in 1..n /\ Top = frames[n] /\ Ops = Ops' \cup {"remove"}
      /\ Destroying' = Destroying \ {n} /\ Dying' = Dying
  BY <1>0, <1>1, Popped DEF TypeOK
<1>3. /\ Nesting' /\ frames' \in Seq(FrameType) /\ Len(frames') <= MaxDepth
      /\ \A k \in 1..Len(frames') : k < n /\ k \in 1..n /\ frames'[k] = frames[k]
      /\ Erasing' = Erasing \ {n} /\ n \in Erasing
      /\ \A j, k \in Destroying' : frames'[j].index = frames'[k].index => j = k
      /\ Busy' /\ frames'[1].op = "clear" => frames'[1] = frames[1]
  BY <1>0, <1>1, PopKeeps
<1>4. PICK T : T = Top.type
  OBVIOUS
<1>5. PICK i : i = Top.index
  OBVIOUS
<1>6. T \in Types /\ T # NoType /\ <<T, i>> \in fired
  <2>1. T \in Types \cup {NoType}
    BY <1>0, <1>2, <1>4, FrameFields
  <2>2. T # NoType
    BY <1>0, <1>1, <1>2, <1>4 DEF Nesting
  <2> QED BY <1>0, <1>2, <1>3, <1>4, <1>5, <2>1, <2>2 DEF Announced
<1>7. \A U \in Types : has'[U] = IF U = T THEN has[U] \ {i} ELSE has[U]
  BY <1>0, <1>1, <1>4, <1>5, <1>6 DEF TypeOK
<1>8. \A j \in 1..Len(frames') : ~(frames[j].type = T /\ frames[j].index = i)
  BY <1>0, <1>1, <1>2, <1>3, <1>4, <1>5 DEF Delivering
<1>9. fired' = fired \ {<<T, i>>}
  BY <1>1, <1>4, <1>5
<1>10. TypeOK'
  <2>1. FrameType' = FrameType
    BY <1>1 DEF FrameType
  <2>2. has' \in [Types -> SUBSET (1..Len(generations))]
    BY <1>0, <1>1, <1>7 DEF TypeOK
  <2>3. \A U \in Types : has'[U] # {} => U <= table
    BY <1>0, <1>7 DEF TypeOK
  <2> QED BY <1>0, <1>1, <1>3, <1>9, <2>1, <2>2, <2>3 DEF TypeOK
<1>11. FreeListExact'
  <2>1. Ext!ToSet(free)' = Ext!ToSet(free)
    BY <1>1
  <2> QED BY <1>0, <1>1, <1>2, <1>3, <1>10, <2>1 DEF FreeListExact
<1>12. RoomToBump'
  BY <1>0, <1>1, <1>2 DEF RoomToBump
<1>13. Delivering'
  <2>1. ASSUME NEW k \in 1..Len(frames'), frames'[k].type # NoType
        PROVE  frames'[k].index \in has'[frames'[k].type]
    <3>1. frames'[k] = frames[k] /\ k \in 1..n
      BY <1>3
    <3>2. frames[k].index \in has[frames[k].type] /\ frames[k].type \in Types
      BY <1>0, <2>1, <3>1, FrameFields DEF Delivering
    <3> QED BY <1>7, <1>8, <3>1, <3>2
  <2>2. \A j, k \in 1..Len(frames') : j < k =>
          /\ frames'[k].op = "remove" =>
               ~(frames'[j].type = frames'[k].type /\ frames'[j].index = frames'[k].index)
          /\ frames'[k].op = "destroy" => frames'[j].index # frames'[k].index
    BY <1>0, <1>3 DEF Delivering
  <2> QED BY <2>1, <2>2 DEF Delivering
<1>14. Placed'
  <2>1. \A k \in Destroying' : k \in Destroying /\ frames'[k] = frames[k]
    BY <1>2, <1>3 DEF Destroying
  <2>2. \A U \in Types : has'[U] \subseteq has[U]
    BY <1>7
  <2> QED BY <1>0, <1>1, <1>2, <2>1, <2>2 DEF Placed
<1>15. Announced'
  <2>1. \A k \in Erasing' : /\ k \in Erasing /\ frames'[k] = frames[k]
                            /\ ~(frames[k].type = T /\ frames[k].index = i)
    BY <1>3, <1>8 DEF Erasing
  <2>2. \A k \in Erasing' : frames'[k].type # NoType => <<frames'[k].type, frames'[k].index>> \in fired'
    BY <1>0, <1>9, <2>1 DEF Announced
  <2>3. ASSUME "clear" \notin Ops', NEW c \in fired'
        PROVE  \E k \in Erasing' : c = <<frames'[k].type, frames'[k].index>>
    <3>1. PICK k \in Erasing : c = <<frames[k].type, frames[k].index>>
      BY <1>0, <1>2, <1>9, <2>3 DEF Announced
    <3>2. k # n
      BY <1>2, <1>4, <1>5, <1>9, <2>3, <3>1
    <3>3. k \in Erasing'
      BY <1>3, <3>1, <3>2
    <3> QED BY <2>1, <3>1, <3>3
  <2> QED BY <2>2, <2>3 DEF Announced
<1>16. Owing'
  <2>1. owed \subseteq Components'
    <3> SUFFICES ASSUME NEW c \in owed PROVE c \in Components'
      OBVIOUS
    <3>1. c \in Component /\ c[2] \in has[c[1]] /\ c # <<T, i>>
      BY <1>0, <1>6 DEF Owing, Components, TypeOK
    <3>2. c[1] \in Types /\ c = <<c[1], c[2]>>
      BY <3>1 DEF Component
    <3>3. c[2] \in has'[c[1]]
      BY <1>7, <3>1, <3>2
    <3> QED BY <3>1, <3>3 DEF Components
  <2>2. "clear" \notin Ops' => owed' = {}
    BY <1>0, <1>1, <1>2 DEF Owing
  <2>3. Busy' /\ frames'[1].op = "clear" => Busy /\ frames[1].op = "clear"
    BY <1>1, <1>3
  <2> QED BY <1>0, <1>1, <1>3, <2>1, <2>2, <2>3 DEF Owing
<1> QED BY <1>3, <1>11, <1>12, <1>13, <1>14, <1>15, <1>16 DEF Inv

\* A running destroy: its index is no other frame's, and what it has left to erase is the
\* component it delivers and the later ones.
LEMMA DestroyFacts ==
  ASSUME Inv, Busy, Top.op = "destroy"
  PROVE  /\ Len(frames) \in Nat \ {0} /\ Len(frames) \in Destroying /\ Top = frames[Len(frames)]
         /\ Top.index \in Dying /\ Top.index \in 1..Len(generations) /\ Top.index \in Indices
         /\ Top.type \in Types \cup {NoType} /\ Top.type \in Nat /\ Top.count \in 0..table
         /\ \A j \in 1..(Len(frames) - 1) : frames[j].index # Top.index
         /\ \A T \in Types : Top.index \in has[T] => T = Top.type \/ T \in Later(Top)
         /\ Top.type # NoType => <<Top.type, Top.index>> \in fired
         /\ Later(Top) \subseteq Types /\ \A T \in Later(Top) : Top.type < T /\ Top.index \in has[T]
<1> DEFINE n == Len(frames)
<1>0. /\ FreeListExact /\ TypeOK /\ Delivering /\ Placed /\ Announced
  BY DEF Inv, FreeListExact
<1>1. n \in Nat \ {0} /\ n \in 1..n /\ Top = frames[n] /\ n \in Destroying /\ n \in Erasing
  BY <1>0, EmptySeq DEF TypeOK, Busy, Top, Destroying, Erasing
<1>2. Top.index \in Dying
  BY <1>1 DEF Dying
<1>3. Top.index \in 1..Len(generations) /\ Top.index \in Indices
  BY <1>0, <1>2, IndexTypes DEF FreeListExact
<1>4. Top.type \in Types \cup {NoType} /\ Top.count \in 0..table
  BY <1>0, <1>1, FrameFields
<1>5. Top.type \in Nat /\ Top.count \in Nat /\ table \in Nat /\ Top.count <= MaxType
  BY <1>0, <1>4, IndexTypes, BoundsAssumption DEF NoType, TypeOK
<1>6. \A j \in 1..(n - 1) : frames[j].index # Top.index
  <2> TAKE j \in 1..(n - 1)
  <2>1. j \in 1..n /\ j < n
    BY <1>1
  <2> QED BY <1>0, <1>1, <2>1 DEF Delivering
<1>7. Later(Top) = {T \in Top.type + 1 .. Top.count : Top.index \in has[T]}
  BY DEF Later
<1>8. \A T \in Types : Top.index \in has[T] => T = Top.type \/ T \in Later(Top)
  <2> SUFFICES ASSUME NEW T \in Types, Top.index \in has[T], T # Top.type PROVE T \in Later(Top)
    OBVIOUS
  <2>1. Top.type <= T /\ T <= Top.count /\ T \in Nat
    BY <1>0, <1>1, IndexTypes DEF Placed
  <2> QED BY <1>5, <1>7, <2>1
<1>9. Top.type # NoType => <<Top.type, Top.index>> \in fired
  BY <1>0, <1>1 DEF Announced
<1>10. Later(Top) \subseteq Types /\ \A T \in Later(Top) : Top.type < T /\ Top.index \in has[T]
  <2> SUFFICES ASSUME NEW T \in Later(Top) PROVE T \in Types /\ Top.type < T /\ Top.index \in has[T]
    OBVIOUS
  <2>1. T \in Top.type + 1 .. Top.count /\ Top.index \in has[T]
    BY <1>7
  <2> QED BY <1>5, <2>1, BoundsAssumption DEF Types
<1> QED BY <1>1, <1>2, <1>3, <1>4, <1>5, <1>6, <1>8, <1>9, <1>10

\* destroy erases the component it delivered and tells of the next one.
LEMMA DestroyFireStep ==
  ASSUME Inv, DestroyFire
  PROVE  Inv'
<1> DEFINE n == Len(frames)
<1>0. /\ FreeListExact /\ TypeOK /\ RoomToBump /\ Nesting /\ Delivering /\ Placed /\ Announced /\ Owing
  BY DEF Inv, FreeListExact
<1>1. PICK i, t, U : i = Top.index /\ t = Top.type /\ U = First(Later(Top))
  OBVIOUS
<1>2. PICK f : f = [Top EXCEPT !.type = U]
  OBVIOUS
<1>3. /\ Busy /\ Top.op = "destroy" /\ Later(Top) # {}
      /\ has' = [T \in Types |-> IF T = t THEN has[T] \ {i} ELSE has[T]]
      /\ SetTop(f)
      /\ fired' = (fired \ {<<t, i>>}) \cup {<<U, i>>} /\ owed' = owed \ {<<U, i>>}
      /\ UNCHANGED <<generations, free, alive, table>>
  BY <1>1, <1>2 DEF DestroyFire, Announce, entities
<1>4. /\ n \in Nat \ {0} /\ n \in 1..n /\ n \in Destroying /\ n \in Erasing /\ Top = frames[n]
      /\ i \in Dying /\ i \in 1..Len(generations) /\ i \in Indices /\ t \in Types \cup {NoType}
      /\ \A j \in 1..(n - 1) : frames[j].index # i
      /\ \A T \in Types : i \in has[T] => T = t \/ T \in Later(Top)
      /\ t # NoType => <<t, i>> \in fired
      /\ Later(Top) \subseteq Types /\ \A T \in Later(Top) : t < T /\ i \in has[T]
      /\ t \in Nat
  <2>1. n \in Destroying => n \in Erasing /\ n \in 1..n
    BY DEF Destroying, Erasing
  <2> QED BY <1>1, <1>3, <2>1, DestroyFacts
<1>5. /\ U \in Types /\ U # NoType /\ U \in Nat /\ t < U /\ t # U /\ i \in has[U]
      /\ \A T \in Types : T # t /\ i \in has[T] => U <= T
  <2>1. U \in Later(Top) /\ \A T \in Later(Top) : U <= T
    BY <1>1, <1>3, <1>4, LeastType
  <2>2. U \in Types /\ t < U /\ i \in has[U]
    BY <1>4, <2>1
  <2>3. U # NoType /\ U \in Nat
    BY <1>0, <2>2, IndexTypes
  <2>4. t # U
    BY <1>4, <2>2, <2>3
  <2>5. \A T \in Types : T # t /\ i \in has[T] => U <= T
    BY <1>4, <2>1
  <2> QED BY <2>2, <2>3, <2>4, <2>5
<1>6. /\ f.op = "destroy" /\ f.index = i /\ f.type = U /\ f.count = Top.count /\ f \in FrameType
  <2>1. Top \in FrameType
    BY <1>0, <1>4, ElementOfSeq DEF TypeOK
  <2> QED BY <1>1, <1>2, <1>3, <1>5, <2>1 DEF FrameType
<1>7. /\ frames' \in Seq(FrameType) /\ Len(frames') = n
      /\ \A k \in 1..(n - 1) : frames'[k] = frames[k]
      /\ frames'[n] = f
      /\ Ops' = Ops /\ Destroying' = Destroying /\ Dying' = Dying
  BY <1>0, <1>1, <1>3, <1>6, TopWasSet DEF TypeOK
<1>8. \A k \in 1..n : k # n => k \in 1..(n - 1) /\ frames'[k] = frames[k] /\ frames[k].index # i
  BY <1>4, <1>7
<1>9. /\ \A T \in Types : has'[T] = IF T = t THEN has[T] \ {i} ELSE has[T]
      /\ \A T \in Types : has'[T] \subseteq has[T]
  BY <1>3
<1>10. Erasing' = Erasing
  <2>1. \A k \in 1..n : frames'[k].op = frames[k].op
    BY <1>3, <1>4, <1>6, <1>7, <1>8
  <2> QED BY <1>7, <2>1 DEF Erasing
<1>11. TypeOK'
  <2>1. FrameType' = FrameType
    BY <1>3 DEF FrameType
  <2>2. has' \in [Types -> SUBSET (1..Len(generations))]
    BY <1>0, <1>3, <1>9 DEF TypeOK
  <2>3. \A T \in Types : has'[T] # {} => T <= table
    BY <1>0, <1>9 DEF TypeOK
  <2>4. <<U, i>> \in Component
    BY <1>4, <1>5 DEF Component
  <2>5. fired' \subseteq Component /\ owed' \subseteq Component \ fired'
    BY <1>0, <1>3, <2>4 DEF TypeOK
  <2> QED BY <1>0, <1>3, <1>7, <2>1, <2>2, <2>3, <2>5 DEF TypeOK
<1>12. \A k \in 1..n : frames'[k].index = frames[k].index
  BY <1>1, <1>4, <1>6, <1>7, <1>8
<1>13. FreeListExact'
  <2>1. Ext!ToSet(free)' = Ext!ToSet(free)
    BY <1>3
  <2>2. \A j, k \in Destroying' : frames'[j].index = frames'[k].index => j = k
    BY <1>0, <1>7, <1>12 DEF FreeListExact, Destroying
  <2> QED BY <1>0, <1>3, <1>7, <1>11, <2>1, <2>2 DEF FreeListExact
<1>14. RoomToBump'
  BY <1>0, <1>3, <1>7 DEF RoomToBump
<1>15. Nesting'
  <2> SUFFICES ASSUME NEW k \in 1..n
               PROVE  /\ frames'[k].op = "clear" => k = 1
                      /\ k < n \/ frames'[k].op \in {"notify", "remove"} => frames'[k].type # NoType
    BY <1>7 DEF Nesting
  <2>1. CASE k = n
    BY <1>5, <1>6, <1>7, <2>1
  <2>2. CASE k # n
    BY <1>0, <1>8, <2>2 DEF Nesting
  <2> QED BY <2>1, <2>2
<1>16. Delivering'
  <2>1. ASSUME NEW k \in 1..n, frames'[k].type # NoType
        PROVE  frames'[k].index \in has'[frames'[k].type]
    <3>1. CASE k = n
      BY <1>5, <1>6, <1>7, <1>9, <3>1
    <3>2. CASE k # n
      <4>1. frames'[k] = frames[k] /\ frames[k].index # i
        BY <1>8, <3>2
      <4> PICK T, x : T = frames[k].type /\ x = frames[k].index
        OBVIOUS
      <4>2. T \in Types
        BY <1>0, <2>1, <4>1, FrameFields
      <4>3. x \in has[T]
        BY <1>0, <2>1, <4>1 DEF Delivering
      <4>4. has'[T] = IF T = t THEN has[T] \ {i} ELSE has[T]
        BY <1>9, <4>2
      <4>5. x \in has'[T]
        BY <4>1, <4>3, <4>4
      <4> QED BY <4>1, <4>5
    <3> QED BY <3>1, <3>2
  <2>2. ASSUME NEW j \in 1..n, NEW k \in 1..n, j < k
        PROVE  /\ frames'[k].op = "remove" =>
                    ~(frames'[j].type = frames'[k].type /\ frames'[j].index = frames'[k].index)
               /\ frames'[k].op = "destroy" => frames'[j].index # frames'[k].index
    <3>1. j # n
      BY <1>4, <2>2
    <3>2. CASE k = n
      BY <1>6, <1>7, <1>8, <3>1, <3>2
    <3>3. CASE k # n
      BY <1>0, <1>8, <2>2, <3>1, <3>3 DEF Delivering
    <3> QED BY <3>2, <3>3
  <2> QED BY <1>7, <2>1, <2>2 DEF Delivering
<1>17. Placed'
  <2>1. \A T \in Types : has'[T] \subseteq alive' \cup Dying'
    BY <1>0, <1>3, <1>7, <1>9 DEF Placed
  <2>2. ASSUME NEW k \in Destroying', NEW T \in Types, frames'[k].index \in has'[T]
        PROVE  frames'[k].type <= T /\ T <= frames'[k].count
    <3>1. k \in Destroying /\ k \in 1..n
      BY <1>7 DEF Destroying
    <3>2. CASE k = n
      <4>1. i \in has'[T] /\ i \in has[T] /\ T # t
        BY <1>6, <1>7, <1>9, <2>2, <3>2
      <4>2. U <= T
        BY <1>5, <4>1
      <4>3. T <= frames[n].count
        BY <1>0, <1>1, <1>4, <4>1 DEF Placed
      <4> QED BY <1>4, <1>6, <1>7, <3>2, <4>2, <4>3
    <3>3. CASE k # n
      BY <1>0, <1>8, <1>9, <2>2, <3>1, <3>3 DEF Placed
    <3> QED BY <3>2, <3>3
  <2> QED BY <2>1, <2>2 DEF Placed
<1>18. Announced'
  <2>1. ASSUME NEW k \in Erasing', frames'[k].type # NoType
        PROVE  <<frames'[k].type, frames'[k].index>> \in fired'
    <3>1. k \in Erasing /\ k \in 1..n
      BY <1>10 DEF Erasing
    <3>2. CASE k = n
      BY <1>3, <1>6, <1>7, <3>2
    <3>3. CASE k # n
      BY <1>0, <1>3, <1>8, <2>1, <3>1, <3>3 DEF Announced
    <3> QED BY <3>2, <3>3
  <2>2. ASSUME "clear" \notin Ops', NEW c \in fired'
        PROVE  \E k \in Erasing' : c = <<frames'[k].type, frames'[k].index>>
    <3>1. CASE c = <<U, i>>
      BY <1>4, <1>6, <1>7, <1>10, <3>1
    <3>2. CASE c # <<U, i>>
      <4>1. c \in fired /\ c # <<t, i>>
        BY <1>3, <2>2, <3>2
      <4>2. PICK k \in Erasing : c = <<frames[k].type, frames[k].index>>
        BY <1>0, <1>7, <2>2, <4>1 DEF Announced
      <4>3. k # n /\ k \in 1..n
        BY <1>1, <1>4, <4>1, <4>2 DEF Erasing
      <4> QED BY <1>8, <1>10, <4>2, <4>3
    <3> QED BY <3>1, <3>2
  <2> QED BY <2>1, <2>2 DEF Announced
<1>19. Owing'
  <2>1. owed' \subseteq Components'
    <3> SUFFICES ASSUME NEW c \in owed PROVE c \in Components'
      BY <1>3
    <3>1. c \in Component /\ c[2] \in has[c[1]] /\ c \notin fired
      BY <1>0 DEF Owing, Components, TypeOK
    <3>2. c[1] \in Types /\ c = <<c[1], c[2]>> /\ c[1] # NoType
      BY <1>0, <3>1, IndexTypes DEF Component
    <3>3. c # <<t, i>>
      BY <1>4, <3>1, <3>2
    <3>4. c[2] \in has'[c[1]]
      BY <1>9, <3>1, <3>2, <3>3
    <3> QED BY <3>1, <3>4 DEF Components
  <2>2. "clear" \notin Ops' => owed' = {}
    BY <1>0, <1>3, <1>7 DEF Owing
  <2>3. Busy' /\ frames'[1].op = "clear" => frames'[1] = frames[1]
    <3>1. 1 \in 1..n
      BY <1>4
    <3> QED BY <1>6, <1>7, <1>8, <3>1
  <2> QED BY <1>0, <1>3, <2>1, <2>2, <2>3 DEF Owing
<1> QED BY <1>13, <1>14, <1>15, <1>16, <1>17, <1>18, <1>19 DEF Inv

\* destroy is through: its index is on the free list, under its next generation.
LEMMA DestroyEndStep ==
  ASSUME Inv, DestroyEnd
  PROVE  Inv'
<1> DEFINE n == Len(frames)
           m == Len(generations)
           p == Len(free)
<1>0. /\ FreeListExact /\ TypeOK /\ RoomToBump /\ Nesting /\ Delivering /\ Placed /\ Announced /\ Owing
  BY DEF Inv, FreeListExact
<1>1. PICK i, t : i = Top.index /\ t = Top.type
  OBVIOUS
<1>2. /\ Busy /\ Pop /\ Top.op = "destroy" /\ Later(Top) = {}
      /\ has' = [T \in Types |-> has[T] \ {i}]
      /\ generations' = [generations EXCEPT ![i] = @ + 1]
      /\ free' = Append(free, i)
      /\ fired' = fired \ OfIndex(i)
      /\ UNCHANGED <<alive, table, owed>>
  BY <1>1 DEF DestroyEnd, Bumped
<1>3. /\ n \in Nat \ {0} /\ n \in Destroying /\ Top = frames[n]
      /\ i \in Dying /\ i \in 1..m /\ i \in Indices
      /\ \A j \in 1..(n - 1) : frames[j].index # i
      /\ \A T \in Types : i \in has[T] => T = t
      /\ t # NoType => <<t, i>> \in fired
  BY <1>1, <1>2, DestroyFacts
<1>4. /\ Ops = Ops' \cup {"destroy"} /\ Destroying' = Destroying \ {n} /\ Dying = Dying' \cup {i}
  BY <1>0, <1>1, <1>2, Popped DEF TypeOK
<1>5. /\ Nesting' /\ frames' \in Seq(FrameType) /\ Len(frames') <= MaxDepth
      /\ \A k \in 1..Len(frames') : k < n /\ k \in 1..n /\ frames'[k] = frames[k]
      /\ Erasing' = Erasing \ {n}
      /\ \A j, k \in Destroying' : frames'[j].index = frames'[k].index => j = k
      /\ Busy' /\ frames'[1].op = "clear" => frames'[1] = frames[1]
  BY <1>0, <1>2, PopKeeps
<1>6. \A k \in 1..Len(frames') : frames[k].index # i
  <2> TAKE k \in 1..Len(frames')
  <2>1. k \in 1..(n - 1)
    BY <1>3, <1>5
  <2> QED BY <1>3, <2>1
<1>7. i \notin Dying'
  <2>1. \A k \in Destroying' : k \in 1..Len(frames') /\ frames'[k] = frames[k]
    BY <1>5 DEF Destroying
  <2> QED BY <1>6, <2>1 DEF Dying
<1>8. /\ generations' \in Seq(Nat \ {0}) /\ Len(generations') = m /\ m \in Nat
      /\ \A j \in 1..m : generations'[j] = IF j = i THEN generations[i] + 1 ELSE generations[j]
      /\ \A j \in 1..m : generations[j] \in Nat
  <2>1. generations \in Seq(Nat \ {0}) /\ m \in Nat
    BY <1>0, LenProperties DEF TypeOK
  <2>2. \A j \in 1..m : generations[j] \in Nat
    BY <2>1, ElementOfSeq
  <2>3. generations[i] + 1 \in Nat \ {0}
    BY <1>3, <2>2
  <2> QED BY <1>2, <1>3, <2>1, <2>2, <2>3, ExceptSeq
<1>9. /\ free' \in Seq(1..m) /\ Len(free') = p + 1 /\ p \in Nat
      /\ \A k \in 1..p : free'[k] = free[k]
      /\ free'[p + 1] = i
  BY <1>0, <1>2, <1>3, AppendProperties, LenProperties DEF TypeOK
<1>10. 1..(p + 1) = (1..p) \cup {p + 1} /\ p + 1 \notin 1..p
  BY <1>9
<1>11. Ext!ToSet(free) = Free /\ Ext!ToSet(free)' = Free' /\ Free' = Free \cup {i}
  <2>1. Ext!ToSet(free) = Free
    BY <1>0, FreeIsToSet DEF TypeOK
  <2>2. Ext!ToSet(free)' = Free'
    BY <1>9 DEF Ext!ToSet, Free
  <2>3. Free' = Free \cup {i}
    BY <1>9, <1>10 DEF Free
  <2> QED BY <2>1, <2>2, <2>3
<1>12. i \notin Free /\ i \notin alive
  BY <1>0, <1>3, <1>11 DEF FreeListExact
<1>13. TypeOK'
  <2>1. FrameType' = FrameType
    BY <1>2 DEF FrameType
  <2>2. has' \in [Types -> SUBSET (1..m)]
    BY <1>0, <1>2 DEF TypeOK
  <2>3. \A T \in Types : has'[T] # {} => T <= table
    BY <1>0, <1>2 DEF TypeOK
  <2>4. fired' \subseteq Component /\ owed' \subseteq Component \ fired'
    BY <1>0, <1>2 DEF TypeOK
  <2> QED BY <1>0, <1>2, <1>5, <1>8, <1>9, <2>1, <2>2, <2>3, <2>4 DEF TypeOK
<1>14. FreeListExact'
  <2>1. \A j, k \in 1..(p + 1) : free'[j] = free'[k] => j = k
    <3>1. \A k \in 1..p : free[k] \in Free
      BY DEF Free
    <3>2. \A k \in 1..p : free'[k] # i
      BY <1>9, <1>12, <3>1
    <3>3. \A j, k \in 1..p : free'[j] = free'[k] => j = k
      BY <1>0, <1>9 DEF FreeListExact
    <3> QED BY <1>9, <1>10, <3>2, <3>3
  <2>2. alive' \cup Free' \cup Dying' = 1..Len(generations')
    BY <1>0, <1>2, <1>4, <1>8, <1>11 DEF FreeListExact
  <2>3. alive' \cap Free' = {} /\ alive' \cap Dying' = {} /\ Free' \cap Dying' = {}
    BY <1>0, <1>2, <1>4, <1>7, <1>11, <1>12 DEF FreeListExact
  <2> QED BY <1>5, <1>9, <1>11, <1>13, <2>1, <2>2, <2>3 DEF FreeListExact
<1>15. RoomToBump'
  <2>1. generations[i] < MaxGeneration
    BY <1>0, <1>3 DEF RoomToBump
  <2>2. ("clear" \in Ops') <=> ("clear" \in Ops)
    BY <1>4
  <2>3. \A j \in 1..m : generations'[j] <= IF "clear" \in Ops' THEN MaxGeneration ELSE MaxGeneration + 1
    <3> TAKE j \in 1..m
    <3>1. CASE j = i
      BY <1>8, <2>1, <3>1, BoundsAssumption
    <3>2. CASE j # i
      BY <1>0, <1>8, <2>2, <3>2 DEF RoomToBump
    <3> QED BY <3>1, <3>2
  <2>4. \A j \in Dying' : generations'[j] < MaxGeneration
    <3> TAKE j \in Dying'
    <3>1. j \in Dying /\ j # i /\ j \in 1..m
      BY <1>0, <1>4, <1>7 DEF FreeListExact
    <3> QED BY <1>0, <1>8, <3>1 DEF RoomToBump
  <2> QED BY <1>8, <2>3, <2>4 DEF RoomToBump
<1>16. \A T \in Types : has'[T] = has[T] \ {i}
  BY <1>2
<1>17. Delivering'
  <2>1. ASSUME NEW k \in 1..Len(frames'), frames'[k].type # NoType
        PROVE  frames'[k].index \in has'[frames'[k].type]
    <3>1. frames'[k] = frames[k] /\ k \in 1..n /\ frames[k].index # i
      BY <1>5, <1>6
    <3>2. frames[k].index \in has[frames[k].type] /\ frames[k].type \in Types
      BY <1>0, <2>1, <3>1, FrameFields DEF Delivering
    <3> QED BY <1>16, <3>1, <3>2
  <2>2. \A j, k \in 1..Len(frames') : j < k =>
          /\ frames'[k].op = "remove" =>
               ~(frames'[j].type = frames'[k].type /\ frames'[j].index = frames'[k].index)
          /\ frames'[k].op = "destroy" => frames'[j].index # frames'[k].index
    BY <1>0, <1>5 DEF Delivering
  <2> QED BY <2>1, <2>2 DEF Delivering
<1>18. Placed'
  <2>1. \A T \in Types : has'[T] \subseteq alive' \cup Dying'
    BY <1>0, <1>2, <1>4, <1>16 DEF Placed
  <2>2. \A k \in Destroying' : k \in Destroying /\ frames'[k] = frames[k]
    BY <1>4, <1>5 DEF Destroying
  <2> QED BY <1>0, <1>16, <2>1, <2>2 DEF Placed
<1>19. \A k \in Erasing' : k \in Erasing /\ frames'[k] = frames[k] /\ frames[k].index # i
  BY <1>5, <1>6 DEF Erasing
<1>20. Announced'
  <2>1. ASSUME NEW k \in Erasing', frames'[k].type # NoType
        PROVE  <<frames'[k].type, frames'[k].index>> \in fired'
    <3>1. <<frames[k].type, frames[k].index>> \in fired
      BY <1>0, <1>19, <2>1 DEF Announced
    <3>2. <<frames[k].type, frames[k].index>> \notin OfIndex(i)
      BY <1>19 DEF OfIndex
    <3> QED BY <1>2, <1>19, <3>1, <3>2
  <2>2. ASSUME "clear" \notin Ops', NEW c \in fired'
        PROVE  \E k \in Erasing' : c = <<frames'[k].type, frames'[k].index>>
    <3>1. c \in fired /\ c \in Component /\ c[2] # i
      BY <1>0, <1>2 DEF TypeOK, OfIndex
    <3>2. PICK k \in Erasing : c = <<frames[k].type, frames[k].index>>
      BY <1>0, <1>4, <2>2, <3>1 DEF Announced
    <3>3. k # n
      BY <1>1, <1>3, <3>1, <3>2
    <3> QED BY <1>5, <1>19, <3>2, <3>3
  <2> QED BY <2>1, <2>2 DEF Announced
<1>21. Owing'
  <2>1. owed \subseteq Components'
    <3> SUFFICES ASSUME NEW c \in owed PROVE c \in Components'
      OBVIOUS
    <3>1. c \in Component /\ c[2] \in has[c[1]] /\ c \notin fired
      BY <1>0 DEF Owing, Components, TypeOK
    <3>2. c[1] \in Types /\ c = <<c[1], c[2]>> /\ c[1] # NoType
      BY <1>0, <3>1, IndexTypes DEF Component
    <3>3. c[2] # i
      BY <1>3, <3>1, <3>2
    <3>4. c[2] \in has'[c[1]]
      BY <1>16, <3>1, <3>2, <3>3
    <3> QED BY <3>1, <3>4 DEF Components
  <2>2. "clear" \notin Ops' => owed' = {}
    BY <1>0, <1>2, <1>4 DEF Owing
  <2>3. Busy' /\ frames'[1].op = "clear" => Busy /\ frames[1].op = "clear"
    BY <1>2, <1>5
  <2> QED BY <1>0, <1>2, <1>5, <2>1, <2>2, <2>3 DEF Owing
<1> QED BY <1>5, <1>14, <1>15, <1>17, <1>18, <1>20, <1>21 DEF Inv

\* A running clear is the only operation.
LEMMA ClearFacts ==
  ASSUME Inv, Busy, Top.op = "clear"
  PROVE  /\ Len(frames) = 1 /\ Top = frames[1] /\ Top \in FrameType /\ "clear" \in Ops
         /\ Destroying = {} /\ Dying = {} /\ Erasing = {}
         /\ Top.type \in Types \cup {NoType} /\ Top.type \in Nat
         /\ Top.index \in Indices \cup {NoIndex} /\ Top.count \in 0..table /\ Top.todo \subseteq Indices
         /\ Later(Top) \subseteq Types
         /\ \A T \in Types : T \in Later(Top) <=> Top.type < T /\ T <= Top.count /\ Top.index \in has[T]
<1>0. TypeOK /\ Nesting
  BY DEF Inv, FreeListExact
<1>1. Len(frames) \in Nat \ {0} /\ Len(frames) \in 1..Len(frames)
  BY <1>0, EmptySeq DEF TypeOK, Busy
<1>2. Len(frames) = 1
  BY <1>0, <1>1 DEF Nesting, Top
<1>3. Top = frames[1] /\ Top \in FrameType
  <2>1. Top = frames[1] /\ 1 \in 1..Len(frames)
    BY <1>2 DEF Top
  <2>2. frames \in Seq(FrameType)
    BY <1>0 DEF TypeOK
  <2>3. frames[1] \in FrameType
    BY <2>1, <2>2, ElementOfSeq
  <2> QED BY <2>1, <2>3
<1>4. "clear" \in Ops /\ Destroying = {} /\ Dying = {} /\ Erasing = {}
  BY <1>2, <1>3 DEF Ops, Destroying, Dying, Erasing
<1>5. /\ Top.type \in Types \cup {NoType} /\ Top.index \in Indices \cup {NoIndex}
      /\ Top.count \in 0..table /\ Top.todo \subseteq Indices
  BY <1>3 DEF FrameType
<1>6. Top.type \in Nat /\ Top.count \in Nat /\ Top.count <= MaxType
  BY <1>0, <1>5, BoundsAssumption DEF NoType, Types, TypeOK
<1>7. Later(Top) = {T \in Top.type + 1 .. Top.count : Top.index \in has[T]}
  BY DEF Later
<1>8. Later(Top) \subseteq Types
  BY <1>6, <1>7, BoundsAssumption DEF Types
<1>9. \A T \in Types : T \in Later(Top) <=> Top.type < T /\ T <= Top.count /\ Top.index \in has[T]
  BY <1>6, <1>7, BoundsAssumption DEF Types
<1> QED BY <1>2, <1>3, <1>4, <1>5, <1>6, <1>8, <1>9

\* clear goes on: to the next component of an index, or to the next index.
LEMMA ClearGoesOn ==
  ASSUME Inv, Busy, Top.op = "clear", NEW f \in FrameType, f.op = "clear", SetTop(f),
         UNCHANGED <<generations, free, alive, table, has>>,
         f.type # NoType => f.index \in has[f.type],
         fired' \subseteq Component, owed' \subseteq owed, owed' \cap fired' = {},
         \A c \in owed' :
           \/ c[2] \in f.todo
           \/ c[2] = f.index /\ f.type < c[1] /\ c[1] <= f.count
  PROVE  Inv'
<1>0. /\ FreeListExact /\ TypeOK /\ RoomToBump /\ Nesting /\ Delivering /\ Placed /\ Announced /\ Owing
  BY DEF Inv, FreeListExact
<1>1. /\ Len(frames) = 1 /\ Top = frames[1] /\ "clear" \in Ops
      /\ Destroying = {} /\ Dying = {} /\ Erasing = {}
  BY ClearFacts
<1>2. /\ frames' \in Seq(FrameType) /\ Len(frames') = 1 /\ frames'[1] = f
      /\ Ops' = Ops /\ Destroying' = {} /\ Dying' = {} /\ Busy'
  BY <1>0, <1>1, TopWasSet DEF TypeOK
<1>3. Erasing' = {}
  BY <1>2 DEF Erasing
<1>4. TypeOK'
  <2>1. FrameType' = FrameType
    BY DEF FrameType
  <2>2. fired' \subseteq Component /\ owed' \subseteq Component \ fired'
    BY <1>0 DEF TypeOK
  <2> QED BY <1>0, <1>1, <1>2, <2>1, <2>2 DEF TypeOK
<1>5. FreeListExact'
  <2>1. Ext!ToSet(free)' = Ext!ToSet(free)
    OBVIOUS
  <2> QED BY <1>0, <1>1, <1>2, <1>4, <2>1 DEF FreeListExact
<1>6. RoomToBump'
  BY <1>0, <1>1, <1>2 DEF RoomToBump
<1>7. Nesting'
  BY <1>2 DEF Nesting
<1>8. Delivering'
  BY <1>2 DEF Delivering
<1>9. Placed'
  BY <1>0, <1>1, <1>2 DEF Placed
<1>10. Announced'
  BY <1>1, <1>2, <1>3 DEF Announced
<1>11. Owing'
  <2>1. Components' = Components
    BY DEF Components
  <2> QED BY <1>0, <1>1, <1>2, <2>1 DEF Owing
<1> QED BY <1>5, <1>6, <1>7, <1>8, <1>9, <1>10, <1>11 DEF Inv

LEMMA ClearFireStep ==
  ASSUME Inv, ClearFire
  PROVE  Inv'
<1>0. TypeOK /\ Owing
  BY DEF Inv, FreeListExact
<1>1. PICK i, U : i = Top.index /\ U = First(Later(Top))
  OBVIOUS
<1>2. PICK f : f = [Top EXCEPT !.type = U]
  OBVIOUS
<1>3. /\ Busy /\ Top.op = "clear" /\ Later(Top) # {} /\ SetTop(f)
      /\ fired' = fired \cup {<<U, i>>} /\ owed' = owed \ {<<U, i>>}
      /\ UNCHANGED <<generations, free, alive, table, has>>
  BY <1>1, <1>2 DEF ClearFire, Announce, entities, storages
<1>4. /\ Len(frames) = 1 /\ Top = frames[1] /\ Top \in FrameType /\ Later(Top) \subseteq Types
      /\ \A T \in Types : T \in Later(Top) <=> Top.type < T /\ T <= Top.count /\ i \in has[T]
  BY <1>1, <1>3, ClearFacts
<1>5. U \in Types /\ U \in Later(Top) /\ \A T \in Later(Top) : U <= T
  BY <1>1, <1>3, <1>4, LeastType
<1>6. U \in Nat /\ i \in has[U] /\ i \in Indices
  BY <1>0, <1>4, <1>5, IndexTypes
<1>7. /\ f.op = "clear" /\ f.type = U /\ f.index = i /\ f.count = Top.count /\ f.todo = Top.todo
      /\ f \in FrameType
  BY <1>1, <1>2, <1>3, <1>4, <1>5 DEF FrameType
<1>8. fired' \subseteq Component /\ owed' \subseteq owed /\ owed' \cap fired' = {}
  <2>1. <<U, i>> \in Component
    BY <1>5, <1>6 DEF Component
  <2> QED BY <1>0, <1>3, <2>1 DEF TypeOK
<1>9. ASSUME NEW c \in owed'
      PROVE  c[2] \in f.todo \/ (c[2] = f.index /\ f.type < c[1] /\ c[1] <= f.count)
  <2>1. /\ c \in owed /\ c # <<U, i>>
        /\ c[2] \in Top.todo \/ (c[2] = i /\ Top.type < c[1] /\ c[1] <= Top.count)
    BY <1>0, <1>1, <1>3, <1>4 DEF Owing
  <2>2. CASE c[2] \in Top.todo
    BY <1>7, <2>2
  <2>3. CASE c[2] = i /\ Top.type < c[1] /\ c[1] <= Top.count
    <3>1. c \in Types \X Indices /\ c[2] \in has[c[1]]
      BY <1>0, <2>1 DEF Owing, Components, Component
    <3>2. c[1] \in Types /\ c = <<c[1], i>> /\ c[1] # U
      BY <2>1, <2>3, <3>1
    <3>3. c[1] \in Later(Top)
      BY <1>4, <2>3, <3>1, <3>2
    <3>4. U <= c[1] /\ c[1] \in Nat
      BY <1>0, <1>5, <3>2, <3>3, IndexTypes
    <3>5. U < c[1]
      BY <1>6, <3>2, <3>4
    <3> QED BY <1>7, <2>3, <3>5
  <2> QED BY <2>1, <2>2, <2>3
<1> QED BY <1>3, <1>6, <1>7, <1>8, <1>9, ClearGoesOn

LEMMA ClearNextStep ==
  ASSUME Inv, NEW i \in Indices, ClearNext(i)
  PROVE  Inv'
<1>0. TypeOK /\ Owing
  BY DEF Inv, FreeListExact
<1>1. PICK f : f = [Top EXCEPT !.type = NoType, !.index = i, !.count = table, !.todo = @ \ {i}]
  OBVIOUS
<1>2. /\ Busy /\ Top.op = "clear" /\ Later(Top) = {} /\ SetTop(f)
      /\ UNCHANGED <<generations, free, alive, table, has, fired, owed>>
  BY <1>1 DEF ClearNext, entities, storages, told
<1>3. /\ Len(frames) = 1 /\ Top = frames[1] /\ Top \in FrameType
      /\ \A T \in Types : T \in Later(Top) <=> Top.type < T /\ T <= Top.count /\ Top.index \in has[T]
  BY <1>2, ClearFacts
<1>4. /\ f.op = "clear" /\ f.type = NoType /\ f.index = i /\ f.count = table /\ f.todo = Top.todo \ {i}
      /\ f \in FrameType
  <2>1. table \in 0..table
    BY <1>0, IndexTypes
  <2> QED BY <1>1, <1>2, <1>3, <2>1 DEF FrameType
<1>5. fired' \subseteq Component /\ owed' \subseteq owed /\ owed' \cap fired' = {}
  BY <1>0, <1>2 DEF TypeOK
<1>6. ASSUME NEW c \in owed'
      PROVE  c[2] \in f.todo \/ (c[2] = f.index /\ f.type < c[1] /\ c[1] <= f.count)
  <2>1. /\ c \in owed
        /\ c[2] \in Top.todo \/ (c[2] = Top.index /\ Top.type < c[1] /\ c[1] <= Top.count)
    BY <1>0, <1>2, <1>3 DEF Owing
  <2>2. c \in Types \X Indices /\ c[2] \in has[c[1]]
    BY <1>0, <2>1 DEF Owing, Components, Component
  <2>3. c[1] \in Types
    BY <2>2
  <2>4. c[2] \in Top.todo
    BY <1>2, <1>3, <2>1, <2>2, <2>3
  <2>5. NoType < c[1] /\ c[1] <= table
    <3>1. c[1] \in Nat /\ c[1] # NoType
      BY <1>0, <2>3, IndexTypes
    <3>2. c[1] <= table
      BY <1>0, <2>2, <2>3 DEF TypeOK
    <3> QED BY <3>1, <3>2 DEF NoType
  <2> QED BY <1>4, <2>4, <2>5
<1> QED BY <1>2, <1>4, <1>5, <1>6, ClearGoesOn

\* clear is through: nothing is left, and every index is free under its next generation.
LEMMA ClearEndStep ==
  ASSUME Inv, ClearEnd
  PROVE  Inv'
<1> DEFINE m == Len(generations)
<1>0. /\ FreeListExact /\ TypeOK /\ RoomToBump
  BY DEF Inv, FreeListExact
<1>1. /\ Busy /\ Pop /\ Top.op = "clear"
      /\ has' = [T \in Types |-> {}]
      /\ generations' = [i \in 1..m |-> generations[i] + 1]
      /\ free' = [i \in 1..m |-> i]
      /\ alive' = {} /\ fired' = {} /\ owed' = {} /\ table' = table
  BY DEF ClearEnd, Bumped
<1>2. Len(frames) = 1 /\ "clear" \in Ops
  BY <1>1, ClearFacts
<1>3. frames' \in Seq(FrameType) /\ Len(frames') = 0
  <2>1. frames' \in Seq(FrameType) /\ Len(frames') = 1 - 1
    BY <1>0, <1>1, <1>2, Popped DEF TypeOK
  <2> QED BY <2>1
<1>4. Ops' = {} /\ Destroying' = {} /\ Dying' = {} /\ Erasing' = {} /\ ~Busy'
  <2>1. ~Busy'
    BY <1>3, EmptySeq DEF Busy
  <2> QED BY <1>3, <2>1 DEF Ops, Destroying, Dying, Erasing
<1>5. m \in Nat /\ m <= MaxSlots /\ \A i \in 1..m : generations[i] \in Nat
  BY <1>0, ElementOfSeq, LenProperties DEF TypeOK
<1>6. /\ generations' \in Seq(Nat \ {0}) /\ Len(generations') = m
      /\ \A i \in 1..m : generations'[i] = generations[i] + 1
  <2>1. \A i \in 1..m : generations[i] + 1 \in Nat \ {0}
    BY <1>5
  <2> QED BY <1>1, <1>5, <2>1, IsASeq, LenProperties
<1>7. free' \in Seq(1..m) /\ Len(free') = m /\ \A i \in 1..m : free'[i] = i
  BY <1>1, <1>5, IsASeq, LenProperties
<1>8. TypeOK'
  <2>1. FrameType' = FrameType
    BY <1>1 DEF FrameType
  <2> QED BY <1>0, <1>1, <1>3, <1>5, <1>6, <1>7, <2>1, BoundsAssumption DEF TypeOK
<1>9. FreeListExact'
  <2>1. Ext!ToSet(free)' = Free'
    BY <1>7 DEF Ext!ToSet, Free
  <2>2. Free' = 1..m
    BY <1>7 DEF Free
  <2>3. \A j, k \in 1..Len(free') : free'[j] = free'[k] => j = k
    BY <1>7
  <2> QED BY <1>1, <1>4, <1>6, <1>8, <2>1, <2>2, <2>3 DEF FreeListExact
<1>10. RoomToBump'
  <2>1. \A i \in 1..m : generations[i] <= MaxGeneration
    BY <1>0, <1>2 DEF RoomToBump
  <2>2. \A i \in 1..m : generations[i] + 1 <= MaxGeneration + 1
    BY <1>5, <2>1, BoundsAssumption
  <2> QED BY <1>4, <1>6, <2>2 DEF RoomToBump
<1>11. Nesting' /\ Delivering'
  BY <1>3 DEF Nesting, Delivering
<1>12. Placed' /\ Announced' /\ Owing'
  BY <1>1, <1>4 DEF Placed, Announced, Owing
<1> QED BY <1>9, <1>10, <1>11, <1>12 DEF Inv

-----------------------------------------------------------------------------
(***************************************************************************)
(* The invariant.                                                          *)
(***************************************************************************)

LEMMA InitInv == Init => Inv
<1> SUFFICES ASSUME Init PROVE Inv
  OBVIOUS
<1>1. /\ generations = << >> /\ free = << >> /\ alive = {} /\ table = 0
      /\ has = [T \in Types |-> {}] /\ frames = << >> /\ fired = {} /\ owed = {}
  BY DEF Init
<1>2. /\ Len(generations) = 0 /\ Len(free) = 0 /\ Len(frames) = 0
      /\ generations \in Seq(Nat \ {0}) /\ free \in Seq(1..Len(generations)) /\ frames \in Seq(FrameType)
  BY <1>1, EmptySeq
<1>3. Destroying = {} /\ Dying = {} /\ Erasing = {} /\ Ops = {} /\ ~Busy
  BY <1>1, <1>2 DEF Destroying, Dying, Erasing, Ops, Busy
<1>4. TypeOK
  BY <1>1, <1>2, BoundsAssumption DEF TypeOK
<1>5. FreeListExact
  <2>1. Ext!ToSet(free) = {}
    BY <1>2 DEF Ext!ToSet
  <2> QED BY <1>1, <1>2, <1>3, <1>4, <2>1 DEF FreeListExact
<1>6. RoomToBump /\ Nesting /\ Delivering
  BY <1>2, <1>3 DEF RoomToBump, Nesting, Delivering
<1>7. Placed /\ Announced /\ Owing
  BY <1>1, <1>3 DEF Placed, Announced, Owing
<1> QED BY <1>5, <1>6, <1>7 DEF Inv

\* patch and remove find the component, so its storage exists and does not change.
LEMMA ThereAlready ==
  ASSUME TypeOK, NEW T \in Types, NEW i \in has[T], UNCHANGED storages
  PROVE  has' = [has EXCEPT ![T] = @ \cup {i}] /\ table' = IF T > table THEN T ELSE table
<1>1. has' = has /\ table' = table /\ has \in [Types -> SUBSET (1..Len(generations))]
  BY DEF storages, TypeOK
<1>2. T <= table /\ T \in Nat /\ table \in Nat
  BY IndexTypes DEF TypeOK
<1>3. has[T] \cup {i} = has[T]
  OBVIOUS
<1> QED BY <1>1, <1>2, <1>3

LEMMA NextInv == Inv /\ [Next]_vars => Inv'
<1> SUFFICES ASSUME Inv, [Next]_vars PROVE Inv'
  OBVIOUS
<1>0. TypeOK
  BY DEF Inv, FreeListExact
<1>1. CASE Create
  BY <1>1, CreateStep
<1>2. ASSUME NEW T \in Types, NEW i \in Indices, Add(T, i) PROVE Inv'
  <2>1. /\ UserRuns /\ i \in alive /\ Push(Frame("notify", T, i)) /\ UNCHANGED entities /\ UNCHANGED told
        /\ has' = [has EXCEPT ![T] = @ \cup {i}] /\ table' = IF T > table THEN T ELSE table
    BY <1>2 DEF Add, entities, told
  <2> QED BY <2>1, CallStep
<1>3. ASSUME NEW T \in Types, NEW i \in Indices, Patch(T, i) PROVE Inv'
  <2>1. /\ UserRuns /\ i \in alive /\ i \in has[T] /\ Push(Frame("notify", T, i))
        /\ UNCHANGED entities /\ UNCHANGED storages /\ UNCHANGED told
    BY <1>3 DEF Patch, entities, storages, told
  <2>2. has' = [has EXCEPT ![T] = @ \cup {i}] /\ table' = IF T > table THEN T ELSE table
    BY <1>0, <2>1, ThereAlready
  <2> QED BY <2>1, <2>2, CallStep
<1>4. ASSUME NEW T \in Types, NEW i \in Indices, Remove(T, i) PROVE Inv'
  <2>1. /\ UserRuns /\ i \in alive /\ i \in has[T] /\ Push(Frame("remove", T, i))
        /\ MayDetach({<<T, i>>}) /\ Announce(<<T, i>>, fired)
        /\ UNCHANGED entities /\ UNCHANGED storages
    BY <1>4 DEF Remove, entities, storages
  <2>2. has' = [has EXCEPT ![T] = @ \cup {i}] /\ table' = IF T > table THEN T ELSE table
    BY <1>0, <2>1, ThereAlready
  <2> QED BY <2>1, <2>2, CallStep
<1>5. ASSUME NEW i \in Indices, Destroy(i) PROVE Inv'
  BY <1>5, DestroyStep
<1>6. CASE Clear
  BY <1>6, ClearStep
<1>7. CASE NotifyEnd
  BY <1>7, NotifyEndStep
<1>8. CASE RemoveEnd
  BY <1>8, RemoveEndStep
<1>9. CASE DestroyFire
  BY <1>9, DestroyFireStep
<1>10. CASE DestroyEnd
  BY <1>10, DestroyEndStep
<1>11. CASE ClearFire
  BY <1>11, ClearFireStep
<1>12. ASSUME NEW i \in Indices, ClearNext(i) PROVE Inv'
  BY <1>12, ClearNextStep
<1>13. CASE ClearEnd
  BY <1>13, ClearEndStep
<1>14. CASE UNCHANGED vars
  <2>1. UNCHANGED <<generations, free, alive, table, has, frames, fired, owed>>
    BY <1>14 DEF vars, entities, storages, told
  <2>2. /\ FreeListExact /\ RoomToBump /\ Nesting
        /\ Delivering /\ Placed /\ Announced /\ Owing
    BY DEF Inv
  <2>3. /\ Destroying' = Destroying /\ Dying' = Dying /\ Erasing' = Erasing
        /\ Ops' = Ops /\ Busy' = Busy /\ Components' = Components
        /\ FrameType' = FrameType /\ Ext!ToSet(free)' = Ext!ToSet(free)
    BY <2>1 DEF Destroying, Dying, Erasing, Ops, Busy, Components, FrameType
  <2>4. FreeListExact'
    BY <2>1, <2>2, <2>3 DEF FreeListExact, TypeOK
  <2>5. RoomToBump' /\ Nesting' /\ Delivering' /\ Placed'
    BY <2>1, <2>2, <2>3 DEF RoomToBump, Nesting, Delivering, Placed
  <2>6. Announced' /\ Owing'
    BY <2>1, <2>2, <2>3 DEF Announced, Owing
  <2> QED BY <2>4, <2>5, <2>6 DEF Inv
<1> QED
  BY <1>1, <1>2, <1>3, <1>4, <1>5, <1>6, <1>7, <1>8, <1>9, <1>10, <1>11, <1>12, <1>13, <1>14 DEF Next

\* The invariant holds throughout: however add, patch, remove, destroy and clear nest in
\* listeners.
THEOREM InvariantHolds == Spec => []Inv
BY InitInv, NextInv, PTL DEF Spec

\* Every index of the registry is exactly one of alive, free once, or being destroyed.
THEOREM FreeListIsExact == Spec => []FreeListExact
<1>1. Inv => FreeListExact
  BY DEF Inv
<1> QED BY <1>1, InvariantHolds, PTL

-----------------------------------------------------------------------------
(***************************************************************************)
(* What listeners see.                                                     *)
(***************************************************************************)

\* The two action parts of DestroyObserved.
ErasedWasAnnounced ==
  IF ClearEnd THEN owed = {} ELSE Components \ Components' \subseteq fired
AnnouncedOnce == "clear" \notin Ops => \A c \in fired : ~Fires(c)

\* Only what on_destroy was fired for is erased.
LEMMA ErasedLemma == Inv /\ [Next]_vars => ErasedWasAnnounced
<1> SUFFICES ASSUME Inv, [Next]_vars PROVE ErasedWasAnnounced
  OBVIOUS
<1>0. TypeOK /\ Owing /\ Nesting /\ Announced /\ Delivering
  BY DEF Inv, FreeListExact
<1>1. CASE ClearEnd
  <2>1. /\ Busy /\ Top.op = "clear" /\ Later(Top) = {} /\ Top.todo = {}
    BY <1>1 DEF ClearEnd
  <2>2. /\ Top = frames[1]
        /\ \A T \in Types : T \in Later(Top) <=> Top.type < T /\ T <= Top.count /\ Top.index \in has[T]
    BY <2>1, ClearFacts
  <2>3. ASSUME NEW c \in owed PROVE FALSE
    <3>1. c \in Types \X Indices /\ c[2] \in has[c[1]]
      BY <1>0 DEF Owing, Components, Component
    <3>2. c[1] \in Types
      BY <3>1
    <3>3. c[2] = Top.index /\ Top.type < c[1] /\ c[1] <= Top.count
      BY <1>0, <2>1, <2>2 DEF Owing
    <3> QED BY <2>1, <2>2, <3>1, <3>2, <3>3
  <2> QED BY <1>1, <2>3 DEF ErasedWasAnnounced
<1>2. CASE ~ClearEnd
  <2> SUFFICES ASSUME NEW c \in Components, c \notin Components' PROVE c \in fired
    BY <1>2 DEF ErasedWasAnnounced
  <2>1. c \in Types \X Indices /\ c[2] \in has[c[1]] /\ c[2] \notin has'[c[1]]
    BY DEF Components, Component
  <2>2. c[1] \in Types /\ c = <<c[1], c[2]>>
    BY <2>1
  <2>3. ASSUME UNCHANGED has PROVE FALSE
    BY <2>1, <2>3
  <2>4. CASE RemoveEnd
    <3>1. Busy /\ Top.op = "remove" /\ has' = [has EXCEPT ![Top.type] = @ \ {Top.index}]
      BY <2>4 DEF RemoveEnd
    <3>2. Top.type \in Types \cup {NoType} /\ Top.type # NoType /\ <<Top.type, Top.index>> \in fired
      <4>1. Len(frames) \in 1..Len(frames) /\ Top = frames[Len(frames)]
        BY <1>0, <3>1, EmptySeq DEF TypeOK, Busy, Top
      <4>2. Top.type # NoType /\ Len(frames) \in Erasing
        BY <1>0, <3>1, <4>1 DEF Nesting, Erasing
      <4> QED BY <1>0, <4>1, <4>2, FrameFields DEF Announced
    <3>3. \A U \in Types : has'[U] = IF U = Top.type THEN has[U] \ {Top.index} ELSE has[U]
      BY <1>0, <3>1 DEF TypeOK
    <3>4. c[1] = Top.type /\ c[2] = Top.index
      BY <2>1, <2>2, <3>3
    <3> QED BY <2>2, <3>2, <3>4
  <2>5. CASE DestroyFire
    <3>1. /\ Busy /\ Top.op = "destroy"
          /\ \A T \in Types : has'[T] = IF T = Top.type THEN has[T] \ {Top.index} ELSE has[T]
      BY <2>5 DEF DestroyFire
    <3>2. c[1] = Top.type /\ c[2] = Top.index
      BY <2>1, <2>2, <3>1
    <3>3. c[1] # NoType
      BY <1>0, <2>2, IndexTypes
    <3>4. Top.type # NoType => <<Top.type, Top.index>> \in fired
      BY <3>1, DestroyFacts
    <3> QED BY <2>2, <3>2, <3>3, <3>4
  <2>6. CASE DestroyEnd
    <3>1. /\ Busy /\ Top.op = "destroy" /\ Later(Top) = {}
          /\ \A T \in Types : has'[T] = has[T] \ {Top.index}
      BY <2>6 DEF DestroyEnd
    <3>2. c[2] = Top.index
      BY <2>1, <2>2, <3>1
    <3>3. c[1] # NoType
      BY <1>0, <2>2, IndexTypes
    <3>4. /\ Top.type # NoType => <<Top.type, Top.index>> \in fired
          /\ \A T \in Types : Top.index \in has[T] => T = Top.type \/ T \in Later(Top)
      BY <3>1, DestroyFacts
    <3>5. c[1] = Top.type
      BY <2>1, <2>2, <3>1, <3>2, <3>4
    <3> QED BY <2>2, <3>2, <3>3, <3>4, <3>5
  <2>7. ASSUME NEW T \in Types, NEW i \in Indices, Add(T, i) PROVE FALSE
    <3>1. \A U \in Types : has[U] \subseteq has'[U]
      BY <1>0, <2>7 DEF Add, TypeOK
    <3> QED BY <2>1, <2>2, <3>1
  <2>8. UNCHANGED has => c \in fired
    BY <2>3
  <2>9. CASE Create
    BY <2>8, <2>9 DEF Create, storages
  <2>10. CASE \E T \in Types, i \in Indices : Add(T, i) \/ Patch(T, i) \/ Remove(T, i)
    BY <2>7, <2>8, <2>10 DEF Patch, Remove, storages
  <2>11. CASE \E i \in Indices : Destroy(i)
    BY <2>8, <2>11 DEF Destroy, storages
  <2>12. CASE Clear \/ NotifyEnd \/ ClearFire \/ \E i \in Indices : ClearNext(i)
    BY <2>8, <2>12 DEF Clear, NotifyEnd, ClearFire, ClearNext, storages
  <2>13. CASE UNCHANGED vars
    BY <2>8, <2>13 DEF vars, storages
  <2> QED
    BY <1>2, <2>4, <2>5, <2>6, <2>9, <2>10, <2>11, <2>12, <2>13 DEF Next
<1> QED BY <1>1, <1>2

\* Outside clear no component that was announced is announced again.
LEMMA OnceLemma == Inv => AnnouncedOnce
<1> SUFFICES ASSUME Inv, "clear" \notin Ops, NEW c \in fired, Fires(c) PROVE FALSE
  BY DEF AnnouncedOnce
<1>1. /\ TypeOK /\ Announced /\ Delivering
  BY DEF Inv, FreeListExact
<1>2. c \in Types \X Indices /\ c = <<c[1], c[2]>>
  BY <1>1 DEF TypeOK, Component
<1>3. PICK k \in Erasing : c = <<frames[k].type, frames[k].index>>
  BY <1>1 DEF Announced
<1>4. k \in 1..Len(frames)
  BY DEF Erasing
<1>5. CASE Remove(c[1], c[2])
  <2>1. c \in Delivered
    BY <1>3, <1>4 DEF Delivered
  <2> QED BY <1>2, <1>5, <2>1 DEF Remove, MayDetach
<1>6. CASE DestroyFire /\ c = <<First(Later(Top)), Top.index>>
  <2>1. Busy /\ Top.op = "destroy" /\ Later(Top) # {}
    BY <1>6 DEF DestroyFire
  <2>2. /\ Len(frames) \in Nat \ {0} /\ Top = frames[Len(frames)]
        /\ \A j \in 1..(Len(frames) - 1) : frames[j].index # Top.index
        /\ Later(Top) \subseteq Types /\ \A T \in Later(Top) : Top.type < T
        /\ Top.type \in Nat
    BY <2>1, DestroyFacts
  <2>3. frames[k].index = Top.index /\ frames[k].type = First(Later(Top))
    BY <1>3, <1>6
  <2>4. k = Len(frames)
    BY <1>4, <2>2, <2>3
  <2>5. Top.type = First(Later(Top))
    BY <2>2, <2>3, <2>4
  <2>6. Top.type < Top.type
    BY <2>1, <2>2, <2>5, LeastType
  <2> QED BY <2>2, <2>6
<1>7. CASE ClearFire
  <2>1. Busy /\ Top.op = "clear"
    BY <1>7 DEF ClearFire
  <2> QED BY <2>1, ClearFacts
<1> QED BY <1>5, <1>6, <1>7 DEF Fires

\* What a signal hands to its listeners stays until they have returned, and remove, destroy
\* and clear tell of a component, once but for clear, before they erase it.
THEOREM DestroyIsObserved == Spec => DestroyObserved
<1> DEFINE Kept == \A c \in Delivered : c[1] # NoType => c[2] \in has[c[1]]
<1>1. Inv => Kept
  <2> SUFFICES ASSUME Inv, NEW c \in Delivered, c[1] # NoType PROVE c[2] \in has[c[1]]
    OBVIOUS
  <2>1. PICK k \in 1..Len(frames) : c = <<frames[k].type, frames[k].index>>
    BY DEF Delivered
  <2> QED BY <2>1 DEF Inv, Delivering
<1> HIDE DEF Kept
<1>2. Inv /\ [Next]_vars => [ErasedWasAnnounced /\ AnnouncedOnce]_vars
  BY ErasedLemma, OnceLemma
<1>3. Spec => []Kept
  BY <1>1, InvariantHolds, PTL
<1>4. Spec => [][ErasedWasAnnounced /\ AnnouncedOnce]_vars
  BY <1>2, InvariantHolds, PTL DEF Spec
<1> QED BY <1>3, <1>4, PTL DEF DestroyObserved, Kept, ErasedWasAnnounced, AnnouncedOnce

-----------------------------------------------------------------------------
(***************************************************************************)
(* The registry implements EntityStore.                                    *)
(***************************************************************************)

LiveOf(gens, living) == {<<i, gens[i]>> : i \in living}
CarriedOf(gens, living, stored) ==
  {<<c[1], <<c[2], gens[c[2]]>>>> : c \in {d \in {e \in Component : e[2] \in stored[e[1]]} : d[2] \in living}}
RetiredOf(gens, dying) ==
  {<<i, gens[i]>> : i \in dying} \cup UNION {{<<i, g>> : g \in 1..gens[i] - 1} : i \in 1..Len(gens)}

\* The variables of the abstract store.
Live == LiveOf(generations, alive)
Carried == CarriedOf(generations, alive, has)
Retired == RetiredOf(generations, Dying)

LEMMA CarriedIs ==
  ASSUME NEW gens, NEW living, NEW stored, NEW x
  PROVE  x \in CarriedOf(gens, living, stored) <=>
           \E T \in Types, i \in Indices :
              i \in stored[T] /\ i \in living /\ x = <<T, <<i, gens[i]>>>>
<1> DEFINE S == {d \in {e \in Component : e[2] \in stored[e[1]]} : d[2] \in living}
<1>1. ASSUME x \in CarriedOf(gens, living, stored)
      PROVE  \E T \in Types, i \in Indices :
               i \in stored[T] /\ i \in living /\ x = <<T, <<i, gens[i]>>>>
  <2>1. PICK c \in S : x = <<c[1], <<c[2], gens[c[2]]>>>>
    BY <1>1 DEF CarriedOf
  <2>2. c[1] \in Types /\ c[2] \in Indices /\ c[2] \in stored[c[1]] /\ c[2] \in living
    BY DEF Component
  <2> QED BY <2>1, <2>2
<1>2. ASSUME NEW T \in Types, NEW i \in Indices, i \in stored[T], i \in living, x = <<T, <<i, gens[i]>>>>
      PROVE  x \in CarriedOf(gens, living, stored)
  <2>1. <<T, i>> \in S
    BY <1>2 DEF Component
  <2>2. x = <<<<T, i>>[1], <<<<T, i>>[2], gens[<<T, i>>[2]]>>>>
    BY <1>2
  <2> QED BY <2>1, <2>2 DEF CarriedOf
<1> QED BY <1>1, <1>2

LEMMA RetiredIs ==
  ASSUME NEW gens \in Seq(Nat \ {0}), NEW dying \in SUBSET (1..Len(gens)), NEW x
  PROVE  x \in RetiredOf(gens, dying) <=>
           \E i \in 1..Len(gens) : \E g \in 1..gens[i] :
              (g # gens[i] \/ i \in dying) /\ x = <<i, g>>
<1>1. \A i \in 1..Len(gens) : gens[i] \in Nat /\ gens[i] # 0
  <2> TAKE i \in 1..Len(gens)
  <2>1. gens[i] \in Nat \ {0}
    BY ElementOfSeq
  <2> QED BY <2>1
<1>2. ASSUME x \in RetiredOf(gens, dying)
      PROVE  \E i \in 1..Len(gens) : \E g \in 1..gens[i] : (g # gens[i] \/ i \in dying) /\ x = <<i, g>>
  <2>1. CASE x \in {<<i, gens[i]>> : i \in dying}
    <3>1. PICK i \in dying : x = <<i, gens[i]>>
      BY <2>1
    <3>2. i \in 1..Len(gens) /\ gens[i] \in 1..gens[i]
      BY <1>1
    <3> QED BY <3>1, <3>2
  <2>2. CASE x \in UNION {{<<i, g>> : g \in 1..gens[i] - 1} : i \in 1..Len(gens)}
    <3>1. PICK i \in 1..Len(gens) : x \in {<<i, g>> : g \in 1..gens[i] - 1}
      BY <2>2
    <3>2. PICK g \in 1..gens[i] - 1 : x = <<i, g>>
      BY <3>1
    <3>3. g \in 1..gens[i] /\ g # gens[i]
      BY <1>1
    <3> QED BY <3>2, <3>3
  <2> QED BY <1>2, <2>1, <2>2 DEF RetiredOf
<1>3. ASSUME NEW i \in 1..Len(gens), NEW g \in 1..gens[i], g # gens[i] \/ i \in dying, x = <<i, g>>
      PROVE  x \in RetiredOf(gens, dying)
  <2>1. CASE g # gens[i]
    <3>1. g \in 1..gens[i] - 1
      BY <1>1, <2>1
    <3>2. x \in {<<i, h>> : h \in 1..gens[i] - 1}
      BY <1>3, <3>1
    <3> QED BY <3>2 DEF RetiredOf
  <2>2. CASE g = gens[i]
    BY <1>3, <2>2 DEF RetiredOf
  <2> QED BY <2>1, <2>2
<1> QED BY <1>2, <1>3

\* The handles.
LEMMA HandleFacts ==
  ASSUME Inv
  PROVE  /\ generations \in Seq(Nat \ {0}) /\ alive \subseteq 1..Len(generations)
         /\ Dying \subseteq 1..Len(generations) /\ alive \cap Dying = {}
         /\ Len(generations) \in Nat /\ 1..Len(generations) \subseteq Indices
         /\ \A T \in Types : has[T] \subseteq 1..Len(generations)
         /\ \A i \in 1..Len(generations) :
              /\ generations[i] \in Nat /\ generations[i] \in 1..generations[i]
              /\ HandleOf(i) \in Indices \X (1..MaxGeneration + 1)
<1>0. FreeListExact /\ TypeOK /\ RoomToBump
  BY DEF Inv, FreeListExact
<1>1. /\ generations \in Seq(Nat \ {0}) /\ Len(generations) \in Nat /\ 1..Len(generations) \subseteq Indices
      /\ \A T \in Types : has[T] \subseteq 1..Len(generations)
  BY <1>0, IndexTypes DEF TypeOK
<1>2. ASSUME NEW i \in 1..Len(generations)
      PROVE  /\ generations[i] \in Nat /\ generations[i] \in 1..generations[i]
             /\ HandleOf(i) \in Indices \X (1..MaxGeneration + 1)
  <2>1. generations[i] \in Nat \ {0}
    BY <1>1, ElementOfSeq
  <2>2. generations[i] <= MaxGeneration \/ generations[i] <= MaxGeneration + 1
    BY <1>0 DEF RoomToBump
  <2>3. generations[i] \in 1..MaxGeneration + 1
    BY <2>1, <2>2, BoundsAssumption
  <2> QED BY <1>1, <2>1, <2>3 DEF HandleOf
<1> QED BY <1>0, <1>1, <1>2 DEF FreeListExact

Handles == Indices \X (1..MaxGeneration + 1)

\* The steps of the abstract store, on its variables.
LEMMA StoreMoves ==
  ASSUME \/ UNCHANGED <<Live, Carried, Retired>>
         \/ \E h \in Handles :
              /\ h \notin Live \cup Retired
              /\ Live' = Live \cup {h} /\ Carried' = Carried /\ Retired' = Retired
         \/ \E h \in Handles :
              /\ h \in Live
              /\ Live' = Live \ {h} /\ Carried' = Carried \ (Types \X {h}) /\ Retired' = Retired \cup {h}
         \/ Live' = {} /\ Carried' = {} /\ Live \cup Retired \subseteq Retired'
         \/ \E T \in Types, h \in Handles :
              /\ h \in Live
              /\ Carried' = Carried \cup {<<T, h>>} /\ Live' = Live /\ Retired' = Retired
         \/ \E T \in Types, h \in Handles :
              Carried' = Carried \ {<<T, h>>} /\ Live' = Live /\ Retired' = Retired
  PROVE  [Store!StoreNext]_(Store!storeVars)
<1> USE DEF Live, Carried, Retired, LiveOf, CarriedOf, RetiredOf, HandleOf, Components, Handles
<1>1. CASE UNCHANGED <<Live, Carried, Retired>>
  BY <1>1 DEF Store!storeVars
<1>2. ASSUME NEW h \in Handles, h \notin Live \cup Retired,
             Live' = Live \cup {h}, Carried' = Carried, Retired' = Retired
      PROVE  Store!StoreNext
  <2>1. Store!Create(h)
    BY <1>2 DEF Store!Create
  <2> QED BY <2>1 DEF Store!StoreNext
<1>3. ASSUME NEW h \in Handles, h \in Live,
             Live' = Live \ {h}, Carried' = Carried \ (Types \X {h}), Retired' = Retired \cup {h}
      PROVE  Store!StoreNext
  <2>1. Store!Kill(h)
    BY <1>3 DEF Store!Kill, Store!Of
  <2> QED BY <2>1 DEF Store!StoreNext
<1>4. CASE Live' = {} /\ Carried' = {} /\ Live \cup Retired \subseteq Retired'
  <2>1. Store!Wipe
    BY <1>4 DEF Store!Wipe
  <2> QED BY <2>1 DEF Store!StoreNext
<1>5. ASSUME NEW T \in Types, NEW h \in Handles, h \in Live,
             Carried' = Carried \cup {<<T, h>>}, Live' = Live, Retired' = Retired
      PROVE  Store!StoreNext
  <2>1. Store!Attach(T, h)
    BY <1>5 DEF Store!Attach
  <2> QED BY <2>1 DEF Store!StoreNext
<1>6. ASSUME NEW T \in Types, NEW h \in Handles,
             Carried' = Carried \ {<<T, h>>}, Live' = Live, Retired' = Retired
      PROVE  Store!StoreNext
  <2>1. Store!Detach(T, h)
    BY <1>6 DEF Store!Detach
  <2> QED BY <2>1 DEF Store!StoreNext
<1> HIDE DEF Live, Carried, Retired, LiveOf, CarriedOf, RetiredOf, HandleOf, Components, Handles
<1> QED BY <1>1, <1>2, <1>3, <1>4, <1>5, <1>6

\* Steps that change neither entities nor storages are stutters of the store.
LEMMA StoreStutters ==
  ASSUME UNCHANGED <<generations, alive, has>>, Dying' = Dying
  PROVE  [Store!StoreNext]_(Store!storeVars)
<1>1. UNCHANGED <<Live, Carried, Retired>>
  BY DEF Live, Carried, Retired, LiveOf, CarriedOf, RetiredOf
<1> QED BY <1>1, StoreMoves

\* create gives out a handle that no entity has or had.
LEMMA CreateRefines ==
  ASSUME Inv, Create
  PROVE  [Store!StoreNext]_(Store!storeVars)
<1> DEFINE m == Len(generations)
<1>0. FreeListExact /\ TypeOK /\ Placed
  BY DEF Inv, FreeListExact
<1>1. frames' = frames /\ has' = has /\ Dying' = Dying
  BY DEF Create, storages, Dying, Destroying
<1>2. PICK j : /\ alive' = alive \cup {j} /\ j \notin alive \cup Dying
               /\ <<j, generations'[j]>> \in Handles
               /\ generations' \in Seq(Nat \ {0}) /\ \A i \in 1..m : generations'[i] = generations[i]
               /\ \/ j \in 1..m /\ Len(generations') = m
                  \/ j = m + 1 /\ Len(generations') = m + 1 /\ generations'[j] = 1
  <2>1. CASE free # << >>
    <3>1. /\ Len(free) \in 1..Len(free) /\ generations' = generations
          /\ alive' = alive \cup {free[Len(free)]}
      BY <1>0, <2>1, EmptySeq DEF Create, Ext!Last, TypeOK
    <3>2. free[Len(free)] \in Ext!ToSet(free) /\ free[Len(free)] \in 1..m
      <4>1. Ext!ToSet(free) = Free
        BY <1>0, FreeIsToSet DEF TypeOK
      <4> QED BY <1>0, <3>1, <4>1, ElementOfSeq DEF TypeOK, Free
    <3>3. free[Len(free)] \notin alive \cup Dying
      BY <1>0, <3>2 DEF FreeListExact
    <3>4. generations \in Seq(Nat \ {0}) /\ <<free[Len(free)], generations[free[Len(free)]]>> \in Handles
      BY <3>2, HandleFacts DEF HandleOf, Handles
    <3> QED BY <3>1, <3>2, <3>3, <3>4
  <2>2. CASE free = << >>
    <3>1. /\ m < MaxSlots /\ generations' = Append(generations, 1) /\ alive' = alive \cup {m + 1}
      BY <2>2 DEF Create, FirstGeneration
    <3>2. /\ generations' \in Seq(Nat \ {0}) /\ Len(generations') = m + 1
          /\ \A i \in 1..m : generations'[i] = generations[i]
          /\ generations'[m + 1] = 1
      BY <1>0, <3>1, AppendProperties DEF TypeOK
    <3>3. m + 1 \notin alive \cup Dying
      BY HandleFacts
    <3>4. <<m + 1, 1>> \in Handles
      BY <3>1, HandleFacts, BoundsAssumption DEF Handles, Indices
    <3> QED BY <3>1, <3>2, <3>3, <3>4
  <2> QED BY <2>1, <2>2
<1>3. PICK h : h = <<j, generations'[j]>>
  OBVIOUS
<1>4. /\ generations \in Seq(Nat \ {0}) /\ m \in Nat /\ alive \subseteq 1..m /\ Dying \in SUBSET (1..m)
      /\ 1..m \subseteq 1..Len(generations') /\ Dying \in SUBSET (1..Len(generations'))
      /\ \A i \in 1..m : generations[i] \in Nat
  BY <1>2, HandleFacts
<1>5. Live' = Live \cup {h}
  BY <1>2, <1>3, <1>4 DEF Live, LiveOf
<1>6. Carried' = Carried
  <2>1. ASSUME NEW T \in Types, NEW i \in Indices, i \in has[T]
        PROVE  /\ i \in alive' <=> i \in alive
               /\ i \in alive => generations'[i] = generations[i]
    <3>1. i \in alive \cup Dying
      BY <1>0, <2>1 DEF Placed
    <3> QED BY <1>2, <1>4, <3>1
  <2>2. \A x : x \in Carried' <=> x \in Carried
    BY <1>1, <2>1, CarriedIs DEF Carried
  <2> QED BY <2>2 DEF Carried, CarriedOf
<1>7. \A x : x \in Retired <=> \E i \in 1..m : \E g \in 1..generations[i] :
                                  (g # generations[i] \/ i \in Dying) /\ x = <<i, g>>
  BY <1>4, RetiredIs DEF Retired
<1>8. \A x : x \in Retired' <=> \E i \in 1..Len(generations') : \E g \in 1..generations'[i] :
                                   (g # generations'[i] \/ i \in Dying) /\ x = <<i, g>>
  <2>1. Retired' = RetiredOf(generations', Dying)
    BY <1>1 DEF Retired
  <2>2. generations' \in Seq(Nat \ {0}) /\ Dying \in SUBSET (1..Len(generations'))
    BY <1>2, <1>4
  <2> QED BY <2>1, <2>2, RetiredIs
<1>9. Retired' = Retired
  <2>1. ASSUME NEW i \in 1..Len(generations'), NEW g \in 1..generations'[i],
               g # generations'[i] \/ i \in Dying
        PROVE  i \in 1..m /\ generations'[i] = generations[i]
    <3>1. i # m + 1 \/ Len(generations') = m
      BY <1>2, <1>4, <2>1
    <3>2. i \in 1..m
      BY <1>2, <1>4, <3>1
    <3> QED BY <1>2, <3>2
  <2>2. \A x : x \in Retired' => x \in Retired
    BY <1>7, <1>8, <2>1
  <2>3. \A x : x \in Retired => x \in Retired'
    BY <1>2, <1>4, <1>7, <1>8
  <2>4. \A x : x \in Retired' <=> x \in Retired
    BY <2>2, <2>3
  <2> QED BY <2>4 DEF Retired, RetiredOf
<1>10. h \notin Live
  BY <1>2, <1>3, <1>4 DEF Live, LiveOf
<1>11. h \notin Retired
  <2> SUFFICES ASSUME h \in Retired PROVE FALSE
    OBVIOUS
  <2>1. PICK i \in 1..m : \E g \in 1..generations[i] : (g # generations[i] \/ i \in Dying) /\ h = <<i, g>>
    BY <1>7
  <2>2. i = j /\ j \in 1..m /\ generations'[j] = generations[j]
    BY <1>2, <1>3, <2>1
  <2>3. generations[i] # generations[i] \/ i \in Dying
    BY <1>3, <2>1, <2>2
  <2> QED BY <1>2, <2>2, <2>3
<1> QED BY <1>2, <1>3, <1>5, <1>6, <1>9, <1>10, <1>11, StoreMoves

\* add attaches a component, new or in place of an old one.
LEMMA AddRefines ==
  ASSUME Inv, NEW T \in Types, NEW i \in Indices, Add(T, i)
  PROVE  [Store!StoreNext]_(Store!storeVars)
<1>0. TypeOK
  BY DEF Inv, FreeListExact
<1>1. /\ i \in alive /\ generations' = generations /\ alive' = alive
      /\ Push(Frame("notify", T, i)) /\ has' = [has EXCEPT ![T] = @ \cup {i}]
  BY DEF Add, entities
<1>2. Dying' = Dying
  <2>1. frames' = Append(frames, Frame("notify", T, i)) /\ Frame("notify", T, i).op = "notify"
    BY <1>1 DEF Push, Frame
  <2>2. PICK f : f = Frame("notify", T, i)
    OBVIOUS
  <2>3. f \in FrameType \cup {f} /\ frames \in Seq(FrameType \cup {f})
    BY <1>0, SeqMonotonic DEF TypeOK
  <2> QED BY <2>1, <2>2, <2>3, Pushed
<1>3. \A U \in Types : has'[U] = IF U = T THEN has[U] \cup {i} ELSE has[U]
  BY <1>0, <1>1 DEF TypeOK
<1>4. PICK h : h = <<i, generations[i]>>
  OBVIOUS
<1>5. h \in Handles /\ h \in Live
  BY <1>1, <1>4, HandleFacts DEF HandleOf, Handles, Live, LiveOf
<1>6. Live' = Live /\ Retired' = Retired
  BY <1>1, <1>2 DEF Live, LiveOf, Retired, RetiredOf
<1>7. Carried' = Carried \cup {<<T, h>>}
  <2>1. \A x : x \in Carried <=> \E U \in Types, k \in Indices :
                 k \in has[U] /\ k \in alive /\ x = <<U, <<k, generations[k]>>>>
    BY CarriedIs DEF Carried
  <2>2. \A x : x \in Carried' <=> \E U \in Types, k \in Indices :
                 k \in has'[U] /\ k \in alive /\ x = <<U, <<k, generations[k]>>>>
    <3>1. Carried' = CarriedOf(generations, alive, has')
      BY <1>1 DEF Carried
    <3> QED BY <3>1, CarriedIs
  <2>3. \A x : x \in Carried' <=> x \in Carried \/ x = <<T, h>>
    BY <1>1, <1>3, <1>4, <2>1, <2>2
  <2> QED BY <2>3
<1> QED BY <1>5, <1>6, <1>7, StoreMoves

\* destroy takes the entity away, with all of its components.
LEMMA DestroyRefines ==
  ASSUME Inv, NEW i \in Indices, Destroy(i)
  PROVE  [Store!StoreNext]_(Store!storeVars)
<1>0. TypeOK
  BY DEF Inv, FreeListExact
<1>1. PICK f : f = [Frame("destroy", NoType, i) EXCEPT !.count = table]
  OBVIOUS
<1>2. /\ i \in alive /\ generations' = generations /\ alive' = alive \ {i} /\ has' = has /\ Push(f)
  BY <1>1 DEF Destroy, storages
<1>3. Dying' = Dying \cup {i}
  <2>1. frames' = Append(frames, f) /\ f.op = "destroy" /\ f.index = i
    BY <1>1, <1>2 DEF Push, Frame
  <2>2. f \in FrameType \cup {f} /\ frames \in Seq(FrameType \cup {f})
    BY <1>0, SeqMonotonic DEF TypeOK
  <2> QED BY <2>1, <2>2, Pushed
<1>4. PICK h : h = <<i, generations[i]>>
  OBVIOUS
<1>5. /\ h \in Handles /\ h \in Live /\ generations \in Seq(Nat \ {0})
      /\ Dying \in SUBSET (1..Len(generations)) /\ Dying \cup {i} \in SUBSET (1..Len(generations))
      /\ i \in 1..Len(generations) /\ generations[i] \in 1..generations[i]
  BY <1>2, <1>4, HandleFacts DEF HandleOf, Handles, Live, LiveOf
<1>6. Live' = Live \ {h}
  BY <1>2, <1>4 DEF Live, LiveOf
<1>7. Retired' = Retired \cup {h}
  <2>1. Retired' = RetiredOf(generations, Dying \cup {i})
    BY <1>2, <1>3 DEF Retired
  <2>2. \A x : x \in Retired <=> \E k \in 1..Len(generations) : \E g \in 1..generations[k] :
                 (g # generations[k] \/ k \in Dying) /\ x = <<k, g>>
    BY <1>5, RetiredIs DEF Retired
  <2>3. \A x : x \in Retired' <=> \E k \in 1..Len(generations) : \E g \in 1..generations[k] :
                 (g # generations[k] \/ k \in Dying \cup {i}) /\ x = <<k, g>>
    BY <1>5, <2>1, RetiredIs
  <2>4. \A x : x \in Retired' => x \in Retired \/ x = h
    BY <1>4, <2>2, <2>3
  <2>5. h \in Retired' /\ \A x : x \in Retired => x \in Retired'
    BY <1>4, <1>5, <2>2, <2>3
  <2> QED BY <2>4, <2>5
<1>8. Carried' = Carried \ (Types \X {h})
  <2>1. \A x : x \in Carried <=> \E U \in Types, k \in Indices :
                 k \in has[U] /\ k \in alive /\ x = <<U, <<k, generations[k]>>>>
    BY CarriedIs DEF Carried
  <2>2. \A x : x \in Carried' <=> \E U \in Types, k \in Indices :
                 k \in has[U] /\ k \in alive' /\ x = <<U, <<k, generations[k]>>>>
    BY <1>2, CarriedIs DEF Carried
  <2>3. \A x : x \in Carried' => x \in Carried /\ x \notin Types \X {h}
    BY <1>2, <1>4, <2>1, <2>2
  <2>4. \A x : x \in Carried /\ x \notin Types \X {h} => x \in Carried'
    BY <1>2, <1>4, <2>1, <2>2
  <2> QED BY <2>3, <2>4
<1> QED BY <1>5, <1>6, <1>7, <1>8, StoreMoves

\* remove detaches its component, also when a listener destroyed the entity meanwhile.
LEMMA RemoveEndRefines ==
  ASSUME Inv, RemoveEnd
  PROVE  [Store!StoreNext]_(Store!storeVars)
<1>0. TypeOK /\ Nesting /\ Delivering
  BY DEF Inv, FreeListExact
<1>1. PICK T, i : T = Top.type /\ i = Top.index
  OBVIOUS
<1>2. /\ Busy /\ Pop /\ Top.op = "remove" /\ generations' = generations /\ alive' = alive
      /\ has' = [has EXCEPT ![T] = @ \ {i}]
  BY <1>1 DEF RemoveEnd, entities
<1>3. Dying' = Dying
  BY <1>0, <1>2, Popped DEF TypeOK
<1>4. T \in Types /\ i \in has[T]
  <2>1. Len(frames) \in 1..Len(frames) /\ Top = frames[Len(frames)]
    BY <1>0, <1>2, EmptySeq DEF TypeOK, Busy, Top
  <2>2. T # NoType
    BY <1>0, <1>1, <1>2, <2>1 DEF Nesting
  <2> QED BY <1>0, <1>1, <2>1, <2>2, FrameFields DEF Delivering
<1>5. \A U \in Types : has'[U] = IF U = T THEN has[U] \ {i} ELSE has[U]
  BY <1>0, <1>2, <1>4 DEF TypeOK
<1>6. PICK h : h = <<i, generations[i]>>
  OBVIOUS
<1>7. h \in Handles
  BY <1>4, <1>6, HandleFacts DEF HandleOf, Handles
<1>8. Live' = Live /\ Retired' = Retired
  BY <1>2, <1>3 DEF Live, LiveOf, Retired, RetiredOf
<1>9. Carried' = Carried \ {<<T, h>>}
  <2>1. \A x : x \in Carried <=> \E U \in Types, k \in Indices :
                 k \in has[U] /\ k \in alive /\ x = <<U, <<k, generations[k]>>>>
    BY CarriedIs DEF Carried
  <2>2. \A x : x \in Carried' <=> \E U \in Types, k \in Indices :
                 k \in has'[U] /\ k \in alive /\ x = <<U, <<k, generations[k]>>>>
    <3>1. Carried' = CarriedOf(generations, alive, has')
      BY <1>2 DEF Carried
    <3> QED BY <3>1, CarriedIs
  <2>3. ASSUME NEW x \in Carried' PROVE x \in Carried /\ x # <<T, h>>
    <3>1. PICK U \in Types, k \in Indices :
             k \in has'[U] /\ k \in alive /\ x = <<U, <<k, generations[k]>>>>
      BY <2>2
    <3>2. k \in has[U] /\ ~(U = T /\ k = i)
      BY <1>5, <3>1
    <3> QED BY <1>6, <2>1, <3>1, <3>2
  <2>4. ASSUME NEW x \in Carried, x # <<T, h>> PROVE x \in Carried'
    <3>1. PICK U \in Types, k \in Indices :
             k \in has[U] /\ k \in alive /\ x = <<U, <<k, generations[k]>>>>
      BY <2>1
    <3>2. k \in has'[U]
      BY <1>5, <1>6, <2>4, <3>1
    <3> QED BY <2>2, <3>1, <3>2
  <2> QED BY <2>3, <2>4
<1> QED BY <1>4, <1>7, <1>8, <1>9, StoreMoves

\* What happens to the components of an index that is not alive is no step of the store.
LEMMA CarriedKept ==
  ASSUME alive' = alive, NEW i, i \notin alive, \A k \in alive : generations'[k] = generations[k],
         \A U \in Types : \A k \in Indices : k # i => (k \in has'[U] <=> k \in has[U])
  PROVE  Carried' = Carried /\ Live' = Live
<1>1. Live' = Live
  BY DEF Live, LiveOf
<1>2. \A x : x \in Carried <=> \E U \in Types, k \in Indices :
               k \in has[U] /\ k \in alive /\ x = <<U, <<k, generations[k]>>>>
  BY CarriedIs DEF Carried
<1>3. \A x : x \in Carried' <=> \E U \in Types, k \in Indices :
               k \in has'[U] /\ k \in alive /\ x = <<U, <<k, generations'[k]>>>>
  <2>1. Carried' = CarriedOf(generations', alive, has')
    BY DEF Carried
  <2> QED BY <2>1, CarriedIs
<1>4. \A U \in Types, k \in Indices : k \in alive =>
        (k \in has'[U] <=> k \in has[U]) /\ generations'[k] = generations[k]
  OBVIOUS
<1>5. ASSUME NEW x \in Carried PROVE x \in Carried'
  <2>1. PICK U \in Types, k \in Indices : k \in has[U] /\ k \in alive /\ x = <<U, <<k, generations[k]>>>>
    BY <1>2
  <2>2. k \in has'[U] /\ generations'[k] = generations[k]
    BY <1>4, <2>1
  <2> QED BY <1>3, <2>1, <2>2
<1>6. ASSUME NEW x \in Carried' PROVE x \in Carried
  <2>1. PICK U \in Types, k \in Indices : k \in has'[U] /\ k \in alive /\ x = <<U, <<k, generations'[k]>>>>
    BY <1>3
  <2>2. k \in has[U] /\ generations'[k] = generations[k]
    BY <1>4, <2>1
  <2> QED BY <1>2, <2>1, <2>2
<1> QED BY <1>1, <1>5, <1>6

LEMMA DestroyFireRefines ==
  ASSUME Inv, DestroyFire
  PROVE  [Store!StoreNext]_(Store!storeVars)
<1>0. TypeOK
  BY DEF Inv, FreeListExact
<1>1. PICK f : f = [Top EXCEPT !.type = First(Later(Top))]
  OBVIOUS
<1>2. /\ Busy /\ Top.op = "destroy" /\ SetTop(f) /\ generations' = generations /\ alive' = alive
      /\ has' = [T \in Types |-> IF T = Top.type THEN has[T] \ {Top.index} ELSE has[T]]
  BY <1>1 DEF DestroyFire, entities
<1>3. Dying' = Dying
  <2>1. Top \in FrameType
    <3>1. Len(frames) \in 1..Len(frames) /\ frames \in Seq(FrameType)
      BY <1>0, <1>2, EmptySeq DEF TypeOK, Busy
    <3> QED BY <3>1, ElementOfSeq DEF Top
  <2>2. f.op = Top.op /\ f.index = Top.index
    BY <1>1, <2>1 DEF FrameType
  <2>3. f \in FrameType \cup {f} /\ frames \in Seq(FrameType \cup {f})
    BY <1>0, SeqMonotonic DEF TypeOK
  <2> QED BY <1>2, <2>2, <2>3, TopWasSet
<1>4. Top.index \notin alive
  BY <1>2, DestroyFacts, HandleFacts
<1>5. \A U \in Types : \A k \in Indices : k # Top.index => (k \in has'[U] <=> k \in has[U])
  BY <1>2
<1>6. Carried' = Carried /\ Live' = Live
  BY <1>2, <1>4, <1>5, CarriedKept
<1>7. Retired' = Retired
  BY <1>2, <1>3 DEF Retired
<1> QED BY <1>6, <1>7, StoreMoves

\* The handle of a destroyed entity stays retired when its index gets the next generation.
LEMMA DestroyEndRefines ==
  ASSUME Inv, DestroyEnd
  PROVE  [Store!StoreNext]_(Store!storeVars)
<1> DEFINE m == Len(generations)
<1>0. TypeOK
  BY DEF Inv, FreeListExact
<1>1. PICK i : i = Top.index
  OBVIOUS
<1>2. /\ Busy /\ Pop /\ Top.op = "destroy" /\ alive' = alive
      /\ has' = [T \in Types |-> has[T] \ {i}]
      /\ generations' = [generations EXCEPT ![i] = @ + 1]
  BY <1>1 DEF DestroyEnd, Bumped
<1>3. /\ generations \in Seq(Nat \ {0}) /\ m \in Nat /\ alive \subseteq 1..m /\ Dying \in SUBSET (1..m)
      /\ i \in Dying /\ i \in 1..m /\ i \notin alive /\ \A k \in 1..m : generations[k] \in Nat
  BY <1>1, <1>2, DestroyFacts, HandleFacts
<1>4. /\ generations' \in Seq(Nat \ {0}) /\ Len(generations') = m
      /\ \A k \in 1..m : generations'[k] = IF k = i THEN generations[i] + 1 ELSE generations[k]
  <2>1. generations[i] + 1 \in Nat \ {0}
    BY <1>3
  <2> QED BY <1>2, <1>3, <2>1, ExceptSeq
<1>5. Dying = Dying' \cup {i} /\ i \notin Dying'
  <2>1. Dying = Dying' \cup {i} /\ Destroying' = Destroying \ {Len(frames)}
    BY <1>0, <1>1, <1>2, Popped DEF TypeOK
  <2>2. /\ \A k \in Destroying' : k \in 1..Len(frames') /\ k \in 1..(Len(frames) - 1)
        /\ \A k \in 1..Len(frames') : frames'[k] = frames[k]
    <3>1. \A k \in 1..Len(frames') : k < Len(frames) /\ frames'[k] = frames[k]
      BY <1>2, PopKeeps
    <3>2. Len(frames) \in Nat
      BY <1>0, IndexTypes
    <3> QED BY <3>1, <3>2 DEF Destroying
  <2>3. \A j \in 1..(Len(frames) - 1) : frames[j].index # i
    BY <1>1, <1>2, DestroyFacts
  <2> QED BY <2>1, <2>2, <2>3 DEF Dying
<1>6. Carried' = Carried /\ Live' = Live
  <2>1. \A U \in Types : \A k \in Indices : k # i => (k \in has'[U] <=> k \in has[U])
    BY <1>2
  <2>2. \A k \in alive : generations'[k] = generations[k]
    BY <1>3, <1>4
  <2> QED BY <1>2, <1>3, <2>1, <2>2, CarriedKept
<1>7. Retired' = Retired
  <2>1. \A x : x \in Retired <=> \E k \in 1..m : \E g \in 1..generations[k] :
                 (g # generations[k] \/ k \in Dying) /\ x = <<k, g>>
    BY <1>3, RetiredIs DEF Retired
  <2>2. \A x : x \in Retired' <=> \E k \in 1..m : \E g \in 1..generations'[k] :
                 (g # generations'[k] \/ k \in Dying') /\ x = <<k, g>>
    <3>1. Retired' = RetiredOf(generations', Dying') /\ Dying' \in SUBSET (1..Len(generations'))
      BY <1>3, <1>4, <1>5 DEF Retired
    <3> QED BY <1>4, <3>1, RetiredIs
  <2>3. \A k \in 1..m, g \in Nat :
          /\ k # i => (g \in 1..generations'[k] <=> g \in 1..generations[k])
          /\ k # i => (g # generations'[k] <=> g # generations[k])
          /\ k # i => (k \in Dying' <=> k \in Dying)
          /\ k = i => (g \in 1..generations'[k] /\ g # generations'[k] <=> g \in 1..generations[k])
    BY <1>3, <1>4, <1>5
  <2>4. ASSUME NEW x \in Retired PROVE x \in Retired'
    <3>1. PICK k \in 1..m : \E g \in 1..generations[k] :
             (g # generations[k] \/ k \in Dying) /\ x = <<k, g>>
      BY <2>1
    <3>2. PICK g \in 1..generations[k] : (g # generations[k] \/ k \in Dying) /\ x = <<k, g>>
      BY <3>1
    <3>3. g \in Nat
      BY <1>3
    <3>4. g \in 1..generations'[k] /\ (g # generations'[k] \/ k \in Dying')
      BY <2>3, <3>2, <3>3
    <3> QED BY <2>2, <3>2, <3>4
  <2>5. ASSUME NEW x \in Retired' PROVE x \in Retired
    <3>1. PICK k \in 1..m : \E g \in 1..generations'[k] :
             (g # generations'[k] \/ k \in Dying') /\ x = <<k, g>>
      BY <2>2
    <3>2. PICK g \in 1..generations'[k] : (g # generations'[k] \/ k \in Dying') /\ x = <<k, g>>
      BY <3>1
    <3>3. g \in Nat
      BY <1>3, <1>4
    <3>4. g \in 1..generations[k] /\ (g # generations[k] \/ k \in Dying)
      BY <1>3, <1>5, <2>3, <3>2, <3>3
    <3> QED BY <2>1, <3>2, <3>4
  <2> QED BY <2>4, <2>5
<1> QED BY <1>6, <1>7, StoreMoves

\* clear takes every entity away and retires every handle that was given out.
LEMMA ClearEndRefines ==
  ASSUME Inv, ClearEnd
  PROVE  [Store!StoreNext]_(Store!storeVars)
<1> DEFINE m == Len(generations)
<1>0. TypeOK
  BY DEF Inv, FreeListExact
<1>1. /\ Busy /\ Pop /\ Top.op = "clear" /\ alive' = {}
      /\ has' = [T \in Types |-> {}]
      /\ generations' = [i \in 1..m |-> generations[i] + 1]
  BY DEF ClearEnd, Bumped
<1>2. Len(frames) = 1 /\ Dying = {}
  BY <1>1, ClearFacts
<1>3. Dying' = {}
  <2>1. Dying = Dying'
    BY <1>0, <1>1, Popped DEF TypeOK
  <2> QED BY <1>2, <2>1
<1>4. /\ generations \in Seq(Nat \ {0}) /\ m \in Nat /\ alive \subseteq 1..m
      /\ \A k \in 1..m : generations[k] \in Nat /\ generations[k] \in 1..generations[k]
  BY HandleFacts
<1>5. /\ generations' \in Seq(Nat \ {0}) /\ Len(generations') = m
      /\ \A k \in 1..m : generations'[k] = generations[k] + 1
  <2>1. \A k \in 1..m : generations[k] + 1 \in Nat \ {0}
    BY <1>4
  <2> QED BY <1>1, <1>4, <2>1, IsASeq, LenProperties
<1>6. Live' = {} /\ Carried' = {}
  <2>1. Live' = {}
    BY <1>1 DEF Live, LiveOf
  <2>2. Carried' = CarriedOf(generations', {}, has')
    BY <1>1 DEF Carried
  <2>3. \A x : x \notin Carried'
    BY <2>2, CarriedIs
  <2> QED BY <2>1, <2>3
<1>7. \A x : x \in Retired' <=> \E k \in 1..m : \E g \in 1..generations'[k] : g # generations'[k] /\ x = <<k, g>>
  <2>1. Retired' = RetiredOf(generations', {})
    BY <1>3 DEF Retired
  <2> QED BY <1>5, <2>1, RetiredIs
<1>8. ASSUME NEW k \in 1..m, NEW g \in 1..generations[k] PROVE <<k, g>> \in Retired'
  <2>1. g \in 1..generations'[k] /\ g # generations'[k]
    BY <1>4, <1>5
  <2> QED BY <1>7, <2>1
<1>9. Live \subseteq Retired'
  BY <1>4, <1>8 DEF Live, LiveOf
<1>10. Retired \subseteq Retired'
  <2>1. \A x : x \in Retired => \E k \in 1..m : \E g \in 1..generations[k] : x = <<k, g>>
    <3>1. Retired = RetiredOf(generations, {})
      BY <1>2 DEF Retired
    <3> QED BY <1>4, <3>1, RetiredIs
  <2> QED BY <1>8, <2>1
<1> QED BY <1>6, <1>9, <1>10, StoreMoves

LEMMA StepRefines == Inv /\ [Next]_vars => [Store!StoreNext]_(Store!storeVars)
<1> SUFFICES ASSUME Inv, [Next]_vars PROVE [Store!StoreNext]_(Store!storeVars)
  OBVIOUS
<1>0. TypeOK
  BY DEF Inv, FreeListExact
<1>1. CASE Create
  BY <1>1, CreateRefines
<1>2. ASSUME NEW T \in Types, NEW i \in Indices, Add(T, i) PROVE [Store!StoreNext]_(Store!storeVars)
  BY <1>2, AddRefines
<1>3. ASSUME NEW T \in Types, NEW i \in Indices, NEW f, f.op # "destroy",
             frames' = Append(frames, f), UNCHANGED entities, UNCHANGED storages
      PROVE  [Store!StoreNext]_(Store!storeVars)
  <2>1. f \in FrameType \cup {f} /\ frames \in Seq(FrameType \cup {f})
    BY <1>0, SeqMonotonic DEF TypeOK
  <2>2. Dying' = Dying
    BY <1>3, <2>1, Pushed
  <2> QED BY <1>3, <2>2, StoreStutters DEF entities, storages
<1>4. ASSUME NEW T \in Types, NEW i \in Indices, Patch(T, i) \/ Remove(T, i)
      PROVE  [Store!StoreNext]_(Store!storeVars)
  <2>1. PICK op \in {"notify", "remove"} : Push(Frame(op, T, i))
    BY <1>4 DEF Patch, Remove
  <2>2. frames' = Append(frames, Frame(op, T, i)) /\ Frame(op, T, i).op = op
    BY <2>1 DEF Push, Frame
  <2>3. UNCHANGED entities /\ UNCHANGED storages
    BY <1>4 DEF Patch, Remove, entities, storages
  <2> QED BY <1>3, <2>2, <2>3
<1>5. ASSUME NEW i \in Indices, Destroy(i) PROVE [Store!StoreNext]_(Store!storeVars)
  BY <1>5, DestroyRefines
<1>6. CASE Clear
  <2>1. PICK f : f = [Frame("clear", NoType, NoIndex) EXCEPT !.todo = alive]
    OBVIOUS
  <2>2. frames' = Append(frames, f) /\ UNCHANGED <<generations, alive, has>>
    BY <1>6, <2>1 DEF Clear, Push, entities, storages
  <2>3. f.op = "clear"
    BY <2>1 DEF Frame
  <2>4. f \in FrameType \cup {f} /\ frames \in Seq(FrameType \cup {f})
    BY <1>0, SeqMonotonic DEF TypeOK
  <2>5. Dying' = Dying
    BY <2>2, <2>3, <2>4, Pushed
  <2> QED BY <2>2, <2>5, StoreStutters
<1>7. CASE NotifyEnd
  <2>1. Busy /\ Pop /\ Top.op = "notify" /\ UNCHANGED <<generations, alive, has>>
    BY <1>7 DEF NotifyEnd, entities, storages
  <2>2. Dying' = Dying
    BY <1>0, <2>1, Popped DEF TypeOK
  <2> QED BY <2>1, <2>2, StoreStutters
<1>8. CASE RemoveEnd
  BY <1>8, RemoveEndRefines
<1>9. CASE DestroyFire
  BY <1>9, DestroyFireRefines
<1>10. CASE DestroyEnd
  BY <1>10, DestroyEndRefines
<1>11. ASSUME NEW f, Busy, Top.op = "clear", SetTop(f), f.op = "clear", UNCHANGED <<generations, alive, has>>
       PROVE  [Store!StoreNext]_(Store!storeVars)
  <2>1. f \in FrameType \cup {f} /\ frames \in Seq(FrameType \cup {f})
    BY <1>0, SeqMonotonic DEF TypeOK
  <2>2. Dying' = Dying
    BY <1>11, <2>1, TopWasSet
  <2> QED BY <1>11, <2>2, StoreStutters
<1>12. CASE ClearFire
  <2>1. PICK f : f = [Top EXCEPT !.type = First(Later(Top))]
    OBVIOUS
  <2>2. Busy /\ Top.op = "clear" /\ SetTop(f) /\ UNCHANGED <<generations, alive, has>>
    BY <1>12, <2>1 DEF ClearFire, entities, storages
  <2>3. f.op = "clear"
    BY <2>1, <2>2, ClearFacts DEF FrameType
  <2> QED BY <1>11, <2>2, <2>3
<1>13. ASSUME NEW i \in Indices, ClearNext(i) PROVE [Store!StoreNext]_(Store!storeVars)
  <2>1. PICK f : f = [Top EXCEPT !.type = NoType, !.index = i, !.count = table, !.todo = @ \ {i}]
    OBVIOUS
  <2>2. Busy /\ Top.op = "clear" /\ SetTop(f) /\ UNCHANGED <<generations, alive, has>>
    BY <1>13, <2>1 DEF ClearNext, entities, storages
  <2>3. f.op = "clear"
    BY <2>1, <2>2, ClearFacts DEF FrameType
  <2> QED BY <1>11, <2>2, <2>3
<1>14. CASE ClearEnd
  BY <1>14, ClearEndRefines
<1>15. CASE UNCHANGED vars
  BY <1>15, StoreStutters DEF vars, entities, storages, Dying, Destroying
<1> QED
  BY <1>1, <1>2, <1>4, <1>5, <1>6, <1>7, <1>8, <1>9, <1>10, <1>12, <1>13, <1>14, <1>15 DEF Next

\* The registry implements the store: no handle is given out twice, new entities are bare,
\* and destroy takes an entity away with its components, whatever listeners do in between.
THEOREM ImplementsTheStore == Spec => ImplementsStore
<1>1. Init => Store!StoreInit
  <2> SUFFICES ASSUME Init PROVE Store!StoreInit
    OBVIOUS
  <2>1. generations = << >> /\ alive = {} /\ frames = << >>
    BY DEF Init
  <2>2. Len(generations) = 0 /\ Dying = {}
    BY <2>1, EmptySeq DEF Dying, Destroying
  <2> QED BY <2>1, <2>2 DEF Store!StoreInit
<1>2. Inv /\ [Next]_vars => [Store!StoreNext]_(Store!storeVars)
  BY StepRefines
<1>3. Spec => []Inv
  BY InvariantHolds
<1> QED BY <1>1, <1>2, <1>3, PTL DEF Spec, ImplementsStore, Store!StoreSpec

-----------------------------------------------------------------------------
(***************************************************************************)
(* The composition of the stores.  The view and slot_map of a behaviour of *)
(* MCStores take their own steps or none, so what StoresProofs proves of   *)
(* EcsView and SlotMap holds in it.                                        *)
(***************************************************************************)
Stores == INSTANCE StoresProofs WITH
  Includes <- IncludesInOrder,
  MaxSlots <- MaxMapSlots, generations <- mapGenerations, free <- mapFree

\* The two instances of a model define the same.
LEMMA SameSets ==
  \A S : /\ View!Cardinality(S) = Stores!Cardinality(S)
         /\ Map!Cardinality(S) = Stores!Map!Cardinality(S)
         /\ View!IsFiniteSet(S) <=> Stores!IsFiniteSet(S)
BY DEF View!Cardinality, Stores!Cardinality, View!IsFiniteSet, Stores!IsFiniteSet,
       Map!Cardinality, Stores!Map!Cardinality

LEMMA SameView ==
  /\ Stores!PoolAssumption /\ Stores!ViewAssumption
  /\ View!Init => Stores!Init
  /\ View!Next => Stores!Next
  /\ View!vars = Stores!vars
  /\ View!PoolsExact <=> Stores!PoolsExact
<1>1. Stores!PoolAssumption /\ Stores!ViewAssumption
  BY ViewAssumed, SameSets DEF View!PoolAssumption, Stores!PoolAssumption, View!ViewAssumption,
                               Stores!ViewAssumption, View!Ext!ToSet, Stores!Ext!ToSet
<1>2. View!Init => Stores!Init
  BY SameSets DEF View!Init, Stores!Init, View!Filled, Stores!Filled, View!Orders,
                  Stores!Orders, View!Types, Stores!Types, View!NoType, Stores!NoType,
                  View!Absent, Stores!Absent, View!Ext!ToSet, Stores!Ext!ToSet,
                  View!Ext!IsInjective, Stores!Ext!IsInjective
<1>3. View!Next => Stores!Next
  BY DEF View!Next, Stores!Next, View!Add, Stores!Add, View!Remove, Stores!Remove, View!Destroy,
         Stores!Destroy, View!Change, Stores!Change, View!Inserted, Stores!Inserted,
         View!Erased, Stores!Erased, View!Construct, Stores!Construct, View!Smallest,
         Stores!Smallest, View!Begin, Stores!Begin, View!Advance, Stores!Advance, View!End,
         Stores!End, View!GoTo, Stores!GoTo, View!Ahead, Stores!Ahead, View!Visible,
         Stores!Visible, View!walk, Stores!walk, View!Contains, Stores!Contains, View!SlotCount,
         Stores!SlotCount, View!Absent, Stores!Absent, View!Ext!ToSet, Stores!Ext!ToSet,
         View!Ext!Last, Stores!Ext!Last, View!Ext!Front, Stores!Ext!Front, View!Types,
         Stores!Types, View!NoType, Stores!NoType, View!Passes, Stores!Passes, View!Matching,
         Stores!Matching, View!IsLive, Stores!IsLive, View!Walking, Stores!Walking
<1>4. View!vars = Stores!vars
  BY DEF View!vars, Stores!vars, View!walk, Stores!walk
<1>5. View!PoolsExact <=> Stores!PoolsExact
  BY SameSets DEF View!PoolsExact, Stores!PoolsExact, View!Exact, Stores!Exact, View!PoolType,
                  Stores!PoolType, View!Ext!IsInjective, Stores!Ext!IsInjective, View!Contains,
                  Stores!Contains, View!SlotCount, Stores!SlotCount, View!Absent, Stores!Absent,
                  View!Ext!ToSet, Stores!Ext!ToSet, View!Ext!Last, Stores!Ext!Last,
                  View!Ext!Front, Stores!Ext!Front, View!Types, Stores!Types, View!NoType,
                  Stores!NoType, View!Passes, Stores!Passes, View!Matching, Stores!Matching,
                  View!IsLive, Stores!IsLive, View!Walking, Stores!Walking
<1> QED BY <1>1, <1>2, <1>3, <1>4, <1>5

LEMMA SameMap ==
  /\ Stores!Map!SlotMapAssumption
  /\ Map!Init => Stores!Map!Init
  /\ Map!Next => Stores!Map!Next
  /\ Map!vars = Stores!Map!vars
  /\ Map!KeysExact <=> Stores!Map!KeysExact
<1>1. Stores!Map!SlotMapAssumption
  BY MapAssumed DEF Map!SlotMapAssumption, Stores!Map!SlotMapAssumption
<1>2. Map!Init => Stores!Map!Init
  BY DEF Map!Init, Stores!Map!Init
<1>3. Map!Next => Stores!Map!Next
  BY DEF Map!Next, Stores!Map!Next, Map!Emplace, Stores!Map!Emplace, Map!Erase,
         Stores!Map!Erase, Map!Clear, Stores!Map!Clear, Map!Issue, Stores!Map!Issue,
         Map!NewElement, Stores!Map!NewElement, Map!Slots, Stores!Map!Slots, Map!Vacant,
         Stores!Map!Vacant, Map!Bumped, Stores!Map!Bumped, Map!NullGeneration,
         Stores!Map!NullGeneration, Map!FirstGeneration, Stores!Map!FirstGeneration, Map!IsLive,
         Stores!Map!IsLive, Map!Ext!Last, Stores!Map!Ext!Last, Map!Ext!Front,
         Stores!Map!Ext!Front, Map!Ext!Reverse, Stores!Map!Ext!Reverse
<1>4. Map!vars = Stores!Map!vars
  BY DEF Map!vars, Stores!Map!vars
<1>5. Map!KeysExact <=> Stores!Map!KeysExact
  BY SameSets DEF Map!KeysExact, Stores!Map!KeysExact, Map!TypeOK, Stores!Map!TypeOK, Map!Key,
                  Stores!Map!Key, Map!Slots, Stores!Map!Slots, Map!Vacant, Stores!Map!Vacant,
                  Map!IsLive, Stores!Map!IsLive, Map!Successors, Stores!Map!Successors,
                  Map!Ext!IsInjective, Stores!Map!Ext!IsInjective, Map!Ext!ToSet,
                  Stores!Map!Ext!ToSet
<1> QED BY <1>1, <1>2, <1>3, <1>4, <1>5

LEMMA Composed == MCSpec => View!Spec /\ Stores!Spec /\ Stores!Map!Spec
<1>1. MCInit => View!Init /\ Stores!Init /\ Stores!Map!Init
  BY SameView, SameMap DEF MCInit
<1>2. [MCNext]_<<which, vars, viewVars, mapVars>> =>
        [View!Next]_(View!vars) /\ [Stores!Next]_(Stores!vars) /\ [Stores!Map!Next]_(Stores!Map!vars)
  <2>1. MCNext => (View!Next \/ UNCHANGED viewVars) /\ (Map!Next \/ UNCHANGED mapVars)
    BY DEF MCNext
  <2>2. UNCHANGED <<which, vars, viewVars, mapVars>> => UNCHANGED viewVars /\ UNCHANGED mapVars
    OBVIOUS
  <2>3. UNCHANGED viewVars => UNCHANGED View!vars /\ UNCHANGED Stores!vars
    BY DEF viewVars, View!vars, View!walk, Stores!vars, Stores!walk
  <2>4. UNCHANGED mapVars => UNCHANGED Stores!Map!vars
    BY DEF mapVars, Stores!Map!vars
  <2> QED BY <2>1, <2>2, <2>3, <2>4, SameView, SameMap
<1> QED BY <1>1, <1>2, PTL DEF MCSpec, View!Spec, Stores!Spec, Stores!Map!Spec

\* In every storage of a registry keys, slots, tombstones and the size agree, whatever a
\* callback does in the middle of a walk.
THEOREM PoolsAreExact == MCSpec => []PoolsExact
<1>1. Stores!Spec => []Stores!PoolsExact
  BY SameView, Stores!PoolsAreExact
<1>2. Stores!PoolsExact => PoolsExact
  BY SameView DEF PoolsExact
<1> QED BY <1>1, <1>2, Composed, PTL

\* A slot_map key reaches its element or nothing, until its slot has used up the generations.
THEOREM KeysAreExact == MCSpec => []KeysExact
<1>1. Stores!Map!Spec => []Stores!Map!KeysExact
  BY SameMap, Stores!KeysAreExact
<1>2. Stores!Map!KeysExact => KeysExact
  BY SameMap DEF KeysExact
<1> QED BY <1>1, <1>2, Composed, PTL

\* view::each passes every lasting match to the callback once, and a component that stays
\* keeps its slot.
THEOREM EachIsOnce == MCSpec => EachOnce
<1> DEFINE
  Once ==
    /\ View!Advance => /\ visited' \subseteq visited \cup View!Matching
                       /\ pools[driver].slots[cursor'] \in undisturbed
                            => pools[driver].slots[cursor'] \notin visited
    /\ View!End => undisturbed \subseteq visited
    /\ \A T \in View!Types, k \in Keys :
         View!Contains(pools[T], k) /\ View!Contains(pools'[T], k)
           => pools'[T].sparse[k] = pools[T].sparse[k]
  StoresOnce ==
    /\ Stores!Advance => /\ visited' \subseteq visited \cup Stores!Matching
                         /\ pools[driver].slots[cursor'] \in undisturbed
                              => pools[driver].slots[cursor'] \notin visited
    /\ Stores!End => undisturbed \subseteq visited
    /\ \A T \in Stores!Types, k \in Keys :
         Stores!Contains(pools[T], k) /\ Stores!Contains(pools'[T], k)
           => pools'[T].sparse[k] = pools[T].sparse[k]
<1>1. Stores!Spec => Stores!EachOnce
  BY SameView, Stores!EachIsOnce
<1>2. [StoresOnce]_(Stores!vars) => [Once]_(View!vars)
  <2>1. \A pool, k : View!Contains(pool, k) <=> Stores!Contains(pool, k)
    BY DEF View!Contains, Stores!Contains, View!Absent, Stores!Absent
  <2>2. View!Types = Stores!Types /\ View!Ext!ToSet(IncludesInOrder) = Stores!Ext!ToSet(IncludesInOrder)
    BY DEF View!Types, Stores!Types, View!Ext!ToSet, Stores!Ext!ToSet
  <2>3. View!Matching = Stores!Matching /\ \A k : View!Passes(k) <=> Stores!Passes(k)
    BY <2>1, <2>2 DEF View!Matching, Stores!Matching, View!Passes, Stores!Passes
  <2>4. \A slot, last : View!Ahead(slot, last) = Stores!Ahead(slot, last)
    BY <2>3 DEF View!Ahead, Stores!Ahead, View!Visible, Stores!Visible, View!IsLive, Stores!IsLive
  <2>5. View!Advance => Stores!Advance
    BY <2>4 DEF View!Advance, Stores!Advance, View!Walking, Stores!Walking, View!GoTo, Stores!GoTo
  <2>6. View!End => Stores!End
    BY <2>4 DEF View!End, Stores!End, View!Walking, Stores!Walking
  <2>7. StoresOnce => Once
    BY <2>1, <2>2, <2>3, <2>5, <2>6
  <2>8. UNCHANGED Stores!vars => UNCHANGED View!vars
    BY DEF View!vars, Stores!vars, View!walk, Stores!walk
  <2> HIDE DEF Once, StoresOnce
  <2> QED BY <2>7, <2>8
<1>3. [][StoresOnce]_(Stores!vars) => [][Once]_(View!vars)
  BY <1>2, PTL
<1> QED BY <1>1, <1>3, Composed, PTL DEF EachOnce, View!EachOnce, Stores!EachOnce
=============================================================================
