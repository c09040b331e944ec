----------------------------- MODULE MpmcProofs -----------------------------
(***************************************************************************)
(* Proofs about MpmcQueue and, in the second half, MpscQueue, for every    *)
(* capacity, every set of threads and any number of pushes.                *)
(***************************************************************************)
EXTENDS MCQueues, SequenceTheorems, TLAPS

(***************************************************************************)
(* What the proofs need to know of the mask `pos & (N - 1)'.               *)
(***************************************************************************)

\* The mask of any ticket is an index into the slot array.
LEMMA SlotInRange == \A t \in Nat : Slot(t) \in Slots
  BY CapacityAssumption DEF Slot, Slots

\* Division with remainder, in the form the next lemmas use.
LEMMA SlotDivision ==
  ASSUME NEW t \in Nat
  PROVE  \E q \in Int : t = N * q + Slot(t)
<1>1. t = N * (t \div N) + (t % N) /\ t \div N \in Int
  BY CapacityAssumption
<1> QED BY <1>1 DEF Slot

\* Different multiples of the capacity are at least one capacity apart.
LEMMA MultipleGap ==
  ASSUME NEW a \in Int, NEW b \in Int, N * a < N * b
  PROVE  N * b >= N * a + N
<1>1. a < b
  BY CapacityAssumption
<1>2. N * b >= N * (a + 1)
  BY <1>1, CapacityAssumption
<1>3. N * (a + 1) = N * a + N
  BY CapacityAssumption
<1> QED BY <1>2, <1>3, CapacityAssumption

\* Two tickets that share a slot are at least one lap apart.
LEMMA SlotClash ==
  ASSUME NEW t \in Nat, NEW u \in Nat, t < u, Slot(t) = Slot(u)
  PROVE  u >= t + N
<1>1. PICK a \in Int : t = N * a + Slot(t)
  BY SlotDivision
<1>2. PICK b \in Int : u = N * b + Slot(u)
  BY SlotDivision
<1>3. N * a \in Int /\ N * b \in Int /\ Slot(t) \in Int
  BY SlotInRange, CapacityAssumption DEF Slots
<1>4. N * a < N * b
  BY <1>1, <1>2, <1>3
<1> QED BY <1>1, <1>2, <1>3, <1>4, MultipleGap, CapacityAssumption

\* Two ways to split a number into laps and a slot agree on the slot.
LEMMA SlotUnique ==
  ASSUME NEW t \in Nat, NEW q \in Int, NEW r \in Slots, t = N * q + r
  PROVE  Slot(t) = r
<1>1. PICK b \in Int : t = N * b + Slot(t)
  BY SlotDivision
<1>2. N * q \in Int /\ N * b \in Int /\ Slot(t) \in Slots
  BY SlotInRange, CapacityAssumption
<1>3. ~ (N * b < N * q)
  <2>1. SUFFICES ASSUME N * b < N * q PROVE FALSE
    OBVIOUS
  <2>2. N * q >= N * b + N
    BY <2>1, MultipleGap
  <2> QED BY <2>2, <1>1, <1>2, CapacityAssumption DEF Slots
<1>4. ~ (N * q < N * b)
  <2>1. SUFFICES ASSUME N * q < N * b PROVE FALSE
    OBVIOUS
  <2>2. N * b >= N * q + N
    BY <2>1, MultipleGap
  <2> QED BY <2>2, <1>1, <1>2, CapacityAssumption DEF Slots
<1> QED BY <1>1, <1>2, <1>3, <1>4, CapacityAssumption DEF Slots

\* A ticket and the one a lap later share their slot.
LEMMA SlotNextLap ==
  ASSUME NEW t \in Nat
  PROVE  Slot(t + N) = Slot(t)
<1>1. PICK a \in Int : t = N * a + Slot(t)
  BY SlotDivision
<1>2. PICK c \in Int : c = a + 1
  OBVIOUS
<1>3. N * c = N * a + N
  BY <1>2, CapacityAssumption
<1>4. N * a \in Int /\ N * c \in Int /\ Slot(t) \in Slots /\ t + N \in Nat
  BY SlotInRange, CapacityAssumption
<1>5. t + N = N * c + Slot(t)
  BY <1>1, <1>3, <1>4, CapacityAssumption DEF Slots
<1> QED BY <1>4, <1>5, SlotUnique

\* The tickets of the first lap are their own slots.
LEMMA SlotFirstLap ==
  ASSUME NEW t \in Slots
  PROVE  Slot(t) = t
<1>1. t \in Nat /\ N * 0 = 0
  BY CapacityAssumption DEF Slots
<1>2. t = N * 0 + t
  BY <1>1
<1> QED BY <1>1, <1>2, SlotUnique

-----------------------------------------------------------------------------
(***************************************************************************)
(* The queue.                                                              *)
(***************************************************************************)

\* Types are preserved by every operation of the queue.
THEOREM TypeCorrect == Spec => []TypeOK
<1> USE CapacityAssumption, ThreadsAssumption, NoItemAssumption
    DEF PushPc, PopPc, SizePc, Threads
<1>1. Init => TypeOK
  <2>1. << >> \in Seq(Item)
    OBVIOUS
  <2>2. \A i \in Slots : i \in Nat
    BY DEF Slots
  <2> HIDE DEF Threads
  <2>3. Producers \subseteq Threads /\ Consumers \subseteq Threads /\ Observers \subseteq Threads
    BY DEF Threads
  <2> SUFFICES ASSUME Init PROVE TypeOK
    OBVIOUS
  <2>4. \A t \in Threads : pc[t] = "idle"
    BY DEF Init
  <2>5. /\ pc \in [Threads -> {"idle"} \cup PushPc \cup PopPc \cup SizePc]
        /\ pos \in [Threads -> Nat]
    BY DEF Init
  <2>6. /\ sequence \in [Slots -> Nat]
        /\ storage \in [Slots -> Item \cup {NoItem}]
    BY <2>2 DEF Init
  <2>7. /\ pushes \in [Producers -> 0..MaxPushes]
        /\ arg \in [Producers -> Item \cup {NoItem}]
        /\ value \in [Consumers -> Item \cup {NoItem}]
        /\ sizeSeen \in [Observers -> Nat]
    BY DEF Init
  <2> QED BY <2>1, <2>3, <2>4, <2>5, <2>6, <2>7 DEF Init, TypeOK
<1>2. TypeOK /\ [Next]_vars => TypeOK'
  <2> SUFFICES ASSUME TypeOK, [Next]_vars
               PROVE  TypeOK'
    OBVIOUS
  <2>1. ASSUME NEW p \in Producers, PushBegin(p) PROVE TypeOK'
    <3>1. <<p, pushes[p] + 1>> \in Item
      BY <2>1 DEF PushBegin, TypeOK, Item
    <3>2. arg' \in [Producers -> Item \cup {NoItem}] /\ arg'[p] \in Item
      BY <2>1, <3>1 DEF PushBegin, TypeOK
    <3>3. \A q \in Producers : pc'[q] # "idle" => arg'[q] \in Item
      BY <2>1, <3>1, <3>2 DEF PushBegin, TypeOK, Goto
    <3>4. pushes' \in [Producers -> 0..MaxPushes] /\ pos' \in [Threads -> Nat]
      BY <2>1 DEF PushBegin, TypeOK
    <3>5. /\ pc' \in [Threads -> {"idle"} \cup PushPc \cup PopPc \cup SizePc]
          /\ \A q \in Producers : pc'[q] \in {"idle"} \cup PushPc
          /\ \A c \in Consumers : pc'[c] \in {"idle"} \cup PopPc
          /\ \A o \in Observers : pc'[o] \in {"idle"} \cup SizePc
      BY <2>1 DEF PushBegin, TypeOK, Goto
    <3> QED BY <2>1, <3>2, <3>3, <3>4, <3>5 DEF PushBegin, TypeOK, counters, slots, results
  <2>2. ASSUME NEW p \in Producers, PushSlotReady(p) PROVE TypeOK'
    BY <2>2 DEF PushSlotReady, TypeOK, Goto, counters, slots, caller, results
  <2>3. ASSUME NEW p \in Producers, PushFull(p) PROVE TypeOK'
    BY <2>3 DEF PushFull, TypeOK, Goto, counters, slots, caller, results
  <2>4. ASSUME NEW p \in Producers, PushBehind(p) PROVE TypeOK'
    BY <2>4 DEF PushBehind, TypeOK, Goto, counters, slots, caller, results
  <2>5. ASSUME NEW p \in Producers, PushReload(p) PROVE TypeOK'
    BY <2>5 DEF PushReload, TypeOK, Goto, counters, slots, caller, results
  <2>6. ASSUME NEW p \in Producers, PushClaim(p) PROVE TypeOK'
    BY <2>6 DEF PushClaim, TypeOK, Goto, slots, caller, results
  <2>7. ASSUME NEW p \in Producers, PushClaimFails(p) PROVE TypeOK'
    BY <2>7 DEF PushClaimFails, TypeOK, Goto, counters, slots, caller, results
  <2>8. ASSUME NEW p \in Producers, PushConstruct(p) PROVE TypeOK'
    <3>1. arg[p] \in Item
      BY <2>8 DEF PushConstruct, TypeOK
    <3> QED BY <2>8, <3>1 DEF PushConstruct, TypeOK, Goto, counters, caller, results
  <2>9. ASSUME NEW p \in Producers, PushPublish(p) PROVE TypeOK'
    <3>1. pos[p] + 1 \in Nat
      BY DEF TypeOK
    <3>2. sequence' \in [Slots -> Nat]
      BY <2>9, <3>1 DEF PushPublish, TypeOK
    <3> QED BY <2>9, <3>2 DEF PushPublish, TypeOK, Goto, counters, caller, results
  <2>10. ASSUME NEW c \in Consumers, PopBegin(c) PROVE TypeOK'
    BY <2>10 DEF PopBegin, TypeOK, Goto, counters, slots, caller, results
  <2>11. ASSUME NEW c \in Consumers, PopSlotReady(c) PROVE TypeOK'
    BY <2>11 DEF PopSlotReady, TypeOK, Goto, counters, slots, caller, results
  <2>12. ASSUME NEW c \in Consumers, PopEmpty(c) PROVE TypeOK'
    BY <2>12 DEF PopEmpty, TypeOK, Goto, counters, slots, caller, results
  <2>13. ASSUME NEW c \in Consumers, PopBehind(c) PROVE TypeOK'
    BY <2>13 DEF PopBehind, TypeOK, Goto, counters, slots, caller, results
  <2>14. ASSUME NEW c \in Consumers, PopReload(c) PROVE TypeOK'
    BY <2>14 DEF PopReload, TypeOK, Goto, counters, slots, caller, results
  <2>15. ASSUME NEW c \in Consumers, PopClaim(c) PROVE TypeOK'
    BY <2>15 DEF PopClaim, TypeOK, Goto, slots, caller, results
  <2>16. ASSUME NEW c \in Consumers, PopClaimFails(c) PROVE TypeOK'
    BY <2>16 DEF PopClaimFails, TypeOK, Goto, counters, slots, caller, results
  <2>17. ASSUME NEW c \in Consumers, PopTake(c) PROVE TypeOK'
    <3>1. pos[c] \in Nat
      BY DEF TypeOK
    <3>2. storage[Slot(pos[c])] \in Item \cup {NoItem}
      BY <3>1, SlotInRange DEF TypeOK
    <3>3. value' \in [Consumers -> Item \cup {NoItem}]
      BY <2>17, <3>2 DEF PopTake, TypeOK
    <3>4. storage' \in [Slots -> Item \cup {NoItem}]
      BY <2>17 DEF PopTake, TypeOK
    <3> QED BY <2>17, <3>3, <3>4 DEF PopTake, TypeOK, Goto, counters, caller
  <2>18. ASSUME NEW c \in Consumers, PopRelease(c) PROVE TypeOK'
    <3>1. pos[c] + N \in Nat
      BY DEF TypeOK
    <3>2. sequence' \in [Slots -> Nat]
      BY <2>18, <3>1 DEF PopRelease, TypeOK
    <3> QED BY <2>18, <3>2 DEF PopRelease, TypeOK, Goto, counters, caller, results
  <2>19. ASSUME NEW o \in Observers, SizeHeadFirst(o) PROVE TypeOK'
    BY <2>19 DEF SizeHeadFirst, TypeOK, Goto, counters, slots, caller, results
  <2>20. ASSUME NEW o \in Observers, SizeTailFirst(o) PROVE TypeOK'
    BY <2>20 DEF SizeTailFirst, TypeOK, Goto, counters, slots, caller, results
  <2>23. ASSUME NEW o \in Observers, SizeTailLast(o) PROVE TypeOK'
    BY <2>23 DEF SizeTailLast, SizeOf, TypeOK, Goto, counters, slots, caller
  <2>24. ASSUME NEW o \in Observers, SizeHeadLast(o) PROVE TypeOK'
    BY <2>24 DEF SizeHeadLast, SizeOf, TypeOK, Goto, counters, slots, caller
  <2>21. ASSUME Destroy PROVE TypeOK'
    BY <2>21 DEF Destroy, TypeOK, counters, caller, results
  <2>22. ASSUME UNCHANGED vars PROVE TypeOK'
    BY <2>22 DEF vars, TypeOK, counters, slots, caller, results
  <2> QED
    BY <2>1, <2>2, <2>3, <2>4, <2>5, <2>6, <2>7, <2>8, <2>9, <2>10, <2>11, <2>12, <2>13,
       <2>14, <2>15, <2>16, <2>17, <2>18, <2>19, <2>20, <2>21, <2>22, <2>23, <2>24
    DEF Next, PushStep, PopStep, SizeStep, Gone
<1> QED BY <1>1, <1>2, PTL DEF Spec

-----------------------------------------------------------------------------
(***************************************************************************)
(* The last N tickets and the slots.                                       *)
(***************************************************************************)

\* What is queued belongs to the last lap, and tickets are natural numbers.
LEMMA QueuedInLastLap ==
  ASSUME TypeOK, CountersOrdered
  PROVE  /\ Queued \subseteq LastLap
         /\ LastLap \subseteq Nat
  BY CapacityAssumption DEF TypeOK, CountersOrdered, Queued, LastLap

\* No two tickets of the last lap share a slot.
LEMMA OneTicketPerSlot ==
  ASSUME TypeOK, NEW t \in LastLap, NEW u \in LastLap, Slot(t) = Slot(u)
  PROVE  t = u
<1>1. t \in Nat /\ u \in Nat /\ t < u + N /\ u < t + N
  BY CapacityAssumption DEF TypeOK, LastLap
<1>2. ~ (t < u)
  BY <1>1, SlotClash, CapacityAssumption
<1>3. ~ (u < t)
  BY <1>1, SlotClash, CapacityAssumption
<1> QED BY <1>1, <1>2, <1>3

\* Neighbouring tickets never share a slot: the capacity is at least two.
LEMMA NeighboursApart ==
  ASSUME NEW t \in Nat
  PROVE  Slot(t + 1) # Slot(t)
<1>1. t + 1 \in Nat /\ t < t + 1 /\ ~ (t + 1 >= t + N)
  BY CapacityAssumption
<1> QED BY <1>1, SlotClash

\* A ticket that was handed out maps to no untouched slot.
LEMMA UsedSlot ==
  ASSUME TypeOK, NEW t \in Nat, t < enqueuePos
  PROVE  ~ (Slot(t) >= enqueuePos)
<1>1. SUFFICES ASSUME Slot(t) >= enqueuePos PROVE FALSE
  OBVIOUS
<1>2. Slot(t) \in Slots /\ Slot(t) \in Nat
  BY SlotInRange DEF Slots
<1>3. t \in Slots
  BY <1>1, <1>2, CapacityAssumption DEF Slots, TypeOK
<1>4. Slot(t) = t
  BY <1>3, SlotFirstLap
<1> QED BY <1>1, <1>4 DEF TypeOK

\* The slot of the next ticket to hand out: unless a ticket of the last lap still
\* holds it, its sequence is the ticket and its storage is raw.
LEMMA NextTicketSlot ==
  ASSUME Inv
  PROVE  /\ sequence[Slot(enqueuePos)] # enqueuePos + 1
         /\ sequence[Slot(enqueuePos)] = enqueuePos =>
              /\ enqueuePos < dequeuePos + N
              /\ storage[Slot(enqueuePos)] = NoItem
<1> DEFINE e == enqueuePos
<1>0. e \in Nat /\ dequeuePos \in Nat /\ TypeOK
  BY DEF Inv, TypeOK
<1>1. CASE e < N
  <2>1. Slot(e) = e /\ e \in Slots
    BY <1>0, <1>1, SlotFirstLap, CapacityAssumption DEF Slots
  <2>2. sequence[e] = e /\ storage[e] = NoItem
    BY <2>1, <1>0 DEF Inv, UntouchedSlots
  <2> QED BY <2>1, <2>2, <1>0, <1>1, CapacityAssumption
<1>2. CASE ~ (e < N)
  <2> DEFINE u == e - N
  <2>1. u \in Nat /\ u + N = e /\ u \in LastLap
    BY <1>0, <1>2, CapacityAssumption DEF LastLap
  <2>2. Slot(e) = Slot(u)
    BY <2>1, SlotNextLap
  <2>3. TicketState(u)
    BY <2>1 DEF Inv, TicketStates
  <2>4. sequence[Slot(e)] \in {u, u + 1, u + N}
    BY <2>2, <2>3 DEF TicketState
  <2>5. sequence[Slot(e)] # e + 1
    BY <2>1, <2>4, <1>0, CapacityAssumption
  <2>6. ASSUME sequence[Slot(e)] = e PROVE u < dequeuePos /\ storage[Slot(e)] = NoItem
    <3>1. u # e /\ u + 1 # e
      BY <2>1, <1>0, CapacityAssumption
    <3> QED BY <2>2, <2>3, <2>6, <3>1 DEF TicketState
  <2> QED BY <2>1, <2>5, <2>6, <1>0, CapacityAssumption
<1> QED BY <1>1, <1>2

-----------------------------------------------------------------------------
(***************************************************************************)
(* Each step preserves the invariant.                                      *)
(***************************************************************************)

\* A step of a thread that holds no slot before or after, and that leaves the
\* shared variables alone, only has to keep the local positions right.
LEMMA LocalStep ==
  ASSUME Inv, TypeOK', PositionsBehind', ~destroyed,
         UNCHANGED <<enqueuePos, dequeuePos, sequence, storage, destroyed, log, value>>,
         NEW t \in Threads, ~Owns(t), ~Owns(t)',
         \A u \in Threads \ {t} : pc'[u] = pc[u] /\ pos'[u] = pos[u],
         \A p \in Producers \ {t} : arg'[p] = arg[p]
  PROVE  Inv'
<1>1. /\ Queued' = Queued /\ LastLap' = LastLap
  BY DEF Queued, LastLap
<1>2. \A p \in Producers : /\ Writing(p)' <=> Writing(p)
                           /\ Writing(p) => /\ pos'[p] = pos[p] /\ arg'[p] = arg[p]
                                             /\ pc'[p] = pc[p]
  BY DEF Writing, Owns, Threads
<1>3. \A c \in Consumers : /\ Reading(c)' <=> Reading(c)
                           /\ Reading(c) => pos'[c] = pos[c] /\ pc'[c] = pc[c]
  BY DEF Reading, Owns, Threads
<1>4. CountersOrdered' /\ UntouchedSlots' /\ SlotsCovered' /\ AllQuietOnceDestroyed'
  BY <1>1 DEF Inv, CountersOrdered, UntouchedSlots, SlotsCovered, AllQuietOnceDestroyed
<1>5. WriterHolds'
  BY <1>1, <1>2 DEF Inv, WriterHolds
<1>6. ReaderHolds'
  BY <1>1, <1>3 DEF Inv, ReaderHolds
<1>7. TicketsDistinct'
  BY <1>2, <1>3 DEF Inv, TicketsDistinct
<1>8. TicketStates'
  BY <1>1, <1>2, <1>3 DEF Inv, TicketStates, TicketState
<1> QED BY <1>4, <1>5, <1>6, <1>7, <1>8 DEF Inv

\* Winning the CAS in emplace.
LEMMA PushClaimStep ==
  ASSUME Inv, TypeOK', NEW p \in Producers, PushClaim(p)
  PROVE  Inv'
<1>e. PICK e \in Nat : e = enqueuePos
  BY DEF Inv, TypeOK
<1>0. /\ TypeOK /\ CountersOrdered
      /\ e = enqueuePos /\ dequeuePos \in Nat /\ N \in Nat /\ N >= 2
      /\ p \in Threads /\ pos[p] = e /\ arg[p] \in Item
      /\ ~destroyed
  BY <1>e, CapacityAssumption
  DEF Inv, TypeOK, PushClaim, PushPc, Threads, AllQuietOnceDestroyed
<1>1. /\ sequence[Slot(e)] = e
      /\ e < dequeuePos + N
      /\ storage[Slot(e)] = NoItem
  <2>1. sequence[Slot(e)] = e
    BY <1>0 DEF PushClaim, Inv, PositionsBehind, PushPc
  <2> QED BY <1>0, <2>1, NextTicketSlot
<1>2. /\ enqueuePos' = e + 1
      /\ UNCHANGED <<dequeuePos, sequence, storage, destroyed, pos, arg, value>>
      /\ pc' = [pc EXCEPT ![p] = "push_construct"]
      /\ log' = Append(log, arg[p])
  BY <1>0 DEF PushClaim, Goto, slots, caller, results
<1>3. /\ Len(log') = e + 1 /\ log'[e + 1] = arg[p]
      /\ \A k \in 1..e : log'[k] = log[k]
  <2>1. log \in Seq(Item) /\ Len(log) = e
    BY <1>0 DEF TypeOK, CountersOrdered
  <2> QED BY <2>1, <1>2, <1>0
<1>4. /\ Queued' = Queued \cup {e}
      /\ \A u \in LastLap : u \in LastLap' \/ u + N = e
      /\ e \in LastLap' /\ LastLap' \subseteq LastLap \cup {e}
  BY <1>0, <1>2 DEF Queued, LastLap, CountersOrdered
<1>5. /\ Queued \subseteq LastLap
      /\ \A u \in LastLap : u \in Nat /\ u < e /\ u + 1 \in 1..e /\ log'[u + 1] = log[u + 1]
  <2>1. \A u \in LastLap : u \in Nat /\ u < e /\ u + 1 \in 1..e
    BY <1>0 DEF LastLap
  <2> QED BY <2>1, <1>3, <1>0, QueuedInLastLap
<1>6. /\ \A q \in Producers : Writing(q)' <=> Writing(q) \/ q = p
      /\ \A q \in Producers : q # p => pc'[q] = pc[q]
      /\ \A c \in Consumers : pc'[c] = pc[c] /\ (Reading(c)' <=> Reading(c))
      /\ ~Writing(p) /\ Writing(p)' /\ pc'[p] = "push_construct"
  BY <1>0, <1>2, ThreadsAssumption DEF Writing, Reading, PushClaim, TypeOK, Threads
<1>7. CountersOrdered'
  BY <1>0, <1>1, <1>2, <1>3 DEF CountersOrdered
<1>8. PositionsBehind'
  <2>1. ASSUME NEW q \in Producers, pc'[q] \in PushPc
        PROVE  /\ pos[q] <= e + 1
               /\ pc'[q] = "push_claim" /\ pos[q] = e + 1 => sequence[Slot(pos[q])] = pos[q]
    <3>1. pc[q] \in PushPc
      BY <2>1, <1>0, <1>6 DEF PushClaim, PushPc
    <3>2. pos[q] \in Nat /\ pos[q] <= e
      BY <3>1, <1>0 DEF Inv, PositionsBehind, TypeOK, Threads
    <3> QED BY <3>2
  <2> QED BY <2>1, <1>0, <1>2, <1>6 DEF Inv, PositionsBehind
<1>9. WriterHolds'
  <2>1. ASSUME NEW q \in Producers, Writing(q)', q # p
        PROVE  /\ pos[q] \in Queued' /\ sequence[Slot(pos[q])] = pos[q]
               /\ arg[q] = log'[pos[q] + 1]
               /\ storage[Slot(pos[q])] = IF pc'[q] = "push_construct" THEN NoItem ELSE arg[q]
    BY <2>1, <1>4, <1>5, <1>6 DEF Inv, WriterHolds
  <2> QED BY <2>1, <1>0, <1>1, <1>2, <1>3, <1>4, <1>6 DEF WriterHolds
<1>10. ReaderHolds'
  <2>1. ASSUME NEW c \in Consumers, Reading(c)
        PROVE  /\ pos[c] \in LastLap' \ Queued'
               /\ log'[pos[c] + 1] = log[pos[c] + 1]
    <3>1. pos[c] \in LastLap \ Queued /\ sequence[Slot(pos[c])] = pos[c] + 1
      BY <2>1 DEF Inv, ReaderHolds
    <3>2. pos[c] + N # e
      <4>1. SUFFICES ASSUME pos[c] + N = e PROVE FALSE
        OBVIOUS
      <4>2. Slot(e) = Slot(pos[c])
        BY <4>1, <3>1, <1>5, SlotNextLap
      <4> QED BY <4>1, <4>2, <3>1, <1>0, <1>1, <1>5
    <3>3. pos[c] \in LastLap /\ pos[c] # e
      BY <3>1, <1>5
    <3>4. pos[c] \in LastLap'
      BY <3>2, <3>3, <1>4
    <3>5. pos[c] \notin Queued' /\ log'[pos[c] + 1] = log[pos[c] + 1]
      BY <3>1, <3>3, <1>4, <1>5
    <3> QED BY <3>4, <3>5
  <2> QED BY <2>1, <1>2, <1>6 DEF Inv, ReaderHolds
<1>11. TicketsDistinct'
  BY <1>0, <1>2, <1>5, <1>6 DEF Inv, TicketsDistinct, WriterHolds
<1>12. TicketStates'
  <2>1. TicketState(e)'
    BY <1>0, <1>1, <1>2, <1>4, <1>6 DEF TicketState
  <2>2. ASSUME NEW u \in LastLap PROVE TicketState(u)'
    <3>1. TicketState(u)
      BY <2>2 DEF Inv, TicketStates
    <3>2. \A q \in Producers : Writing(q) => Writing(q)'
      BY <1>6
    <3>3. CASE u \in Queued /\ sequence[Slot(u)] = u
                 /\ \E q \in Producers : Writing(q) /\ pos[q] = u
      BY <3>2, <3>3, <1>2, <1>4 DEF TicketState
    <3>4. CASE u \in Queued /\ sequence[Slot(u)] = u + 1
                 /\ (destroyed \/ storage[Slot(u)] = log[u + 1])
      BY <3>4, <1>2, <1>4, <1>5 DEF TicketState
    <3>5. CASE u < dequeuePos /\ sequence[Slot(u)] = u + 1
                 /\ \E c \in Consumers : Reading(c) /\ pos[c] = u
      BY <3>5, <1>2, <1>6 DEF TicketState
    <3>6. CASE u < dequeuePos /\ sequence[Slot(u)] = u + N /\ storage[Slot(u)] = NoItem
      BY <3>6, <1>2 DEF TicketState
    <3> QED BY <3>1, <3>3, <3>4, <3>5, <3>6 DEF TicketState
  <2> QED BY <2>1, <2>2, <1>4 DEF TicketStates
<1>13. UntouchedSlots'
  BY <1>0, <1>2 DEF Inv, UntouchedSlots, Slots
<1>14. SlotsCovered'
  <2>1. ASSUME NEW i \in Slots, i < e PROVE \E u \in LastLap' : Slot(u) = i
    <3>1. PICK u \in LastLap : Slot(u) = i
      BY <2>1, <1>0 DEF Inv, SlotsCovered
    <3>2. CASE u \in LastLap'
      BY <3>1, <3>2
    <3>3. CASE u + N = e
      BY <3>1, <3>3, <1>4, <1>5, SlotNextLap
    <3> QED BY <3>1, <3>2, <3>3, <1>4
  <2>2. ASSUME e \in Slots PROVE Slot(e) = e
    BY <2>2, SlotFirstLap
  <2>3. ASSUME NEW i \in Slots, i < e + 1 PROVE i < e \/ i = e
    BY <2>3, <1>0 DEF Slots
  <2> QED BY <2>1, <2>2, <2>3, <1>2, <1>4 DEF SlotsCovered
<1>15. AllQuietOnceDestroyed'
  BY <1>0, <1>2 DEF AllQuietOnceDestroyed
<1> QED BY <1>7, <1>8, <1>9, <1>10, <1>11, <1>12, <1>13, <1>14, <1>15 DEF Inv

\* Whoever holds a slot is the only one of the last lap that maps to it.
LEMMA HolderAlone ==
  ASSUME Inv, NEW t \in LastLap
  PROVE  /\ t \in Nat /\ Slot(t) \in Slots
         /\ \A u \in LastLap : Slot(u) = Slot(t) => u = t
         /\ \A i \in Slots : i >= enqueuePos => i # Slot(t)
         /\ Queued \subseteq LastLap
<1>1. TypeOK /\ CountersOrdered /\ t \in Nat /\ t < enqueuePos
  BY DEF Inv, LastLap, TypeOK
<1>2. Slot(t) \in Slots
  BY <1>1, SlotInRange
<1>3. \A u \in LastLap : Slot(u) = Slot(t) => u = t
  BY <1>1, OneTicketPerSlot
<1>4. \A i \in Slots : i >= enqueuePos => i # Slot(t)
  BY <1>1, UsedSlot
<1> QED BY <1>1, <1>2, <1>3, <1>4, QueuedInLastLap

\* Constructing the element in the slot that was won.
LEMMA PushConstructStep ==
  ASSUME Inv, TypeOK', NEW p \in Producers, PushConstruct(p)
  PROVE  Inv'
<1>e. PICK t \in Nat : t = pos[p]
  BY DEF Inv, TypeOK, Threads
<1>0. /\ TypeOK /\ p \in Threads /\ ~destroyed /\ Writing(p)
  BY DEF Inv, TypeOK, Threads, PushConstruct, Writing, AllQuietOnceDestroyed
<1>1. /\ t \in Queued /\ t \in LastLap
      /\ sequence[Slot(t)] = t /\ arg[p] = log[t + 1]
  BY <1>e, <1>0, QueuedInLastLap DEF Inv, WriterHolds
<1>2. /\ UNCHANGED <<enqueuePos, dequeuePos, sequence, destroyed, pos, arg, value, log>>
      /\ pc' = [pc EXCEPT ![p] = "push_publish"]
      /\ storage' = [storage EXCEPT ![Slot(t)] = arg[p]]
      /\ Queued' = Queued /\ LastLap' = LastLap
  BY <1>e DEF PushConstruct, Goto, counters, caller, results, Queued, LastLap
<1>3. /\ storage'[Slot(t)] = arg[p]
      /\ \A u \in LastLap : u # t => storage'[Slot(u)] = storage[Slot(u)]
      /\ \A i \in Slots : i >= enqueuePos => storage'[i] = storage[i]
  BY <1>0, <1>1, <1>2, HolderAlone DEF TypeOK
<1>4. /\ \A q \in Producers : Writing(q)' <=> Writing(q)
      /\ \A q \in Producers : q # p => pc'[q] = pc[q]
      /\ \A c \in Consumers : pc'[c] = pc[c] /\ (Reading(c)' <=> Reading(c))
      /\ pc'[p] = "push_publish"
  BY <1>0, <1>2, ThreadsAssumption DEF Writing, Reading, PushConstruct, TypeOK, Threads
<1>5. CountersOrdered' /\ SlotsCovered'
  BY <1>2 DEF Inv, CountersOrdered, SlotsCovered
<1>6. PositionsBehind'
  BY <1>0, <1>2, <1>4 DEF Inv, PositionsBehind, PushPc, PushConstruct
<1>7. WriterHolds'
  <2>1. ASSUME NEW q \in Producers, Writing(q), q # p
        PROVE  pos[q] \in LastLap /\ pos[q] # t
    BY <2>1, <1>e, <1>0, HolderAlone, <1>1 DEF Inv, WriterHolds, TicketsDistinct
  <2> QED BY <2>1, <1>e, <1>1, <1>2, <1>3, <1>4 DEF Inv, WriterHolds
<1>8. ReaderHolds'
  <2>1. ASSUME NEW c \in Consumers, Reading(c)
        PROVE  pos[c] \in LastLap /\ pos[c] # t
    BY <2>1, <1>1 DEF Inv, ReaderHolds
  <2> QED BY <2>1, <1>2, <1>3, <1>4 DEF Inv, ReaderHolds
<1>9. TicketsDistinct'
  BY <1>2, <1>4 DEF Inv, TicketsDistinct
<1>10. TicketStates'
  <2>1. TicketState(t)'
    BY <1>e, <1>0, <1>1, <1>2, <1>4 DEF TicketState
  <2>2. ASSUME NEW u \in LastLap, u # t PROVE TicketState(u)'
    BY <2>2, <1>2, <1>3, <1>4 DEF Inv, TicketStates, TicketState
  <2> QED BY <2>1, <2>2, <1>2 DEF TicketStates
<1>11. UntouchedSlots'
  BY <1>2, <1>3 DEF Inv, UntouchedSlots
<1>12. AllQuietOnceDestroyed'
  BY <1>0, <1>2 DEF AllQuietOnceDestroyed
<1> QED BY <1>5, <1>6, <1>7, <1>8, <1>9, <1>10, <1>11, <1>12 DEF Inv

\* Publishing the element: the ticket passes from the producer to the queue.
LEMMA PushPublishStep ==
  ASSUME Inv, TypeOK', NEW p \in Producers, PushPublish(p)
  PROVE  Inv'
<1>e. PICK t \in Nat : t = pos[p]
  BY DEF Inv, TypeOK, Threads
<1>0. /\ TypeOK /\ p \in Threads /\ ~destroyed /\ Writing(p)
  BY DEF Inv, TypeOK, Threads, PushPublish, Writing, AllQuietOnceDestroyed
<1>1. /\ t \in Queued /\ t \in LastLap
      /\ sequence[Slot(t)] = t /\ storage[Slot(t)] = log[t + 1]
  BY <1>e, <1>0, QueuedInLastLap DEF Inv, WriterHolds, PushPublish
<1>2. /\ UNCHANGED <<enqueuePos, dequeuePos, storage, destroyed, pos, arg, value, log>>
      /\ pc' = [pc EXCEPT ![p] = "idle"]
      /\ sequence' = [sequence EXCEPT ![Slot(t)] = t + 1]
      /\ Queued' = Queued /\ LastLap' = LastLap
  BY <1>e DEF PushPublish, Goto, counters, caller, results, Queued, LastLap
<1>3. /\ sequence'[Slot(t)] = t + 1
      /\ \A u \in LastLap : u # t => sequence'[Slot(u)] = sequence[Slot(u)]
      /\ \A i \in Slots : i >= enqueuePos => sequence'[i] = sequence[i]
  BY <1>0, <1>1, <1>2, HolderAlone DEF TypeOK
<1>4. /\ \A q \in Producers : Writing(q)' <=> Writing(q) /\ q # p
      /\ \A q \in Producers : q # p => pc'[q] = pc[q]
      /\ \A c \in Consumers : pc'[c] = pc[c] /\ (Reading(c)' <=> Reading(c))
      /\ pc'[p] = "idle"
  BY <1>0, <1>2, ThreadsAssumption DEF Writing, Reading, PushPublish, TypeOK, Threads
<1>5. CountersOrdered' /\ SlotsCovered'
  BY <1>2 DEF Inv, CountersOrdered, SlotsCovered
<1>6. PositionsBehind'
  <2>1. ASSUME NEW q \in Producers, pos[q] = enqueuePos, sequence[Slot(pos[q])] = pos[q]
        PROVE  sequence'[Slot(pos[q])] = pos[q]
    <3>1. pos[q] # t
      BY <2>1, <1>1 DEF Queued
    <3>2. Slot(pos[q]) # Slot(t)
      BY <2>1, <3>1, <1>1
    <3> QED BY <2>1, <3>2, <1>2
  <2>2. ASSUME NEW c \in Consumers, sequence[Slot(pos[c])] = pos[c] + 1
        PROVE  sequence'[Slot(pos[c])] = pos[c] + 1
    <3>1. pos[c] \in Nat
      BY <1>0 DEF TypeOK, Threads
    <3>2. Slot(pos[c]) # Slot(t)
      BY <2>2, <3>1, <1>1, NeighboursApart
    <3> QED BY <2>2, <3>2, <1>2
  <2>3. ASSUME NEW q \in Producers, pc'[q] \in PushPc PROVE q # p
    BY <2>3, <1>4 DEF PushPc
  <2> QED BY <2>1, <2>2, <2>3, <1>2, <1>4 DEF Inv, PositionsBehind
<1>7. WriterHolds'
  <2>1. ASSUME NEW q \in Producers, Writing(q), q # p
        PROVE  pos[q] \in LastLap /\ pos[q] # t
    BY <2>1, <1>e, <1>0, HolderAlone, <1>1 DEF Inv, WriterHolds, TicketsDistinct
  <2> QED BY <2>1, <1>2, <1>3, <1>4 DEF Inv, WriterHolds
<1>8. ReaderHolds'
  <2>1. ASSUME NEW c \in Consumers, Reading(c)
        PROVE  pos[c] \in LastLap /\ pos[c] # t
    BY <2>1, <1>1 DEF Inv, ReaderHolds
  <2> QED BY <2>1, <1>2, <1>3, <1>4 DEF Inv, ReaderHolds
<1>9. TicketsDistinct'
  BY <1>2, <1>4 DEF Inv, TicketsDistinct
<1>10. TicketStates'
  <2>1. TicketState(t)'
    BY <1>1, <1>2, <1>3 DEF TicketState
  <2>2. ASSUME NEW u \in LastLap, u # t PROVE TicketState(u)'
    <3>1. \A q \in Producers : Writing(q) /\ pos[q] = u => Writing(q)'
      BY <2>2, <1>e, <1>4
    <3> QED BY <2>2, <3>1, <1>2, <1>3, <1>4 DEF Inv, TicketStates, TicketState
  <2> QED BY <2>1, <2>2, <1>2 DEF TicketStates
<1>11. UntouchedSlots'
  BY <1>2, <1>3 DEF Inv, UntouchedSlots
<1>12. AllQuietOnceDestroyed'
  BY <1>0, <1>2 DEF AllQuietOnceDestroyed
<1> QED BY <1>5, <1>6, <1>7, <1>8, <1>9, <1>10, <1>11, <1>12 DEF Inv

\* Winning the CAS in pop.
LEMMA PopClaimStep ==
  ASSUME Inv, TypeOK', NEW c \in Consumers, PopClaim(c)
  PROVE  Inv'
<1>e. PICK t \in Nat : t = dequeuePos
  BY DEF Inv, TypeOK
<1>0. /\ TypeOK /\ CountersOrdered /\ c \in Threads /\ ~destroyed
      /\ pos[c] = t /\ enqueuePos \in Nat /\ pc[c] = "pop_claim"
  BY <1>e DEF Inv, TypeOK, Threads, PopClaim, AllQuietOnceDestroyed
<1>1. /\ t \in Queued /\ t \in LastLap
      /\ sequence[Slot(t)] = t + 1 /\ storage[Slot(t)] = log[t + 1]
  <2>1. sequence[Slot(t)] = t + 1
    BY <1>e, <1>0 DEF Inv, PositionsBehind, PopPc
  <2>2. t # enqueuePos
    BY <2>1, NextTicketSlot
  <2>3. t \in Queued /\ t \in LastLap
    BY <2>2, <1>e, <1>0, QueuedInLastLap DEF Queued, CountersOrdered
  <2>4. TicketState(t)
    BY <2>3 DEF Inv, TicketStates
  <2> QED BY <2>1, <2>3, <2>4, <1>e, <1>0 DEF TicketState
<1>2. /\ dequeuePos' = t + 1
      /\ UNCHANGED <<enqueuePos, sequence, storage, destroyed, pos, arg, value, log>>
      /\ pc' = [pc EXCEPT ![c] = "pop_take"]
  BY <1>0 DEF PopClaim, Goto, slots, caller, results
<1>3. /\ Queued' = Queued \ {t} /\ LastLap' = LastLap
      /\ \A u \in LastLap : u < t => u < dequeuePos'
  BY <1>e, <1>0, <1>2 DEF Queued, LastLap
<1>4. /\ \A p \in Producers : pc'[p] = pc[p] /\ (Writing(p)' <=> Writing(p))
      /\ \A d \in Consumers : Reading(d)' <=> Reading(d) \/ d = c
      /\ \A d \in Consumers : d # c => pc'[d] = pc[d]
      /\ ~Reading(c) /\ pc'[c] = "pop_take"
  BY <1>0, <1>2, ThreadsAssumption DEF Writing, Reading, TypeOK, Threads
<1>5. CountersOrdered' /\ SlotsCovered'
  BY <1>e, <1>0, <1>1, <1>2, <1>3, CapacityAssumption
  DEF Inv, CountersOrdered, SlotsCovered, Queued
<1>6. PositionsBehind'
  <2>1. ASSUME NEW d \in Consumers, pc'[d] \in PopPc
        PROVE  /\ pos[d] <= t + 1
               /\ pc'[d] = "pop_claim" /\ pos[d] = t + 1 => sequence[Slot(pos[d])] = pos[d] + 1
    <3>1. pc[d] \in PopPc
      BY <2>1, <1>0, <1>4 DEF PopPc
    <3>2. pos[d] \in Nat /\ pos[d] <= t
      BY <3>1, <1>e, <1>0 DEF Inv, PositionsBehind, TypeOK, Threads
    <3> QED BY <3>2
  <2> QED BY <2>1, <1>2, <1>4 DEF Inv, PositionsBehind
<1>7. WriterHolds'
  <2>1. ASSUME NEW p \in Producers, Writing(p)
        PROVE  pos[p] \in Queued'
    <3>1. pos[p] \in Queued /\ sequence[Slot(pos[p])] = pos[p]
      BY <2>1 DEF Inv, WriterHolds
    <3> QED BY <3>1, <1>1, <1>3
  <2> QED BY <2>1, <1>2, <1>4 DEF Inv, WriterHolds
<1>8. ReaderHolds'
  <2>1. ASSUME NEW d \in Consumers, Reading(d)
        PROVE  pos[d] \in LastLap' \ Queued'
    BY <2>1, <1>3 DEF Inv, ReaderHolds
  <2> QED BY <2>1, <1>0, <1>1, <1>2, <1>3, <1>4 DEF Inv, ReaderHolds
<1>9. TicketsDistinct'
  BY <1>0, <1>1, <1>2, <1>4 DEF Inv, TicketsDistinct, ReaderHolds
<1>10. TicketStates'
  <2>1. TicketState(t)'
    BY <1>0, <1>1, <1>2, <1>4 DEF TicketState
  <2>2. ASSUME NEW u \in LastLap, u # t PROVE TicketState(u)'
    <3>1. u < dequeuePos => u < dequeuePos'
      BY <2>2, <1>e, <1>3
    <3> QED BY <2>2, <3>1, <1>2, <1>3, <1>4 DEF Inv, TicketStates, TicketState
  <2> QED BY <2>1, <2>2, <1>3 DEF TicketStates
<1>11. UntouchedSlots' /\ AllQuietOnceDestroyed'
  BY <1>0, <1>2 DEF Inv, UntouchedSlots, AllQuietOnceDestroyed
<1> QED BY <1>5, <1>6, <1>7, <1>8, <1>9, <1>10, <1>11 DEF Inv

\* Moving the element out and destroying it.
LEMMA PopTakeStep ==
  ASSUME Inv, TypeOK', NEW c \in Consumers, PopTake(c)
  PROVE  Inv'
<1>e. PICK t \in Nat : t = pos[c]
  BY DEF Inv, TypeOK, Threads
<1>0. /\ TypeOK /\ c \in Threads /\ ~destroyed /\ Reading(c)
  BY DEF Inv, TypeOK, Threads, PopTake, Reading, AllQuietOnceDestroyed
<1>1. /\ t \in LastLap /\ t \notin Queued
      /\ sequence[Slot(t)] = t + 1 /\ storage[Slot(t)] = log[t + 1]
  BY <1>e, <1>0 DEF Inv, ReaderHolds, PopTake
<1>2. /\ UNCHANGED <<enqueuePos, dequeuePos, sequence, destroyed, pos, arg, log>>
      /\ pc' = [pc EXCEPT ![c] = "pop_release"]
      /\ value' = [value EXCEPT ![c] = storage[Slot(t)]]
      /\ storage' = [storage EXCEPT ![Slot(t)] = NoItem]
      /\ Queued' = Queued /\ LastLap' = LastLap
  BY <1>e DEF PopTake, Goto, counters, caller, Queued, LastLap
<1>3. /\ storage'[Slot(t)] = NoItem
      /\ \A u \in LastLap : u # t => storage'[Slot(u)] = storage[Slot(u)]
      /\ \A i \in Slots : i >= enqueuePos => storage'[i] = storage[i]
      /\ value'[c] = log[t + 1]
      /\ \A d \in Consumers : d # c => value'[d] = value[d]
  BY <1>0, <1>1, <1>2, HolderAlone DEF TypeOK
<1>4. /\ \A p \in Producers : pc'[p] = pc[p] /\ (Writing(p)' <=> Writing(p))
      /\ \A d \in Consumers : Reading(d)' <=> Reading(d)
      /\ \A d \in Consumers : d # c => pc'[d] = pc[d]
      /\ pc'[c] = "pop_release"
  BY <1>0, <1>2, ThreadsAssumption DEF Writing, Reading, TypeOK, Threads
<1>5. CountersOrdered' /\ SlotsCovered'
  BY <1>2 DEF Inv, CountersOrdered, SlotsCovered
<1>6. PositionsBehind'
  BY <1>0, <1>2, <1>4 DEF Inv, PositionsBehind, PopPc, PopTake
<1>7. WriterHolds'
  <2>1. ASSUME NEW p \in Producers, Writing(p)
        PROVE  pos[p] \in LastLap /\ pos[p] # t
    BY <2>1, <1>1, HolderAlone DEF Inv, WriterHolds
  <2> QED BY <2>1, <1>2, <1>3, <1>4 DEF Inv, WriterHolds
<1>8. ReaderHolds'
  <2>1. ASSUME NEW d \in Consumers, Reading(d), d # c
        PROVE  pos[d] \in LastLap /\ pos[d] # t
    BY <2>1, <1>e, <1>0 DEF Inv, ReaderHolds, TicketsDistinct
  <2>2. ASSUME NEW d \in Consumers, Reading(d), d # c
        PROVE  /\ storage'[Slot(pos[d])] = storage[Slot(pos[d])]
               /\ value'[d] = value[d] /\ pc'[d] = pc[d]
    BY <2>1, <2>2, <1>3, <1>4
  <2>3. ASSUME NEW d \in Consumers, Reading(d)
        PROVE  /\ pos[d] \in LastLap' \ Queued' /\ sequence'[Slot(pos[d])] = pos[d] + 1
    BY <2>3, <1>2 DEF Inv, ReaderHolds
  <2>4. ASSUME NEW d \in Consumers, Reading(d), d # c
        PROVE  IF pc'[d] = "pop_take"
               THEN storage'[Slot(pos[d])] = log'[pos[d] + 1]
               ELSE value'[d] = log'[pos[d] + 1] /\ storage'[Slot(pos[d])] = NoItem
    BY <2>2, <2>4, <1>2 DEF Inv, ReaderHolds
  <2> QED BY <2>3, <2>4, <1>e, <1>2, <1>3, <1>4 DEF ReaderHolds
<1>9. TicketsDistinct'
  BY <1>2, <1>4 DEF Inv, TicketsDistinct
<1>10. TicketStates'
  <2>1. TicketState(t)'
    <3>1. t < dequeuePos
      BY <1>1, <1>0 DEF Queued, LastLap, TypeOK
    <3> QED BY <3>1, <1>e, <1>0, <1>1, <1>2, <1>4 DEF TicketState
  <2>2. ASSUME NEW u \in LastLap, u # t PROVE TicketState(u)'
    BY <2>2, <1>2, <1>3, <1>4 DEF Inv, TicketStates, TicketState
  <2> QED BY <2>1, <2>2, <1>2 DEF TicketStates
<1>11. UntouchedSlots'
  BY <1>2, <1>3 DEF Inv, UntouchedSlots
<1>12. AllQuietOnceDestroyed'
  BY <1>0, <1>2 DEF AllQuietOnceDestroyed
<1> QED BY <1>5, <1>6, <1>7, <1>8, <1>9, <1>10, <1>11, <1>12 DEF Inv

\* Reopening the slot for the next lap.
LEMMA PopReleaseStep ==
  ASSUME Inv, TypeOK', NEW c \in Consumers, PopRelease(c)
  PROVE  Inv'
<1>e. PICK t \in Nat : t = pos[c]
  BY DEF Inv, TypeOK, Threads
<1>0. /\ TypeOK /\ c \in Threads /\ ~destroyed /\ Reading(c) /\ pc[c] = "pop_release"
  BY DEF Inv, TypeOK, Threads, PopRelease, Reading, AllQuietOnceDestroyed
<1>1. /\ t \in LastLap /\ t \notin Queued /\ t < dequeuePos
      /\ sequence[Slot(t)] = t + 1 /\ storage[Slot(t)] = NoItem
  BY <1>e, <1>0 DEF Inv, ReaderHolds, Queued, LastLap, TypeOK
<1>2. /\ UNCHANGED <<enqueuePos, dequeuePos, storage, destroyed, pos, arg, value, log>>
      /\ pc' = [pc EXCEPT ![c] = "idle"]
      /\ sequence' = [sequence EXCEPT ![Slot(t)] = t + N]
      /\ Queued' = Queued /\ LastLap' = LastLap
  BY <1>e DEF PopRelease, Goto, counters, caller, results, Queued, LastLap
<1>3. /\ sequence'[Slot(t)] = t + N
      /\ \A u \in LastLap : u # t => sequence'[Slot(u)] = sequence[Slot(u)]
      /\ \A i \in Slots : i >= enqueuePos => sequence'[i] = sequence[i]
  <2>1. sequence \in [Slots -> Nat] /\ Slot(t) \in Slots
    BY <1>0, <1>1, HolderAlone DEF TypeOK
  <2>2. \A u \in LastLap : u # t => Slot(u) # Slot(t) /\ Slot(u) \in Slots
    BY <1>1, HolderAlone
  <2>3. \A i \in Slots : i >= enqueuePos => i # Slot(t)
    BY <1>1, HolderAlone
  <2> QED BY <1>2, <2>1, <2>2, <2>3
<1>4. /\ \A p \in Producers : pc'[p] = pc[p] /\ (Writing(p)' <=> Writing(p))
      /\ \A d \in Consumers : Reading(d)' <=> Reading(d) /\ d # c
      /\ \A d \in Consumers : d # c => pc'[d] = pc[d]
      /\ pc'[c] = "idle"
  BY <1>0, <1>2, ThreadsAssumption DEF Writing, Reading, TypeOK, Threads
<1>5. CountersOrdered' /\ SlotsCovered'
  BY <1>2 DEF Inv, CountersOrdered, SlotsCovered
<1>6. PositionsBehind'
  <2>1. ASSUME NEW q \in Producers, sequence[Slot(pos[q])] = pos[q]
        PROVE  sequence'[Slot(pos[q])] = pos[q]
    <3>1. Slot(pos[q]) # Slot(t)
      BY <2>1, <1>1, NeighboursApart
    <3> QED BY <2>1, <3>1, <1>2
  <2>2. ASSUME NEW d \in Consumers, pos[d] = dequeuePos, sequence[Slot(pos[d])] = pos[d] + 1
        PROVE  sequence'[Slot(pos[d])] = pos[d] + 1
    <3>1. Slot(pos[d]) # Slot(t)
      BY <2>2, <1>0, <1>1 DEF TypeOK
    <3> QED BY <2>2, <3>1, <1>2
  <2>3. ASSUME NEW d \in Consumers, pc'[d] \in PopPc PROVE d # c
    BY <2>3, <1>4 DEF PopPc
  <2> QED BY <2>1, <2>2, <2>3, <1>2, <1>4 DEF Inv, PositionsBehind
<1>7. WriterHolds'
  <2>1. ASSUME NEW p \in Producers, Writing(p)
        PROVE  pos[p] \in LastLap /\ pos[p] # t
    BY <2>1, <1>1, HolderAlone DEF Inv, WriterHolds
  <2> QED BY <2>1, <1>2, <1>3, <1>4 DEF Inv, WriterHolds
<1>8. ReaderHolds'
  <2>1. ASSUME NEW d \in Consumers, Reading(d), d # c
        PROVE  pos[d] \in LastLap /\ pos[d] # t
    BY <2>1, <1>e, <1>0 DEF Inv, ReaderHolds, TicketsDistinct
  <2> QED BY <2>1, <1>2, <1>3, <1>4 DEF Inv, ReaderHolds
<1>9. TicketsDistinct'
  BY <1>2, <1>4 DEF Inv, TicketsDistinct
<1>10. TicketStates'
  <2>1. TicketState(t)'
    BY <1>1, <1>2, <1>3 DEF TicketState
  <2>2. ASSUME NEW u \in LastLap, u # t PROVE TicketState(u)'
    <3>1. \A d \in Consumers : Reading(d) /\ pos[d] = u => Reading(d)'
      BY <2>2, <1>e, <1>4
    <3> QED BY <2>2, <3>1, <1>2, <1>3, <1>4 DEF Inv, TicketStates, TicketState
  <2> QED BY <2>1, <2>2, <1>2 DEF TicketStates
<1>11. UntouchedSlots'
  BY <1>2, <1>3 DEF Inv, UntouchedSlots
<1>12. AllQuietOnceDestroyed'
  BY <1>0, <1>2 DEF AllQuietOnceDestroyed
<1> QED BY <1>5, <1>6, <1>7, <1>8, <1>9, <1>10, <1>11, <1>12 DEF Inv

\* The destructor: nobody is in a call, so every slot is raw afterwards.
LEMMA DestroyStep ==
  ASSUME Inv, TypeOK', Destroy
  PROVE  Inv'
<1>0. /\ TypeOK /\ \A t \in Threads : pc[t] = "idle"
  BY DEF Inv, Destroy
<1>1. /\ UNCHANGED <<enqueuePos, dequeuePos, sequence, pc, pos, arg, value, log>>
      /\ destroyed'
      /\ Queued' = Queued /\ LastLap' = LastLap
  BY DEF Destroy, counters, caller, results, Queued, LastLap
<1>2. /\ \A p \in Producers : ~Writing(p) /\ ~Writing(p)'
      /\ \A c \in Consumers : ~Reading(c) /\ ~Reading(c)'
  BY <1>0, <1>1 DEF Writing, Reading, Threads
<1>3. \A i \in Slots : storage'[i] = NoItem
  <2>1. ASSUME NEW i \in Slots, i < enqueuePos, ~ \E t \in Queued : Slot(t) = i
        PROVE  storage[i] = NoItem
    <3>1. PICK t \in LastLap : Slot(t) = i
      BY <2>1 DEF Inv, SlotsCovered
    <3>2. TicketState(t) /\ t \notin Queued
      BY <2>1, <3>1 DEF Inv, TicketStates
    <3> QED BY <3>1, <3>2, <1>2 DEF TicketState
  <2>2. ASSUME NEW i \in Slots, ~ (i < enqueuePos) PROVE storage[i] = NoItem
    BY <2>2, <1>0 DEF Inv, UntouchedSlots, Slots, TypeOK
  <2> QED BY <2>1, <2>2 DEF Destroy
<1>4. CountersOrdered' /\ SlotsCovered'
  BY <1>1 DEF Inv, CountersOrdered, SlotsCovered
<1>5. PositionsBehind'
  BY <1>0, <1>1 DEF PositionsBehind, PushPc, PopPc, Threads
<1>6. WriterHolds' /\ ReaderHolds' /\ TicketsDistinct'
  BY <1>2 DEF WriterHolds, ReaderHolds, TicketsDistinct
<1>7. TicketStates'
  <2>1. ASSUME NEW t \in LastLap PROVE TicketState(t)'
    <3>1. Slot(t) \in Slots
      BY HolderAlone
    <3>2. TicketState(t)
      BY DEF Inv, TicketStates
    <3> QED BY <3>1, <3>2, <1>1, <1>2, <1>3 DEF TicketState
  <2> QED BY <2>1, <1>1 DEF TicketStates
<1>8. UntouchedSlots' /\ AllQuietOnceDestroyed'
  BY <1>0, <1>1, <1>3 DEF Inv, UntouchedSlots, AllQuietOnceDestroyed
<1> QED BY <1>4, <1>5, <1>6, <1>7, <1>8 DEF Inv

\* A stuttering step.
LEMMA StutterStep ==
  ASSUME Inv, UNCHANGED vars
  PROVE  Inv'
<1>1. /\ UNCHANGED <<enqueuePos, dequeuePos, sequence, storage, destroyed, pc, pos, pushes,
                     arg, value, sizeSeen, log>>
  BY DEF vars, counters, slots, caller, results
<1> QED BY <1>1 DEF Inv, TypeOK, CountersOrdered, PositionsBehind, WriterHolds, ReaderHolds,
              TicketsDistinct, TicketStates, TicketState, UntouchedSlots, SlotsCovered,
              AllQuietOnceDestroyed, Writing, Reading, Queued, LastLap

\* The invariant holds of a newly constructed queue.
LEMMA InitInv ==
  ASSUME Init, TypeOK
  PROVE  Inv
<1>1. Queued = {} /\ LastLap = {}
  BY CapacityAssumption DEF Init, Queued, LastLap
<1>2. \A t \in Threads : pc[t] = "idle"
  BY DEF Init
<1>3. CountersOrdered
  BY CapacityAssumption DEF Init, CountersOrdered
<1>4. PositionsBehind
  BY <1>2 DEF PositionsBehind, PushPc, PopPc, Threads
<1>5. WriterHolds /\ ReaderHolds /\ TicketsDistinct
  BY <1>2 DEF WriterHolds, ReaderHolds, TicketsDistinct, Writing, Reading, Threads
<1>6. TicketStates /\ UntouchedSlots /\ AllQuietOnceDestroyed
  BY <1>1 DEF TicketStates, Init, UntouchedSlots, AllQuietOnceDestroyed
<1>7. SlotsCovered
  BY DEF Init, SlotsCovered, Slots
<1> QED BY <1>3, <1>4, <1>5, <1>6, <1>7 DEF Inv

\* The steps of emplace that own no slot: loads of the counter and of a
\* sequence, refusals and failed CASes.
LEMMA PushLocalStep ==
  ASSUME Inv, TypeOK', NEW p \in Producers,
         \/ PushBegin(p) \/ PushSlotReady(p) \/ PushFull(p) \/ PushBehind(p)
         \/ PushReload(p) \/ PushClaimFails(p)
  PROVE  Inv'
<1>0. TypeOK /\ p \in Threads
  BY DEF Inv, Threads
<1>1. /\ UNCHANGED <<enqueuePos, dequeuePos, sequence, storage, destroyed, log, value>>
      /\ \A u \in Threads \ {p} : pc'[u] = pc[u] /\ pos'[u] = pos[u]
      /\ \A q \in Producers \ {p} : arg'[q] = arg[q]
  BY <1>0 DEF PushBegin, PushSlotReady, PushFull, PushBehind, PushReload, PushClaimFails,
              Goto, counters, slots, caller, results, TypeOK
<1>2. ~Owns(p) /\ ~Owns(p)' /\ ~destroyed
  BY <1>0 DEF PushBegin, PushSlotReady, PushFull, PushBehind, PushReload, PushClaimFails,
              Goto, Owns, TypeOK, Inv, AllQuietOnceDestroyed
<1>3. PositionsBehind'
  <2>1. ASSUME pc'[p] \in PushPc
        PROVE  /\ pos'[p] <= enqueuePos
               /\ pc'[p] = "push_claim" => sequence[Slot(pos'[p])] = pos'[p]
    BY <2>1, <1>0 DEF Inv, PositionsBehind, PushBegin, PushSlotReady, PushFull, PushBehind,
              PushReload, PushClaimFails, Goto, TypeOK, PushPc
  <2>2. \A q \in Producers : q # p => pc'[q] = pc[q] /\ pos'[q] = pos[q]
    BY <1>1 DEF Threads
  <2>3. \A c \in Consumers : pc'[c] = pc[c] /\ pos'[c] = pos[c]
    BY <1>1, ThreadsAssumption DEF Threads
  <2> QED BY <2>1, <2>2, <2>3, <1>1 DEF Inv, PositionsBehind
<1> QED BY <1>0, <1>1, <1>2, <1>3, LocalStep

\* Their mirror images in pop.
LEMMA PopLocalStep ==
  ASSUME Inv, TypeOK', NEW c \in Consumers,
         \/ PopBegin(c) \/ PopSlotReady(c) \/ PopEmpty(c) \/ PopBehind(c)
         \/ PopReload(c) \/ PopClaimFails(c)
  PROVE  Inv'
<1>0. TypeOK /\ c \in Threads
  BY DEF Inv, Threads
<1>1. /\ UNCHANGED <<enqueuePos, dequeuePos, sequence, storage, destroyed, log, value, arg>>
      /\ \A u \in Threads \ {c} : pc'[u] = pc[u] /\ pos'[u] = pos[u]
  BY <1>0 DEF PopBegin, PopSlotReady, PopEmpty, PopBehind, PopReload, PopClaimFails,
              Goto, counters, slots, caller, results, TypeOK
<1>2. ~Owns(c) /\ ~Owns(c)' /\ ~destroyed
  BY <1>0 DEF PopBegin, PopSlotReady, PopEmpty, PopBehind, PopReload, PopClaimFails,
              Goto, Owns, TypeOK, Inv, AllQuietOnceDestroyed
<1>3. PositionsBehind'
  <2>1. ASSUME pc'[c] \in PopPc
        PROVE  /\ pos'[c] <= dequeuePos
               /\ pc'[c] = "pop_claim" => sequence[Slot(pos'[c])] = pos'[c] + 1
    BY <2>1, <1>0 DEF Inv, PositionsBehind, PopBegin, PopSlotReady, PopEmpty, PopBehind,
              PopReload, PopClaimFails, Goto, TypeOK, PopPc
  <2>2. \A d \in Consumers : d # c => pc'[d] = pc[d] /\ pos'[d] = pos[d]
    BY <1>1 DEF Threads
  <2>3. \A p \in Producers : pc'[p] = pc[p] /\ pos'[p] = pos[p]
    BY <1>1, ThreadsAssumption DEF Threads
  <2> QED BY <2>1, <2>2, <2>3, <1>1 DEF Inv, PositionsBehind
<1> QED BY <1>0, <1>1, <1>2, <1>3, LocalStep

\* The two loads of size_approx.
LEMMA SizeLocalStep ==
  ASSUME Inv, TypeOK', NEW o \in Observers, SizeStep(o)
  PROVE  Inv'
<1>0. TypeOK /\ o \in Threads
  BY DEF Inv, Threads
<1>1. /\ UNCHANGED <<enqueuePos, dequeuePos, sequence, storage, destroyed, log, value, arg>>
      /\ \A u \in Threads \ {o} : pc'[u] = pc[u] /\ pos'[u] = pos[u]
  BY <1>0 DEF SizeStep, SizeHeadFirst, SizeTailLast, SizeTailFirst, SizeHeadLast, Goto, counters, slots, caller, results, TypeOK
<1>2. ~Owns(o) /\ ~Owns(o)' /\ ~destroyed
  BY <1>0 DEF SizeStep, SizeHeadFirst, SizeTailLast, SizeTailFirst, SizeHeadLast, Goto, Owns, TypeOK, Inv, AllQuietOnceDestroyed
<1>3. PositionsBehind'
  <2>1. \A u \in Producers \cup Consumers : pc'[u] = pc[u] /\ pos'[u] = pos[u]
    BY <1>1, ThreadsAssumption DEF Threads
  <2> QED BY <2>1, <1>1 DEF Inv, PositionsBehind
<1> QED BY <1>0, <1>1, <1>2, <1>3, LocalStep

\* The handshake on `sequence' keeps the invariant, whatever the capacity and the
\* threads: emplace, pop, size_approx and the destructor all preserve it.
THEOREM InvariantHolds == Spec => []Inv
<1>1. Init /\ TypeOK => Inv
  BY InitInv
<1>2. Inv /\ TypeOK' /\ [Next]_vars => Inv'
  BY PushLocalStep, PushClaimStep, PushConstructStep, PushPublishStep, PopLocalStep,
     PopClaimStep, PopTakeStep, PopReleaseStep, SizeLocalStep, DestroyStep, StutterStep
  DEF Next, PushStep, PopStep, Gone
<1> QED BY <1>1, <1>2, TypeCorrect, PTL DEF Spec

-----------------------------------------------------------------------------
(***************************************************************************)
(* What follows from the invariant.                                        *)
(***************************************************************************)

\* No two threads touch the storage of one slot at the same time.
THEOREM SlotsExclusive == Spec => []SlotExclusive
<1>1. Inv => SlotExclusive
  <2> SUFFICES ASSUME Inv, NEW t \in Threads, NEW u \in Threads, t # u, Owns(t), Owns(u),
                      Slot(pos[t]) = Slot(pos[u])
               PROVE  FALSE
    BY DEF SlotExclusive
  <2>0. TypeOK /\ CountersOrdered
    BY DEF Inv
  <2>1. ASSUME NEW v \in Threads, Owns(v)
        PROVE  (v \in Producers /\ Writing(v)) \/ (v \in Consumers /\ Reading(v))
    <3>1. CASE v \in Producers
      BY <3>1, <2>0, <2>1 DEF Owns, Writing, TypeOK, PushPc
    <3>2. CASE v \in Consumers
      BY <3>2, <2>0, <2>1 DEF Owns, Reading, TypeOK, PopPc
    <3>3. CASE v \in Observers
      BY <3>3, <2>0, <2>1 DEF Owns, TypeOK, SizePc
    <3> QED BY <3>1, <3>2, <3>3 DEF Threads
  <2>2. pos[t] \in LastLap /\ pos[u] \in LastLap
    BY <2>0, <2>1, QueuedInLastLap DEF Inv, WriterHolds, ReaderHolds
  <2>3. pos[t] = pos[u]
    BY <2>2, HolderAlone
  <2>4. pos[t] \in Nat
    BY <2>2, HolderAlone
  <2> QED BY <2>1, <2>3, <2>4 DEF Inv, WriterHolds, ReaderHolds, TicketsDistinct
<1> QED BY <1>1, InvariantHolds, PTL

\* Elements are constructed on raw storage and moved out of living elements.
THEOREM StorageDisciplined == Spec => []StorageDiscipline
<1>1. Inv => StorageDiscipline
  <2> SUFFICES ASSUME Inv PROVE StorageDiscipline
    OBVIOUS
  <2>1. ASSUME NEW p \in Producers, pc[p] = "push_construct"
        PROVE  storage[Slot(pos[p])] = NoItem
    BY <2>1 DEF Inv, WriterHolds, Writing
  <2>2. ASSUME NEW c \in Consumers, pc[c] = "pop_take"
        PROVE  storage[Slot(pos[c])] # NoItem
    <3>1. pos[c] \in LastLap /\ storage[Slot(pos[c])] = log[pos[c] + 1]
      BY <2>2 DEF Inv, ReaderHolds, Reading
    <3>2. pos[c] + 1 \in 1..Len(log) /\ log \in Seq(Item)
      BY <3>1 DEF Inv, TypeOK, CountersOrdered, LastLap
    <3>3. log[pos[c] + 1] \in Item
      BY <3>2
    <3> QED BY <3>1, <3>3, NoItemAssumption
  <2> QED BY <2>1, <2>2 DEF StorageDiscipline
<1> QED BY <1>1, InvariantHolds, PTL

\* The destructor leaves no element alive.
THEOREM NothingLeaks == Spec => []NoLeak
<1>1. Inv => NoLeak
  BY DEF Inv, AllQuietOnceDestroyed, NoLeak
<1> QED BY <1>1, InvariantHolds, PTL

\* An observer between its two loads holds an enqueue position not too far ahead
\* of the dequeue position, or a dequeue position that it has not been passed by.
FirstLoadBehind ==
  \A o \in Observers :
    /\ pc[o] = "size_tail" => pos[o] <= dequeuePos + N
    /\ pc[o] = "size_head" => pos[o] <= dequeuePos

\* A step that neither moves an observer nor takes the dequeue position back
\* keeps the observers' first loads in place.
LEMMA FirstLoadKept ==
  ASSUME TypeOK, TypeOK', FirstLoadBehind, dequeuePos' >= dequeuePos,
         \A o \in Observers : pc'[o] = pc[o] /\ pos'[o] = pos[o]
  PROVE  FirstLoadBehind'
<1> SUFFICES ASSUME NEW o \in Observers
             PROVE  /\ pc'[o] = "size_tail" => pos'[o] <= dequeuePos' + N
                    /\ pc'[o] = "size_head" => pos'[o] <= dequeuePos'
  BY DEF FirstLoadBehind
<1>1. pos[o] \in Nat /\ dequeuePos \in Nat /\ dequeuePos' \in Nat
  BY DEF TypeOK, Threads
<1> QED BY <1>1, CapacityAssumption DEF FirstLoadBehind

\* How far apart size_approx sees the counters, over all interleavings of its
\* two loads with pushes and pops.
THEOREM SizeBounded == Spec => SizeApproxBounded
<1>1. Init => FirstLoadBehind
  BY DEF Init, FirstLoadBehind, Threads
<1>2. Inv /\ TypeOK' /\ FirstLoadBehind /\ [Next]_vars => FirstLoadBehind'
  <2> SUFFICES ASSUME Inv, TypeOK', FirstLoadBehind, [Next]_vars PROVE FirstLoadBehind'
    OBVIOUS
  <2>0. TypeOK /\ CountersOrdered
    BY DEF Inv
  <2>1. ASSUME NEW o \in Observers, SizeStep(o) PROVE FirstLoadBehind'
    <3>1. /\ o \in Threads /\ UNCHANGED dequeuePos
          /\ \A q \in Observers \ {o} : pc'[q] = pc[q] /\ pos'[q] = pos[q]
      BY <2>1, <2>0
      DEF SizeStep, SizeHeadFirst, SizeTailLast, SizeTailFirst, SizeHeadLast, Goto, counters,
          TypeOK, Threads
    <3>2. /\ pc'[o] = "size_tail" => pos'[o] <= dequeuePos + N
          /\ pc'[o] = "size_head" => pos'[o] <= dequeuePos
      BY <2>1, <2>0, <3>1
      DEF SizeStep, SizeHeadFirst, SizeTailLast, SizeTailFirst, SizeHeadLast, Goto,
          CountersOrdered, TypeOK
    <3> QED BY <3>1, <3>2 DEF FirstLoadBehind
  <2>2. ASSUME NEW p \in Producers, PushBegin(p) \/ PushStep(p) PROVE FirstLoadBehind'
    <3>1. /\ UNCHANGED dequeuePos
          /\ \A o \in Observers : pc'[o] = pc[o] /\ pos'[o] = pos[o]
      BY <2>2, <2>0, ThreadsAssumption
      DEF PushBegin, PushStep, PushSlotReady, PushFull, PushBehind, PushReload, PushClaim,
          PushClaimFails, PushConstruct, PushPublish, Goto, counters, TypeOK, Threads
    <3> QED BY <3>1, <2>0, FirstLoadKept DEF TypeOK
  <2>3. ASSUME NEW c \in Consumers, PopBegin(c) \/ PopStep(c) PROVE FirstLoadBehind'
    <3>1. /\ \A o \in Observers : pc'[o] = pc[o] /\ pos'[o] = pos[o]
          /\ dequeuePos' = dequeuePos \/ dequeuePos' = dequeuePos + 1
      BY <2>3, <2>0, ThreadsAssumption
      DEF PopBegin, PopStep, PopSlotReady, PopEmpty, PopBehind, PopReload, PopClaim,
          PopClaimFails, PopTake, PopRelease, Goto, counters, TypeOK, Threads
    <3> QED BY <3>1, <2>0, FirstLoadKept DEF TypeOK
  <2>4. ASSUME Destroy \/ UNCHANGED vars PROVE FirstLoadBehind'
    <3>1. UNCHANGED <<dequeuePos, pc, pos>>
      BY <2>4 DEF Destroy, vars, counters
    <3> QED BY <3>1, <2>0, FirstLoadKept DEF TypeOK
  <2> QED BY <2>1, <2>2, <2>3, <2>4 DEF Next, Gone
<1> DEFINE Bounded == \A o \in Observers :
             /\ SizeTailLast(o) => sizeSeen'[o] <= N
             /\ SizeHeadLast(o) => sizeSeen'[o] <= N + (dequeuePos - pos[o])
<1>3. Inv /\ FirstLoadBehind /\ [Next]_vars => [Bounded]_vars
  <2> SUFFICES ASSUME Inv, FirstLoadBehind, NEW o \in Observers
               PROVE  /\ SizeTailLast(o) => sizeSeen'[o] <= N
                      /\ SizeHeadLast(o) => sizeSeen'[o] <= N + (dequeuePos - pos[o])
    OBVIOUS
  <2>1. /\ TypeOK /\ CountersOrdered
        /\ pos[o] \in Nat /\ dequeuePos \in Nat /\ enqueuePos \in Nat
    BY DEF Inv, TypeOK, Threads
  <2>2. ASSUME SizeTailLast(o) PROVE sizeSeen'[o] <= N
    <3>1. sizeSeen'[o] = SizeOf(pos[o], dequeuePos) /\ pos[o] <= dequeuePos + N
      BY <2>1, <2>2 DEF SizeTailLast, FirstLoadBehind, TypeOK
    <3> QED BY <3>1, <2>1, CapacityAssumption DEF SizeOf
  <2>3. ASSUME SizeHeadLast(o) PROVE sizeSeen'[o] <= N + (dequeuePos - pos[o])
    <3>1. sizeSeen'[o] = SizeOf(enqueuePos, pos[o]) /\ pos[o] <= dequeuePos
      BY <2>1, <2>3 DEF SizeHeadLast, FirstLoadBehind, TypeOK
    <3>2. enqueuePos <= dequeuePos + N
      BY <2>1 DEF CountersOrdered
    <3> QED BY <3>1, <3>2, <2>1, CapacityAssumption DEF SizeOf
  <2> QED BY <2>2, <2>3
<1>4. Spec => []FirstLoadBehind
  BY <1>1, <1>2, TypeCorrect, InvariantHolds, PTL DEF Spec
<1> QED BY <1>3, <1>4, InvariantHolds, PTL DEF Spec, SizeApproxBounded

\* A push that reports `full' and a pop that reports `empty' have the reason
\* RefusalsJustified names.
THEOREM RefusalsAreJustified == Spec => RefusalsJustified
<1> DEFINE FullReason(p) == \/ pos[p] - N \in Queued
                            \/ \E c \in Consumers : Reading(c) /\ pos[c] = pos[p] - N
           EmptyReason(c) == \/ pos[c] = enqueuePos
                             \/ \E p \in Producers : Writing(p) /\ pos[p] = pos[c]
           Justified == /\ \A p \in Producers : PushFull(p) => FullReason(p)
                        /\ \A c \in Consumers : PopEmpty(c) => EmptyReason(c)
<1>1. ASSUME Inv, NEW t \in Nat, t < enqueuePos
      PROVE  \/ t \in LastLap /\ TicketState(t)
             \/ sequence[Slot(t)] >= t + 1
  <2>0. TypeOK /\ enqueuePos \in Nat
    BY <1>1 DEF Inv, TypeOK
  <2>1. CASE t \in LastLap
    BY <1>1, <2>1 DEF Inv, TicketStates
  <2>2. CASE t \notin LastLap
    <3>1. Slot(t) \in Slots /\ Slot(t) < enqueuePos
      BY <1>1, <2>0, SlotInRange, UsedSlot DEF Slots
    <3>2. PICK u \in LastLap : Slot(u) = Slot(t)
      BY <1>1, <3>1 DEF Inv, SlotsCovered
    <3>3. TicketState(u)
      BY <1>1, <3>2 DEF Inv, TicketStates
    <3>4. u \in Nat /\ u >= t + 1
      BY <1>1, <2>0, <2>2, CapacityAssumption DEF LastLap
    <3>5. sequence[Slot(t)] \in {u, u + 1, u + N}
      BY <3>2, <3>3 DEF TicketState
    <3> QED BY <3>4, <3>5, CapacityAssumption
  <2> QED BY <2>1, <2>2
<1>2. ASSUME Inv, NEW p \in Producers, PushFull(p)
      PROVE  FullReason(p)
  <2>e. PICK t \in Nat : t = pos[p]
    BY <1>2 DEF Inv, TypeOK, Threads
  <2>0. /\ TypeOK /\ enqueuePos \in Nat
        /\ t <= enqueuePos /\ sequence[Slot(t)] < t
    BY <1>2, <2>e DEF Inv, PositionsBehind, PushFull, PushPc, TypeOK
  <2>1. t = enqueuePos
    <3>1. SUFFICES ASSUME t < enqueuePos PROVE FALSE
      BY <2>0
    <3>2. sequence[Slot(t)] \in Nat
      BY <2>0, SlotInRange DEF TypeOK
    <3>3. TicketState(t)
      BY <1>1, <1>2, <3>1, <3>2, <2>0
    <3> QED BY <3>3, <2>0, CapacityAssumption DEF TicketState
  <2>2. ~ (t < N)
    <3>1. SUFFICES ASSUME t < N PROVE FALSE
      OBVIOUS
    <3>2. t \in Slots /\ Slot(t) = t
      BY <3>1, SlotFirstLap, CapacityAssumption DEF Slots
    <3> QED BY <1>2, <2>0, <2>1, <3>2 DEF Inv, UntouchedSlots
  <2>3. PICK u \in Nat : u = t - N
    BY <2>2, CapacityAssumption
  <2>4. u + N = t /\ u \in LastLap
    BY <2>1, <2>3, CapacityAssumption DEF LastLap
  <2>5. TicketState(u) /\ Slot(u) = Slot(t)
    BY <1>2, <2>4, SlotNextLap DEF Inv, TicketStates
  <2>6. u \in Queued \/ \E c \in Consumers : Reading(c) /\ pos[c] = u
    BY <2>0, <2>4, <2>5 DEF TicketState
  <2> QED BY <2>6, <2>3, <2>e
<1>3. ASSUME Inv, NEW c \in Consumers, PopEmpty(c)
      PROVE  EmptyReason(c)
  <2>e. PICK t \in Nat : t = pos[c]
    BY <1>3 DEF Inv, TypeOK, Threads
  <2>0. /\ TypeOK /\ enqueuePos \in Nat
        /\ t <= enqueuePos /\ sequence[Slot(t)] < t + 1
    BY <1>3, <2>e DEF Inv, PositionsBehind, CountersOrdered, PopEmpty, PopPc, TypeOK
  <2>1. ASSUME t # enqueuePos PROVE \E p \in Producers : Writing(p) /\ pos[p] = t
    <3>1. sequence[Slot(t)] \in Nat
      BY <2>0, SlotInRange DEF TypeOK
    <3>2. TicketState(t)
      BY <1>1, <1>3, <2>0, <2>1, <3>1
    <3> QED BY <3>2, <2>0, CapacityAssumption DEF TicketState
  <2> QED BY <2>1, <2>e
<1>4. Inv /\ [Next]_vars => [Justified]_vars
  BY <1>2, <1>3
<1> QED BY <1>4, InvariantHolds, PTL DEF Spec, RefusalsJustified

-----------------------------------------------------------------------------
(***************************************************************************)
(* The ring implements the bounded FIFO.                                   *)
(***************************************************************************)

\* A step that leaves the counters, the log and the consumers' items alone is
\* invisible to the FIFO.
LEMMA InvisibleStep ==
  ASSUME TypeOK, UNCHANGED <<enqueuePos, dequeuePos, destroyed, log>>,
         \A c \in Consumers : AbstractInHand'[c] = AbstractInHand[c]
  PROVE  UNCHANGED Fifo!fifoVars
<1>1. AbstractFifo' = AbstractFifo
  BY DEF AbstractFifo
<1>2. AbstractInHand' = AbstractInHand
  <2>1. /\ AbstractInHand = [c \in Consumers |-> AbstractInHand[c]]
        /\ AbstractInHand' = [c \in Consumers |-> AbstractInHand'[c]]
    BY Zenon DEF AbstractInHand
  <2> QED BY <2>1
<1> QED BY <1>1, <1>2 DEF Fifo!fifoVars

\* A producer's step does not touch what the consumers have in hand.
LEMMA ProducerKeepsInHand ==
  ASSUME Inv, NEW p \in Producers, PushBegin(p) \/ PushStep(p), NEW c \in Consumers
  PROVE  AbstractInHand'[c] = AbstractInHand[c]
<1>0. TypeOK /\ p \in Threads /\ c # p
  BY ThreadsAssumption DEF Inv, Threads
<1>1. pc'[c] = pc[c] /\ pos'[c] = pos[c] /\ value'[c] = value[c]
  <2>1. \E l \in {"idle"} \cup PushPc : pc' = [pc EXCEPT ![p] = l]
    BY DEF PushBegin, PushStep, PushSlotReady, PushFull, PushBehind, PushReload, PushClaim,
           PushClaimFails, PushConstruct, PushPublish, Goto, PushPc
  <2>2. pos' = pos \/ \E k \in Nat : pos' = [pos EXCEPT ![p] = k]
    BY <1>0 DEF PushBegin, PushStep, PushSlotReady, PushFull, PushBehind, PushReload, PushClaim,
           PushClaimFails, PushConstruct, PushPublish, TypeOK
  <2>3. value' = value
    BY DEF PushBegin, PushStep, PushSlotReady, PushFull, PushBehind, PushReload, PushClaim,
           PushClaimFails, PushConstruct, PushPublish, results
  <2>4. c \in Threads
    BY DEF Threads
  <2> QED BY <1>0, <2>1, <2>2, <2>3, <2>4 DEF TypeOK
<1>2. ASSUME pc[c] = "pop_take" PROVE storage'[Slot(pos[c])] = storage[Slot(pos[c])]
  <2>1. pos[c] \in LastLap /\ pos[c] \notin Queued
    BY <1>2 DEF Inv, ReaderHolds, Reading
  <2>2. CASE PushConstruct(p)
    <3>1. pos[p] \in Queued
      BY <2>2 DEF PushConstruct, Inv, WriterHolds, Writing
    <3>2. Slot(pos[c]) # Slot(pos[p])
      BY <2>1, <3>1, HolderAlone
    <3> QED BY <2>2, <3>2, <1>0 DEF PushConstruct, TypeOK
  <2>3. CASE ~PushConstruct(p)
    BY <2>3 DEF PushBegin, PushStep, PushSlotReady, PushFull, PushBehind, PushReload, PushClaim,
                PushClaimFails, PushPublish, slots
  <2> QED BY <2>2, <2>3
<1> QED BY <1>1, <1>2 DEF AbstractInHand

\* Extending a log extends its last part.
LEMMA AppendToSubSeq ==
  ASSUME NEW S, NEW l \in Seq(S), NEW x \in S, NEW m \in 1..(Len(l) + 1)
  PROVE  SubSeq(Append(l, x), m, Len(l) + 1) = Append(SubSeq(l, m, Len(l)), x)
<1> DEFINE n == Len(l)
           a == SubSeq(Append(l, x), m, n + 1)
           b == SubSeq(l, m, n)
<1>1. n \in Nat /\ Append(l, x) \in Seq(S) /\ Len(Append(l, x)) = n + 1
      /\ \A i \in 1..n : Append(l, x)[i] = l[i]
      /\ Append(l, x)[n + 1] = x
  BY AppendProperties
<1>2. /\ a \in Seq(S) /\ Len(a) = n + 2 - m
      /\ \A i \in 1..(n + 2 - m) : a[i] = Append(l, x)[m + i - 1]
  BY <1>1, SubSeqProperties
<1>3. /\ b \in Seq(S) /\ Len(b) = n + 1 - m
      /\ \A i \in 1..(n + 1 - m) : b[i] = l[m + i - 1]
  BY <1>1, SubSeqProperties
<1>4. /\ Append(b, x) \in Seq(S) /\ Len(Append(b, x)) = n + 2 - m
      /\ \A i \in 1..(n + 1 - m) : Append(b, x)[i] = b[i]
      /\ Append(b, x)[n + 2 - m] = x
  BY <1>1, <1>3, AppendProperties
<1>5. \A i \in 1..(n + 2 - m) : a[i] = Append(b, x)[i]
  <2>1. ASSUME NEW i \in 1..(n + 1 - m) PROVE a[i] = Append(b, x)[i]
    BY <2>1, <1>1, <1>2, <1>3, <1>4
  <2>2. a[n + 2 - m] = Append(b, x)[n + 2 - m]
    BY <1>1, <1>2, <1>4
  <2> QED BY <2>1, <2>2, <1>1
<1> QED BY <1>1, <1>2, <1>4, <1>5, SeqEqual

\* The ring implements the bounded FIFO: every step of emplace and pop is a step
\* of BoundedFifo or invisible to it.
THEOREM ImplementsFifo == Spec => RefinesFifo
<1>1. ASSUME Init PROVE Fifo!FifoInit
  <2>1. AbstractFifo = << >>
    BY <1>1 DEF Init, AbstractFifo
  <2>2. AbstractInHand = [c \in Consumers |-> NoItem]
    BY <1>1 DEF Init, AbstractInHand, Threads
  <2> QED BY <2>1, <2>2 DEF Fifo!FifoInit
<1>2. ASSUME Inv, Inv', [Next]_vars PROVE [Fifo!FifoNext]_(Fifo!fifoVars)
  <2>0. /\ TypeOK /\ TypeOK' /\ CountersOrdered /\ CountersOrdered'
        /\ enqueuePos \in Nat /\ dequeuePos \in Nat
    BY <1>2 DEF Inv, TypeOK
  <2>1. ASSUME NEW p \in Producers, PushClaim(p) PROVE Fifo!Enqueue(arg[p])
    <3>1. \A c \in Consumers : AbstractInHand'[c] = AbstractInHand[c]
      BY <1>2, <2>1, ProducerKeepsInHand DEF PushStep
    <3>2. AbstractInHand' = AbstractInHand
      <4>1. /\ AbstractInHand = [c \in Consumers |-> AbstractInHand[c]]
            /\ AbstractInHand' = [c \in Consumers |-> AbstractInHand'[c]]
        BY Zenon DEF AbstractInHand
      <4> QED BY <3>1, <4>1
    <3>3. /\ enqueuePos' = enqueuePos + 1 /\ dequeuePos' = dequeuePos
          /\ ~destroyed /\ ~destroyed' /\ arg[p] \in Item
          /\ log' = Append(log, arg[p]) /\ Len(log) = enqueuePos /\ log \in Seq(Item)
      BY <1>2, <2>0, <2>1 DEF PushClaim, CountersOrdered, TypeOK, Inv, AllQuietOnceDestroyed, Threads
    <3>4. AbstractFifo = SubSeq(log, dequeuePos + 1, Len(log))
      BY <3>3 DEF AbstractFifo
    <3>5. Len(AbstractFifo) < N
      <4>1. enqueuePos + 1 <= dequeuePos + N /\ dequeuePos <= enqueuePos
        BY <2>0, <3>3 DEF CountersOrdered
      <4>2. Len(AbstractFifo) = enqueuePos - dequeuePos
        BY <2>0, <3>3, <3>4, <4>1
      <4> QED BY <2>0, <4>1, <4>2, CapacityAssumption
    <3>6. AbstractFifo' = Append(AbstractFifo, arg[p])
      <4>1. AbstractFifo' = SubSeq(log', dequeuePos + 1, enqueuePos + 1)
        BY <3>3 DEF AbstractFifo
      <4>2. dequeuePos + 1 \in 1..(Len(log) + 1)
        BY <2>0, <3>3 DEF CountersOrdered
      <4> QED BY <3>3, <3>4, <4>1, <4>2, AppendToSubSeq
    <3> QED BY <3>2, <3>5, <3>6 DEF Fifo!Enqueue
  <2>2. ASSUME NEW c \in Consumers, PopClaim(c) PROVE Fifo!Dequeue(c)
    <3> DEFINE d == dequeuePos
    <3>1. /\ dequeuePos' = dequeuePos + 1 /\ pos[c] = dequeuePos
          /\ UNCHANGED <<enqueuePos, log, storage, destroyed, pos, value>>
          /\ pc' = [pc EXCEPT ![c] = "pop_take"] /\ pc[c] = "pop_claim"
          /\ c \in Threads /\ ~destroyed
      BY <1>2, <2>2 DEF PopClaim, Goto, slots, results, Inv, AllQuietOnceDestroyed, Threads
    <3>2. /\ pos[c] \notin Queued' /\ pos[c] < enqueuePos
          /\ storage[Slot(pos[c])] = log[dequeuePos + 1]
      <4>1. Reading(c)' /\ pc'[c] = "pop_take"
        BY <2>0, <3>1 DEF Reading, TypeOK
      <4>2. pos'[c] \in LastLap' \ Queued' /\ storage'[Slot(pos'[c])] = log'[pos'[c] + 1]
        BY <1>2, <4>1 DEF Inv, ReaderHolds
      <4> QED BY <2>0, <3>1, <4>2 DEF LastLap
    <3>3. /\ AbstractFifo # << >> /\ Head(AbstractFifo) = log[dequeuePos + 1]
          /\ Tail(AbstractFifo) = SubSeq(log, dequeuePos + 2, enqueuePos)
      <4>1. /\ log \in Seq(Item) /\ Len(log) = enqueuePos
            /\ dequeuePos + 1 \in 1..Len(log) /\ enqueuePos \in (dequeuePos + 1)..Len(log)
        BY <2>0, <3>1, <3>2 DEF CountersOrdered, TypeOK
      <4>2. AbstractFifo = SubSeq(log, dequeuePos + 1, enqueuePos)
        BY <3>1 DEF AbstractFifo
      <4>3. Len(AbstractFifo) > 0
        BY <2>0, <4>1, <4>2
      <4>4. AbstractFifo # << >>
        BY <4>3
      <4>5. dequeuePos + 1 + 1 = dequeuePos + 2
        BY <2>0
      <4> QED BY <4>1, <4>2, <4>4, <4>5, HeadTailOfSubSeq
    <3>4. AbstractInHand' = [AbstractInHand EXCEPT ![c] = log[dequeuePos + 1]]
      <4>1. AbstractInHand'[c] = log[dequeuePos + 1] /\ AbstractInHand[c] = NoItem
        BY <2>0, <3>1, <3>2 DEF AbstractInHand, TypeOK
      <4>2. \A e \in Consumers : e # c => AbstractInHand'[e] = AbstractInHand[e]
        BY <2>0, <3>1 DEF AbstractInHand, TypeOK, Threads
      <4>3. /\ AbstractInHand = [e \in Consumers |-> AbstractInHand[e]]
            /\ AbstractInHand' = [e \in Consumers |-> AbstractInHand'[e]]
        BY Zenon DEF AbstractInHand
      <4> QED BY <4>1, <4>2, <4>3
    <3>5. AbstractInHand[c] = NoItem
      BY <3>1 DEF AbstractInHand
    <3>6. AbstractFifo' = Tail(AbstractFifo)
      <4>1. AbstractFifo' = SubSeq(log, dequeuePos + 1 + 1, enqueuePos)
        BY <3>1 DEF AbstractFifo
      <4>2. dequeuePos + 1 + 1 = dequeuePos + 2
        BY <2>0
      <4> QED BY <3>3, <4>1, <4>2
    <3> QED BY <3>3, <3>4, <3>5, <3>6 DEF Fifo!Dequeue
  <2>3. ASSUME NEW c \in Consumers, PopTake(c) PROVE UNCHANGED Fifo!fifoVars
    <3>1. /\ UNCHANGED <<enqueuePos, dequeuePos, destroyed, log, pos>>
          /\ pc' = [pc EXCEPT ![c] = "pop_release"] /\ pc[c] = "pop_take"
          /\ value' = [value EXCEPT ![c] = storage[Slot(pos[c])]]
          /\ storage' = [storage EXCEPT ![Slot(pos[c])] = NoItem]
          /\ c \in Threads
      BY <2>3 DEF PopTake, Goto, counters, Threads
    <3>2. AbstractInHand'[c] = AbstractInHand[c]
      BY <2>0, <3>1 DEF AbstractInHand, TypeOK
    <3>3. ASSUME NEW d \in Consumers, d # c PROVE AbstractInHand'[d] = AbstractInHand[d]
      <4>1. d \in Threads /\ pc'[d] = pc[d] /\ value'[d] = value[d]
        BY <2>0, <3>1, <3>3 DEF TypeOK, Threads
      <4>2. ASSUME pc[d] = "pop_take" PROVE storage'[Slot(pos[d])] = storage[Slot(pos[d])]
        <5>1. Reading(c) /\ Reading(d)
          BY <3>1, <4>2 DEF Reading
        <5>2. Owns(c) /\ Owns(d)
          BY <3>1, <4>2 DEF Owns
        <5>3. pos[c] \in LastLap /\ pos[d] \in LastLap /\ pos[c] # pos[d]
          BY <1>2, <3>3, <5>1 DEF Inv, ReaderHolds, TicketsDistinct
        <5>4. Slot(pos[c]) # Slot(pos[d])
          BY <1>2, <5>3, HolderAlone
        <5> QED BY <2>0, <3>1, <5>4 DEF TypeOK
      <4> QED BY <3>1, <4>1, <4>2 DEF AbstractInHand
    <3>4. \A d \in Consumers : AbstractInHand'[d] = AbstractInHand[d]
      BY <3>2, <3>3
    <3> QED BY <2>0, <3>1, <3>4, InvisibleStep
  <2>4. ASSUME NEW c \in Consumers, PopRelease(c) PROVE Fifo!Deliver(c)
    <3>1. /\ UNCHANGED <<enqueuePos, dequeuePos, destroyed, log, pos, storage, value>>
          /\ pc' = [pc EXCEPT ![c] = "idle"] /\ pc[c] = "pop_release" /\ c \in Threads
      BY <2>4 DEF PopRelease, Goto, counters, results, Threads
    <3>2. value[c] \in Item
      <4>1. value[c] = log[pos[c] + 1] /\ pos[c] + 1 \in 1..Len(log)
        BY <1>2, <2>0, <3>1 DEF Inv, ReaderHolds, Reading, LastLap, CountersOrdered
      <4> QED BY <2>0, <4>1 DEF TypeOK
    <3>3. AbstractInHand[c] # NoItem
      BY <3>1, <3>2, NoItemAssumption DEF AbstractInHand
    <3>4. AbstractInHand' = [AbstractInHand EXCEPT ![c] = NoItem]
      <4>1. AbstractInHand'[c] = NoItem
        BY <2>0, <3>1 DEF AbstractInHand, TypeOK
      <4>2. \A d \in Consumers : d # c => AbstractInHand'[d] = AbstractInHand[d]
        BY <2>0, <3>1 DEF AbstractInHand, TypeOK, Threads
      <4>3. /\ AbstractInHand = [e \in Consumers |-> AbstractInHand[e]]
            /\ AbstractInHand' = [e \in Consumers |-> AbstractInHand'[e]]
        BY Zenon DEF AbstractInHand
      <4> QED BY <4>1, <4>2, <4>3
    <3>5. AbstractFifo' = AbstractFifo
      BY <3>1 DEF AbstractFifo
    <3> QED BY <3>3, <3>4, <3>5 DEF Fifo!Deliver
  <2>5. ASSUME NEW p \in Producers, PushBegin(p) \/ PushStep(p), ~PushClaim(p)
        PROVE  UNCHANGED Fifo!fifoVars
    <3>1. UNCHANGED <<enqueuePos, dequeuePos, destroyed, log>>
      BY <2>5 DEF PushBegin, PushStep, PushSlotReady, PushFull, PushBehind, PushReload,
                  PushClaimFails, PushConstruct, PushPublish, counters
    <3>2. \A c \in Consumers : AbstractInHand'[c] = AbstractInHand[c]
      BY <1>2, <2>5, ProducerKeepsInHand
    <3> QED BY <2>0, <3>1, <3>2, InvisibleStep
  <2>6. ASSUME NEW c \in Consumers,
               \/ PopBegin(c) \/ PopSlotReady(c) \/ PopEmpty(c) \/ PopBehind(c)
               \/ PopReload(c) \/ PopClaimFails(c)
        PROVE  UNCHANGED Fifo!fifoVars
    <3>1. /\ UNCHANGED <<enqueuePos, dequeuePos, destroyed, log, storage, value>>
          /\ pc[c] \notin {"pop_take", "pop_release"}
      BY <2>6 DEF PopBegin, PopSlotReady, PopEmpty, PopBehind, PopReload, PopClaimFails,
                  counters, slots, results
    <3>2. \E l \in {"idle", "pop_load", "pop_claim", "pop_reload"} : pc' = [pc EXCEPT ![c] = l]
      BY <2>6 DEF PopBegin, PopSlotReady, PopEmpty, PopBehind, PopReload, PopClaimFails, Goto
    <3>3. pos' = pos \/ \E k \in Nat : pos' = [pos EXCEPT ![c] = k]
      BY <2>0, <2>6 DEF PopBegin, PopSlotReady, PopEmpty, PopBehind, PopReload, PopClaimFails
    <3>4. \A d \in Consumers : AbstractInHand'[d] = AbstractInHand[d]
      <4>1. c \in Threads /\ pc'[c] \notin {"pop_take", "pop_release"}
        BY <2>0, <3>2 DEF TypeOK, Threads
      <4>2. \A d \in Consumers : d # c => pc'[d] = pc[d] /\ pos'[d] = pos[d]
        BY <2>0, <3>2, <3>3 DEF TypeOK, Threads
      <4> QED BY <3>1, <4>1, <4>2 DEF AbstractInHand
    <3> QED BY <2>0, <3>1, <3>4, InvisibleStep
  <2>7. ASSUME NEW o \in Observers, SizeStep(o)
        PROVE  UNCHANGED Fifo!fifoVars
    <3>1. UNCHANGED <<enqueuePos, dequeuePos, destroyed, log, storage, value>>
      BY <2>7 DEF SizeStep, SizeHeadFirst, SizeTailLast, SizeTailFirst, SizeHeadLast, counters, slots, results
    <3>2. \A d \in Consumers : pc'[d] = pc[d] /\ pos'[d] = pos[d]
      BY <2>0, <2>7, ThreadsAssumption DEF SizeStep, SizeHeadFirst, SizeTailLast, SizeTailFirst, SizeHeadLast, Goto, TypeOK, Threads
    <3>3. \A d \in Consumers : AbstractInHand'[d] = AbstractInHand[d]
      BY <3>1, <3>2 DEF AbstractInHand
    <3> QED BY <2>0, <3>1, <3>3, InvisibleStep
  <2>8. ASSUME Destroy PROVE Fifo!Discard
    <3>1. \A c \in Consumers : pc[c] = "idle" /\ pc'[c] = "idle"
      BY <2>8 DEF Destroy, Threads
    <3>2. AbstractInHand = [c \in Consumers |-> NoItem] /\ AbstractInHand' = AbstractInHand
      BY <3>1 DEF AbstractInHand
    <3>3. AbstractFifo' = << >>
      BY <2>8 DEF Destroy, AbstractFifo
    <3> QED BY <3>2, <3>3 DEF Fifo!Discard
  <2>9. ASSUME UNCHANGED vars PROVE UNCHANGED Fifo!fifoVars
    <3>1. UNCHANGED <<enqueuePos, dequeuePos, destroyed, log, storage, value, pc, pos>>
      BY <2>9 DEF vars, counters, slots, results
    <3>2. \A d \in Consumers : AbstractInHand'[d] = AbstractInHand[d]
      BY <3>1 DEF AbstractInHand
    <3> QED BY <2>0, <3>1, <3>2, InvisibleStep
  <2>10. ASSUME NEW p \in Producers, PushBegin(p) \/ PushStep(p)
         PROVE  [Fifo!FifoNext]_(Fifo!fifoVars)
    <3>1. CASE PushClaim(p)
      <4>1. arg[p] \in Item
        BY <2>0, <3>1 DEF PushClaim, TypeOK
      <4> QED BY <2>1, <3>1, <4>1 DEF Fifo!FifoNext
    <3> QED BY <2>5, <2>10, <3>1
  <2>11. ASSUME NEW c \in Consumers, PopBegin(c) \/ PopStep(c)
         PROVE  [Fifo!FifoNext]_(Fifo!fifoVars)
    BY <2>2, <2>3, <2>4, <2>6, <2>11 DEF PopStep, Fifo!FifoNext
  <2> QED BY <1>2, <2>7, <2>8, <2>9, <2>10, <2>11 DEF Next, Gone, Fifo!FifoNext
<1> QED BY <1>1, <1>2, InvariantHolds, PTL DEF Spec, RefinesFifo, Fifo!FifoSpec

-----------------------------------------------------------------------------
(***************************************************************************)
(* The ring for one consumer (MpscQueue), under the names that MCQueues    *)
(* gives its variables.  Its slots are described through the N tickets     *)
(* from the first one whose slot was not given back: those below `tail'    *)
(* are held by an item or by the producer that writes it, the others are   *)
(* open.                                                                   *)
(***************************************************************************)

\* The consumer that is past Reopen has given its slot back, and m_head is late.
Late == \E c \in Consumers : at[c] = "pop_advance"
Oldest == IF Late THEN head + 1 ELSE head

Held == Oldest..(tail - 1)
Open == tail..(Oldest + N - 1)

Filling(p) == at[p] \in {"push_construct", "push_publish"}

MpscTypes ==
  /\ tail \in Nat /\ head \in Nat
  /\ slotSequence \in [Slots -> Nat]
  /\ slotStorage \in [Slots -> Item \cup {NoItem}]
  /\ gone \in BOOLEAN
  /\ at \in [Threads -> {"idle", "pop_take", "pop_release", "pop_advance", "size_head"} \cup PushPc]
  /\ \A p \in Producers : at[p] \in {"idle"} \cup PushPc
  /\ \A c \in Consumers : at[c] \in {"idle", "pop_take", "pop_release", "pop_advance"}
  /\ \A o \in Observers : at[o] \in {"idle", "size_head"}
  /\ local \in [Threads -> Nat]
  /\ begun \in [Producers -> 0..MaxPushes]
  /\ given \in [Producers -> Item \cup {NoItem}]
  /\ \A p \in Producers : at[p] # "idle" => given[p] \in Item
  /\ taken \in [Consumers -> Item \cup {NoItem}]
  /\ seen \in [Observers -> Nat]
  /\ history \in Seq(Item)

TicketsInOrder ==
  /\ head <= tail
  /\ tail <= Oldest + N
  /\ Len(history) = tail

\* Whoever is inside pop is the only one there, and its ticket is m_head.
OneConsumer ==
  \A c \in Consumers : at[c] # "idle" =>
    /\ local[c] = head /\ head < tail
    /\ \A d \in Consumers : at[d] # "idle" => d = c

\* A producer's position may be stale but is never ahead, and while it is current
\* the slot that looked ready still is; an observer's is never ahead either.
PositionsKept ==
  /\ \A p \in Producers : at[p] \in PushPc =>
       /\ local[p] <= tail
       /\ at[p] = "push_claim" /\ local[p] = tail => slotSequence[Slot(tail)] = tail
  /\ \A o \in Observers : at[o] = "size_head" => local[o] <= head

OpenSlots == \A t \in Open : slotSequence[Slot(t)] = t /\ slotStorage[Slot(t)] = NoItem

\* A ticket handed out is being written or is published; then its item lies in the
\* slot, unless it is the one that the consumer has just moved out.
HeldSlot(t) ==
  \/ /\ slotSequence[Slot(t)] = t
     /\ \E p \in Producers : Filling(p) /\ local[p] = t
  \/ /\ slotSequence[Slot(t)] = t + 1
     /\ \/ gone
        \/ slotStorage[Slot(t)] = history[t + 1]
        \/ t = head /\ \E c \in Consumers : at[c] = "pop_release"

HeldSlots == \A t \in Held : HeldSlot(t)

FillerHolds ==
  /\ \A p \in Producers : Filling(p) =>
       /\ local[p] \in Held
       /\ slotSequence[Slot(local[p])] = local[p]
       /\ given[p] = history[local[p] + 1]
       /\ slotStorage[Slot(local[p])] = IF at[p] = "push_construct" THEN NoItem ELSE given[p]
  /\ \A p, q \in Producers : Filling(p) /\ Filling(q) /\ local[p] = local[q] => p = q

TakerHolds ==
  \A c \in Consumers :
    /\ at[c] = "pop_take" =>
         slotSequence[Slot(head)] = head + 1 /\ slotStorage[Slot(head)] = history[head + 1]
    /\ at[c] = "pop_release" =>
         slotSequence[Slot(head)] = head + 1 /\ slotStorage[Slot(head)] = NoItem
    /\ at[c] \in {"pop_release", "pop_advance"} => taken[c] = history[head + 1]

QuietOnceGone ==
  gone => /\ \A t \in Threads : at[t] = "idle"
          /\ \A i \in Slots : slotStorage[i] = NoItem

\* Why pop needs no compare-and-swap: the tickets from the oldest to tail hold their
\* slots, the rest of the N from the oldest are open, and the consumer has the oldest
\* to itself until it gives its slot back, a step before m_head says so.
MpscInv ==
  /\ MpscTypes /\ TicketsInOrder /\ OneConsumer /\ PositionsKept /\ OpenSlots
  /\ HeldSlots /\ FillerHolds /\ TakerHolds /\ QuietOnceGone

-----------------------------------------------------------------------------
\* The instance computes slots, items and threads as MpmcQueue does.
LEMMA SameNames ==
  /\ Mpsc!Slots = Slots /\ Mpsc!Item = Item /\ Mpsc!Threads = Threads
  /\ \A t : Mpsc!Slot(t) = Slot(t)
  BY DEF Mpsc!Slots, Slots, Mpsc!Item, Item, Mpsc!Threads, Threads, Mpsc!Slot, Slot

\* N consecutive tickets map to N different slots.
LEMMA WindowApart ==
  ASSUME NEW f \in Nat, NEW t \in f..(f + N - 1), NEW u \in f..(f + N - 1), Slot(t) = Slot(u)
  PROVE  t = u
<1>1. t \in Nat /\ u \in Nat /\ ~ (u >= t + N) /\ ~ (t >= u + N)
  BY CapacityAssumption
<1>2. ~ (t < u) /\ ~ (u < t)
  BY <1>1, SlotClash
<1> QED BY <1>1, <1>2

\* N consecutive tickets reach every slot.
LEMMA WindowCovers ==
  ASSUME NEW f \in Nat, NEW i \in Slots
  PROVE  \E u \in f..(f + N - 1) : Slot(u) = i
<1>1. PICK q \in Int : f = N * q + Slot(f)
  BY SlotDivision
<1>2. PICK r \in Int : r = q + 1
  OBVIOUS
<1>3. /\ N * q \in Int /\ N * r \in Int /\ N * r = N * q + N
      /\ Slot(f) \in 0..(N - 1) /\ i \in 0..(N - 1)
  BY <1>2, SlotInRange, CapacityAssumption DEF Slots
<1>4. CASE i >= Slot(f)
  <2>1. N * q + i \in f..(f + N - 1) /\ N * q + i \in Nat
    BY <1>1, <1>3, <1>4, CapacityAssumption
  <2>2. Slot(N * q + i) = i
    BY <2>1, SlotUnique
  <2> QED BY <2>1, <2>2
<1>5. CASE i < Slot(f)
  <2>1. N * r + i \in f..(f + N - 1) /\ N * r + i \in Nat
    BY <1>1, <1>3, <1>5, CapacityAssumption
  <2>2. Slot(N * r + i) = i
    BY <2>1, SlotUnique
  <2> QED BY <2>1, <2>2
<1> QED BY <1>3, <1>4, <1>5

-----------------------------------------------------------------------------
\* Types are preserved by every operation.
LEMMA MpscTypesKept == MpscTypes /\ [Mpsc!MpscNext]_(Mpsc!vars) => MpscTypes'
<1> SUFFICES ASSUME MpscTypes, [Mpsc!MpscNext]_(Mpsc!vars) PROVE MpscTypes'
  OBVIOUS
<1> USE CapacityAssumption, ThreadsAssumption, NoItemAssumption, SameNames
    DEF PushPc, Threads
<1>1. ASSUME NEW p \in Producers, Mpsc!PushBegin(p) PROVE MpscTypes'
  <2>1. <<p, begun[p] + 1>> \in Item
    BY <1>1 DEF Mpsc!PushBegin, MpscTypes, Item
  <2>2. given' \in [Producers -> Item \cup {NoItem}] /\ given'[p] \in Item
    BY <1>1, <2>1 DEF Mpsc!PushBegin, MpscTypes
  <2>3. \A q \in Producers : at'[q] # "idle" => given'[q] \in Item
    BY <1>1, <2>1, <2>2 DEF Mpsc!PushBegin, MpscTypes, Mpsc!Goto
  <2>4. begun' \in [Producers -> 0..MaxPushes] /\ local' \in [Threads -> Nat]
    BY <1>1 DEF Mpsc!PushBegin, MpscTypes
  <2>5. /\ at' = [at EXCEPT ![p] = "push_load"]
        /\ UNCHANGED <<tail, head, slotSequence, slotStorage, gone, taken, seen, history>>
    BY <1>1 DEF Mpsc!PushBegin, Mpsc!Goto, Mpsc!counters, Mpsc!slots, Mpsc!results
  <2>6. /\ at' \in [Threads -> {"idle", "pop_take", "pop_release", "pop_advance", "size_head"}
                               \cup PushPc]
        /\ \A q \in Producers : at'[q] \in {"idle"} \cup PushPc
        /\ \A c \in Consumers : at'[c] \in {"idle", "pop_take", "pop_release", "pop_advance"}
        /\ \A o \in Observers : at'[o] \in {"idle", "size_head"}
    BY <2>5 DEF MpscTypes
  <2> QED BY <2>2, <2>3, <2>4, <2>5, <2>6 DEF MpscTypes
<1>2. ASSUME NEW p \in Producers, Mpsc!PushSlotReady(p) PROVE MpscTypes'
  BY <1>2 DEF Mpsc!PushSlotReady, MpscTypes, Mpsc!Goto, Mpsc!counters, Mpsc!slots,
              Mpsc!caller, Mpsc!results
<1>3. ASSUME NEW p \in Producers, Mpsc!PushFull(p) PROVE MpscTypes'
  BY <1>3 DEF Mpsc!PushFull, MpscTypes, Mpsc!Goto, Mpsc!counters, Mpsc!slots,
              Mpsc!caller, Mpsc!results
<1>4. ASSUME NEW p \in Producers, Mpsc!PushBehind(p) PROVE MpscTypes'
  BY <1>4 DEF Mpsc!PushBehind, MpscTypes, Mpsc!Goto, Mpsc!counters, Mpsc!slots,
              Mpsc!caller, Mpsc!results
<1>5. ASSUME NEW p \in Producers, Mpsc!PushReload(p) PROVE MpscTypes'
  BY <1>5 DEF Mpsc!PushReload, MpscTypes, Mpsc!Goto, Mpsc!counters, Mpsc!slots,
              Mpsc!caller, Mpsc!results
<1>6. ASSUME NEW p \in Producers, Mpsc!PushClaim(p) PROVE MpscTypes'
  <2>1. given[p] \in Item
    BY <1>6 DEF Mpsc!PushClaim, MpscTypes
  <2>2. history' \in Seq(Item) /\ tail' \in Nat
    BY <1>6, <2>1 DEF Mpsc!PushClaim, MpscTypes
  <2> QED BY <1>6, <2>2 DEF Mpsc!PushClaim, MpscTypes, Mpsc!Goto, Mpsc!slots,
              Mpsc!caller, Mpsc!results
<1>7. ASSUME NEW p \in Producers, Mpsc!PushClaimFails(p) PROVE MpscTypes'
  BY <1>7 DEF Mpsc!PushClaimFails, MpscTypes, Mpsc!Goto, Mpsc!counters, Mpsc!slots,
              Mpsc!caller, Mpsc!results
<1>8. ASSUME NEW p \in Producers, Mpsc!PushConstruct(p) PROVE MpscTypes'
  <2>1. given[p] \in Item
    BY <1>8 DEF Mpsc!PushConstruct, MpscTypes
  <2>2. slotStorage' \in [Slots -> Item \cup {NoItem}]
    BY <1>8, <2>1 DEF Mpsc!PushConstruct, MpscTypes
  <2> QED BY <1>8, <2>2 DEF Mpsc!PushConstruct, MpscTypes, Mpsc!Goto, Mpsc!counters,
              Mpsc!caller, Mpsc!results
<1>9. ASSUME NEW p \in Producers, Mpsc!PushPublish(p) PROVE MpscTypes'
  <2>0. local[p] + 1 \in Nat
    BY DEF MpscTypes
  <2>1. slotSequence' \in [Slots -> Nat]
    BY <1>9, <2>0 DEF Mpsc!PushPublish, MpscTypes
  <2>2. /\ at' = [at EXCEPT ![p] = "idle"]
        /\ UNCHANGED <<tail, head, slotStorage, gone, local, begun, given, taken, seen, history>>
    BY <1>9 DEF Mpsc!PushPublish, Mpsc!Goto, Mpsc!counters, Mpsc!caller, Mpsc!results
  <2> QED BY <2>1, <2>2 DEF MpscTypes
<1>10. ASSUME NEW c \in Consumers, Mpsc!Found(c) PROVE MpscTypes'
  BY <1>10 DEF Mpsc!Found, MpscTypes, Mpsc!Goto, Mpsc!counters, Mpsc!slots,
               Mpsc!caller, Mpsc!results
<1>11. ASSUME NEW c \in Consumers, Mpsc!PopTake(c) PROVE MpscTypes'
  <2>1. slotStorage[Slot(local[c])] \in Item \cup {NoItem}
    BY SlotInRange DEF MpscTypes
  <2>2. /\ taken' \in [Consumers -> Item \cup {NoItem}]
        /\ slotStorage' \in [Slots -> Item \cup {NoItem}]
    BY <1>11, <2>1 DEF Mpsc!PopTake, MpscTypes
  <2> QED BY <1>11, <2>2 DEF Mpsc!PopTake, MpscTypes, Mpsc!Goto, Mpsc!counters, Mpsc!caller
<1>12. ASSUME NEW c \in Consumers, Mpsc!Reopen(c) PROVE MpscTypes'
  <2>0. local[c] + N \in Nat
    BY DEF MpscTypes
  <2>1. slotSequence' \in [Slots -> Nat]
    BY <1>12, <2>0 DEF Mpsc!Reopen, MpscTypes
  <2>2. /\ at' = [at EXCEPT ![c] = "pop_advance"]
        /\ UNCHANGED <<tail, head, slotStorage, gone, local, begun, given, taken, seen, history>>
    BY <1>12 DEF Mpsc!Reopen, Mpsc!Goto, Mpsc!counters, Mpsc!caller, Mpsc!results
  <2> QED BY <2>1, <2>2 DEF MpscTypes
<1>13. ASSUME NEW c \in Consumers, Mpsc!Advance(c) PROVE MpscTypes'
  BY <1>13 DEF Mpsc!Advance, MpscTypes, Mpsc!Goto, Mpsc!slots, Mpsc!caller, Mpsc!results
<1>14. ASSUME NEW o \in Observers, Mpsc!SizeTailFirst(o) PROVE MpscTypes'
  BY <1>14 DEF Mpsc!SizeTailFirst, MpscTypes, Mpsc!Goto, Mpsc!counters, Mpsc!slots,
               Mpsc!caller, Mpsc!results
<1>15. ASSUME NEW o \in Observers, Mpsc!SizeHeadLast(o) PROVE MpscTypes'
  BY <1>15 DEF Mpsc!SizeHeadLast, Mpsc!SizeOf, MpscTypes, Mpsc!Goto, Mpsc!counters,
               Mpsc!slots, Mpsc!caller
<1>16. ASSUME Mpsc!Destroy PROVE MpscTypes'
  BY <1>16 DEF Mpsc!Destroy, MpscTypes, Mpsc!counters, Mpsc!caller, Mpsc!results
<1>17. ASSUME UNCHANGED Mpsc!vars PROVE MpscTypes'
  BY <1>17 DEF Mpsc!vars, MpscTypes, Mpsc!counters, Mpsc!slots, Mpsc!caller, Mpsc!results
<1> QED
  BY <1>1, <1>2, <1>3, <1>4, <1>5, <1>6, <1>7, <1>8, <1>9, <1>10, <1>11, <1>12, <1>13,
     <1>14, <1>15, <1>16, <1>17
  DEF Mpsc!MpscNext, Mpsc!Emplace, Mpsc!PushStep, Mpsc!Pop, Mpsc!Size, Mpsc!Gone

-----------------------------------------------------------------------------
\* The N tickets from the oldest: each has a slot of its own, and the next ticket is
\* one of them whenever its slot says that it is ready.
LEMMA Window ==
  ASSUME MpscInv
  PROVE  /\ Oldest \in Nat /\ head \in Nat /\ tail \in Nat
         /\ head <= Oldest /\ Oldest <= tail /\ tail <= Oldest + N
         /\ Held \cup Open \subseteq Nat
         /\ \A t \in Held \cup Open : Slot(t) \in Slots
         /\ \A t, u \in Held \cup Open : Slot(t) = Slot(u) => t = u
         /\ slotSequence[Slot(tail)] = tail => tail \in Open
<1>1. Oldest \in Nat /\ head \in Nat /\ tail \in Nat /\ head <= Oldest
  BY DEF MpscInv, MpscTypes, Oldest
<1>2. Oldest <= tail /\ tail <= Oldest + N
  BY <1>1 DEF MpscInv, OneConsumer, TicketsInOrder, Oldest, Late
<1>3. Held \cup Open = Oldest..(Oldest + N - 1)
  BY <1>1, <1>2, CapacityAssumption DEF Held, Open
<1>4. Held \cup Open \subseteq Nat
  BY <1>1, <1>3
<1>5. \A t \in Held \cup Open : Slot(t) \in Slots
  BY <1>4, SlotInRange
<1>6. \A t, u \in Held \cup Open : Slot(t) = Slot(u) => t = u
  BY <1>1, <1>3, WindowApart
<1>7. ASSUME slotSequence[Slot(tail)] = tail PROVE tail \in Open
  <2>1. SUFFICES ASSUME tail = Oldest + N PROVE FALSE
    BY <1>1, <1>2, CapacityAssumption DEF Open
  <2>2. Slot(tail) = Slot(Oldest) /\ Oldest \in Held
    BY <1>1, <2>1, SlotNextLap, CapacityAssumption DEF Held
  <2>3. HeldSlot(Oldest)
    BY <2>2 DEF MpscInv, HeldSlots
  <2> QED BY <1>1, <1>7, <2>1, <2>2, <2>3, CapacityAssumption DEF HeldSlot
<1> QED BY <1>1, <1>2, <1>4, <1>5, <1>6, <1>7

\* Until it gives its slot back, the consumer has the oldest ticket, which is published.
LEMMA TakerFront ==
  ASSUME MpscInv, NEW c \in Consumers, at[c] \in {"pop_take", "pop_release"}
  PROVE  /\ Oldest = head /\ head \in Held /\ local[c] = head
         /\ slotSequence[Slot(head)] = head + 1
         /\ \A d \in Consumers : at[d] # "idle" => d = c
<1>1. /\ ~Late /\ head < tail /\ local[c] = head /\ slotSequence[Slot(head)] = head + 1
      /\ \A d \in Consumers : at[d] # "idle" => d = c
  BY DEF MpscInv, OneConsumer, TakerHolds, Late
<1> QED BY <1>1, Window DEF Held, Oldest

\* A step of a producer that writes no slot, or of an observer, only has to keep the
\* local positions right.
LEMMA MpscLocalStep ==
  ASSUME MpscInv, MpscTypes', PositionsKept', ~gone,
         UNCHANGED <<tail, head, slotSequence, slotStorage, gone, taken, history>>,
         NEW t \in Producers \cup Observers, ~Filling(t), ~Filling(t)',
         \A u \in Threads \ {t} : at'[u] = at[u] /\ local'[u] = local[u],
         \A p \in Producers \ {t} : given'[p] = given[p]
  PROVE  MpscInv'
<1>1. \A c \in Consumers : at'[c] = at[c] /\ local'[c] = local[c]
  BY ThreadsAssumption DEF Threads
<1>2. Oldest' = Oldest /\ Held' = Held /\ Open' = Open
  BY <1>1 DEF Oldest, Late, Held, Open
<1>3. \A p \in Producers : /\ Filling(p)' <=> Filling(p)
                           /\ Filling(p) => /\ local'[p] = local[p] /\ given'[p] = given[p]
                                            /\ at'[p] = at[p]
  BY DEF Filling, Threads
<1>4. TicketsInOrder' /\ OneConsumer' /\ OpenSlots' /\ TakerHolds' /\ QuietOnceGone'
  BY <1>1, <1>2
  DEF MpscInv, TicketsInOrder, OneConsumer, OpenSlots, TakerHolds, QuietOnceGone
<1>5. HeldSlots'
  BY <1>1, <1>2, <1>3 DEF MpscInv, HeldSlots, HeldSlot
<1>6. FillerHolds'
  BY <1>2, <1>3 DEF MpscInv, FillerHolds
<1> QED BY <1>4, <1>5, <1>6 DEF MpscInv

\* Winning the CAS in emplace.
LEMMA MpscPushClaim ==
  ASSUME MpscInv, MpscTypes', NEW p \in Producers, Mpsc!PushClaim(p)
  PROVE  MpscInv'
<1>e. PICK e \in Nat : e = tail
  BY DEF MpscInv, MpscTypes
<1>1. /\ at[p] = "push_claim" /\ local[p] = e /\ tail = e /\ tail' = e + 1
      /\ at' = [at EXCEPT ![p] = "push_construct"]
      /\ history' = Append(history, given[p])
      /\ UNCHANGED <<head, slotSequence, slotStorage, gone, local, given, taken>>
      /\ p \in Threads /\ MpscTypes
  BY <1>e DEF Mpsc!PushClaim, Mpsc!Goto, Mpsc!slots, Mpsc!caller, Mpsc!results, Threads, MpscInv
<1>2. /\ slotSequence[Slot(e)] = e /\ e \in Open /\ ~gone
      /\ slotStorage[Slot(e)] = NoItem /\ given[p] \in Item
  BY <1>1, Window
  DEF MpscInv, MpscTypes, PositionsKept, PushPc, OpenSlots, QuietOnceGone
<1>3. /\ Len(history') = e + 1 /\ history'[e + 1] = given[p]
      /\ \A k \in 1..e : history'[k] = history[k]
  BY <1>1, <1>2 DEF MpscInv, MpscTypes, TicketsInOrder
<1>4. /\ \A q \in Producers : Filling(q)' <=> Filling(q) \/ q = p
      /\ \A q \in Producers : q # p => at'[q] = at[q]
      /\ \A c \in Consumers : at'[c] = at[c]
      /\ ~Filling(p) /\ at'[p] = "push_construct"
  BY <1>1, ThreadsAssumption DEF Filling, MpscTypes, Threads
<1>5. /\ Oldest' = Oldest /\ Held' = Held \cup {e} /\ Open' \subseteq Open
      /\ e \notin Held
  <2>1. Oldest' = Oldest
    BY <1>1, <1>4 DEF Oldest, Late
  <2> QED BY <1>1, <2>1, Window DEF Held, Open
<1>6. \A t \in Held : t \in Nat /\ t + 1 \in 1..e /\ history'[t + 1] = history[t + 1]
  <2>1. \A t \in Held : t \in Nat /\ t + 1 \in 1..e
    BY <1>1, Window DEF Held
  <2> QED BY <1>3, <2>1
<1>7. TicketsInOrder'
  <2>1. /\ head <= e /\ e < Oldest + N /\ head \in Nat /\ Oldest \in Nat
    BY <1>1, <1>2, Window, CapacityAssumption DEF Open
  <2>2. head' <= tail' /\ tail' <= Oldest' + N /\ Len(history') = tail'
    BY <2>1, <1>1, <1>2, <1>3, <1>5, CapacityAssumption
  <2> QED BY <2>2 DEF TicketsInOrder
<1>8. OneConsumer'
  BY <1>1, <1>4, Window DEF MpscInv, OneConsumer
<1>9. PositionsKept'
  <2>1. ASSUME NEW q \in Producers, at'[q] \in PushPc
        PROVE  /\ local[q] <= e + 1
               /\ at'[q] = "push_claim" /\ local[q] = e + 1
                    => slotSequence[Slot(e + 1)] = e + 1
    <3>1. at[q] \in PushPc
      BY <2>1, <1>1, <1>4 DEF PushPc
    <3>2. local[q] \in Nat /\ local[q] <= e
      BY <3>1, <1>1 DEF MpscInv, PositionsKept, MpscTypes, Threads
    <3> QED BY <3>2, <1>2
  <2>2. \A o \in Observers : at'[o] = at[o]
    BY <1>1, ThreadsAssumption DEF MpscTypes, Threads
  <2> QED BY <2>1, <2>2, <1>1 DEF MpscInv, PositionsKept
<1>10. OpenSlots'
  BY <1>1, <1>5 DEF MpscInv, OpenSlots
<1>11. HeldSlots'
  <2>1. HeldSlot(e)'
    BY <1>1, <1>2, <1>4 DEF HeldSlot
  <2>2. ASSUME NEW t \in Held PROVE HeldSlot(t)'
    <3>1. HeldSlot(t)
      BY <2>2 DEF MpscInv, HeldSlots
    <3>2. (\E c \in Consumers : at[c] = "pop_release")
            => \E c \in Consumers : at'[c] = "pop_release"
      BY <1>4
    <3>3. ASSUME NEW q \in Producers, Filling(q) /\ local[q] = t
          PROVE  Filling(q)' /\ local'[q] = t
      BY <3>3, <1>1, <1>4
    <3> QED BY <3>1, <3>2, <3>3, <2>2, <1>1, <1>6 DEF HeldSlot
  <2> QED BY <2>1, <2>2, <1>5 DEF HeldSlots
<1>12. FillerHolds'
  BY <1>1, <1>2, <1>3, <1>4, <1>5, <1>6 DEF MpscInv, FillerHolds
<1>13. TakerHolds'
  <2>1. ASSUME NEW c \in Consumers, at[c] # "idle" PROVE history'[head + 1] = history[head + 1]
    <3>1. head < tail
      BY <2>1 DEF MpscInv, OneConsumer
    <3>2. head + 1 \in 1..e
      BY <3>1, <1>1, Window
    <3> QED BY <3>2, <1>3
  <2> QED BY <2>1, <1>1, <1>4 DEF MpscInv, TakerHolds
<1>14. QuietOnceGone'
  BY <1>1, <1>2 DEF QuietOnceGone
<1> QED BY <1>7, <1>8, <1>9, <1>10, <1>11, <1>12, <1>13, <1>14 DEF MpscInv

\* Constructing the element in the slot that was won.
LEMMA MpscPushConstruct ==
  ASSUME MpscInv, MpscTypes', NEW p \in Producers, Mpsc!PushConstruct(p)
  PROVE  MpscInv'
<1>e. PICK t \in Nat : t = local[p]
  BY DEF MpscInv, MpscTypes, Threads
<1>1. /\ at[p] = "push_construct" /\ at' = [at EXCEPT ![p] = "push_publish"]
      /\ slotStorage' = [slotStorage EXCEPT ![Slot(t)] = given[p]]
      /\ UNCHANGED <<tail, head, slotSequence, gone, local, given, taken, history>>
      /\ p \in Threads /\ MpscTypes
  BY <1>e, SameNames DEF Mpsc!PushConstruct, Mpsc!Goto, Mpsc!counters, Mpsc!caller,
                         Mpsc!results, Threads, MpscInv
<1>2. /\ Filling(p) /\ ~gone /\ t \in Held /\ Slot(t) \in Slots
      /\ slotSequence[Slot(t)] = t /\ given[p] = history[t + 1]
  BY <1>1, <1>e, Window DEF Filling, MpscInv, FillerHolds, QuietOnceGone
<1>3. /\ slotStorage'[Slot(t)] = given[p]
      /\ \A u \in Held \cup Open : u # t => slotStorage'[Slot(u)] = slotStorage[Slot(u)]
  BY <1>1, <1>2, Window DEF MpscTypes
<1>4. /\ \A q \in Producers : Filling(q)' <=> Filling(q)
      /\ \A q \in Producers : q # p => at'[q] = at[q]
      /\ \A c \in Consumers : at'[c] = at[c]
      /\ \A o \in Observers : at'[o] = at[o]
      /\ at'[p] = "push_publish"
  BY <1>1, ThreadsAssumption DEF Filling, MpscTypes, Threads
<1>5. Oldest' = Oldest /\ Held' = Held /\ Open' = Open
  BY <1>1, <1>4 DEF Oldest, Late, Held, Open
<1>6. TicketsInOrder' /\ OneConsumer'
  BY <1>1, <1>4, <1>5 DEF MpscInv, TicketsInOrder, OneConsumer
<1>7. PositionsKept'
  BY <1>1, <1>4 DEF MpscInv, PositionsKept, PushPc
<1>8. OpenSlots'
  <2>1. t \notin Open
    BY <1>2, Window DEF Held, Open
  <2> QED BY <2>1, <1>1, <1>3, <1>5 DEF MpscInv, OpenSlots
<1>9. HeldSlots'
  <2>1. HeldSlot(t)'
    BY <1>1, <1>2, <1>4, <1>e DEF HeldSlot
  <2>2. ASSUME NEW u \in Held, u # t PROVE HeldSlot(u)'
    BY <2>2, <1>1, <1>3, <1>4 DEF MpscInv, HeldSlots, HeldSlot
  <2> QED BY <2>1, <2>2, <1>5 DEF HeldSlots
<1>10. FillerHolds'
  <2>1. ASSUME NEW q \in Producers, Filling(q), q # p PROVE local[q] \in Held /\ local[q] # t
    BY <2>1, <1>e, <1>2 DEF MpscInv, FillerHolds
  <2> QED BY <2>1, <1>e, <1>1, <1>2, <1>3, <1>4, <1>5 DEF MpscInv, FillerHolds
<1>11. TakerHolds'
  <2>1. ASSUME NEW c \in Consumers, at[c] \in {"pop_take", "pop_release"}
        PROVE  head \in Held /\ head # t
    BY <2>1, <1>2, TakerFront, Window
  <2> QED BY <2>1, <1>1, <1>3, <1>4 DEF MpscInv, TakerHolds
<1>12. QuietOnceGone'
  BY <1>1, <1>2 DEF QuietOnceGone
<1> QED BY <1>6, <1>7, <1>8, <1>9, <1>10, <1>11, <1>12 DEF MpscInv

\* Publishing it.
LEMMA MpscPushPublish ==
  ASSUME MpscInv, MpscTypes', NEW p \in Producers, Mpsc!PushPublish(p)
  PROVE  MpscInv'
<1>e. PICK t \in Nat : t = local[p]
  BY DEF MpscInv, MpscTypes, Threads
<1>1. /\ at[p] = "push_publish" /\ at' = [at EXCEPT ![p] = "idle"]
      /\ slotSequence' = [slotSequence EXCEPT ![Slot(t)] = t + 1]
      /\ UNCHANGED <<tail, head, slotStorage, gone, local, given, taken, history>>
      /\ p \in Threads /\ MpscTypes
  BY <1>e, SameNames DEF Mpsc!PushPublish, Mpsc!Goto, Mpsc!counters, Mpsc!caller,
                         Mpsc!results, Threads, MpscInv
<1>2. /\ Filling(p) /\ ~gone /\ t \in Held /\ Slot(t) \in Slots
      /\ slotSequence[Slot(t)] = t /\ slotStorage[Slot(t)] = history[t + 1]
  BY <1>1, <1>e, Window DEF Filling, MpscInv, FillerHolds, QuietOnceGone
<1>3. /\ slotSequence'[Slot(t)] = t + 1
      /\ \A u \in Held \cup Open : u # t => slotSequence'[Slot(u)] = slotSequence[Slot(u)]
  BY <1>1, <1>2, Window DEF MpscTypes
<1>4. /\ \A q \in Producers : Filling(q)' <=> Filling(q) /\ q # p
      /\ \A q \in Producers : q # p => at'[q] = at[q]
      /\ \A c \in Consumers : at'[c] = at[c]
      /\ \A o \in Observers : at'[o] = at[o]
      /\ at'[p] = "idle"
  BY <1>1, ThreadsAssumption DEF Filling, MpscTypes, Threads
<1>5. Oldest' = Oldest /\ Held' = Held /\ Open' = Open /\ t \notin Open
  <2>1. Oldest' = Oldest /\ Held' = Held /\ Open' = Open
    BY <1>1, <1>4 DEF Oldest, Late, Held, Open
  <2> QED BY <2>1, <1>2, Window DEF Held, Open
<1>6. TicketsInOrder' /\ OneConsumer'
  BY <1>1, <1>4, <1>5 DEF MpscInv, TicketsInOrder, OneConsumer
<1>7. PositionsKept'
  <2>1. slotSequence[Slot(tail)] = tail => slotSequence'[Slot(tail)] = tail
    BY <1>3, <1>5, Window
  <2> QED BY <2>1, <1>1, <1>4 DEF MpscInv, PositionsKept, PushPc
<1>8. OpenSlots'
  BY <1>1, <1>3, <1>5 DEF MpscInv, OpenSlots
<1>9. HeldSlots'
  <2>1. HeldSlot(t)'
    BY <1>1, <1>2, <1>3 DEF HeldSlot
  <2>2. ASSUME NEW u \in Held, u # t PROVE HeldSlot(u)'
    <3>1. HeldSlot(u)
      BY <2>2 DEF MpscInv, HeldSlots
    <3>2. ASSUME NEW q \in Producers, Filling(q) /\ local[q] = u
          PROVE  Filling(q)' /\ local'[q] = u
      BY <3>2, <2>2, <1>e, <1>1, <1>4
    <3>3. (\E c \in Consumers : at[c] = "pop_release")
            => \E c \in Consumers : at'[c] = "pop_release"
      BY <1>4
    <3> QED BY <3>1, <3>2, <3>3, <2>2, <1>1, <1>3 DEF HeldSlot
  <2> QED BY <2>1, <2>2, <1>5 DEF HeldSlots
<1>10. FillerHolds'
  <2>1. ASSUME NEW q \in Producers, Filling(q), q # p PROVE local[q] \in Held /\ local[q] # t
    BY <2>1, <1>e, <1>2 DEF MpscInv, FillerHolds
  <2> QED BY <2>1, <1>1, <1>3, <1>4, <1>5 DEF MpscInv, FillerHolds
<1>11. TakerHolds'
  <2>1. ASSUME NEW c \in Consumers, at[c] \in {"pop_take", "pop_release"}
        PROVE  head \in Held /\ head # t
    BY <2>1, <1>2, TakerFront, Window
  <2> QED BY <2>1, <1>1, <1>3, <1>4 DEF MpscInv, TakerHolds
<1>12. QuietOnceGone'
  BY <1>1, <1>2 DEF QuietOnceGone
<1> QED BY <1>6, <1>7, <1>8, <1>9, <1>10, <1>11, <1>12 DEF MpscInv

\* A pop that finds the oldest item published.
LEMMA MpscFound ==
  ASSUME MpscInv, MpscTypes', NEW c \in Consumers, Mpsc!Found(c)
  PROVE  MpscInv'
<1>1. /\ at' = [at EXCEPT ![c] = "pop_take"] /\ local' = [local EXCEPT ![c] = head]
      /\ \A d \in Consumers : at[d] = "idle"
      /\ ~gone /\ slotSequence[Slot(head)] >= head + 1
      /\ UNCHANGED <<tail, head, slotSequence, slotStorage, gone, given, taken, history>>
      /\ c \in Threads /\ MpscTypes
  BY SameNames DEF Mpsc!Found, Mpsc!Goto, Mpsc!counters, Mpsc!slots, Mpsc!caller,
                   Mpsc!results, Threads, MpscInv
<1>2. Oldest = head /\ Oldest' = Oldest /\ Held' = Held /\ Open' = Open
  <2>1. ~Late /\ ~Late'
    BY <1>1 DEF Late, MpscTypes
  <2> QED BY <2>1, <1>1 DEF Oldest, Held, Open
<1>3. /\ head < tail /\ slotSequence[Slot(head)] = head + 1
      /\ slotStorage[Slot(head)] = history[head + 1]
  <2>1. head # tail
    <3>1. SUFFICES ASSUME head = tail PROVE FALSE
      OBVIOUS
    <3>2. tail \in Open
      BY <3>1, <1>2, Window, CapacityAssumption DEF Open
    <3> QED BY <3>1, <3>2, <1>1, Window DEF MpscInv, OpenSlots
  <2>2. head \in Held
    BY <2>1, <1>2, Window DEF Held
  <2>3. HeldSlot(head)
    BY <2>2 DEF MpscInv, HeldSlots
  <2> QED BY <2>1, <2>3, <1>1, <1>2, Window DEF HeldSlot
<1>4. /\ \A q \in Producers : at'[q] = at[q] /\ local'[q] = local[q]
      /\ \A o \in Observers : at'[o] = at[o] /\ local'[o] = local[o]
      /\ \A d \in Consumers : d # c => at'[d] = "idle"
      /\ at'[c] = "pop_take" /\ local'[c] = head
  BY <1>1, ThreadsAssumption DEF MpscTypes, Threads
<1>5. \A q \in Producers : Filling(q)' <=> Filling(q)
  BY <1>4 DEF Filling
<1>6. TicketsInOrder' /\ OneConsumer' /\ OpenSlots' /\ TakerHolds' /\ QuietOnceGone'
  BY <1>1, <1>2, <1>3, <1>4
  DEF MpscInv, TicketsInOrder, OneConsumer, OpenSlots, TakerHolds, QuietOnceGone
<1>7. PositionsKept'
  BY <1>1, <1>4 DEF MpscInv, PositionsKept
<1>8. HeldSlots'
  BY <1>1, <1>2, <1>4, <1>5 DEF MpscInv, HeldSlots, HeldSlot
<1>9. FillerHolds'
  BY <1>1, <1>2, <1>4, <1>5 DEF MpscInv, FillerHolds
<1> QED BY <1>6, <1>7, <1>8, <1>9 DEF MpscInv

\* Moving the element out.
LEMMA MpscPopTake ==
  ASSUME MpscInv, MpscTypes', NEW c \in Consumers, Mpsc!PopTake(c)
  PROVE  MpscInv'
<1>1. /\ at[c] = "pop_take" /\ at' = [at EXCEPT ![c] = "pop_release"]
      /\ taken' = [taken EXCEPT ![c] = slotStorage[Slot(local[c])]]
      /\ slotStorage' = [slotStorage EXCEPT ![Slot(local[c])] = NoItem]
      /\ UNCHANGED <<tail, head, slotSequence, gone, local, given, history>>
      /\ c \in Threads /\ MpscTypes
  BY SameNames DEF Mpsc!PopTake, Mpsc!Goto, Mpsc!counters, Mpsc!caller, Threads, MpscInv
<1>2. /\ local[c] = head /\ head \in Held /\ Oldest = head /\ ~gone
      /\ slotSequence[Slot(head)] = head + 1 /\ slotStorage[Slot(head)] = history[head + 1]
      /\ Slot(head) \in Slots
      /\ \A d \in Consumers : d # c => at[d] = "idle"
  BY <1>1, TakerFront, Window DEF MpscInv, TakerHolds, QuietOnceGone
<1>3. /\ slotStorage'[Slot(head)] = NoItem /\ taken'[c] = history[head + 1]
      /\ \A u \in Held \cup Open : u # head => slotStorage'[Slot(u)] = slotStorage[Slot(u)]
  BY <1>1, <1>2, Window DEF MpscTypes
<1>4. /\ \A q \in Producers : at'[q] = at[q]
      /\ \A o \in Observers : at'[o] = at[o]
      /\ \A d \in Consumers : d # c => at'[d] = "idle"
      /\ at'[c] = "pop_release"
  BY <1>1, <1>2, ThreadsAssumption DEF MpscTypes, Threads
<1>5. \A q \in Producers : Filling(q)' <=> Filling(q)
  BY <1>4 DEF Filling
<1>6. Oldest' = Oldest /\ Held' = Held /\ Open' = Open /\ head \notin Open
  <2>1. Oldest' = Oldest
    BY <1>1, <1>2, <1>4 DEF Oldest, Late
  <2> QED BY <2>1, <1>1, <1>2, Window DEF Held, Open
<1>7. TicketsInOrder' /\ OneConsumer' /\ TakerHolds' /\ QuietOnceGone'
  BY <1>1, <1>2, <1>3, <1>4, <1>6
  DEF MpscInv, TicketsInOrder, OneConsumer, TakerHolds, QuietOnceGone
<1>8. PositionsKept'
  BY <1>1, <1>4 DEF MpscInv, PositionsKept
<1>9. OpenSlots'
  BY <1>1, <1>3, <1>6 DEF MpscInv, OpenSlots
<1>10. HeldSlots'
  <2>1. ASSUME NEW u \in Held PROVE HeldSlot(u)'
    <3>1. HeldSlot(u)
      BY <2>1 DEF MpscInv, HeldSlots
    <3>2. CASE u = head
      BY <3>1, <3>2, <1>1, <1>2, <1>4, Window DEF HeldSlot
    <3>3. CASE u # head
      BY <2>1, <3>1, <3>3, <1>1, <1>3, <1>5 DEF HeldSlot
    <3> QED BY <3>2, <3>3
  <2> QED BY <2>1, <1>6 DEF HeldSlots
<1>11. FillerHolds'
  <2>1. ASSUME NEW q \in Producers, Filling(q) PROVE local[q] \in Held /\ local[q] # head
    BY <2>1, <1>2, Window DEF MpscInv, FillerHolds
  <2> QED BY <2>1, <1>1, <1>3, <1>4, <1>5, <1>6 DEF MpscInv, FillerHolds
<1> QED BY <1>7, <1>8, <1>9, <1>10, <1>11 DEF MpscInv

\* Giving the slot back, a lap later.
LEMMA MpscReopen ==
  ASSUME MpscInv, MpscTypes', NEW c \in Consumers, Mpsc!Reopen(c)
  PROVE  MpscInv'
<1>1. /\ at[c] = "pop_release" /\ at' = [at EXCEPT ![c] = "pop_advance"]
      /\ slotSequence' = [slotSequence EXCEPT ![Slot(local[c])] = local[c] + N]
      /\ UNCHANGED <<tail, head, slotStorage, gone, local, given, taken, history>>
      /\ c \in Threads /\ MpscTypes
  BY SameNames DEF Mpsc!Reopen, Mpsc!Goto, Mpsc!counters, Mpsc!caller, Mpsc!results,
                   Threads, MpscInv
<1>2. /\ local[c] = head /\ head \in Held /\ Oldest = head /\ ~gone
      /\ slotSequence[Slot(head)] = head + 1 /\ slotStorage[Slot(head)] = NoItem
      /\ Slot(head) \in Slots /\ head < tail
      /\ \A d \in Consumers : d # c => at[d] = "idle"
  BY <1>1, TakerFront, Window DEF MpscInv, TakerHolds, QuietOnceGone, OneConsumer
<1>3. /\ slotSequence'[Slot(head)] = head + N
      /\ \A u \in Held \cup Open : u # head => slotSequence'[Slot(u)] = slotSequence[Slot(u)]
  BY <1>1, <1>2, Window DEF MpscTypes
<1>4. /\ \A q \in Producers : at'[q] = at[q]
      /\ \A o \in Observers : at'[o] = at[o]
      /\ \A d \in Consumers : d # c => at'[d] = "idle"
      /\ at'[c] = "pop_advance"
  BY <1>1, <1>2, ThreadsAssumption DEF MpscTypes, Threads
<1>5. \A q \in Producers : Filling(q)' <=> Filling(q)
  BY <1>4 DEF Filling
<1>6. /\ Oldest' = head + 1 /\ Held' = Held \ {head} /\ Open' = Open \cup {head + N}
      /\ head \notin Open
  <2>1. Oldest' = head + 1
    BY <1>1, <1>4 DEF Oldest, Late
  <2> QED BY <2>1, <1>1, <1>2, Window, CapacityAssumption DEF Held, Open
<1>7. TicketsInOrder'
  BY <1>1, <1>2, <1>6, Window, CapacityAssumption DEF MpscInv, TicketsInOrder
<1>8. OneConsumer' /\ TakerHolds' /\ QuietOnceGone'
  BY <1>1, <1>2, <1>4 DEF MpscInv, OneConsumer, TakerHolds, QuietOnceGone
<1>9. PositionsKept'
  <2>1. slotSequence[Slot(tail)] = tail => slotSequence'[Slot(tail)] = tail
    BY <1>2, <1>3, Window
  <2> QED BY <2>1, <1>1, <1>4 DEF MpscInv, PositionsKept
<1>10. OpenSlots'
  <2>1. Slot(head + N) = Slot(head)
    BY Window, SlotNextLap
  <2> QED BY <2>1, <1>1, <1>2, <1>3, <1>6 DEF MpscInv, OpenSlots
<1>11. HeldSlots'
  <2>1. ASSUME NEW u \in Held, u # head PROVE HeldSlot(u)'
    BY <2>1, <1>1, <1>3, <1>5 DEF MpscInv, HeldSlots, HeldSlot
  <2> QED BY <2>1, <1>6 DEF HeldSlots
<1>12. FillerHolds'
  <2>1. ASSUME NEW q \in Producers, Filling(q) PROVE local[q] \in Held /\ local[q] # head
    BY <2>1, <1>2, Window DEF MpscInv, FillerHolds
  <2> QED BY <2>1, <1>1, <1>3, <1>4, <1>5, <1>6 DEF MpscInv, FillerHolds
<1> QED BY <1>7, <1>8, <1>9, <1>10, <1>11, <1>12 DEF MpscInv

\* Moving m_head on.
LEMMA MpscAdvance ==
  ASSUME MpscInv, MpscTypes', NEW c \in Consumers, Mpsc!Advance(c)
  PROVE  MpscInv'
<1>1. /\ at[c] = "pop_advance" /\ at' = [at EXCEPT ![c] = "idle"]
      /\ head' = local[c] + 1
      /\ UNCHANGED <<tail, slotSequence, slotStorage, gone, local, given, taken, history>>
      /\ c \in Threads /\ MpscTypes
  BY DEF Mpsc!Advance, Mpsc!Goto, Mpsc!slots, Mpsc!caller, Mpsc!results, Threads, MpscInv
<1>2. /\ local[c] = head /\ Oldest = head + 1 /\ ~gone /\ head < tail
      /\ \A d \in Consumers : d # c => at[d] = "idle"
  BY <1>1 DEF MpscInv, OneConsumer, QuietOnceGone, Oldest, Late
<1>3. /\ \A q \in Producers : at'[q] = at[q]
      /\ \A o \in Observers : at'[o] = at[o]
      /\ \A d \in Consumers : at'[d] = "idle"
  BY <1>1, <1>2, ThreadsAssumption DEF MpscTypes, Threads
<1>4. \A q \in Producers : Filling(q)' <=> Filling(q)
  BY <1>3 DEF Filling
<1>5. Oldest' = Oldest /\ Held' = Held /\ Open' = Open
  <2>1. Oldest' = Oldest
    BY <1>1, <1>2, <1>3 DEF Oldest, Late
  <2> QED BY <2>1, <1>1 DEF Held, Open
<1>6. TicketsInOrder' /\ OneConsumer' /\ OpenSlots' /\ TakerHolds' /\ QuietOnceGone'
  BY <1>1, <1>2, <1>3, <1>5, Window
  DEF MpscInv, TicketsInOrder, OneConsumer, OpenSlots, TakerHolds, QuietOnceGone
<1>7. PositionsKept'
  <2>1. \A o \in Observers : local[o] \in Nat
    BY <1>1 DEF MpscTypes, Threads
  <2> QED BY <2>1, <1>1, <1>2, <1>3, Window DEF MpscInv, PositionsKept
<1>8. HeldSlots'
  <2>1. ASSUME NEW u \in Held PROVE HeldSlot(u)'
    <3>1. \A d \in Consumers : at[d] # "pop_release"
      BY <1>1, <1>2
    <3> QED BY <2>1, <3>1, <1>1, <1>4 DEF MpscInv, HeldSlots, HeldSlot
  <2> QED BY <2>1, <1>5 DEF HeldSlots
<1>9. FillerHolds'
  BY <1>1, <1>3, <1>4, <1>5 DEF MpscInv, FillerHolds
<1> QED BY <1>6, <1>7, <1>8, <1>9 DEF MpscInv

\* The destructor: nobody is in a call, so every slot is raw afterwards.
LEMMA MpscDestroy ==
  ASSUME MpscInv, MpscTypes', Mpsc!Destroy
  PROVE  MpscInv'
<1>1. /\ \A t \in Threads : at[t] = "idle"
      /\ gone'
      /\ slotStorage' = [i \in Slots |-> IF \E t \in head..(tail - 1) : Slot(t) = i
                                           THEN NoItem ELSE slotStorage[i]]
      /\ UNCHANGED <<tail, head, slotSequence, at, local, given, taken, history>>
  BY SameNames DEF Mpsc!Destroy, Mpsc!Queued, Mpsc!counters, Mpsc!caller, Mpsc!results
<1>2. Oldest = head /\ Oldest' = Oldest /\ Held' = Held /\ Open' = Open
  <2>1. ~Late /\ ~Late'
    BY <1>1 DEF Late, Threads
  <2> QED BY <2>1, <1>1 DEF Oldest, Held, Open
<1>3. \A i \in Slots : slotStorage'[i] = NoItem
  <2>1. ASSUME NEW i \in Slots, ~ \E t \in head..(tail - 1) : Slot(t) = i
        PROVE  slotStorage[i] = NoItem
    <3>1. PICK u \in head..(head + N - 1) : Slot(u) = i
      BY Window, WindowCovers
    <3>2. u \in Open
      BY <2>1, <3>1, <1>2, Window, CapacityAssumption DEF Open
    <3> QED BY <3>1, <3>2 DEF MpscInv, OpenSlots
  <2> QED BY <2>1, <1>1
<1>4. /\ \A p \in Producers : at[p] = "idle" /\ ~Filling(p) /\ ~Filling(p)'
      /\ \A c \in Consumers : at[c] = "idle"
      /\ \A o \in Observers : at[o] = "idle"
  BY <1>1 DEF Filling, Threads
<1>5. TicketsInOrder' /\ OneConsumer' /\ PositionsKept' /\ FillerHolds' /\ TakerHolds'
  BY <1>1, <1>2, <1>4
  DEF MpscInv, TicketsInOrder, OneConsumer, PositionsKept, PushPc, FillerHolds, TakerHolds
<1>6. OpenSlots'
  BY <1>1, <1>2, <1>3, Window DEF MpscInv, OpenSlots
<1>7. HeldSlots'
  BY <1>1, <1>2, <1>4 DEF MpscInv, HeldSlots, HeldSlot
<1>8. QuietOnceGone'
  BY <1>1, <1>3 DEF QuietOnceGone
<1> QED BY <1>5, <1>6, <1>7, <1>8 DEF MpscInv

\* The steps of emplace that write no slot.
LEMMA MpscPushLocal ==
  ASSUME MpscInv, MpscTypes', NEW p \in Producers,
         \/ Mpsc!PushBegin(p) \/ Mpsc!PushSlotReady(p) \/ Mpsc!PushFull(p)
         \/ Mpsc!PushBehind(p) \/ Mpsc!PushReload(p) \/ Mpsc!PushClaimFails(p)
  PROVE  MpscInv'
<1> USE SameNames
    DEF Mpsc!PushBegin, Mpsc!PushSlotReady, Mpsc!PushFull, Mpsc!PushBehind, Mpsc!PushReload,
        Mpsc!PushClaimFails, Mpsc!Goto, Mpsc!counters, Mpsc!slots, Mpsc!caller, Mpsc!results
<1>0. MpscTypes /\ p \in Threads
  BY DEF MpscInv, Threads
<1>1. /\ UNCHANGED <<tail, head, slotSequence, slotStorage, gone, taken, history>>
      /\ \A u \in Threads \ {p} : at'[u] = at[u] /\ local'[u] = local[u]
      /\ \A q \in Producers \ {p} : given'[q] = given[q]
  BY <1>0 DEF MpscTypes
<1>2. ~Filling(p) /\ ~Filling(p)' /\ ~gone
  BY <1>0 DEF Filling, MpscTypes, MpscInv, QuietOnceGone
<1>3. PositionsKept'
  <2>1. ASSUME at'[p] \in PushPc
        PROVE  /\ local'[p] <= tail
               /\ at'[p] = "push_claim" => slotSequence[Slot(local'[p])] = local'[p]
    BY <2>1, <1>0 DEF MpscInv, PositionsKept, MpscTypes, PushPc
  <2>2. \A q \in Producers : q # p => at'[q] = at[q] /\ local'[q] = local[q]
    BY <1>1 DEF Threads
  <2>3. \A o \in Observers : at'[o] = at[o] /\ local'[o] = local[o]
    BY <1>1, ThreadsAssumption DEF Threads
  <2> QED BY <2>1, <2>2, <2>3, <1>1 DEF MpscInv, PositionsKept
<1> QED BY <1>1, <1>2, <1>3, MpscLocalStep

\* The two loads of size_approx.
LEMMA MpscSize ==
  ASSUME MpscInv, MpscTypes', NEW o \in Observers, Mpsc!Size(o)
  PROVE  MpscInv'
<1> USE DEF Mpsc!Size, Mpsc!SizeTailFirst, Mpsc!SizeHeadLast, Mpsc!Goto, Mpsc!counters,
            Mpsc!slots, Mpsc!caller, Mpsc!results
<1>0. MpscTypes /\ o \in Threads
  BY DEF MpscInv, Threads
<1>1. /\ UNCHANGED <<tail, head, slotSequence, slotStorage, gone, taken, history, given>>
      /\ \A u \in Threads \ {o} : at'[u] = at[u] /\ local'[u] = local[u]
  BY <1>0 DEF MpscTypes
<1>2. ~Filling(o) /\ ~Filling(o)' /\ ~gone
  BY <1>0 DEF Filling, MpscTypes, MpscInv, QuietOnceGone
<1>3. PositionsKept'
  <2>1. at'[o] = "size_head" => local'[o] <= head
    BY <1>0, Window DEF MpscTypes
  <2>2. \A u \in Producers \cup Observers : u # o => at'[u] = at[u] /\ local'[u] = local[u]
    BY <1>1 DEF Threads
  <2>3. o \notin Producers
    BY ThreadsAssumption
  <2> QED BY <2>1, <2>2, <2>3, <1>1 DEF MpscInv, PositionsKept
<1> QED BY <1>1, <1>2, <1>3, MpscLocalStep

\* A stuttering step.
LEMMA MpscStutter ==
  ASSUME MpscInv, UNCHANGED mpscVars
  PROVE  MpscInv'
<1>1. UNCHANGED <<tail, head, slotSequence, slotStorage, gone, at, local, begun, given, taken,
                  seen, history>>
  BY DEF mpscVars
<1> QED BY <1>1
  DEF MpscInv, MpscTypes, TicketsInOrder, OneConsumer, PositionsKept, OpenSlots, HeldSlots,
      HeldSlot, FillerHolds, TakerHolds, QuietOnceGone, Oldest, Late, Held, Open, Filling

\* The invariant holds of a newly constructed queue.
LEMMA MpscInit == Mpsc!Init => MpscInv
<1> SUFFICES ASSUME Mpsc!Init PROVE MpscInv
  OBVIOUS
<1>1. /\ tail = 0 /\ head = 0
      /\ slotSequence = [i \in Slots |-> i] /\ slotStorage = [i \in Slots |-> NoItem]
      /\ gone = FALSE
      /\ at = [t \in Threads |-> "idle"] /\ local = [t \in Threads |-> 0]
      /\ begun = [p \in Producers |-> 0] /\ given = [p \in Producers |-> NoItem]
      /\ taken = [c \in Consumers |-> NoItem] /\ seen = [o \in Observers |-> 0]
      /\ history = << >>
  BY SameNames DEF Mpsc!Init
<1>2. /\ \A p \in Producers : at[p] = "idle" /\ ~Filling(p)
      /\ \A c \in Consumers : at[c] = "idle"
      /\ \A o \in Observers : at[o] = "idle"
  BY <1>1 DEF Threads, Filling
<1>3. MpscTypes
  <2>1. << >> \in Seq(Item) /\ slotSequence \in [Slots -> Nat]
    BY <1>1 DEF Slots
  <2>2. begun \in [Producers -> 0..MaxPushes]
    BY <1>1, ThreadsAssumption
  <2> QED BY <2>1, <2>2, <1>1, <1>2 DEF MpscTypes
<1>4. Oldest = 0 /\ Held = {} /\ Open = Slots
  BY <1>1, <1>2, CapacityAssumption DEF Oldest, Late, Held, Open, Slots
<1>5. TicketsInOrder /\ OneConsumer /\ PositionsKept
  BY <1>1, <1>2, <1>4, CapacityAssumption DEF TicketsInOrder, OneConsumer, PositionsKept, PushPc
<1>6. OpenSlots
  BY <1>1, <1>4, SlotFirstLap DEF OpenSlots
<1>7. HeldSlots /\ FillerHolds /\ TakerHolds /\ QuietOnceGone
  BY <1>1, <1>2, <1>4 DEF HeldSlots, FillerHolds, TakerHolds, QuietOnceGone
<1> QED BY <1>3, <1>5, <1>6, <1>7 DEF MpscInv

\* Every operation of the queue keeps the invariant.
LEMMA MpscNextKeeps == MpscInv /\ [Mpsc!MpscNext]_(Mpsc!vars) => MpscInv'
<1> SUFFICES ASSUME MpscInv, [Mpsc!MpscNext]_(Mpsc!vars) PROVE MpscInv'
  OBVIOUS
<1>1. MpscTypes'
  BY MpscTypesKept DEF MpscInv
<1>2. ASSUME NEW p \in Producers, Mpsc!Emplace(p) PROVE MpscInv'
  BY <1>1, <1>2, MpscPushLocal, MpscPushClaim, MpscPushConstruct, MpscPushPublish
  DEF Mpsc!Emplace, Mpsc!PushStep
<1>3. ASSUME NEW c \in Consumers, Mpsc!Pop(c) PROVE MpscInv'
  BY <1>1, <1>3, MpscFound, MpscPopTake, MpscReopen, MpscAdvance DEF Mpsc!Pop
<1>4. ASSUME NEW o \in Observers, Mpsc!Size(o) PROVE MpscInv'
  BY <1>1, <1>4, MpscSize
<1>5. ASSUME Mpsc!Destroy PROVE MpscInv'
  BY <1>1, <1>5, MpscDestroy
<1>6. ASSUME UNCHANGED Mpsc!vars PROVE MpscInv'
  <2>1. UNCHANGED mpscVars
    BY <1>6 DEF mpscVars, Mpsc!vars, Mpsc!counters, Mpsc!slots, Mpsc!caller, Mpsc!results
  <2> QED BY <2>1, MpscStutter
<1> QED BY <1>2, <1>3, <1>4, <1>5, <1>6 DEF Mpsc!MpscNext, Mpsc!Gone

\* In a behaviour of the two queues, the one for one consumer runs alone.
LEMMA MpscAlone == MCSpec => Mpsc!Init /\ [][Mpsc!MpscNext]_(Mpsc!vars)
<1>1. MCInit => Mpsc!Init
  BY DEF MCInit
<1>2. [MCNext]_<<which, vars, mpscVars>> => [Mpsc!MpscNext]_(Mpsc!vars)
  BY DEF MCNext, mpscVars, Mpsc!vars, Mpsc!counters, Mpsc!slots, Mpsc!caller, Mpsc!results
<1> QED BY <1>1, <1>2, PTL DEF MCSpec

\* The handshake with one consumer keeps its invariant, whatever the capacity and the
\* threads: emplace, pop, size_approx and the destructor all preserve it.
THEOREM MpscInvariantHolds == MCSpec => []MpscInv
<1>1. MpscInv /\ [Mpsc!MpscNext]_(Mpsc!vars) => MpscInv'
  BY MpscNextKeeps
<1> QED BY <1>1, MpscInit, MpscAlone, PTL

-----------------------------------------------------------------------------
(***************************************************************************)
(* It implements the bounded FIFO.                                         *)
(***************************************************************************)
MovedOut(c) == at[c] \in {"pop_release", "pop_advance"}

\* The first ticket whose element was not moved out, and what BoundedFifo sees.
Front == IF \E c \in Consumers : MovedOut(c) THEN head + 1 ELSE head
QueuedItems == IF gone THEN << >> ELSE SubSeq(history, Front + 1, tail)
ItemsInHand == [c \in Consumers |-> IF MovedOut(c) THEN taken[c] ELSE NoItem]

\* The front is the oldest ticket or, between the move-out and Reopen, the one after.
LEMMA FrontBounds ==
  ASSUME MpscInv
  PROVE  Front \in Nat /\ Oldest <= Front /\ Front <= tail
<1>1. (\E c \in Consumers : MovedOut(c)) => head < tail
  BY DEF MpscInv, OneConsumer, MovedOut
<1>2. Late => \E c \in Consumers : MovedOut(c)
  BY DEF Late, MovedOut
<1> QED BY <1>1, <1>2, Window DEF Front, Oldest

\* The instance sees the queue so.
LEMMA FifoSeen ==
  /\ Mpsc!MpscFifo!FifoInit <=>
       QueuedItems = << >> /\ ItemsInHand = [c \in Consumers |-> NoItem]
  /\ \A i : Mpsc!MpscFifo!Enqueue(i) <=>
       /\ Len(QueuedItems) < N /\ QueuedItems' = Append(QueuedItems, i)
       /\ ItemsInHand' = ItemsInHand
  /\ \A c : Mpsc!MpscFifo!Dequeue(c) <=>
       /\ QueuedItems # << >> /\ ItemsInHand[c] = NoItem
       /\ ItemsInHand' = [ItemsInHand EXCEPT ![c] = Head(QueuedItems)]
       /\ QueuedItems' = Tail(QueuedItems)
  /\ \A c : Mpsc!MpscFifo!Deliver(c) <=>
       /\ ItemsInHand[c] # NoItem
       /\ ItemsInHand' = [ItemsInHand EXCEPT ![c] = NoItem]
       /\ QueuedItems' = QueuedItems
  /\ Mpsc!MpscFifo!Discard <=>
       /\ \A c \in Consumers : ItemsInHand[c] = NoItem
       /\ QueuedItems' = << >> /\ ItemsInHand' = ItemsInHand
  /\ UNCHANGED Mpsc!MpscFifo!fifoVars <=>
       QueuedItems' = QueuedItems /\ ItemsInHand' = ItemsInHand
<1>1. Mpsc!First = Front /\ Mpsc!First' = Front'
  BY DEF Mpsc!First, Front, MovedOut
<1> QED
  BY <1>1
  DEF QueuedItems, ItemsInHand, MovedOut, Mpsc!MpscFifo!FifoInit, Mpsc!MpscFifo!Enqueue,
      Mpsc!MpscFifo!Dequeue, Mpsc!MpscFifo!Deliver, Mpsc!MpscFifo!Discard,
      Mpsc!MpscFifo!fifoVars

\* A step that leaves the counters, the history and the moved-out items alone is
\* invisible to the FIFO.
LEMMA MpscInvisible ==
  ASSUME UNCHANGED <<tail, head, gone, history, taken>>,
         \A c \in Consumers : MovedOut(c)' <=> MovedOut(c)
  PROVE  UNCHANGED Mpsc!MpscFifo!fifoVars
<1>1. Front' = Front
  BY DEF Front
<1>2. QueuedItems' = QueuedItems /\ ItemsInHand' = ItemsInHand
  BY <1>1 DEF QueuedItems, ItemsInHand
<1> QED BY <1>2, FifoSeen

\* The CAS of emplace enqueues the item.
LEMMA MpscClaimEnqueues ==
  ASSUME MpscInv, NEW p \in Producers, Mpsc!PushClaim(p)
  PROVE  Mpsc!MpscFifo!FifoNext
<1>1. /\ tail' = tail + 1 /\ history' = Append(history, given[p])
      /\ at' = [at EXCEPT ![p] = "push_construct"] /\ at[p] = "push_claim" /\ local[p] = tail
      /\ UNCHANGED <<head, gone, taken>>
      /\ p \in Threads /\ MpscTypes
  BY DEF Mpsc!PushClaim, Mpsc!Goto, Mpsc!slots, Mpsc!results, Threads, MpscInv, MpscTypes
<1>2. /\ tail \in Open /\ ~gone /\ given[p] \in Item
      /\ history \in Seq(Item) /\ Len(history) = tail
  BY <1>1, Window
  DEF MpscInv, MpscTypes, PositionsKept, PushPc, QuietOnceGone, TicketsInOrder
<1>3. \A c \in Consumers : MovedOut(c)' <=> MovedOut(c)
  BY <1>1, ThreadsAssumption DEF MpscTypes, Threads, MovedOut
<1>4. Front' = Front /\ ItemsInHand' = ItemsInHand
  BY <1>1, <1>3 DEF Front, ItemsInHand
<1>5. QueuedItems = SubSeq(history, Front + 1, Len(history))
  BY <1>2 DEF QueuedItems
<1>6. Front + 1 \in 1..(Len(history) + 1) /\ Len(history) - Front < N
  BY <1>2, FrontBounds, Window, CapacityAssumption DEF Open
<1>7. Len(QueuedItems) < N
  BY <1>2, <1>5, <1>6, FrontBounds, CapacityAssumption
<1>8. QueuedItems' = Append(QueuedItems, given[p])
  <2>1. QueuedItems' = SubSeq(history', Front + 1, Len(history) + 1)
    BY <1>1, <1>2, <1>4 DEF QueuedItems
  <2> QED BY <2>1, <1>1, <1>2, <1>5, <1>6, AppendToSubSeq
<1>9. Mpsc!MpscFifo!Enqueue(given[p])
  BY <1>4, <1>7, <1>8, FifoSeen
<1> QED BY <1>2, <1>9, SameNames DEF Mpsc!MpscFifo!FifoNext

\* The move-out of pop dequeues the oldest item.
LEMMA MpscTakeDequeues ==
  ASSUME MpscInv, NEW c \in Consumers, Mpsc!PopTake(c)
  PROVE  Mpsc!MpscFifo!Dequeue(c)
<1>1. /\ at[c] = "pop_take" /\ at' = [at EXCEPT ![c] = "pop_release"]
      /\ taken' = [taken EXCEPT ![c] = slotStorage[Slot(local[c])]]
      /\ UNCHANGED <<tail, head, gone, history>>
      /\ c \in Threads /\ MpscTypes
  BY SameNames DEF Mpsc!PopTake, Mpsc!Goto, Mpsc!counters, Threads, MpscInv
<1>2. /\ local[c] = head /\ head < tail /\ ~gone /\ slotStorage[Slot(head)] = history[head + 1]
      /\ \A d \in Consumers : d # c => at[d] = "idle"
      /\ history \in Seq(Item) /\ Len(history) = tail /\ head \in Nat /\ tail \in Nat
  BY <1>1 DEF MpscInv, MpscTypes, OneConsumer, TakerHolds, QuietOnceGone, Threads,
              TicketsInOrder
<1>3. /\ \A d \in Consumers : ~MovedOut(d)
      /\ \A d \in Consumers : MovedOut(d)' <=> d = c
  BY <1>1, <1>2 DEF MovedOut, MpscTypes, Threads
<1>4. Front = head /\ Front' = head + 1
  BY <1>1, <1>3 DEF Front
<1>5. /\ QueuedItems = SubSeq(history, head + 1, tail)
      /\ QueuedItems' = SubSeq(history, head + 1 + 1, tail)
  BY <1>1, <1>2, <1>4 DEF QueuedItems
<1>6. head + 1 \in 1..Len(history) /\ tail \in (head + 1)..Len(history)
  BY <1>2
<1>7. Head(QueuedItems) = history[head + 1] /\ QueuedItems' = Tail(QueuedItems)
  BY <1>2, <1>5, <1>6, HeadTailOfSubSeq
<1>8. QueuedItems # << >>
  <2>1. Len(QueuedItems) > 0
    BY <1>2, <1>5, <1>6
  <2> QED BY <2>1
<1>9. /\ ItemsInHand[c] = NoItem
      /\ ItemsInHand' = [ItemsInHand EXCEPT ![c] = history[head + 1]]
  <2>1. ItemsInHand = [d \in Consumers |-> NoItem]
    BY <1>3 DEF ItemsInHand
  <2>2. ItemsInHand' = [d \in Consumers |-> IF d = c THEN history[head + 1] ELSE NoItem]
    BY <1>1, <1>2, <1>3 DEF ItemsInHand, MpscTypes
  <2> QED BY <2>1, <2>2
<1> QED BY <1>7, <1>8, <1>9, FifoSeen

\* Moving m_head on is the moment the item goes to the caller.
LEMMA MpscAdvanceDelivers ==
  ASSUME MpscInv, NEW c \in Consumers, Mpsc!Advance(c)
  PROVE  Mpsc!MpscFifo!Deliver(c)
<1>1. /\ at[c] = "pop_advance" /\ at' = [at EXCEPT ![c] = "idle"]
      /\ head' = local[c] + 1
      /\ UNCHANGED <<tail, gone, history, taken>>
      /\ c \in Threads /\ MpscTypes
  BY DEF Mpsc!Advance, Mpsc!Goto, Mpsc!slots, Mpsc!results, Threads, MpscInv
<1>2. /\ local[c] = head /\ head < tail /\ taken[c] = history[head + 1]
      /\ \A d \in Consumers : d # c => at[d] = "idle"
      /\ history \in Seq(Item) /\ Len(history) = tail /\ head \in Nat /\ tail \in Nat
  BY <1>1 DEF MpscInv, MpscTypes, OneConsumer, TakerHolds, TicketsInOrder
<1>3. taken[c] \in Item
  <2>1. head + 1 \in 1..Len(history)
    BY <1>2
  <2> QED BY <2>1, <1>2
<1>4. /\ \A d \in Consumers : MovedOut(d) <=> d = c
      /\ \A d \in Consumers : ~MovedOut(d)'
  BY <1>1, <1>2 DEF MovedOut, MpscTypes, Threads
<1>5. Front = head + 1 /\ Front' = head + 1
  BY <1>1, <1>2, <1>4 DEF Front
<1>6. QueuedItems' = QueuedItems
  BY <1>1, <1>5 DEF QueuedItems
<1>7. ItemsInHand[c] # NoItem /\ ItemsInHand' = [ItemsInHand EXCEPT ![c] = NoItem]
  BY <1>1, <1>3, <1>4, NoItemAssumption DEF ItemsInHand
<1> QED BY <1>6, <1>7, FifoSeen

\* The destructor discards what is queued.
LEMMA MpscDestroyDiscards ==
  ASSUME Mpsc!Destroy
  PROVE  Mpsc!MpscFifo!Discard
<1>1. \A t \in Threads : at[t] = "idle" /\ at'[t] = "idle"
  BY SameNames DEF Mpsc!Destroy
<1>2. \A c \in Consumers : ~MovedOut(c) /\ ~MovedOut(c)'
  BY <1>1 DEF MovedOut, Threads
<1>3. ItemsInHand = [c \in Consumers |-> NoItem] /\ ItemsInHand' = [c \in Consumers |-> NoItem]
  BY <1>2 DEF ItemsInHand
<1>4. QueuedItems' = << >>
  BY DEF Mpsc!Destroy, QueuedItems
<1> QED BY <1>3, <1>4, FifoSeen

\* Every other step is invisible.
LEMMA MpscOthersInvisible ==
  ASSUME MpscTypes,
         \/ \E p \in Producers : Mpsc!Emplace(p) /\ ~Mpsc!PushClaim(p)
         \/ \E c \in Consumers : Mpsc!Found(c) \/ Mpsc!Reopen(c)
         \/ \E o \in Observers : Mpsc!Size(o)
         \/ UNCHANGED Mpsc!vars
  PROVE  UNCHANGED Mpsc!MpscFifo!fifoVars
<1> USE DEF MpscTypes, Threads, MovedOut, Mpsc!Goto, Mpsc!counters, Mpsc!slots, Mpsc!caller,
            Mpsc!results
<1>1. ASSUME NEW p \in Producers, Mpsc!Emplace(p), ~Mpsc!PushClaim(p)
      PROVE  UNCHANGED Mpsc!MpscFifo!fifoVars
  <2>1. UNCHANGED <<tail, head, gone, history, taken>>
    BY <1>1
    DEF Mpsc!Emplace, Mpsc!PushStep, Mpsc!PushBegin, Mpsc!PushSlotReady, Mpsc!PushFull,
        Mpsc!PushBehind, Mpsc!PushReload, Mpsc!PushClaimFails, Mpsc!PushConstruct,
        Mpsc!PushPublish
  <2>2. \A c \in Consumers : at'[c] = at[c]
    BY <1>1, ThreadsAssumption
    DEF Mpsc!Emplace, Mpsc!PushStep, Mpsc!PushBegin, Mpsc!PushSlotReady, Mpsc!PushFull,
        Mpsc!PushBehind, Mpsc!PushReload, Mpsc!PushClaimFails, Mpsc!PushConstruct,
        Mpsc!PushPublish
  <2> QED BY <2>1, <2>2, MpscInvisible
<1>2. ASSUME NEW c \in Consumers, Mpsc!Found(c) \/ Mpsc!Reopen(c)
      PROVE  UNCHANGED Mpsc!MpscFifo!fifoVars
  <2>1. \A d \in Consumers : MovedOut(d)' <=> MovedOut(d)
    BY <1>2 DEF Mpsc!Found, Mpsc!Reopen
  <2> QED BY <2>1, <1>2, MpscInvisible DEF Mpsc!Found, Mpsc!Reopen
<1>3. ASSUME NEW o \in Observers, Mpsc!Size(o)
      PROVE  UNCHANGED Mpsc!MpscFifo!fifoVars
  <2>1. \A c \in Consumers : at'[c] = at[c]
    BY <1>3, ThreadsAssumption DEF Mpsc!Size, Mpsc!SizeTailFirst, Mpsc!SizeHeadLast
  <2> QED BY <2>1, <1>3, MpscInvisible DEF Mpsc!Size, Mpsc!SizeTailFirst, Mpsc!SizeHeadLast
<1>4. ASSUME UNCHANGED Mpsc!vars PROVE UNCHANGED Mpsc!MpscFifo!fifoVars
  BY <1>4, MpscInvisible DEF Mpsc!vars
<1> QED BY <1>1, <1>2, <1>3, <1>4

\* The ring with one consumer implements the bounded FIFO of N places, although a slot
\* is refilled before m_head says that it is free; size_approx overshoots by that one
\* place and the pops between its loads at most; the destructor leaves nothing alive.
THEOREM MpscIsExact == MCSpec => MpscExact
<1> DEFINE Bounded == \A o \in Observers :
                        Mpsc!SizeHeadLast(o) => seen'[o] <= N + 1 + head - local[o]
<1>1. Mpsc!Init => Mpsc!MpscFifo!FifoInit
  <2> SUFFICES ASSUME Mpsc!Init PROVE Mpsc!MpscFifo!FifoInit
    OBVIOUS
  <2>1. /\ head = 0 /\ tail = 0 /\ history = << >>
        /\ \A c \in Consumers : ~MovedOut(c)
    BY SameNames DEF Mpsc!Init, MovedOut, Threads
  <2>2. QueuedItems = << >> /\ ItemsInHand = [c \in Consumers |-> NoItem]
    BY <2>1 DEF QueuedItems, ItemsInHand, Front
  <2> QED BY <2>2, FifoSeen
<1>2. MpscInv /\ [Mpsc!MpscNext]_(Mpsc!vars)
        => [Mpsc!MpscFifo!FifoNext]_(Mpsc!MpscFifo!fifoVars)
  <2> SUFFICES ASSUME MpscInv, [Mpsc!MpscNext]_(Mpsc!vars)
               PROVE  Mpsc!MpscFifo!FifoNext \/ UNCHANGED Mpsc!MpscFifo!fifoVars
    OBVIOUS
  <2>0. MpscTypes
    BY DEF MpscInv
  <2>1. ASSUME NEW c \in Consumers, Mpsc!Pop(c)
        PROVE  Mpsc!MpscFifo!FifoNext \/ UNCHANGED Mpsc!MpscFifo!fifoVars
    BY <2>0, <2>1, MpscTakeDequeues, MpscAdvanceDelivers, MpscOthersInvisible
    DEF Mpsc!Pop, Mpsc!MpscFifo!FifoNext
  <2>2. ASSUME Mpsc!Destroy PROVE Mpsc!MpscFifo!FifoNext
    BY <2>2, MpscDestroyDiscards DEF Mpsc!MpscFifo!FifoNext
  <2> QED BY <2>0, <2>1, <2>2, MpscClaimEnqueues, MpscOthersInvisible
          DEF Mpsc!MpscNext, Mpsc!Gone
<1>3. MpscInv => Mpsc!NoLeak
  BY SameNames DEF MpscInv, QuietOnceGone, Mpsc!NoLeak
<1>4. MpscInv /\ [Mpsc!MpscNext]_(Mpsc!vars) => [Bounded]_(Mpsc!vars)
  <2> SUFFICES ASSUME MpscInv, NEW o \in Observers, Mpsc!SizeHeadLast(o)
               PROVE  seen'[o] <= N + 1 + head - local[o]
    OBVIOUS
  <2>1. /\ at[o] = "size_head" /\ o \in Threads
        /\ seen' = [seen EXCEPT ![o] = IF tail >= local[o] THEN tail - local[o] ELSE 0]
    BY DEF Mpsc!SizeHeadLast, Mpsc!SizeOf, Threads
  <2>2. local[o] \in Nat /\ local[o] <= head /\ seen \in [Observers -> Nat]
    BY <2>1 DEF MpscInv, MpscTypes, PositionsKept
  <2>3. Oldest <= head + 1
    BY Window DEF Oldest
  <2>4. seen'[o] = tail - local[o]
    BY <2>1, <2>2, Window
  <2> QED BY <2>2, <2>3, <2>4, Window, CapacityAssumption
<1> QED BY <1>1, <1>2, <1>3, <1>4, MpscAlone, MpscInvariantHolds, PTL
        DEF MpscExact, Mpsc!MpscExact, Mpsc!MpscFifo!FifoSpec
=============================================================================
