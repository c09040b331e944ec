----------------------------- MODULE MpmcQueue ------------------------------
(***************************************************************************)
(* container/mpmc_queue.hpp: the bounded multi-producer multi-consumer     *)
(* ring.  One action per access to shared memory, in program order:        *)
(*                                                                         *)
(*   emplace   load m_enqueue_pos; load the slot's sequence; then          *)
(*             CAS the position and construct and publish, or give up, or  *)
(*             reload the position                                         *)
(*   pop       the mirror image on m_dequeue_pos                           *)
(*   size_approx, empty_approx, full_approx                                *)
(*             load m_enqueue_pos and m_dequeue_pos, in either order       *)
(*   ~mpmc_queue                                                           *)
(*             destroys what is queued, once no call is running            *)
(*                                                                         *)
(* Atomic accesses interleave, and an observer's two relaxed loads, which  *)
(* nothing orders, are taken in either order.  The element is not atomic:  *)
(* it is written (Construct) and read (Take) in steps of their own and     *)
(* nothing but the handshake on `sequence' keeps them apart.               *)
(***************************************************************************)
EXTENDS Ring, Sequences

CONSTANTS Producers,    \* threads that call push / emplace
          Consumers,    \* threads that call pop / try_pop
          Observers,    \* threads that call size_approx and its relatives
          NoItem,       \* raw storage: no object lives there
          MaxPushes     \* bound: how many times each producer calls push

Threads == Producers \cup Consumers \cup Observers

\* The argument of a producer's k-th push: every push carries a distinct value.
Item == Producers \X (1..MaxPushes)

ASSUME ThreadsAssumption ==
  /\ Producers \cap Consumers = {}
  /\ Producers \cap Observers = {}
  /\ Consumers \cap Observers = {}
  /\ MaxPushes \in Nat

ASSUME NoItemAssumption == NoItem \notin Item

VARIABLES
  enqueuePos,   \* m_enqueue_pos
  dequeuePos,   \* m_dequeue_pos
  sequence,     \* m_slots[i].sequence
  storage,      \* m_slots[i].storage: the item living there, or NoItem
  destroyed,    \* the destructor has run
  pc,           \* where each thread stands in its call
  pos,          \* each thread's local `pos' (an observer's first load)
  pushes,       \* how many pushes each producer has begun
  arg,          \* each producer's argument
  value,        \* each consumer's local `value', the result of its last pop
  sizeSeen,     \* each observer's last size_approx result
  log           \* history: the items in the order their tickets were claimed

counters == <<enqueuePos, dequeuePos>>
slots == <<sequence, storage>>
caller == <<pushes, arg>>
results == <<value, sizeSeen>>
vars == <<counters, slots, destroyed, pc, pos, caller, results, log>>

SizePc == {"size_tail", "size_head"}
PushPc == {"push_load", "push_claim", "push_reload", "push_construct", "push_publish"}
PopPc == {"pop_load", "pop_claim", "pop_reload", "pop_take", "pop_release"}

\* Tickets claimed by an enqueue and not yet by a dequeue.
Queued == dequeuePos..(enqueuePos - 1)

Init ==
  /\ enqueuePos = 0
  /\ dequeuePos = 0
  /\ sequence = [i \in Slots |-> i]
  /\ storage = [i \in Slots |-> NoItem]
  /\ destroyed = FALSE
  /\ pc = [t \in Threads |-> "idle"]
  /\ pos = [t \in Threads |-> 0]
  /\ pushes = [p \in Producers |-> 0]
  /\ arg = [p \in Producers |-> NoItem]
  /\ value = [c \in Consumers |-> NoItem]
  /\ sizeSeen = [o \in Observers |-> 0]
  /\ log = << >>

Goto(t, label) == pc' = [pc EXCEPT ![t] = label]

(***************************************************************************)
(* Wrong variants of single steps, one slip each.  No specification uses   *)
(* them: put in the place of the real step, each makes a property below    *)
(* fail, which shows that the property watches that step.                  *)
(***************************************************************************)

\* A slot from a lap that is not over counts as ready.
SlotReadyTooEarly(p) ==
  /\ pc[p] = "push_load"
  /\ sequence[Slot(pos[p])] <= pos[p]
  /\ Goto(p, "push_claim")
  /\ UNCHANGED <<counters, slots, destroyed, pos, caller, results, log>>

\* The position is not refreshed before the retry.
ReloadForgotten(p) ==
  /\ pc[p] = "push_reload"
  /\ Goto(p, "push_load")
  /\ UNCHANGED <<counters, slots, destroyed, pos, caller, results, log>>

\* A load and a store instead of the compare-and-swap.
ClaimWithoutCas(p) ==
  /\ pc[p] = "push_claim"
  /\ enqueuePos' = pos[p] + 1
  /\ log' = Append(log, arg[p])
  /\ Goto(p, "push_construct")
  /\ UNCHANGED <<dequeuePos, slots, destroyed, pos, caller, results>>

\* The sequence is published before the element is constructed.
PublishBeforeConstruct(p) ==
  /\ pc[p] = "push_claim"
  /\ enqueuePos = pos[p]
  /\ enqueuePos' = pos[p] + 1
  /\ sequence' = [sequence EXCEPT ![Slot(pos[p])] = pos[p] + 1]
  /\ log' = Append(log, arg[p])
  /\ Goto(p, "push_construct")
  /\ UNCHANGED <<dequeuePos, storage, destroyed, pos, caller, results>>

\* The published sequence is not advanced.
PublishNothing(p) ==
  /\ pc[p] = "push_publish"
  /\ Goto(p, "idle")
  /\ UNCHANGED <<counters, slots, destroyed, pos, caller, results, log>>

\* The slot is reopened before the element is moved out.
ReleaseBeforeTake(c) ==
  /\ pc[c] = "pop_claim"
  /\ dequeuePos = pos[c]
  /\ dequeuePos' = pos[c] + 1
  /\ sequence' = [sequence EXCEPT ![Slot(pos[c])] = pos[c] + N]
  /\ Goto(c, "pop_take")
  /\ UNCHANGED <<enqueuePos, storage, destroyed, pos, caller, results, log>>

\* The moved-from element is not destroyed.
TakeWithoutDestroy(c) ==
  /\ pc[c] = "pop_take"
  /\ value' = [value EXCEPT ![c] = storage[Slot(pos[c])]]
  /\ Goto(c, "pop_release")
  /\ UNCHANGED <<counters, slots, destroyed, pos, caller, sizeSeen, log>>

\* The slot is not moved on to the next lap.
ReleaseSameLap(c) ==
  /\ pc[c] = "pop_release"
  /\ Goto(c, "idle")
  /\ UNCHANGED <<counters, slots, destroyed, pos, caller, results, log>>

\* The destructor stops one element short.
DestroyAllButLast ==
  /\ ~destroyed
  /\ \A t \in Threads : pc[t] = "idle"
  /\ destroyed' = TRUE
  /\ storage' = [i \in Slots |-> IF \E t \in dequeuePos..(enqueuePos - 2) : Slot(t) = i
                                   THEN NoItem ELSE storage[i]]
  /\ UNCHANGED <<counters, sequence, pc, pos, caller, results, log>>

(***************************************************************************)
(* push and emplace.                                                       *)
(***************************************************************************)
PushBegin(p) ==
  /\ ~destroyed
  /\ pc[p] = "idle"
  /\ pushes[p] < MaxPushes
  /\ pushes' = [pushes EXCEPT ![p] = @ + 1]
  /\ arg' = [arg EXCEPT ![p] = <<p, pushes[p] + 1>>]
  /\ pos' = [pos EXCEPT ![p] = enqueuePos]
  /\ Goto(p, "push_load")
  /\ UNCHANGED <<counters, slots, destroyed, results, log>>

\* diff == 0: the slot is ready for this ticket.
PushSlotReady(p) ==
  /\ pc[p] = "push_load"
  /\ sequence[Slot(pos[p])] = pos[p]
  /\ Goto(p, "push_claim")
  /\ UNCHANGED <<counters, slots, destroyed, pos, caller, results, log>>

\* diff < 0: the slot still belongs to the lap before; the call returns `full'.
PushFull(p) ==
  /\ pc[p] = "push_load"
  /\ sequence[Slot(pos[p])] < pos[p]
  /\ Goto(p, "idle")
  /\ UNCHANGED <<counters, slots, destroyed, pos, caller, results, log>>

\* diff > 0: the ticket is gone.
PushBehind(p) ==
  /\ pc[p] = "push_load"
  /\ sequence[Slot(pos[p])] > pos[p]
  /\ Goto(p, "push_reload")
  /\ UNCHANGED <<counters, slots, destroyed, pos, caller, results, log>>

PushReload(p) ==
  /\ pc[p] = "push_reload"
  /\ pos' = [pos EXCEPT ![p] = enqueuePos]
  /\ Goto(p, "push_load")
  /\ UNCHANGED <<counters, slots, destroyed, caller, results, log>>

\* compare_exchange_weak(pos, pos + 1) succeeds: the ticket is this producer's.
PushClaim(p) ==
  /\ pc[p] = "push_claim"
  /\ enqueuePos = pos[p]
  /\ enqueuePos' = pos[p] + 1
  /\ log' = Append(log, arg[p])
  /\ Goto(p, "push_construct")
  /\ UNCHANGED <<dequeuePos, slots, destroyed, pos, caller, results>>

\* It fails, because it lost the race or spuriously, and refreshes pos.
PushClaimFails(p) ==
  /\ pc[p] = "push_claim"
  /\ pos' = [pos EXCEPT ![p] = enqueuePos]
  /\ Goto(p, "push_load")
  /\ UNCHANGED <<counters, slots, destroyed, caller, results, log>>

PushConstruct(p) ==
  /\ pc[p] = "push_construct"
  /\ storage' = [storage EXCEPT ![Slot(pos[p])] = arg[p]]
  /\ Goto(p, "push_publish")
  /\ UNCHANGED <<counters, sequence, destroyed, pos, caller, results, log>>

PushPublish(p) ==
  /\ pc[p] = "push_publish"
  /\ sequence' = [sequence EXCEPT ![Slot(pos[p])] = pos[p] + 1]
  /\ Goto(p, "idle")
  /\ UNCHANGED <<counters, storage, destroyed, pos, caller, results, log>>

PushStep(p) ==
  \/ PushSlotReady(p) \/ PushFull(p) \/ PushBehind(p) \/ PushReload(p)
  \/ PushClaim(p) \/ PushClaimFails(p) \/ PushConstruct(p) \/ PushPublish(p)

(***************************************************************************)
(* pop and try_pop.                                                        *)
(***************************************************************************)
PopBegin(c) ==
  /\ ~destroyed
  /\ pc[c] = "idle"
  /\ pos' = [pos EXCEPT ![c] = dequeuePos]
  /\ Goto(c, "pop_load")
  /\ UNCHANGED <<counters, slots, destroyed, caller, results, log>>

PopSlotReady(c) ==
  /\ pc[c] = "pop_load"
  /\ sequence[Slot(pos[c])] = pos[c] + 1
  /\ Goto(c, "pop_claim")
  /\ UNCHANGED <<counters, slots, destroyed, pos, caller, results, log>>

\* diff < 0: nothing is published for this ticket; the call returns `empty'.
PopEmpty(c) ==
  /\ pc[c] = "pop_load"
  /\ sequence[Slot(pos[c])] < pos[c] + 1
  /\ Goto(c, "idle")
  /\ UNCHANGED <<counters, slots, destroyed, pos, caller, results, log>>

PopBehind(c) ==
  /\ pc[c] = "pop_load"
  /\ sequence[Slot(pos[c])] > pos[c] + 1
  /\ Goto(c, "pop_reload")
  /\ UNCHANGED <<counters, slots, destroyed, pos, caller, results, log>>

PopReload(c) ==
  /\ pc[c] = "pop_reload"
  /\ pos' = [pos EXCEPT ![c] = dequeuePos]
  /\ Goto(c, "pop_load")
  /\ UNCHANGED <<counters, slots, destroyed, caller, results, log>>

PopClaim(c) ==
  /\ pc[c] = "pop_claim"
  /\ dequeuePos = pos[c]
  /\ dequeuePos' = pos[c] + 1
  /\ Goto(c, "pop_take")
  /\ UNCHANGED <<enqueuePos, slots, destroyed, pos, caller, results, log>>

PopClaimFails(c) ==
  /\ pc[c] = "pop_claim"
  /\ pos' = [pos EXCEPT ![c] = dequeuePos]
  /\ Goto(c, "pop_load")
  /\ UNCHANGED <<counters, slots, destroyed, caller, results, log>>

\* Move the element out and destroy it.
PopTake(c) ==
  /\ pc[c] = "pop_take"
  /\ value' = [value EXCEPT ![c] = storage[Slot(pos[c])]]
  /\ storage' = [storage EXCEPT ![Slot(pos[c])] = NoItem]
  /\ Goto(c, "pop_release")
  /\ UNCHANGED <<counters, sequence, destroyed, pos, caller, sizeSeen, log>>

\* Reopen the slot one lap later and return `value'.
PopRelease(c) ==
  /\ pc[c] = "pop_release"
  /\ sequence' = [sequence EXCEPT ![Slot(pos[c])] = pos[c] + N]
  /\ Goto(c, "idle")
  /\ UNCHANGED <<counters, storage, destroyed, pos, caller, results, log>>

PopStep(c) ==
  \/ PopSlotReady(c) \/ PopEmpty(c) \/ PopBehind(c) \/ PopReload(c)
  \/ PopClaim(c) \/ PopClaimFails(c) \/ PopTake(c) \/ PopRelease(c)

(***************************************************************************)
(* size_approx: two relaxed loads of different variables, whose order the  *)
(* memory model leaves open, and the difference clamped at zero.           *)
(***************************************************************************)
SizeOf(head, tail) == IF head >= tail THEN head - tail ELSE 0

SizeHeadFirst(o) ==
  /\ ~destroyed
  /\ pc[o] = "idle"
  /\ pos' = [pos EXCEPT ![o] = enqueuePos]
  /\ Goto(o, "size_tail")
  /\ UNCHANGED <<counters, slots, destroyed, caller, results, log>>

SizeTailLast(o) ==
  /\ pc[o] = "size_tail"
  /\ sizeSeen' = [sizeSeen EXCEPT ![o] = SizeOf(pos[o], dequeuePos)]
  /\ Goto(o, "idle")
  /\ UNCHANGED <<counters, slots, destroyed, pos, caller, value, log>>

SizeTailFirst(o) ==
  /\ ~destroyed
  /\ pc[o] = "idle"
  /\ pos' = [pos EXCEPT ![o] = dequeuePos]
  /\ Goto(o, "size_head")
  /\ UNCHANGED <<counters, slots, destroyed, caller, results, log>>

SizeHeadLast(o) ==
  /\ pc[o] = "size_head"
  /\ sizeSeen' = [sizeSeen EXCEPT ![o] = SizeOf(enqueuePos, pos[o])]
  /\ Goto(o, "idle")
  /\ UNCHANGED <<counters, slots, destroyed, pos, caller, value, log>>

SizeStep(o) == SizeHeadFirst(o) \/ SizeTailLast(o) \/ SizeTailFirst(o) \/ SizeHeadLast(o)

(***************************************************************************)
(* The destructor; single-threaded teardown is its contract.               *)
(***************************************************************************)
Destroy ==
  /\ ~destroyed
  /\ \A t \in Threads : pc[t] = "idle"
  /\ destroyed' = TRUE
  /\ storage' = [i \in Slots |-> IF \E t \in Queued : Slot(t) = i THEN NoItem ELSE storage[i]]
  /\ UNCHANGED <<counters, sequence, pc, pos, caller, results, log>>

\* Nothing happens after the destructor.
Gone == destroyed /\ UNCHANGED vars

Next ==
  \/ \E p \in Producers : PushBegin(p) \/ PushStep(p)
  \/ \E c \in Consumers : PopBegin(c) \/ PopStep(c)
  \/ \E o \in Observers : SizeStep(o)
  \/ Destroy
  \/ Gone

Spec == Init /\ [][Next]_vars

(***************************************************************************)
(* Every thread inside a call keeps running, and compare_exchange_weak     *)
(* does not fail for ever while the position is the expected one: the      *)
(* scheduler and the hardware promise both.                                *)
(***************************************************************************)
ThreadFairness ==
  /\ \A p \in Producers : WF_vars(PushStep(p)) /\ SF_vars(PushClaim(p))
  /\ \A c \in Consumers : WF_vars(PopStep(c)) /\ SF_vars(PopClaim(c))

\* A consumer that polls, as the back end of the asynchronous log manager does.
PollingFairness == \A c \in Consumers : WF_vars(PopBegin(c))

FairSpec == Spec /\ ThreadFairness /\ PollingFairness

-----------------------------------------------------------------------------
(***************************************************************************)
(* Properties.                                                             *)
(***************************************************************************)

\* Every variable has its type: in particular a thread is only ever at a
\* program point of the operation it may call, and size_approx never wraps
\* below zero.
TypeOK ==
  /\ enqueuePos \in Nat
  /\ dequeuePos \in Nat
  /\ sequence \in [Slots -> Nat]
  /\ storage \in [Slots -> Item \cup {NoItem}]
  /\ destroyed \in BOOLEAN
  /\ pc \in [Threads -> {"idle"} \cup PushPc \cup PopPc \cup SizePc]
  /\ \A p \in Producers : pc[p] \in {"idle"} \cup PushPc
  /\ \A c \in Consumers : pc[c] \in {"idle"} \cup PopPc
  /\ \A o \in Observers : pc[o] \in {"idle"} \cup SizePc
  /\ pos \in [Threads -> Nat]
  /\ pushes \in [Producers -> 0..MaxPushes]
  /\ arg \in [Producers -> Item \cup {NoItem}]
  /\ \A p \in Producers : pc[p] # "idle" => arg[p] \in Item
  /\ value \in [Consumers -> Item \cup {NoItem}]
  /\ sizeSeen \in [Observers -> Nat]
  /\ log \in Seq(Item)

Writing(p) == pc[p] \in {"push_construct", "push_publish"}
Reading(c) == pc[c] \in {"pop_take", "pop_release"}
Owns(t) == pc[t] \in {"push_construct", "push_publish", "pop_take", "pop_release"}

\* The non-atomic storage of a slot is touched by one thread at a time: between
\* its CAS and its store to `sequence' a producer in emplace or a consumer in pop
\* has the slot to itself, whatever lap the others believe to be on.
SlotExclusive ==
  \A t, u \in Threads : t # u /\ Owns(t) /\ Owns(u) => Slot(pos[t]) # Slot(pos[u])

\* std::construct_at only runs on raw storage and the move out of a slot only on
\* a living element: nothing is overwritten, leaked or read before it exists.
StorageDiscipline ==
  /\ \A p \in Producers : pc[p] = "push_construct" => storage[Slot(pos[p])] = NoItem
  /\ \A c \in Consumers : pc[c] = "pop_take" => storage[Slot(pos[c])] # NoItem

\* size_approx reports at most the capacity when it reads the enqueue position
\* first, however long its two loads are apart.  Nothing orders the two loads; in
\* the other order it overshoots by at most the pops that happened in between, so
\* full_approx can be true of a queue that never was full.
SizeApproxBounded ==
  [][\A o \in Observers :
       /\ SizeTailLast(o) => sizeSeen'[o] <= N
       /\ SizeHeadLast(o) => sizeSeen'[o] <= N + (dequeuePos - pos[o])]_vars

\* After the destructor no element is left alive in a slot.
NoLeak == destroyed => \A i \in Slots : storage[i] = NoItem

\* A refused call has a reason.  emplace reports `full' only while the item N
\* tickets earlier is still queued or still being taken out of the slot, and pop
\* reports `empty' only when no ticket is out or a producer still holds the front
\* one unpublished.
RefusalsJustified ==
  [][ /\ \A p \in Producers : PushFull(p) =>
           \/ pos[p] - N \in Queued
           \/ \E c \in Consumers : Reading(c) /\ pos[c] = pos[p] - N
      /\ \A c \in Consumers : PopEmpty(c) =>
           \/ pos[c] = enqueuePos
           \/ \E p \in Producers : Writing(p) /\ pos[p] = pos[c] ]_vars

(***************************************************************************)
(* The queue seen as a BoundedFifo: an item is enqueued at the producer's  *)
(* CAS and dequeued at the consumer's, and what a consumer has in hand is  *)
(* what really lies in its slot and then in its local `value'.             *)
(***************************************************************************)
AbstractFifo ==
  IF destroyed THEN << >>
  ELSE SubSeq(log, dequeuePos + 1, enqueuePos)

AbstractInHand ==
  [c \in Consumers |-> CASE pc[c] = "pop_take" -> storage[Slot(pos[c])]
                         [] pc[c] = "pop_release" -> value[c]
                         [] OTHER -> NoItem]

Fifo == INSTANCE BoundedFifo
          WITH Capacity <- N, fifo <- AbstractFifo, inHand <- AbstractInHand

\* The ring implements the bounded FIFO: no item is lost, duplicated, reordered
\* or torn between emplace and pop, and never more than N are queued.
RefinesFifo == Fifo!FifoSpec

\* Every call returns: the retry loops of emplace and pop end, because another
\* thread's success is the only thing that can send them round again.
CallsReturn == \A t \in Threads \ Observers : pc[t] # "idle" ~> pc[t] = "idle"

\* Whatever tickets emplace hands out, the consumers keep catching up while the
\* queue lives: no slot stays unpublished or stuck in the lap before.
QueueDrains == []<>(dequeuePos = enqueuePos \/ destroyed)

-----------------------------------------------------------------------------
(***************************************************************************)
(* The inductive invariant behind the properties.  Each slot is described  *)
(* through the one ticket of the last N that maps to it.                   *)
(***************************************************************************)
LastLap == {t \in (enqueuePos - N)..(enqueuePos - 1) : t >= 0}

CountersOrdered ==
  /\ dequeuePos <= enqueuePos
  /\ enqueuePos <= dequeuePos + N
  /\ Len(log) = enqueuePos

\* A local position may be stale but is never ahead of its counter, and while it
\* is current the slot that looked ready still is.
PositionsBehind ==
  /\ \A p \in Producers : pc[p] \in PushPc =>
       /\ pos[p] <= enqueuePos
       /\ pc[p] = "push_claim" /\ pos[p] = enqueuePos => sequence[Slot(pos[p])] = pos[p]
  /\ \A c \in Consumers : pc[c] \in PopPc =>
       /\ pos[c] <= dequeuePos
       /\ pc[c] = "pop_claim" /\ pos[c] = dequeuePos => sequence[Slot(pos[c])] = pos[c] + 1

\* A producer that won a ticket holds its slot until it publishes.
WriterHolds ==
  \A p \in Producers : Writing(p) =>
    /\ pos[p] \in Queued
    /\ sequence[Slot(pos[p])] = pos[p]
    /\ arg[p] = log[pos[p] + 1]
    /\ storage[Slot(pos[p])] = IF pc[p] = "push_construct" THEN NoItem ELSE arg[p]

\* A consumer that won a ticket holds its slot until it releases it.
ReaderHolds ==
  \A c \in Consumers : Reading(c) =>
    /\ pos[c] \in LastLap \ Queued
    /\ sequence[Slot(pos[c])] = pos[c] + 1
    /\ IF pc[c] = "pop_take"
       THEN storage[Slot(pos[c])] = log[pos[c] + 1]
       ELSE value[c] = log[pos[c] + 1] /\ storage[Slot(pos[c])] = NoItem

TicketsDistinct ==
  /\ \A p, q \in Producers : Writing(p) /\ Writing(q) /\ pos[p] = pos[q] => p = q
  /\ \A c, d \in Consumers : Reading(c) /\ Reading(d) /\ pos[c] = pos[d] => c = d

\* The life of a ticket: being written, published, being taken, released.
TicketState(t) ==
  \/ /\ t \in Queued
     /\ sequence[Slot(t)] = t
     /\ \E p \in Producers : Writing(p) /\ pos[p] = t
  \/ /\ t \in Queued
     /\ sequence[Slot(t)] = t + 1
     /\ destroyed \/ storage[Slot(t)] = log[t + 1]
  \/ /\ t < dequeuePos
     /\ sequence[Slot(t)] = t + 1
     /\ \E c \in Consumers : Reading(c) /\ pos[c] = t
  \/ /\ t < dequeuePos
     /\ sequence[Slot(t)] = t + N
     /\ storage[Slot(t)] = NoItem

TicketStates == \A t \in LastLap : TicketState(t)

UntouchedSlots ==
  \A i \in Slots : i >= enqueuePos => sequence[i] = i /\ storage[i] = NoItem

\* A slot once used belongs to a ticket of the last lap.
SlotsCovered == \A i \in Slots : i < enqueuePos => \E t \in LastLap : Slot(t) = i

AllQuietOnceDestroyed ==
  destroyed => /\ \A t \in Threads : pc[t] = "idle"
               /\ \A i \in Slots : storage[i] = NoItem

\* Why the handshake works, for any number of threads and laps: the counters are
\* at most N apart, whoever won a ticket in emplace or pop has that ticket's slot
\* to itself, and each of the last N tickets is in one of its four states.
Inv ==
  /\ TypeOK
  /\ CountersOrdered
  /\ PositionsBehind
  /\ WriterHolds
  /\ ReaderHolds
  /\ TicketsDistinct
  /\ TicketStates
  /\ UntouchedSlots
  /\ SlotsCovered
  /\ AllQuietOnceDestroyed
=============================================================================
