----------------------------- MODULE SpscQueue -----------------------------
(***************************************************************************)
(* container/spsc_queue.hpp: the bounded ring between one producer and one *)
(* consumer.  One slot always stays raw, so N slots hold N - 1 elements.   *)
(* Each side loads its own index and the other's in one step, since nobody *)
(* else writes its own; construction, move-out and the two releasing       *)
(* stores are steps of their own.                                          *)
(***************************************************************************)
EXTENDS Integers, Sequences

CONSTANTS
  N,       \* the slots of the ring
  Item,    \* what is queued
  NoItem   \* raw storage

ASSUME SlotsAssumption == N \in Nat /\ N >= 2
ASSUME NoItemAssumption == NoItem \notin Item

VARIABLES
  head,      \* m_head
  tail,      \* m_tail
  storage,   \* the element living in each slot, or NoItem
  pushing,   \* where the producer is in emplace
  arg,       \* the element it is pushing
  popping,   \* where the consumer is in try_pop
  value      \* the element try_pop is returning

queueVars == <<head, tail, storage, pushing, arg, popping, value>>
producerVars == <<pushing, arg>>
consumerVars == <<popping, value>>

Slots == 0..(N - 1)

QueueInit ==
  /\ head = 0 /\ tail = 0
  /\ storage = [i \in Slots |-> NoItem]
  /\ pushing = "idle" /\ arg = NoItem
  /\ popping = "idle" /\ value = NoItem

(***************************************************************************)
(* Wrong variants, for checking that the properties watch the code.        *)
(***************************************************************************)
ConstructAtNext ==
  /\ pushing = "construct"
  /\ pushing' = "publish"
  /\ storage' = [storage EXCEPT ![(tail + 1) % N] = arg]
  /\ UNCHANGED <<head, tail, arg, popping, value>>

(***************************************************************************)
(* emplace.                                                                *)
(***************************************************************************)
NextSlot(i) == (i + 1) % N

PushRefused ==
  /\ pushing = "idle" /\ NextSlot(tail) = head
  /\ UNCHANGED queueVars

PushAccepted(item) ==
  /\ pushing = "idle" /\ NextSlot(tail) # head
  /\ pushing' = "construct" /\ arg' = item
  /\ UNCHANGED <<head, tail, storage, consumerVars>>

PushConstruct ==
  /\ pushing = "construct"
  /\ pushing' = "publish"
  /\ storage' = [storage EXCEPT ![tail] = arg]
  /\ UNCHANGED <<head, tail, arg, consumerVars>>

PushPublish ==
  /\ pushing = "publish"
  /\ pushing' = "idle" /\ arg' = NoItem
  /\ tail' = NextSlot(tail)
  /\ UNCHANGED <<head, storage, consumerVars>>

(***************************************************************************)
(* pop and try_pop.                                                        *)
(***************************************************************************)
PopEmpty ==
  /\ popping = "idle" /\ head = tail
  /\ UNCHANGED queueVars

PopFound ==
  /\ popping = "idle" /\ head # tail
  /\ popping' = "take"
  /\ UNCHANGED <<head, tail, storage, producerVars, value>>

PopTake ==
  /\ popping = "take"
  /\ popping' = "release"
  /\ value' = storage[head]
  /\ storage' = [storage EXCEPT ![head] = NoItem]
  /\ UNCHANGED <<head, tail, producerVars>>

PopRelease ==
  /\ popping = "release"
  /\ popping' = "return"
  /\ head' = NextSlot(head)
  /\ UNCHANGED <<tail, storage, producerVars, value>>

PopReturn ==
  /\ popping = "return"
  /\ popping' = "idle" /\ value' = NoItem
  /\ UNCHANGED <<head, tail, storage, producerVars>>

(***************************************************************************)
(* What is queued: the published elements, but the one being moved out.    *)
(***************************************************************************)
First == IF popping = "release" THEN NextSlot(head) ELSE head
Queued == [k \in 1..((tail + N - First) % N) |-> storage[(First + k - 1) % N]]

\* The ring is a bounded queue of N - 1 places, whatever steps of the two sides
\* interleave: an element is queued by the releasing store of emplace, taken by the
\* move-out of try_pop, and handed over in the order it was pushed.
Fifo == INSTANCE BoundedFifo WITH
  Consumers <- {"consumer"}, Capacity <- N - 1,
  fifo <- Queued, inHand <- [c \in {"consumer"} |-> value]

RefinesFifo == Fifo!FifoSpec
=============================================================================
