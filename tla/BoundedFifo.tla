---------------------------- MODULE BoundedFifo -----------------------------
(***************************************************************************)
(* What a bounded queue shared by any number of threads promises: a push   *)
(* that succeeds appends its item at one instant, a pop that succeeds      *)
(* removes the oldest item at one instant and later hands exactly that     *)
(* item to its caller, and there is never room for more than Capacity      *)
(* items.  A push may report `full' and a pop may report `empty' at any    *)
(* time: those calls leave no trace here, so they are stuttering steps.    *)
(***************************************************************************)
EXTENDS Naturals, Sequences

CONSTANTS Consumers, Item, NoItem, Capacity

VARIABLES fifo,     \* the queued items, oldest first
          inHand    \* for each consumer, the item it removed and has not returned yet

fifoVars == <<fifo, inHand>>

FifoInit ==
  /\ fifo = << >>
  /\ inHand = [c \in Consumers |-> NoItem]

Enqueue(item) ==
  /\ Len(fifo) < Capacity
  /\ fifo' = Append(fifo, item)
  /\ UNCHANGED inHand

Dequeue(c) ==
  /\ fifo # << >>
  /\ inHand[c] = NoItem
  /\ inHand' = [inHand EXCEPT ![c] = Head(fifo)]
  /\ fifo' = Tail(fifo)

Deliver(c) ==
  /\ inHand[c] # NoItem
  /\ inHand' = [inHand EXCEPT ![c] = NoItem]
  /\ UNCHANGED fifo

\* Tearing the queue down drops what is still queued.
Discard ==
  /\ \A c \in Consumers : inHand[c] = NoItem
  /\ fifo' = << >>
  /\ UNCHANGED inHand

FifoNext ==
  \/ \E item \in Item : Enqueue(item)
  \/ \E c \in Consumers : Dequeue(c) \/ Deliver(c)
  \/ Discard

FifoSpec == FifoInit /\ [][FifoNext]_fifoVars
=============================================================================
