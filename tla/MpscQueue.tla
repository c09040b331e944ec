----------------------------- MODULE MpscQueue ------------------------------
(***************************************************************************)
(* container/mpsc_queue.hpp: the ring of MpmcQueue for one consumer, with  *)
(* m_tail for m_enqueue_pos and m_head for m_dequeue_pos.  emplace is the  *)
(* same code.  pop claims nothing: only its thread writes m_head, and it   *)
(* does so after it has reopened the slot, so that for one step producers  *)
(* may be a ticket further than m_head says.                               *)
(*                                                                         *)
(* The one consumer is any of Consumers that calls while no other does.    *)
(***************************************************************************)
EXTENDS MpmcQueue

(***************************************************************************)
(* A wrong variant, for checking that the property below watches the code; *)
(* no specification uses it.                                               *)
(***************************************************************************)
\* The slot is given back before the element is moved out.
ReopenFirst(c) ==
  /\ \A d \in Consumers : pc[d] = "idle"
  /\ sequence[Slot(dequeuePos)] >= dequeuePos + 1
  /\ pos' = [pos EXCEPT ![c] = dequeuePos]
  /\ sequence' = [sequence EXCEPT ![Slot(dequeuePos)] = dequeuePos + N]
  /\ Goto(c, "pop_take")
  /\ UNCHANGED <<counters, storage, destroyed, caller, results, log>>

-----------------------------------------------------------------------------
(***************************************************************************)
(* pop and try_pop; one that finds nothing is no step.                     *)
(***************************************************************************)
Found(c) ==
  /\ ~destroyed
  /\ \A d \in Consumers : pc[d] = "idle"
  /\ sequence[Slot(dequeuePos)] >= dequeuePos + 1
  /\ pos' = [pos EXCEPT ![c] = dequeuePos]
  /\ Goto(c, "pop_take")
  /\ UNCHANGED <<counters, slots, destroyed, caller, results, log>>

Reopen(c) ==
  /\ pc[c] = "pop_release"
  /\ sequence' = [sequence EXCEPT ![Slot(pos[c])] = pos[c] + N]
  /\ Goto(c, "pop_advance")
  /\ UNCHANGED <<counters, storage, destroyed, pos, caller, results, log>>

Advance(c) ==
  /\ pc[c] = "pop_advance"
  /\ dequeuePos' = pos[c] + 1
  /\ Goto(c, "idle")
  /\ UNCHANGED <<enqueuePos, slots, destroyed, pos, caller, results, log>>

(***************************************************************************)
(* emplace, pop, size_approx with its two ordered loads, the destructor.   *)
(***************************************************************************)
Emplace(p) == PushBegin(p) \/ PushStep(p)
Pop(c) == Found(c) \/ PopTake(c) \/ Reopen(c) \/ Advance(c)
Size(o) == SizeTailFirst(o) \/ SizeHeadLast(o)

MpscNext ==
  \/ \E p \in Producers : Emplace(p)
  \/ \E c \in Consumers : Pop(c)
  \/ \E o \in Observers : Size(o)
  \/ Destroy
  \/ Gone

-----------------------------------------------------------------------------
\* The first ticket whose element was not moved out.
First ==
  IF \E c \in Consumers : pc[c] \in {"pop_release", "pop_advance"}
    THEN dequeuePos + 1 ELSE dequeuePos

MpscFifo == INSTANCE BoundedFifo WITH
  Capacity <- N,
  fifo <- IF destroyed THEN << >> ELSE SubSeq(log, First + 1, enqueuePos),
  inHand <- [c \in Consumers |->
               IF pc[c] \in {"pop_release", "pop_advance"} THEN value[c] ELSE NoItem]

\* The queue implements the bounded FIFO of N places, an item being taken by the
\* consumer's move-out, although a reopened slot is refilled before m_head moves on;
\* size_approx sees that step, and may say one more than the capacity and the pops
\* between its loads together; and the destructor leaves no element alive.
MpscExact ==
  /\ MpscFifo!FifoSpec
  /\ []NoLeak
  /\ [][\A o \in Observers : SizeHeadLast(o) => sizeSeen'[o] <= N + 1 + dequeuePos - pos[o]]_vars
=============================================================================
