------------------------------ MODULE MCQueues ------------------------------
(***************************************************************************)
(* The two queues between producers and consumers, each alone: `which'     *)
(* says in the initial state which of them the behaviour is about, and the *)
(* other one never moves.                                                  *)
(***************************************************************************)
EXTENDS MpmcQueue, TLC

VARIABLES
  which,
  tail, head, slotSequence, slotStorage, gone, at, local, begun, given, taken, seen, history

Mpsc == INSTANCE MpscQueue WITH
  enqueuePos <- tail, dequeuePos <- head, sequence <- slotSequence, storage <- slotStorage,
  destroyed <- gone, pc <- at, pos <- local, pushes <- begun, arg <- given, value <- taken,
  sizeSeen <- seen, log <- history

mpscVars ==
  <<tail, head, slotSequence, slotStorage, gone, at, local, begun, given, taken, seen, history>>

MCInit == which \in {"mpmc", "mpsc"} /\ Init /\ Mpsc!Init

MCNext ==
  /\ UNCHANGED which
  /\ \/ which = "mpmc" /\ Next /\ UNCHANGED mpscVars
     \/ which = "mpsc" /\ Mpsc!MpscNext /\ UNCHANGED vars

MCSpec == MCInit /\ [][MCNext]_<<which, vars, mpscVars>>

\* The threads of one kind are interchangeable.
ThreadSymmetry == Permutations(Producers) \cup Permutations(Consumers)

\* The queue with one consumer keeps its promises (see MpscQueue).
MpscExact == Mpsc!MpscExact
=============================================================================
