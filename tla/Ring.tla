-------------------------------- MODULE Ring --------------------------------
(***************************************************************************)
(* The index arithmetic of the bounded rings of nexenne/container.  A ring *)
(* of N slots is addressed by a monotonically growing ticket number; the   *)
(* slot of a ticket is `pos & (N - 1)', which for the power of two that    *)
(* the `requires' clause demands is the remainder modulo N.                *)
(***************************************************************************)
EXTENDS Integers

CONSTANT N    \* capacity_value, the slot count of the template

(***************************************************************************)
(* requires(N >= 2 && std::has_single_bit(N)).  The proofs only need the   *)
(* first half; the second is what makes the mask a remainder.              *)
(***************************************************************************)
ASSUME CapacityAssumption == N \in Nat /\ N >= 2
ASSUME CapacityIsPowerOfTwo == \E k \in 1..N : N = 2 ^ k

Slots == 0..(N - 1)

\* pos & (N - 1)
Slot(pos) == pos % N
=============================================================================
