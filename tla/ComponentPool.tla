---------------------------- MODULE ComponentPool ----------------------------
(***************************************************************************)
(* ecs/component_pool.hpp: the components of one type, in slots that never *)
(* move.  An erase leaves a tombstone for a later insert, so that the      *)
(* component of an entity keeps its slot for as long as it exists.         *)
(*                                                                         *)
(* A pool is a record, and its operations are functions of it.             *)
(***************************************************************************)
EXTENDS Naturals, Sequences, FiniteSets

Ext == INSTANCE SequencesExt

CONSTANTS Keys,        \* the entity indices
          Tombstone    \* a slot without an entry

\* What the constants must be; the modules that give them values assume it.
PoolAssumption == IsFiniteSet(Keys) /\ Tombstone \notin Keys

Absent == 0      \* m_sparse of a key without a slot

\* sparse: the slot of each key.  slots: the key of each entry.  free: m_free, a stack.
EmptyPool == [sparse |-> [k \in Keys |-> Absent], slots |-> << >>, free |-> << >>, size |-> 0]

Contains(pool, k) == pool.sparse[k] # Absent
IsLive(pool, slot) == pool.slots[slot] # Tombstone
SlotCount(pool) == Len(pool.slots)

\* insert_or_assign of a key without a component: the slot that was vacated last, or a new one.
Inserted(pool, k) ==
  IF pool.free # << >>
    THEN [sparse |-> [pool.sparse EXCEPT ![k] = Ext!Last(pool.free)],
          slots  |-> [pool.slots EXCEPT ![Ext!Last(pool.free)] = k],
          free   |-> Ext!Front(pool.free),
          size   |-> pool.size + 1]
    ELSE [sparse |-> [pool.sparse EXCEPT ![k] = SlotCount(pool) + 1],
          slots  |-> Append(pool.slots, k),
          free   |-> << >>,
          size   |-> pool.size + 1]

(***************************************************************************)
(* Wrong variants, for checking that the properties of EcsView watch the   *)
(* code; no specification uses them.                                       *)
(***************************************************************************)
\* The last entry moves into the slot that becomes vacant, as in a packed array.
SwapAndPop(pool, k) ==
  IF ~Contains(pool, k) THEN pool ELSE
  LET slot == pool.sparse[k]
      last == Ext!Last(pool.slots)
  IN  [sparse |-> [[pool.sparse EXCEPT ![last] = slot] EXCEPT ![k] = Absent],
       slots  |-> Ext!Front([pool.slots EXCEPT ![slot] = last]),
       free   |-> pool.free,
       size   |-> pool.size - 1]

\* The tombstone is found by its slot, but the key still points to it.
Dangling(pool, k) ==
  IF ~Contains(pool, k) THEN pool ELSE
  [sparse |-> pool.sparse,
   slots  |-> [pool.slots EXCEPT ![pool.sparse[k]] = Tombstone],
   free   |-> Append(pool.free, pool.sparse[k]),
   size   |-> pool.size - 1]

\* erase; a key without a component changes nothing.
Erased(pool, k) ==
  IF ~Contains(pool, k) THEN pool ELSE
  [sparse |-> [pool.sparse EXCEPT ![k] = Absent],
   slots  |-> [pool.slots EXCEPT ![pool.sparse[k]] = Tombstone],
   free   |-> Append(pool.free, pool.sparse[k]),
   size   |-> pool.size - 1]

-----------------------------------------------------------------------------
PoolType(pool) ==
  /\ DOMAIN pool = {"sparse", "slots", "free", "size"}
  /\ pool.slots \in Seq(Keys \cup {Tombstone})
  /\ pool.sparse \in [Keys -> 0..SlotCount(pool)]
  /\ pool.free \in Seq(1..SlotCount(pool))
  /\ pool.size \in Nat

\* Keys and slots point at each other, every tombstone is free once, size counts the rest.
Exact(pool) ==
  /\ PoolType(pool)
  /\ \A k \in Keys, slot \in 1..SlotCount(pool) : pool.sparse[k] = slot <=> pool.slots[slot] = k
  /\ Ext!IsInjective(pool.free)
  /\ Ext!ToSet(pool.free) = {slot \in 1..SlotCount(pool) : ~IsLive(pool, slot)}
  /\ pool.size = Cardinality({k \in Keys : Contains(pool, k)})
=============================================================================
