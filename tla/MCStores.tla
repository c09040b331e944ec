------------------------------ MODULE MCStores ------------------------------
(***************************************************************************)
(* The stores of entities and elements, each alone: the registry of ecs,   *)
(* the views that walk its storages, and slot_map.  `which' says in the    *)
(* initial state which of them the behaviour is about; the others are      *)
(* empty and never move.                                                   *)
(***************************************************************************)
EXTENDS EcsRegistry

CONSTANTS Keys, Tombstone, Excludes, MaxChanges,
          MaxMapSlots, MaxElements, Generations

VARIABLES
  which,
  pools, driver, cursor, count, visited, undisturbed, changes,
  values, mapGenerations, mapFree, size, issued

IncludesInOrder == <<"A", "B">>

View == INSTANCE EcsView WITH Includes <- IncludesInOrder

Map == INSTANCE SlotMap WITH
  MaxSlots <- MaxMapSlots, generations <- mapGenerations, free <- mapFree

ASSUME ViewAssumed == View!PoolAssumption /\ View!ViewAssumption
ASSUME MapAssumed == Map!SlotMapAssumption

viewVars == <<pools, driver, cursor, count, visited, undisturbed, changes>>
mapVars == <<values, mapGenerations, mapFree, size, issued>>

\* Entities are interchangeable and nobody walks the excluded storage: the first include
\* is filled with the first entities, and the excluded storage in ascending order.
Ascending(slots) == \A i, j \in 1..Len(slots) : i < j => slots[i] < slots[j]
Canonical ==
  /\ pools["A"].slots = [i \in 1..Len(pools["A"].slots) |-> i]
  /\ \A T \in Excludes : Ascending(pools[T].slots)

MCInit ==
  /\ which \in {"registry", "view", "slot_map"}
  /\ Init /\ View!Init /\ Map!Init
  /\ IF which = "view" THEN Canonical ELSE pools = [T \in View!Types |-> View!EmptyPool]

MCNext ==
  /\ UNCHANGED which
  /\ \/ which = "registry" /\ Next /\ UNCHANGED <<viewVars, mapVars>>
     \/ which = "view" /\ View!Next /\ UNCHANGED <<vars, mapVars>>
     \/ which = "slot_map" /\ Map!Next /\ UNCHANGED <<vars, viewVars>>

MCSpec == MCInit /\ [][MCNext]_<<which, vars, viewVars, mapVars>>

\* Keys and slots of every storage agree (see EcsView).
PoolsExact == which = "view" => View!PoolsExact

\* A walk passes each lasting match to the callback exactly once (see EcsView).
EachOnce == View!EachOnce

\* A slot_map key reaches its own element or nothing (see SlotMap).
KeysExact == which = "slot_map" => Map!KeysExact
=============================================================================
