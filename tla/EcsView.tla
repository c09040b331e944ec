------------------------------- MODULE EcsView -------------------------------
(***************************************************************************)
(* ecs/view.hpp: a view walks the slots of its smallest include storage    *)
(* and passes every entity that has all includes and no exclude to a       *)
(* callback, which may add and remove components and destroy entities      *)
(* while the walk goes on.                                                 *)
(*                                                                         *)
(* each and the iterators walk alike: the slot count is read once, and     *)
(* what follows the last visited slot when the callback returns.           *)
(***************************************************************************)
EXTENDS ComponentPool

CONSTANTS Includes,   \* the component types that an entity must have, in the view's order
          Excludes,   \* the types that it must not have
          MaxChanges  \* bound: how many changes follow the first filling of the storages

\* What the constants must be; the modules that give them values assume it.
ViewAssumption ==
  /\ Includes \in Seq(Ext!ToSet(Includes)) /\ Includes # << >>
  /\ Ext!ToSet(Includes) \cap Excludes = {}
  /\ MaxChanges \in Nat

VARIABLES
  pools,         \* for each type, its storage
  driver,        \* the storage that the view walks, or NoType before there is a view
  cursor,        \* the slot of the walk in progress, or 0
  count,         \* the slot count that the walk captured
  visited,       \* history: the entities that this walk passed to the callback
  undisturbed,   \* history: those that matched when the walk began, and ever since
  changes        \* how many changes there were

walk == <<cursor, count>>
vars == <<pools, driver, walk, visited, undisturbed, changes>>

Types == Ext!ToSet(Includes) \cup Excludes
NoType == "none"

\* A storage after the insertion of different keys, one after the other: each got a new slot.
Filled(order) ==
  [sparse |-> [k \in Keys |-> IF k \in Ext!ToSet(order)
                                THEN CHOOSE slot \in DOMAIN order : order[slot] = k ELSE Absent],
   slots  |-> order,
   free   |-> << >>,
   size   |-> Len(order)]
Orders == {order \in UNION {[1..n -> Keys] : n \in 0..Cardinality(Keys)} : Ext!IsInjective(order)}

Init ==
  /\ pools \in [Types -> {Filled(order) : order \in Orders}]
  /\ driver = NoType
  /\ cursor = 0 /\ count = 0
  /\ visited = {} /\ undisturbed = {}
  /\ changes = 0

Walking == cursor # 0

\* passes_filter.
Passes(k) ==
  /\ \A T \in Ext!ToSet(Includes) : Contains(pools[T], k)
  /\ \A T \in Excludes : ~Contains(pools[T], k)

Matching == {k \in Keys : Passes(k)}

-----------------------------------------------------------------------------
(***************************************************************************)
(* What user code does to the storages, outside a walk or in the callback. *)
(***************************************************************************)
Change(newPools) ==
  /\ changes < MaxChanges
  /\ changes' = changes + 1
  /\ pools' = newPools
  /\ undisturbed' = undisturbed \cap Matching'
  /\ UNCHANGED <<driver, walk, visited>>

\* registry::add of a component that is not there yet.
Add(T, k) ==
  /\ ~Contains(pools[T], k)
  /\ Change([pools EXCEPT ![T] = Inserted(@, k)])

Remove(T, k) ==
  /\ Contains(pools[T], k)
  /\ Change([pools EXCEPT ![T] = Erased(@, k)])

\* registry::destroy: the entity loses all of its components.
Destroy(k) ==
  /\ \E T \in Types : Contains(pools[T], k)
  /\ Change([T \in Types |-> Erased(pools[T], k)])

(***************************************************************************)
(* The view.                                                               *)
(***************************************************************************)
\* select_driver_index: the first of the smallest include storages.
Smallest ==
  Includes[CHOOSE i \in DOMAIN Includes :
             \A j \in DOMAIN Includes :
               \/ pools[Includes[i]].size < pools[Includes[j]].size
               \/ pools[Includes[i]].size = pools[Includes[j]].size /\ i <= j]

\* The driver is chosen once; a view may be walked when another storage is smaller by then.
Construct ==
  /\ ~Walking
  /\ driver' = Smallest
  /\ UNCHANGED <<pools, walk, visited, undisturbed, changes>>

Visible(slot) == IsLive(pools[driver], slot) /\ Passes(pools[driver].slots[slot])

\* The slots after the given one and up to the captured count that are to be visited.
Ahead(slot, last) == {s \in slot + 1 .. last : Visible(s)}

GoTo(slots, already) ==
  LET slot == CHOOSE s \in slots : \A t \in slots : s <= t
  IN  /\ cursor' = slot
      /\ visited' = already \cup {pools[driver].slots[slot]}

\* each, up to its first call; a walk that finds nothing is no step.
Begin ==
  /\ ~Walking /\ driver # NoType
  /\ Ahead(0, SlotCount(pools[driver])) # {}
  /\ count' = SlotCount(pools[driver])
  /\ GoTo(Ahead(0, count'), {})
  /\ undisturbed' = Matching
  /\ UNCHANGED <<pools, driver, changes>>

\* The callback has returned, and the next entity is passed to it.
Advance ==
  /\ Walking
  /\ Ahead(cursor, count) # {}
  /\ GoTo(Ahead(cursor, count), visited)
  /\ UNCHANGED <<pools, driver, count, undisturbed, changes>>

End ==
  /\ Walking
  /\ Ahead(cursor, count) = {}
  /\ cursor' = 0 /\ count' = 0
  /\ visited' = {} /\ undisturbed' = {}
  /\ UNCHANGED <<pools, driver, changes>>

Next ==
  \/ \E T \in Types, k \in Keys : Add(T, k) \/ Remove(T, k)
  \/ \E k \in Keys : Destroy(k)
  \/ Construct \/ Begin \/ Advance \/ End

Spec == Init /\ [][Next]_vars

-----------------------------------------------------------------------------
(***************************************************************************)
(* Properties.                                                             *)
(***************************************************************************)

\* Every variable has its type, and in every storage the keys and the slots agree, each
\* tombstone waits once on the free list and the size is the number of components.
PoolsExact ==
  /\ DOMAIN pools = Types /\ \A T \in Types : Exact(pools[T])
  /\ driver \in Ext!ToSet(Includes) \cup {NoType}
  /\ Walking => count <= SlotCount(pools[driver]) /\ cursor \in 1..count
  /\ visited \subseteq Keys /\ undisturbed \subseteq Matching
  /\ changes \in 0..MaxChanges

\* A walk passes every entity that matches from its beginning to its end to the callback
\* exactly once, whatever the callback attaches, removes and destroys; none that does not
\* match when its turn comes; and until then the component it holds stays where it is.
EachOnce ==
  [][ /\ Advance => /\ visited' \subseteq visited \cup Matching
                    /\ pools[driver].slots[cursor'] \in undisturbed
                         => pools[driver].slots[cursor'] \notin visited
      /\ End => undisturbed \subseteq visited
      /\ \A T \in Types, k \in Keys :
           Contains(pools[T], k) /\ Contains(pools'[T], k)
             => pools'[T].sparse[k] = pools[T].sparse[k] ]_vars
=============================================================================
