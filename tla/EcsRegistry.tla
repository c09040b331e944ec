---------------------------- MODULE EcsRegistry -----------------------------
(***************************************************************************)
(* ecs/registry.hpp: entities made of a recycled index and a generation,   *)
(* one storage per component type, and lifecycle signals whose listeners   *)
(* run in the middle of add, patch, remove, destroy and clear and may use  *)
(* the registry again.                                                     *)
(*                                                                         *)
(* The registry is sequential: an operation runs until it fires a signal.  *)
(* frames is the stack of operations whose listeners are running; between  *)
(* two fires the topmost operation goes on by itself.  Operations called   *)
(* on an invalid handle return at once and are no steps.                   *)
(***************************************************************************)
EXTENDS Naturals, Sequences

Ext == INSTANCE SequencesExt

CONSTANTS MaxSlots,      \* bound: how many indices are ever in use
          MaxGeneration, \* bound: an index that reached it is not destroyed again
          MaxDepth,      \* bound: how deep operations nest
          MaxType        \* how many component types there are

ASSUME BoundsAssumption ==
  MaxSlots \in Nat /\ MaxGeneration \in Nat \ {0} /\ MaxDepth \in Nat /\ MaxType \in Nat

Types == 1..MaxType          \* type_id order
Indices == 1..MaxSlots
NoType == 0
NoIndex == 0
Component == Types \X Indices

VARIABLES
  generations,   \* m_generations
  free,          \* m_free_indices, used as a stack
  alive,         \* m_alive_indices
  table,         \* m_storages.size()
  has,           \* for each type, the indices its storage contains
  frames,        \* the operations in progress, outermost first
  fired,         \* history: the components whose on_destroy was fired
  owed           \* history: those that were there when clear began, but for the fired

entities == <<generations, free, alive>>
storages == <<table, has>>
told == <<fired, owed>>
vars == <<entities, storages, frames, told>>

Init ==
  /\ generations = << >> /\ free = << >> /\ alive = {}
  /\ table = 0
  /\ has = [T \in Types |-> {}]
  /\ frames = << >>
  /\ fired = {} /\ owed = {}

Busy == frames # << >>
Top == frames[Len(frames)]
Ops == {frames[k].op : k \in 1..Len(frames)}

\* User code runs outside every operation or in a listener.
UserRuns == Busy => Top.type # NoType

\* The components that some fire in progress hands to its listeners by reference.
Delivered == {<<frames[k].type, frames[k].index>> : k \in 1..Len(frames)}

Frame(op, T, i) ==
  [op |-> op, type |-> T, index |-> i, count |-> 0, todo |-> {}]
Push(f) == Len(frames) < MaxDepth /\ frames' = Append(frames, f)
Pop == frames' = SubSeq(frames, 1, Len(frames) - 1)
SetTop(f) == frames' = [frames EXCEPT ![Len(frames)] = f]

Components == {c \in Component : c[2] \in has[c[1]]}
Announce(c, others) == fired' = others \cup {c} /\ owed' = owed \ {c}
OfIndex(i) == {c \in Component : c[2] = i}
First(S) == CHOOSE T \in S : \A U \in S : T <= U

(***************************************************************************)
(* Wrong variants, for checking that the properties below watch the code;  *)
(* no specification uses them.                                             *)
(***************************************************************************)
NotBumped(g) == g

\* The loops stop before the last storage.
LaterButLast(f) == {T \in f.type + 1 .. f.count - 1 : f.index \in has[T]}

\* destroy leaves the entity in the alive set while listeners run.
DestroyUnmarked(i) ==
  /\ UserRuns
  /\ i \in alive
  /\ generations[i] < MaxGeneration
  /\ Push([Frame("destroy", NoType, i) EXCEPT !.count = table])
  /\ UNCHANGED <<entities, storages, told>>

\* The storages up to the captured count that still contain the index of the frame.
Later(f) == {T \in f.type + 1 .. f.count : f.index \in has[T]}

(***************************************************************************)
(* Operations of user code.                                                *)
(***************************************************************************)
FirstGeneration == 1
Bumped(g) == g + 1      \* the wrap of the 32-bit counter lies beyond MaxGeneration

Create ==
  /\ UserRuns
  /\ \/ /\ free # << >>
        /\ free' = Ext!Front(free)
        /\ alive' = alive \cup {Ext!Last(free)}
        /\ UNCHANGED generations
     \/ /\ free = << >>
        /\ Len(generations) < MaxSlots
        /\ generations' = Append(generations, FirstGeneration)
        /\ alive' = alive \cup {Len(generations) + 1}
        /\ UNCHANGED free
  /\ UNCHANGED <<storages, frames, told>>

\* add, for a new component or in place of an old one, up to its signal.
Add(T, i) ==
  /\ UserRuns
  /\ i \in alive
  /\ Push(Frame("notify", T, i))
  /\ has' = [has EXCEPT ![T] = @ \cup {i}]
  /\ table' = IF T > table THEN T ELSE table
  /\ UNCHANGED <<entities, told>>

\* patch: the mutator and then the listeners get the component.
Patch(T, i) ==
  /\ UserRuns
  /\ i \in alive \cap has[T]
  /\ Push(Frame("notify", T, i))
  /\ UNCHANGED <<entities, storages, told>>

\* What the warnings of add, remove and patch ask of listeners: the component that
\* is being delivered stays.
MayDetach(C) == C \cap Delivered = {}

\* remove, up to its on_destroy.
Remove(T, i) ==
  /\ UserRuns
  /\ i \in alive \cap has[T]
  /\ MayDetach({<<T, i>>})
  /\ Push(Frame("remove", T, i))
  /\ Announce(<<T, i>>, fired)
  /\ UNCHANGED <<entities, storages>>

\* destroy: the entity is not alive from here on, for its listeners too.
Destroy(i) ==
  /\ UserRuns
  /\ i \in alive
  /\ generations[i] < MaxGeneration
  /\ MayDetach(OfIndex(i))
  /\ alive' = alive \ {i}
  /\ Push([Frame("destroy", NoType, i) EXCEPT !.count = table])
  /\ UNCHANGED <<generations, free, storages, told>>

\* clear: a snapshot of the live indices.
\* Not called by a listener: it would erase the component being delivered.
Clear ==
  /\ ~Busy
  /\ \A i \in 1..Len(generations) : generations[i] < MaxGeneration
  /\ Push([Frame("clear", NoType, NoIndex) EXCEPT !.todo = alive])
  /\ owed' = Components
  /\ UNCHANGED <<entities, storages, fired>>

(***************************************************************************)
(* The listeners of the topmost operation have returned.                   *)
(***************************************************************************)
NotifyEnd ==
  /\ Busy /\ Top.op = "notify"
  /\ Pop
  /\ UNCHANGED <<entities, storages, told>>

RemoveEnd ==
  /\ Busy /\ Top.op = "remove"
  /\ has' = [has EXCEPT ![Top.type] = @ \ {Top.index}]
  /\ fired' = fired \ {<<Top.type, Top.index>>}
  /\ Pop
  /\ UNCHANGED <<entities, table, owed>>

\* The last component told of is erased and the next one's on_destroy fires.
DestroyFire ==
  /\ Busy /\ Top.op = "destroy"
  /\ Later(Top) # {}
  /\ has' = [T \in Types |-> IF T = Top.type THEN has[T] \ {Top.index} ELSE has[T]]
  /\ SetTop([Top EXCEPT !.type = First(Later(Top))])
  /\ Announce(<<First(Later(Top)), Top.index>>, fired \ {<<Top.type, Top.index>>})
  /\ UNCHANGED <<entities, table>>

\* No storage is left: every storage is swept, and the index becomes free.
DestroyEnd ==
  /\ Busy /\ Top.op = "destroy"
  /\ Later(Top) = {}
  /\ has' = [T \in Types |-> has[T] \ {Top.index}]
  /\ generations' = [generations EXCEPT ![Top.index] = Bumped(@)]
  /\ free' = Append(free, Top.index)
  /\ fired' = fired \ OfIndex(Top.index)
  /\ Pop
  /\ UNCHANGED <<alive, table, owed>>

\* on_destroy of the next component; nothing is erased before the end.
ClearFire ==
  /\ Busy /\ Top.op = "clear"
  /\ Later(Top) # {}
  /\ SetTop([Top EXCEPT !.type = First(Later(Top))])
  /\ Announce(<<First(Later(Top)), Top.index>>, fired)
  /\ UNCHANGED <<entities, storages>>

\* The next index of the snapshot, in whatever order the sparse set has them.
ClearNext(i) ==
  /\ Busy /\ Top.op = "clear"
  /\ Later(Top) = {}
  /\ i \in Top.todo
  /\ SetTop([Top EXCEPT !.type = NoType, !.index = i, !.count = table, !.todo = @ \ {i}])
  /\ UNCHANGED <<entities, storages, told>>

\* The snapshot is done: storages, alive set and free list are reset.
ClearEnd ==
  /\ Busy /\ Top.op = "clear"
  /\ Later(Top) = {} /\ Top.todo = {}
  /\ has' = [T \in Types |-> {}]
  /\ generations' = [i \in 1..Len(generations) |-> Bumped(generations[i])]
  /\ free' = [i \in 1..Len(generations) |-> i]
  /\ alive' = {}
  /\ fired' = {} /\ owed' = {}
  /\ Pop
  /\ UNCHANGED table

Next ==
  \/ Create
  \/ \E T \in Types, i \in Indices : Add(T, i) \/ Patch(T, i) \/ Remove(T, i)
  \/ \E i \in Indices : Destroy(i)
  \/ Clear
  \/ NotifyEnd \/ RemoveEnd
  \/ DestroyFire \/ DestroyEnd
  \/ ClearFire \/ (\E i \in Indices : ClearNext(i)) \/ ClearEnd

Spec == Init /\ [][Next]_vars

-----------------------------------------------------------------------------
(***************************************************************************)
(* Properties.                                                             *)
(***************************************************************************)

FrameType ==
  [op : {"notify", "remove", "destroy", "clear"}, type : Types \cup {NoType},
   index : Indices \cup {NoIndex}, count : 0..table, todo : SUBSET Indices]

\* Every variable has its type; no slot ever has the generation 0 of invalid handles.
TypeOK ==
  /\ generations \in Seq(Nat \ {0}) /\ Len(generations) <= MaxSlots
  /\ free \in Seq(1..Len(generations))
  /\ alive \subseteq 1..Len(generations)
  /\ table \in 0..MaxType
  /\ has \in [Types -> SUBSET (1..Len(generations))]
  /\ \A T \in Types : has[T] # {} => T <= table
  /\ frames \in Seq(FrameType) /\ Len(frames) <= MaxDepth
  /\ fired \subseteq Component /\ owed \subseteq Component \ fired

Destroying == {k \in 1..Len(frames) : frames[k].op = "destroy"}
Dying == {frames[k].index : k \in Destroying}

\* Every variable has its type, and every index is exactly one of alive, free once, or
\* being destroyed by one operation on the stack, however destroys, creates and clears of
\* listeners nest.
FreeListExact ==
  /\ TypeOK
  /\ \A j, k \in 1..Len(free) : free[j] = free[k] => j = k
  /\ \A j, k \in Destroying : frames[j].index = frames[k].index => j = k
  /\ alive \cup Ext!ToSet(free) \cup Dying = 1..Len(generations)
  /\ alive \cap Ext!ToSet(free) = {} /\ alive \cap Dying = {} /\ Ext!ToSet(free) \cap Dying = {}

\* on_destroy is about to fire for c.
Fires(c) ==
  \/ Remove(c[1], c[2])
  \/ /\ DestroyFire \/ ClearFire
     /\ c = <<First(Later(Top)), Top.index>>

\* A component that a signal hands to its listeners by reference is in its storage until
\* the last of them has returned.  remove and destroy erase no component that on_destroy
\* was not fired for; clear has fired it for all that were there when it began, whatever
\* its listeners destroyed, created and attached; and while no clear is in progress no
\* component is announced a second time before it is erased.
DestroyObserved ==
  /\ [](\A c \in Delivered : c[1] # NoType => c[2] \in has[c[1]])
  /\ [][ /\ IF ClearEnd THEN owed = {} ELSE Components \ Components' \subseteq fired
         /\ "clear" \notin Ops => \A c \in fired : ~Fires(c) ]_vars

\* A handle pairs an index with its generation.  Those of dying entities and of
\* earlier generations are retired.
HandleOf(i) == <<i, generations[i]>>

Store == INSTANCE EntityStore WITH
  Handles <- Indices \X (1..MaxGeneration + 1),
  live <- {HandleOf(i) : i \in alive},
  carried <- {<<c[1], HandleOf(c[2])>> : c \in {d \in Components : d[2] \in alive}},
  retired <- {HandleOf(i) : i \in Dying}
               \cup UNION {{<<i, g>> : g \in 1..generations[i] - 1} : i \in 1..Len(generations)}

\* The registry keeps the promises of its handles: no handle is given out twice, a new
\* entity starts bare although its index and storage slots are recycled, and destroy
\* takes an entity away with all of its components and nothing else.
ImplementsStore == Store!StoreSpec
=============================================================================
