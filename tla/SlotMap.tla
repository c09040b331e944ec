------------------------------ MODULE SlotMap -------------------------------
(***************************************************************************)
(* container/slot_map.hpp: elements reached by keys, a key being the index *)
(* of a slot and the generation that the slot had when the element was put *)
(* there.  Slots are recycled, so a key outlives its element; what keeps   *)
(* it from reaching the next one is the generation, a counter that wraps.  *)
(***************************************************************************)
EXTENDS Naturals, Sequences, FiniteSets

Ext == INSTANCE SequencesExt

CONSTANTS MaxSlots,      \* bound: how many slots are ever made
          MaxElements,   \* bound: how many elements are ever put into the map
          Generations    \* how many values generation_type has, 2^32 in the code

\* What the constants must be; the modules that give them values assume it.
SlotMapAssumption ==
  MaxSlots \in Nat /\ MaxElements \in Nat /\ Generations \in Nat /\ Generations > 1

VARIABLES
  values,        \* m_values: in each slot the number of its element, or Vacant
  generations,   \* m_generations
  free,          \* m_free_list, used as a stack
  size,          \* m_size
  issued         \* history: the key that was returned for each element

vars == <<values, generations, free, size, issued>>

Vacant == 0
NullGeneration == 0
FirstGeneration == 1
Slots == 1..Len(values)

Init ==
  /\ values = << >> /\ generations = << >> /\ free = << >>
  /\ size = 0
  /\ issued = << >>

IsLive(key) ==
  key.index \in Slots /\ generations[key.index] = key.generation /\ values[key.index] # Vacant

\* The increment wraps, and skips the generation of null keys.
Bumped(g) ==
  LET next == (g + 1) % Generations
  IN  IF next = NullGeneration THEN FirstGeneration ELSE next

(***************************************************************************)
(* Wrong variants, for checking that the property below watches the code;  *)
(* no specification uses them.                                             *)
(***************************************************************************)
\* clear frees the slots and leaves their generations alone.
ClearUnbumped ==
  /\ Slots # {}
  /\ values' = [i \in Slots |-> Vacant]
  /\ free' = Ext!Reverse([i \in Slots |-> i])
  /\ size' = 0
  /\ UNCHANGED <<generations, issued>>

-----------------------------------------------------------------------------
NewElement == Len(issued) + 1

Issue(i, g) ==
  /\ Len(issued) < MaxElements
  /\ issued' = Append(issued, [index |-> i, generation |-> g])
  /\ size' = size + 1

\* insert and emplace: the slot that became free last, or a new one.
Emplace ==
  \/ /\ free # << >>
     /\ free' = Ext!Front(free)
     /\ values' = [values EXCEPT ![Ext!Last(free)] = NewElement]
     /\ Issue(Ext!Last(free), generations[Ext!Last(free)])
     /\ UNCHANGED generations
  \/ /\ free = << >>
     /\ Len(values) < MaxSlots
     /\ values' = Append(values, NewElement)
     /\ generations' = Append(generations, FirstGeneration)
     /\ Issue(Len(values) + 1, FirstGeneration)
     /\ UNCHANGED free

\* erase, with whatever key the user still has; one that is not live changes nothing.
Erase(key) ==
  /\ IsLive(key)
  /\ values' = [values EXCEPT ![key.index] = Vacant]
  /\ generations' = [generations EXCEPT ![key.index] = Bumped(@)]
  /\ free' = Append(free, key.index)
  /\ size' = size - 1
  /\ UNCHANGED issued

\* clear: live slots are vacated and bumped, and every slot becomes free, the first on top.
Clear ==
  /\ Slots # {}
  /\ values' = [i \in Slots |-> Vacant]
  /\ generations' =
       [i \in Slots |-> IF values[i] = Vacant THEN generations[i] ELSE Bumped(generations[i])]
  /\ free' = Ext!Reverse([i \in Slots |-> i])
  /\ size' = 0
  /\ UNCHANGED issued

Next ==
  \/ Emplace
  \/ \E n \in 1..Len(issued) : Erase(issued[n])
  \/ Clear

Spec == Init /\ [][Next]_vars

-----------------------------------------------------------------------------
(***************************************************************************)
(* Properties.                                                             *)
(***************************************************************************)

Key == [index : 1..MaxSlots, generation : 1..Generations - 1]

TypeOK ==
  /\ values \in Seq(0..MaxElements) /\ Len(values) <= MaxSlots
  /\ generations \in [Slots -> 1..Generations - 1]
  /\ free \in Seq(Slots)
  /\ size \in 0..MaxSlots
  /\ issued \in Seq(Key) /\ Len(issued) <= MaxElements

\* The elements that were put into the slot of element n after it.
Successors(n) == {m \in n + 1 .. Len(issued) : issued[m].index = issued[n].index}

\* Every variable has its type, size counts the elements, the free list has every vacant
\* slot once and no other, and a key reaches the element it was returned for as long as
\* that is in the map and nothing at all afterwards, whatever was erased, cleared and put
\* there since, until its slot has had an element for every other generation.
KeysExact ==
  /\ TypeOK
  /\ size = Cardinality({i \in Slots : values[i] # Vacant})
  /\ Ext!IsInjective(free) /\ Ext!ToSet(free) = {i \in Slots : values[i] = Vacant}
  /\ \A n \in 1..Len(issued) :
       Cardinality(Successors(n)) < Generations - 1
         => /\ IsLive(issued[n]) => values[issued[n].index] = n
            /\ (\E i \in Slots : values[i] = n) => IsLive(issued[n])
=============================================================================
