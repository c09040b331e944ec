---------------------------- MODULE StaticSignal ----------------------------
(***************************************************************************)
(* signal/static_signal.hpp: the allocation-free signal with room for      *)
(* MaxSlots entries, on one thread, re-entered by its slots.               *)
(*                                                                         *)
(* There is no pending list.  A connection made during an emit is appended *)
(* behind the entries the emit walks or, when the list is full, overwrites *)
(* a dead entry that is not flagged as executing; emits skip it by its id, *)
(* which is past the watermark, and the outermost emit sorts and sweeps.   *)
(*                                                                         *)
(* Overwriting an entry whose callable is running would destroy that       *)
(* callable's captures; the list and the flags, all that is modelled here, *)
(* go on as written.                                                       *)
(***************************************************************************)
EXTENDS Integers, Sequences, SequencesExt, FiniteSets

CONSTANTS Priorities,    \* the priorities slots are connected at
          MaxSlots,      \* template parameter: room for slot entries
          TrackCapacity, \* Capacity of the receiver's static_slot
          MaxConnects,   \* bound: how many connections succeed
          MaxDepth       \* bound: how deep emits nest

\* What the constants must be; the modules that give them values assume it.
BoundsAssumption ==
  /\ Priorities \subseteq Int
  /\ MaxSlots \in Nat \ {0}
  /\ TrackCapacity \in Nat /\ MaxConnects \in Nat /\ MaxDepth \in Nat

Ids == 1..MaxConnects
NoId == 0      \* the id of an invalid handle
SlotEntry == [id : Ids, priority : Priorities, once : BOOLEAN, alive : BOOLEAN, executing : BOOLEAN]

VARIABLES
  slots,      \* m_slots
  nextId,     \* m_next_id
  blocked,    \* m_blocked
  dirty,      \* m_dirty
  watermark,  \* m_emit_id_watermark
  frames,     \* the emits in progress: n, the index i of the slot called and, as
              \* history, the id that slot had when it was called
  tracked     \* the ids a receiver's static_slot tracks, in order

vars == <<slots, nextId, blocked, dirty, watermark, frames, tracked>>

Init ==
  /\ slots = << >>
  /\ nextId = 1
  /\ blocked = FALSE
  /\ dirty = FALSE
  /\ watermark = 0
  /\ frames = << >>
  /\ tracked = << >>

Emitting == frames # << >>      \* m_emit_depth > 0
Top == Len(frames)
UserRuns == Emitting => frames[Top].i > 0

Entry(p, once) ==
  [id |-> nextId, priority |-> p, once |-> once, alive |-> TRUE, executing |-> FALSE]
MarkDead(s, ids) ==
  [j \in 1..Len(s) |-> IF s[j].id \in ids THEN [s[j] EXCEPT !.alive = FALSE] ELSE s[j]]

\* bubble_last_into_position: e is pushed and swapped past greater priorities.
InsertByPriority(s, e) ==
  LET at == CHOOSE k \in 1..Len(s) + 1 :
              /\ \A j \in k..Len(s) : e.priority < s[j].priority
              /\ k > 1 => ~(e.priority < s[k - 1].priority)
  IN  InsertAt(s, at, e)

\* sort_by_priority, a stable insertion sort: each entry in turn is bubbled into place.
SortByPriority(s) ==
  LET sorted[n \in 0..Len(s)] ==
        IF n = 0 THEN << >> ELSE InsertByPriority(sorted[n - 1], s[n])
  IN  sorted[Len(s)]

\* The entries at the given positions, in their prior relative order.
Only(s, positions) ==
  LET kept[n \in 0..Len(s)] ==
        IF n = 0 THEN << >>
        ELSE IF n \in positions THEN Append(kept[n - 1], s[n]) ELSE kept[n - 1]
  IN  kept[Len(s)]

SweepDead(s) == Only(s, {j \in 1..Len(s) : s[j].alive})

\* What reclaim_dead_slot may overwrite: the first of these.
Reclaimable == {j \in 1..Len(slots) : ~slots[j].alive /\ ~slots[j].executing}

\* The call of slot i of the innermost emit has returned.
Returned == IF frames[Top].i = 0 THEN slots
            ELSE [slots EXCEPT ![frames[Top].i].executing = FALSE]

(***************************************************************************)
(* Wrong variants, for checking that the properties below watch the code;  *)
(* no specification uses them.                                             *)
(***************************************************************************)

\* Slots connected during the emit are told apart by the captured length only.
RemainingByLength == {j \in frames[Top].i + 1 .. frames[Top].n : slots[j].alive}

\* A connection at capacity is appended all the same.
NeverFull == FALSE

Full == Len(slots) = MaxSlots

\* The indices the innermost emit has still to visit and would not skip.
Remaining ==
  {j \in frames[Top].i + 1 .. frames[Top].n : slots[j].alive /\ slots[j].id < watermark}

(***************************************************************************)
(* Operations of user code.                                                *)
(***************************************************************************)

\* connect_impl succeeds: in position outside an emit; during one appended, or at
\* capacity in place of a dead entry.
Store(e) ==
  \/ /\ ~Full /\ ~Emitting
     /\ slots' = InsertByPriority(slots, e)
     /\ UNCHANGED dirty
  \/ /\ ~Full /\ Emitting
     /\ slots' = Append(slots, e)
     /\ dirty' = TRUE
  \/ /\ Full /\ Emitting
     /\ \E j \in Reclaimable :
          /\ \A k \in Reclaimable : j <= k
          /\ slots' = [slots EXCEPT ![j] = e]
     /\ dirty' = TRUE

Refused == Full /\ (Emitting => Reclaimable = {})

Connect(p, once) ==
  /\ UserRuns
  /\ nextId <= MaxConnects
  /\ Store(Entry(p, once))
  /\ nextId' = nextId + 1
  /\ UNCHANGED <<blocked, watermark, frames, tracked>>

\* connect with a static_slot: the handle is tracked when there is room, also the
\* invalid handle of a refused connection.
ConnectTracked(p) ==
  /\ UserRuns
  /\ nextId <= MaxConnects
  /\ IF Refused
     THEN UNCHANGED <<slots, dirty, nextId>>
     ELSE Store(Entry(p, FALSE)) /\ nextId' = nextId + 1
  /\ tracked' = IF Len(tracked) = TrackCapacity THEN tracked
                ELSE Append(tracked, IF Refused THEN NoId ELSE nextId)
  /\ UNCHANGED <<blocked, watermark, frames>>

\* disconnect_by_id, for each of a set of ids.
DisconnectByIds(ids) ==
  slots' = IF Emitting THEN MarkDead(slots, ids)
                       ELSE Only(slots, {j \in 1..Len(slots) : slots[j].id \notin ids})

Disconnect(id) ==
  /\ UserRuns
  /\ id < nextId
  /\ DisconnectByIds({id})
  /\ UNCHANGED <<nextId, blocked, dirty, watermark, frames, tracked>>

\* static_slot::clear, or its destructor.
ClearTracked ==
  /\ UserRuns
  /\ tracked # << >>
  /\ DisconnectByIds(Range(tracked))
  /\ tracked' = << >>
  /\ UNCHANGED <<nextId, blocked, dirty, watermark, frames>>

DisconnectAll ==
  /\ UserRuns
  /\ slots' = IF Emitting THEN MarkDead(slots, Ids) ELSE << >>
  /\ UNCHANGED <<nextId, blocked, dirty, watermark, frames, tracked>>

\* block and unblock.
SetBlocked(b) ==
  /\ UserRuns
  /\ blocked' = b
  /\ UNCHANGED <<slots, nextId, dirty, watermark, frames, tracked>>

(***************************************************************************)
(* emit.                                                                   *)
(***************************************************************************)
EmitBegin ==
  /\ UserRuns
  /\ ~blocked
  /\ Len(frames) < MaxDepth
  /\ watermark' = IF Emitting THEN watermark ELSE nextId
  /\ frames' = Append(frames, [n |-> Len(slots), i |-> 0, id |-> NoId])
  /\ UNCHANGED <<slots, nextId, blocked, dirty, tracked>>

\* An entry as its call begins: a one-shot is marked, the flag is set.
Called(e) == [e EXCEPT !.alive = e.alive /\ ~e.once, !.executing = TRUE]

\* The loop reaches the next entry to call, after the flag of the last one is cleared.
Visit(j) ==
  /\ Emitting
  /\ j \in Remaining /\ \A k \in Remaining : j <= k
  /\ slots' = [Returned EXCEPT ![j] = Called(@)]
  /\ frames' = [frames EXCEPT ![Top] = [@ EXCEPT !.i = j, !.id = slots[j].id]]
  /\ UNCHANGED <<nextId, blocked, dirty, watermark, tracked>>

\* What the end of the outermost emit does to the list.
SortAndSweep ==
  /\ slots' = SweepDead(IF dirty THEN SortByPriority(Returned) ELSE Returned)
  /\ dirty' = FALSE

EmitEnd ==
  /\ Emitting
  /\ Remaining = {}
  /\ frames' = Front(frames)
  /\ IF Top = 1 THEN SortAndSweep ELSE slots' = Returned /\ UNCHANGED dirty
  /\ UNCHANGED <<nextId, blocked, watermark, tracked>>

Next ==
  \/ \E p \in Priorities, once \in BOOLEAN : Connect(p, once)
  \/ \E p \in Priorities : ConnectTracked(p)
  \/ \E id \in Ids : Disconnect(id)
  \/ ClearTracked
  \/ DisconnectAll
  \/ \E b \in BOOLEAN : SetBlocked(b)
  \/ EmitBegin
  \/ \E j \in 1..Len(slots) : Visit(j)
  \/ EmitEnd

Spec == Init /\ [][Next]_vars

-----------------------------------------------------------------------------
(***************************************************************************)
(* Properties.                                                             *)
(***************************************************************************)

\* Every variable has its type, no id is used twice, the list stays within its
\* fixed storage and every emit in progress indexes inside it.
TypeOK ==
  /\ slots \in Seq(SlotEntry) /\ Len(slots) <= MaxSlots
  /\ IsInjective([j \in 1..Len(slots) |-> slots[j].id])
  /\ nextId \in 1..MaxConnects + 1
  /\ blocked \in BOOLEAN /\ dirty \in BOOLEAN
  /\ watermark \in 0..nextId
  /\ Len(frames) <= MaxDepth
  /\ \A k \in 1..Len(frames) :
       /\ frames[k].n \in 0..Len(slots) /\ frames[k].i \in 0..frames[k].n
       /\ frames[k].id \in Ids \cup {NoId}
  /\ tracked \in Seq(Ids \cup {NoId}) /\ Len(tracked) <= TrackCapacity

\* The list never outgrows its fixed storage (TypeOK); outside an emit it holds the
\* connected slots, sorted by priority, and no entry is left flagged as executing,
\* whatever was reclaimed during the emit.
Settled ==
  /\ TypeOK
  /\ ~Emitting =>
       /\ ~dirty
       /\ \A j \in 1..Len(slots) : slots[j].alive /\ ~slots[j].executing
       /\ \A j, k \in 1..Len(slots) : j < k => slots[j].priority <= slots[k].priority

Sub(e) == [id |-> e.id, priority |-> e.priority, once |-> e.once]
AliveFrom(lo, hi) == {Sub(e) : e \in {s \in Range(slots) : s.alive /\ s.id >= lo /\ s.id < hi}}

\* The contract's view: the alive entries past the watermark are the late
\* subscriptions, and an emit owes calls to the others it has not reached.
Subs == IF Emitting THEN AliveFrom(1, watermark) ELSE AliveFrom(1, nextId)
Late == IF Emitting THEN AliveFrom(watermark, nextId) ELSE {}
Owed(f) == {Sub(slots[j]) : j \in {l \in f.i + 1 .. f.n : slots[l].alive /\ slots[l].id < watermark}}
Emits == [k \in 1..Len(frames) |-> [running |-> frames[k].id, owed |-> Owed(frames[k])]]

Contract == INSTANCE SignalContract WITH
  subs <- Subs, late <- Late, emits <- Emits, made <- nextId - 1, alive <- TRUE,
  FifoTies <- FALSE

\* It calls whom it owes a call, once, by priority, under any re-entrance, with a
\* list of fixed size whose dead entries are reused.
ImplementsContract == Contract!Spec

\* connect_impl's comment: an entry on the stack is never reused, its callable is
\* still running.
RunningNeverReused ==
  [][\A k \in 1..Len(frames) :
       frames[k].i > 0 /\ k <= Len(frames') /\ frames'[k] = frames[k]
         => slots'[frames[k].i].id = slots[frames[k].i].id]_vars
=============================================================================
