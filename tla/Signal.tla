------------------------------- MODULE Signal -------------------------------
(***************************************************************************)
(* signal/signal.hpp with the connection and slot handles of               *)
(* signal/connection.hpp and signal/slot.hpp: one signal on one thread,    *)
(* whose slots may re-enter it while they are called.                      *)
(*                                                                         *)
(* The signal keeps a list of entries sorted by priority.  An emit walks   *)
(* the indices the list had when it began, so the list must not move while *)
(* an emit is in progress: connections wait in a pending list, and         *)
(* disconnected entries are only marked, until the outermost emit ends.    *)
(*                                                                         *)
(* User code runs outside every emit or inside the slot that the innermost *)
(* emit is calling.  What a slot does is any sequence of operations.       *)
(***************************************************************************)
EXTENDS Integers, Sequences, SequencesExt, FiniteSets

CONSTANTS Priorities,    \* the priorities slots are connected at
          MaxConnects,   \* bound: how many connections are made
          MaxDepth,      \* bound: how deep emits nest
          TrackCapacity  \* Capacity of the receiver's slot handle

ASSUME BoundsAssumption ==
  /\ Priorities \subseteq Int
  /\ MaxConnects \in Nat /\ MaxDepth \in Nat /\ TrackCapacity \in Nat

Ids == 1..MaxConnects
SlotEntry == [id : Ids, priority : Priorities, once : BOOLEAN, alive : BOOLEAN]

VARIABLES
  slots,        \* core::slots
  pending,      \* core::pending
  nextId,       \* core::next_id
  blocked,      \* core::blocked
  owner,        \* core::owner is not null
  frames,       \* the run_emit calls in progress: n and the index i of the slot called
  tracked       \* the ids a receiver's slot handle tracks, in order

vars == <<slots, pending, nextId, blocked, owner, frames, tracked>>

Init ==
  /\ slots = << >> /\ pending = << >>
  /\ nextId = 1
  /\ blocked = FALSE
  /\ owner = TRUE
  /\ frames = << >>
  /\ tracked = << >>

Emitting == frames # << >>      \* emit_depth > 0
Top == Len(frames)
UserRuns == Emitting => frames[Top].i > 0

Entry(p, once) == [id |-> nextId, priority |-> p, once |-> once, alive |-> TRUE]
MarkDead(s, ids) ==
  [j \in 1..Len(s) |-> IF s[j].id \in ids THEN [s[j] EXCEPT !.alive = FALSE] ELSE s[j]]

\* bubble_last_into_position: e is pushed and swapped past greater priorities.
InsertByPriority(s, e) ==
  LET at == CHOOSE k \in 1..Len(s) + 1 :
              /\ \A j \in k..Len(s) : e.priority < s[j].priority
              /\ k > 1 => ~(e.priority < s[k - 1].priority)
  IN  InsertAt(s, at, e)

\* apply_pending: the alive ones among the pending entries, each bubbled into place.
ApplyPending(s) ==
  LET merged[n \in 0..Len(pending)] ==
        IF n = 0 THEN s
        ELSE IF pending[n].alive THEN InsertByPriority(merged[n - 1], pending[n])
        ELSE merged[n - 1]
  IN  merged[Len(pending)]

\* The entries at the given positions, in their prior relative order.
Only(s, positions) ==
  LET kept[n \in 0..Len(s)] ==
        IF n = 0 THEN << >>
        ELSE IF n \in positions THEN Append(kept[n - 1], s[n]) ELSE kept[n - 1]
  IN  kept[Len(s)]

SweepDead(s) == Only(s, {j \in 1..Len(s) : s[j].alive})

(***************************************************************************)
(* Wrong variants, for checking that the properties below watch the code;  *)
(* no specification uses them.                                             *)
(***************************************************************************)

\* A connection made during an emit goes straight into the list.
ConnectLive(p, once) ==
  /\ slots' = InsertByPriority(slots, Entry(p, once))
  /\ UNCHANGED pending

\* A one-shot stays alive while it is called.
VisitUnmarked(j) ==
  /\ Emitting
  /\ j \in {l \in frames[Top].i + 1 .. frames[Top].n : slots[l].alive}
  /\ \A k \in frames[Top].i + 1 .. j - 1 : ~slots[k].alive
  /\ frames' = [frames EXCEPT ![Top].i = j]
  /\ UNCHANGED <<slots, pending, nextId, blocked, owner, tracked>>

\* The outermost emit merges without sweeping.
MergeOnly ==
  /\ slots' = ApplyPending(slots)
  /\ pending' = << >>

(***************************************************************************)
(* Operations of user code.                                                *)
(***************************************************************************)

\* connect_into: parked during an emit, in place otherwise.
ConnectInto(p, once) ==
  IF Emitting
  THEN pending' = Append(pending, Entry(p, once)) /\ UNCHANGED slots
  ELSE slots' = InsertByPriority(slots, Entry(p, once)) /\ UNCHANGED pending

Connect(p, once) ==
  /\ owner /\ UserRuns
  /\ nextId <= MaxConnects
  /\ nextId' = nextId + 1
  /\ ConnectInto(p, once)
  /\ UNCHANGED <<blocked, owner, frames, tracked>>

\* connect with a slot handle: tracked when there is room, live in any case.
ConnectTracked(p) ==
  /\ owner /\ UserRuns
  /\ nextId <= MaxConnects
  /\ nextId' = nextId + 1
  /\ ConnectInto(p, FALSE)
  /\ tracked' = IF Len(tracked) = TrackCapacity THEN tracked ELSE Append(tracked, nextId)
  /\ UNCHANGED <<blocked, owner, frames>>

\* disconnect_by_id, for each of a set of ids: erased in place, or only marked
\* during an emit, there also among the pending ones.
DisconnectByIds(ids) ==
  IF Emitting
  THEN slots' = MarkDead(slots, ids) /\ pending' = MarkDead(pending, ids)
  ELSE slots' = Only(slots, {j \in 1..Len(slots) : slots[j].id \notin ids}) /\ UNCHANGED pending

\* connection::disconnect: it reaches the list through core::owner only.
Disconnect(id) ==
  /\ UserRuns
  /\ id < nextId
  /\ IF owner THEN DisconnectByIds({id}) ELSE UNCHANGED <<slots, pending>>
  /\ UNCHANGED <<nextId, blocked, owner, frames, tracked>>

\* slot::clear, or the slot handle's destructor.
ClearTracked ==
  /\ UserRuns
  /\ tracked # << >>
  /\ LET ids == Range(tracked) IN
       /\ IF owner THEN DisconnectByIds(ids) ELSE UNCHANGED <<slots, pending>>
  /\ tracked' = << >>
  /\ UNCHANGED <<nextId, blocked, owner, frames>>

DisconnectAll ==
  /\ owner /\ UserRuns
  /\ slots' = IF Emitting THEN MarkDead(slots, Ids) ELSE << >>
  /\ pending' = IF Emitting THEN << >> ELSE pending
  /\ UNCHANGED <<nextId, blocked, owner, frames, tracked>>

\* block and unblock.
SetBlocked(b) ==
  /\ owner /\ UserRuns
  /\ blocked' = b
  /\ UNCHANGED <<slots, pending, nextId, owner, frames, tracked>>

\* ~signal: the entries stay with the core while an emit pins it.
Destroy ==
  /\ owner /\ UserRuns
  /\ owner' = FALSE
  /\ UNCHANGED <<slots, pending, nextId, blocked, frames, tracked>>

(***************************************************************************)
(* run_emit.                                                               *)
(***************************************************************************)
EmitBegin ==
  /\ owner /\ UserRuns
  /\ ~blocked
  /\ Len(frames) < MaxDepth
  /\ frames' = Append(frames, [n |-> Len(slots), i |-> 0])
  /\ UNCHANGED <<slots, pending, nextId, blocked, owner, tracked>>

\* The indices the innermost emit has still to visit and would not skip.
Remaining == {j \in frames[Top].i + 1 .. frames[Top].n : slots[j].alive}

\* The loop reaches the next alive entry; a one-shot is marked before the call.
Visit(j) ==
  /\ Emitting
  /\ j \in Remaining /\ \A k \in Remaining : j <= k
  /\ frames' = [frames EXCEPT ![Top].i = j]
  /\ slots' = IF slots[j].once THEN MarkDead(slots, {slots[j].id}) ELSE slots
  /\ UNCHANGED <<pending, nextId, blocked, owner, tracked>>

\* What the end of the outermost emit does to the lists.
MergeAndSweep ==
  /\ slots' = SweepDead(ApplyPending(slots))
  /\ pending' = << >>

EmitEnd ==
  /\ Emitting
  /\ Remaining = {}
  /\ frames' = Front(frames)
  /\ IF Top = 1 /\ owner THEN MergeAndSweep ELSE UNCHANGED <<slots, pending>>
  /\ UNCHANGED <<nextId, blocked, owner, tracked>>

\* The signal is destroyed and no emit pins its core.
Gone == ~owner /\ ~Emitting /\ UNCHANGED vars

Next ==
  \/ \E p \in Priorities, once \in BOOLEAN : Connect(p, once)
  \/ \E p \in Priorities : ConnectTracked(p)
  \/ \E id \in Ids : Disconnect(id)
  \/ ClearTracked
  \/ DisconnectAll
  \/ \E b \in BOOLEAN : SetBlocked(b)
  \/ Destroy
  \/ EmitBegin
  \/ \E j \in 1..Len(slots) : Visit(j)
  \/ EmitEnd
  \/ Gone

Spec == Init /\ [][Next]_vars

-----------------------------------------------------------------------------
(***************************************************************************)
(* Properties.                                                             *)
(***************************************************************************)

\* Every variable has its type, no id is used twice, and every emit in progress
\* indexes inside the list it walks.
TypeOK ==
  /\ slots \in Seq(SlotEntry) /\ pending \in Seq(SlotEntry)
  /\ IsInjective([j \in 1..Len(slots \o pending) |-> (slots \o pending)[j].id])
  /\ nextId \in 1..MaxConnects + 1
  /\ blocked \in BOOLEAN /\ owner \in BOOLEAN
  /\ Len(frames) <= MaxDepth
  /\ \A k \in 1..Len(frames) :
       frames[k].n \in 0..Len(slots) /\ frames[k].i \in 0..frames[k].n
  /\ tracked \in Seq(Ids) /\ Len(tracked) <= TrackCapacity

\* connect_into's comment: the live slot list must not move during an emit, or the
\* callable would be freed in the middle of its own call.  No operation, nested
\* emits included, moves, adds or removes an entry until the outermost emit ends.
ListPinned ==
  [][Emitting /\ frames' # << >> =>
       /\ Len(slots') = Len(slots)
       /\ \A j \in 1..Len(slots) : slots'[j].id = slots[j].id]_vars

\* Every variable has its type, and outside an emit the list holds exactly the connected
\* slots in firing order: the deferred work of any nesting of emits, connects and
\* disconnects is all done.
Settled ==
  /\ TypeOK
  /\ ~Emitting /\ owner =>
       /\ pending = << >>
       /\ \A j \in 1..Len(slots) : slots[j].alive
       /\ \A j, k \in 1..Len(slots) :
            j < k => \/ slots[j].priority < slots[k].priority
                     \/ slots[j].priority = slots[k].priority /\ slots[j].id < slots[k].id

\* What an entry is a subscription for, and the subscriptions a list holds: an entry marked
\* dead is none.
Sub(e) == [id |-> e.id, priority |-> e.priority, once |-> e.once]
Subs(s) == {Sub(e) : e \in {x \in Range(s) : x.alive}}

\* An emit owes a call to the alive entries between its index and its end.
Emits ==
  [k \in 1..Len(frames) |->
     [running |-> IF frames[k].i = 0 THEN 0 ELSE slots[frames[k].i].id,
      owed |-> {Sub(slots[j]) : j \in {l \in frames[k].i + 1 .. frames[k].n : slots[l].alive}}]]

\* The signal implements its contract.
Contract == INSTANCE SignalContract WITH
  subs <- Subs(slots),
  late <- Subs(pending),
  emits <- Emits,
  made <- nextId - 1,
  alive <- owner,
  FifoTies <- TRUE

ImplementsContract == Contract!Spec

=============================================================================
