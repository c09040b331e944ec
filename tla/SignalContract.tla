--------------------------- MODULE SignalContract ---------------------------
(***************************************************************************)
(* What a signal promises, without slot lists and indices.                 *)
(*                                                                         *)
(* An emit owes a call to every subscription alive when it began, the      *)
(* least priority first and, with FifoTies, the earlier connection first   *)
(* among equals.  A subscription that is disconnected, or a one-shot that  *)
(* has been called, is owed nothing any more by any emit in progress.  A   *)
(* subscription made during an emit joins when the outermost emit ends.    *)
(* Emits nest: a slot that is being called may use the signal, and even    *)
(* destroy it.                                                             *)
(***************************************************************************)
EXTENDS Naturals, Sequences

CONSTANTS Priorities,    \* the priorities slots are connected at
          MaxConnects,   \* bound: how many connections are made
          MaxDepth,      \* bound: how deep emits nest
          FifoTies       \* do equal priorities fire in the order of connection?

Ids == 1..MaxConnects
NoSlot == 0
Subscription == [id : Ids, priority : Priorities, once : BOOLEAN]

VARIABLES
  subs,      \* the subscriptions an outermost emit would call
  late,      \* those made during the emit in progress
  emits,     \* the emits in progress, outermost first
  made,      \* how many connections were ever made
  blocked,
  alive      \* the signal has not been destroyed

vars == <<subs, late, emits, made, blocked, alive>>

Init ==
  /\ subs = {} /\ late = {}
  /\ emits = << >>
  /\ made = 0
  /\ blocked = FALSE
  /\ alive = TRUE

\* User code runs outside every emit or inside the slot the innermost one calls.
UserRuns == emits # << >> => emits[Len(emits)].running # NoSlot

Before(s, t) ==
  \/ s.priority < t.priority
  \/ FifoTies /\ s.priority = t.priority /\ s.id < t.id

Without(S, ids) == {s \in S : s.id \notin ids}

NoLongerOwed(ids) ==
  [k \in 1..Len(emits) |-> [emits[k] EXCEPT !.owed = Without(@, ids)]]

Connect(p, once) ==
  LET s == [id |-> made + 1, priority |-> p, once |-> once] IN
  /\ alive /\ UserRuns
  /\ made < MaxConnects
  /\ made' = made + 1
  /\ IF emits = << >> THEN subs' = subs \cup {s} /\ UNCHANGED late
                      ELSE late' = late \cup {s} /\ UNCHANGED subs
  /\ UNCHANGED <<emits, blocked, alive>>

Disconnect(ids) ==
  /\ alive /\ UserRuns
  /\ subs' = Without(subs, ids)
  /\ late' = Without(late, ids)
  /\ emits' = NoLongerOwed(ids)
  /\ UNCHANGED <<made, blocked, alive>>

SetBlocked(b) ==
  /\ alive /\ UserRuns
  /\ blocked' = b
  /\ UNCHANGED <<subs, late, emits, made, alive>>

EmitBegin ==
  /\ alive /\ UserRuns
  /\ ~blocked
  /\ Len(emits) < MaxDepth
  /\ emits' = Append(emits, [running |-> NoSlot, owed |-> subs])
  /\ UNCHANGED <<subs, late, made, blocked, alive>>

\* The next slot the innermost emit owes a call is called.
Call(s) ==
  /\ emits # << >>
  /\ LET top == Len(emits) IN
       /\ s \in emits[top].owed
       /\ \A t \in emits[top].owed : ~Before(t, s)
       /\ emits' = [(IF s.once THEN NoLongerOwed({s.id}) ELSE emits) EXCEPT
                      ![top] = [running |-> s.id, owed |-> emits[top].owed \ {s}]]
  /\ subs' = IF s.once THEN Without(subs, {s.id}) ELSE subs
  /\ UNCHANGED <<late, made, blocked, alive>>

EmitEnd ==
  /\ emits # << >>
  /\ LET top == Len(emits) IN
       /\ emits[top].owed = {}
       /\ emits' = SubSeq(emits, 1, top - 1)
       /\ IF top = 1 /\ alive
          THEN subs' = subs \cup late /\ late' = {}
          ELSE UNCHANGED <<subs, late>>
  /\ UNCHANGED <<made, blocked, alive>>

Destroy ==
  /\ alive /\ UserRuns
  /\ alive' = FALSE
  /\ UNCHANGED <<subs, late, emits, made, blocked>>

Next ==
  \/ \E p \in Priorities, once \in BOOLEAN : Connect(p, once)
  \/ \E ids \in SUBSET Ids : Disconnect(ids)
  \/ \E b \in BOOLEAN : SetBlocked(b)
  \/ EmitBegin
  \/ \E s \in Subscription : Call(s)
  \/ EmitEnd
  \/ Destroy

Spec == Init /\ [][Next]_vars
=============================================================================
