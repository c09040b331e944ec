----------------------------- MODULE MCSignals -----------------------------
(***************************************************************************)
(* The two signals, each alone: `which' says in the initial state which of *)
(* them the behaviour is about, and the other one never moves.             *)
(***************************************************************************)
EXTENDS Signal

CONSTANTS MaxSlots, MaxStaticConnects

VARIABLES
  which,
  staticSlots, staticNextId, staticBlocked, dirty, watermark, staticFrames, staticTracked

Static == INSTANCE StaticSignal WITH
  MaxConnects <- MaxStaticConnects,
  slots <- staticSlots, nextId <- staticNextId, blocked <- staticBlocked,
  frames <- staticFrames, tracked <- staticTracked

ASSUME StaticAssumed == Static!BoundsAssumption

staticVars ==
  <<staticSlots, staticNextId, staticBlocked, dirty, watermark, staticFrames, staticTracked>>

MCInit == which \in {"signal", "static_signal"} /\ Init /\ Static!Init

MCNext ==
  /\ UNCHANGED which
  /\ \/ which = "signal" /\ Next /\ UNCHANGED staticVars
     \/ which = "static_signal" /\ Static!Next /\ UNCHANGED vars

MCSpec == MCInit /\ [][MCNext]_<<which, vars, staticVars>>

\* The static signal's list settles after the outermost emit (see StaticSignal).
StaticSettled == Static!Settled

\* The static signal implements its contract (see StaticSignal).
StaticImplementsContract == Static!ImplementsContract
=============================================================================
