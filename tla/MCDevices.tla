------------------------------ MODULE MCDevices ------------------------------
(***************************************************************************)
(* Components that face a device outside the program, each alone: the      *)
(* event pipeline its line, the rotating file its disk, the alarm its      *)
(* clock.  `which' says in the initial state which of them the behaviour   *)
(* is about, and the others never move.                                    *)
(***************************************************************************)
EXTENDS GpioEvents

CONSTANTS
  MaxBackups, MaxBytes, Lengths, MaxRecords, MaxRotations, MaxFaults,
  MaxTime, Periods, MaxArms

VARIABLES
  which,
  maxFiles, disk, buffer, open, size, pc, shift, incoming, lengths, failed, rotations, faults,
  clock, armed, mode, next, period, polled, firing, first, served, late, wanted, arms

\* The events that MaxEdges edges at most two apart can be.
Events == [sequence : 1..MaxEdges, time : 0..2 * MaxEdges, physical : BOOLEAN]

File == INSTANCE RotatingFile

Timer == INSTANCE Alarm

ASSUME EventsAssumed == EventsFit(2)
ASSUME FileAssumed == File!RotatingFileAssumption
ASSUME TimerAssumed == Timer!AlarmAssumption

fileVars ==
  <<maxFiles, disk, buffer, open, size, pc, shift, incoming, lengths, failed, rotations, faults>>
alarmVars ==
  <<clock, armed, mode, next, period, polled, firing, first, served, late, wanted, arms>>

MCInit ==
  /\ which \in {"line", "file", "alarm"}
  /\ Init /\ File!Init /\ Timer!Init
  /\ which = "file" \/ maxFiles = 0

MCNext ==
  /\ UNCHANGED which
  /\ \/ which = "line" /\ Next /\ UNCHANGED <<fileVars, alarmVars>>
     \/ which = "file" /\ File!Next /\ UNCHANGED <<vars, alarmVars>>
     \/ which = "alarm" /\ Timer!Next /\ UNCHANGED <<vars, fileVars>>

MCSpec == MCInit /\ [][MCNext]_<<which, vars, fileVars, alarmVars>>

\* The running size is the file's, and files keep to their limit (see RotatingFile).
WithinBudget == which = "file" => File!WithinBudget

\* Files stay in order and only the oldest are lost (see RotatingFile).
RollsForward == File!RollsForward

\* Every boundary of a period has its callback, once and in order (see Alarm).
CatchesUp == Timer!CatchesUp
=============================================================================
