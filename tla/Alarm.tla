-------------------------------- MODULE Alarm --------------------------------
(***************************************************************************)
(* chrono/alarm.hpp: a polled timer with a callback, fired once or at      *)
(* every boundary of a period.  poll(now) fires all that is due by now,    *)
(* and each callback may arm and disarm the alarm that is firing it, or    *)
(* throw; the clock goes on while it runs.  A callback does not poll its   *)
(* own alarm: a periodic one would fire the same boundary without end.     *)
(***************************************************************************)
EXTENDS Integers, FiniteSets

CONSTANTS MaxTime,   \* bound: the clock stops there
          Periods,   \* the periods and delays that user code asks for
          MaxArms    \* bound: how often the alarm is armed

\* What the constants must be; the modules that give them values assume it.
AlarmAssumption == MaxTime \in Nat /\ Periods \subseteq Int /\ MaxArms \in Nat

VARIABLES
  clock,     \* the time that callers of poll and arm read
  armed, mode, next, period,   \* m_armed, m_mode, m_next, m_period
  polled,    \* the now of the poll whose callback is running, or NoPoll
  firing,    \* the mode that the callback was fired in
  first,     \* history: the next_fire_time that the last arming set
  served,    \* history: how many boundaries of that arming had their callback
  late,      \* history: it was made by the callback of a periodic fire, which then moved it on
  wanted,    \* history: not disarmed since, and not fired if a one-shot
  arms       \* how many armings there were

timer == <<armed, mode, next, period>>
call == <<polled, firing>>
told == <<first, served, late, wanted, arms>>
vars == <<clock, timer, call, told>>

NoPoll == -1
Polling == polled # NoPoll

Init ==
  /\ clock = 0
  /\ armed = FALSE /\ mode = "one_shot" /\ next = 0 /\ period = 0
  /\ polled = NoPoll /\ firing = "one_shot"
  /\ first = 0 /\ served = 0 /\ late = FALSE /\ wanted = FALSE /\ arms = 0

Tick ==
  /\ clock < MaxTime
  /\ clock' = clock + 1
  /\ UNCHANGED <<timer, call, told>>

(***************************************************************************)
(* arm_at, arm_after, arm_periodic and disarm, by a callback or outside.   *)
(***************************************************************************)
Arm(newMode, when, newPeriod) ==
  /\ arms < MaxArms
  /\ arms' = arms + 1
  /\ armed' = TRUE /\ mode' = newMode /\ next' = when /\ period' = newPeriod
  /\ first' = when /\ served' = 0 /\ late' = FALSE /\ wanted' = TRUE
  /\ UNCHANGED <<clock, call>>

ArmAt(when) == Arm("one_shot", when, 0)
ArmAfter(delay) == ArmAt(clock + delay)
ArmPeriodic(newPeriod) == Arm("periodic", clock + newPeriod, newPeriod)

Disarm ==
  /\ armed' = FALSE /\ period' = 0
  /\ wanted' = FALSE
  /\ UNCHANGED <<clock, mode, next, call, first, served, late, arms>>

(***************************************************************************)
(* A wrong variant, for checking that the property below watches the code; *)
(* no specification uses it.                                               *)
(***************************************************************************)
\* The next boundary is counted from the poll.
FromNow == polled + period

(***************************************************************************)
(* poll.                                                                   *)
(***************************************************************************)
\* The callback of the boundary that is due; a one-shot is disarmed before it.
Fire(now) ==
  /\ polled' = now /\ firing' = mode
  /\ armed' = (mode = "periodic")

\* A poll before the time is no step.
Poll ==
  /\ ~Polling
  /\ armed /\ clock >= next
  /\ Fire(clock)
  /\ served' = served + 1
  /\ wanted' = (mode = "periodic")
  /\ UNCHANGED <<clock, mode, next, period, first, late, arms>>

OneShotReturns ==
  /\ Polling /\ firing = "one_shot"
  /\ polled' = NoPoll
  /\ UNCHANGED <<clock, timer, firing, told>>

Boundary == next + period

\* A periodic fire goes on to the next boundary, with what the callback left in period
\* and armed, and fires again if that is due as well.
PeriodicReturns ==
  /\ Polling /\ firing = "periodic"
  /\ next' = Boundary
  /\ late' = (late \/ served = 0)
  /\ IF period > 0 /\ armed /\ polled >= next'
       THEN Fire(polled) /\ served' = served + 1
       ELSE /\ polled' = NoPoll
            /\ armed' = (armed /\ period > 0)
            /\ UNCHANGED <<firing, served>>
  /\ UNCHANGED <<clock, mode, period, first, wanted, arms>>

\* The callback throws: poll is left where it is, before the next boundary is set.
Throws ==
  /\ Polling
  /\ polled' = NoPoll
  /\ served' = IF firing = "periodic" /\ served > 0 THEN served - 1 ELSE served
  /\ UNCHANGED <<clock, timer, firing, first, late, wanted, arms>>

Next ==
  \/ Tick
  \/ \E when \in 0..MaxTime : ArmAt(when)
  \/ \E delay \in Periods : ArmAfter(delay) \/ ArmPeriodic(delay)
  \/ Disarm
  \/ Poll \/ OneShotReturns \/ PeriodicReturns \/ Throws

Spec == Init /\ [][Next]_vars

-----------------------------------------------------------------------------
(***************************************************************************)
(* Properties.                                                             *)
(***************************************************************************)

TypeOK ==
  /\ clock \in 0..MaxTime
  /\ armed \in BOOLEAN /\ mode \in {"one_shot", "periodic"} /\ next \in Int
  /\ period \in Periods \cup {0}
  /\ polled \in 0..clock \cup {NoPoll} /\ firing \in {"one_shot", "periodic"}
  /\ first \in Int /\ served \in Nat /\ late \in BOOLEAN /\ wanted \in BOOLEAN
  /\ arms \in 0..MaxArms

Fires == Poll \/ (PeriodicReturns /\ Polling')

\* Every variable has its type.  A callback runs only for an arming that is still wanted,
\* for the boundaries of its period one after the other and none before its time.  A
\* periodic alarm that is armed when poll returns has had one call for every boundary up
\* to then: however many periods passed between polls, whatever its callbacks armed and
\* disarmed, and after a throw the same boundary again.  An arming that the callback of a
\* periodic fire makes is moved on by poll, and its first boundary gets no call.
CatchesUp ==
  []TypeOK /\
  [][ LET skipped == IF late' THEN 1 ELSE 0
          due(k) == first' + (k + skipped) * period'
      IN  /\ Fires => /\ wanted
                      /\ next' = due(served' - 1) /\ next' <= polled'
          /\ PeriodicReturns /\ ~Polling' /\ armed'
               => served' = Cardinality({k \in 0..MaxTime : due(k) <= polled}) ]_vars
=============================================================================
