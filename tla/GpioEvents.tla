----------------------------- MODULE GpioEvents -----------------------------
(***************************************************************************)
(* The path of gpio's edge events from the kernel to their consumer:       *)
(*                                                                         *)
(*   kernel buffer -- wait_event --> drain_events --> queue_sink (a ring)  *)
(*        --> try_pop --> sequence_tracker --> event_debounce              *)
(*                                                                         *)
(* The drain runs on one thread, the consumer on another.  The kernel is   *)
(* external: it numbers the edges of a line, stamps them, keeps the last   *)
(* KernelCapacity and drops the oldest when they do not fit.               *)
(***************************************************************************)
EXTENDS SpscQueue

CONSTANTS
  KernelCapacity,  \* events the kernel keeps for a request
  Gaps,            \* how long the line may rest between two edges
  Period,          \* the debouncer's period
  MaxEdges         \* bound: edges of the line

ASSUME KernelAssumption == KernelCapacity \in Nat \ {0} /\ MaxEdges \in Nat
ASSUME PeriodAssumption == Period \in Nat /\ Gaps \subseteq Nat

\* The ring's element type can hold every event of the line whose edges are at most
\* span apart.
EventsFit(span) ==
  /\ Gaps \subseteq 0..span
  /\ [sequence : 1..MaxEdges, time : 0..span * MaxEdges, physical : BOOLEAN] \subseteq Item

VARIABLES
  edges,       \* the last edge of the line, its number and time
  kernel,      \* the kernel's buffer
  overrun,     \* how many events the kernel dropped
  drain,       \* where drain_events is
  got,         \* the event it carries
  report,      \* its drain_report
  reported,    \* the sums of the reports returned
  unreported,  \* the sums of the reports an error swallowed
  sinkDropped, \* queue_sink::m_dropped
  tracker,     \* sequence_tracker
  debounce,    \* event_debounce's timed_debounce
  fed,         \* history: the events fed to the two since their last reset
  settled      \* history: the events the debouncer let through since then

kernelVars == <<edges, kernel, overrun>>
drainVars == <<drain, got, report, reported, unreported, sinkDropped>>
seenVars == <<tracker, debounce, fed, settled>>
vars == <<queueVars, kernelVars, drainVars, seenVars>>

NoReport == [delivered |-> 0, rejected |-> 0]
Plus(r, s) == [delivered |-> r.delivered + s.delivered, rejected |-> r.rejected + s.rejected]

NewTracker == [last |-> 0, dropped |-> 0]
NewDebounce ==
  [hasStable |-> FALSE, stable |-> FALSE, hasCandidate |-> FALSE, candidate |-> FALSE, since |-> 0]

Init ==
  /\ QueueInit
  /\ edges = [sequence |-> 0, time |-> 0, physical |-> FALSE]
  /\ kernel = << >> /\ overrun = 0
  /\ drain = "idle" /\ got = NoItem
  /\ report = NoReport /\ reported = NoReport /\ unreported = NoReport
  /\ sinkDropped = 0
  /\ tracker = NewTracker /\ debounce = NewDebounce
  /\ fed = << >> /\ settled = << >>

(***************************************************************************)
(* Wrong variants, for checking that the properties watch the code.        *)
(***************************************************************************)
GapOfNumbers(t, sequence) == sequence - t.last
ForgetsToCancel(d) == d
RejectUncounted(r) == r

(***************************************************************************)
(* The line and the kernel.                                                *)
(***************************************************************************)
Edge ==
  /\ edges.sequence < MaxEdges
  /\ \E gap \in Gaps :
       edges' = [sequence |-> edges.sequence + 1, time |-> edges.time + gap,
                 physical |-> ~edges.physical]
  /\ IF Len(kernel) < KernelCapacity
     THEN kernel' = Append(kernel, edges') /\ UNCHANGED overrun
     ELSE kernel' = Append(Tail(kernel), edges') /\ overrun' = overrun + 1
  /\ UNCHANGED <<queueVars, drainVars, seenVars>>

(***************************************************************************)
(* drain_events over chardev_chip::wait_event with a zero timeout, and     *)
(* queue_sink::push.                                                       *)
(***************************************************************************)
DrainBegin ==
  /\ drain = "idle"
  /\ drain' = "wait" /\ report' = NoReport
  /\ UNCHANGED <<queueVars, kernelVars, seenVars, got, reported, unreported, sinkDropped>>

WaitEvent ==
  /\ drain = "wait" /\ kernel # << >>
  /\ drain' = "push" /\ got' = Head(kernel)
  /\ kernel' = Tail(kernel)
  /\ UNCHANGED <<queueVars, seenVars, edges, overrun, report, reported, unreported, sinkDropped>>

\* Nothing is ready, or a signal interrupts the call: a clean miss either way.
WaitMiss ==
  /\ drain = "wait"
  /\ drain' = "idle" /\ reported' = Plus(reported, report) /\ report' = NoReport
  /\ UNCHANGED <<queueVars, kernelVars, seenVars, got, unreported, sinkDropped>>

WaitError ==
  /\ drain = "wait"
  /\ drain' = "idle" /\ unreported' = Plus(unreported, report) /\ report' = NoReport
  /\ UNCHANGED <<queueVars, kernelVars, seenVars, got, reported, sinkDropped>>

Rejected(r) == [r EXCEPT !.rejected = @ + 1]

SinkRejects ==
  /\ drain = "push" /\ PushRefused
  /\ sinkDropped' = sinkDropped + 1
  /\ report' = Rejected(report)
  /\ drain' = "wait" /\ got' = NoItem
  /\ UNCHANGED <<kernelVars, seenVars, reported, unreported>>

SinkAccepts ==
  /\ drain = "push" /\ PushAccepted(got)
  /\ drain' = "pushing" /\ got' = NoItem
  /\ UNCHANGED <<kernelVars, seenVars, report, reported, unreported, sinkDropped>>

SinkConstructs == PushConstruct /\ UNCHANGED <<kernelVars, drainVars, seenVars>>

SinkAccepted ==
  /\ PushPublish
  /\ drain' = "wait" /\ report' = [report EXCEPT !.delivered = @ + 1]
  /\ UNCHANGED <<kernelVars, seenVars, got, reported, unreported, sinkDropped>>

Drain ==
  \/ DrainBegin \/ WaitEvent \/ WaitMiss \/ WaitError
  \/ SinkRejects \/ SinkAccepts \/ SinkConstructs \/ SinkAccepted

(***************************************************************************)
(* sequence_tracker::feed.                                                 *)
(***************************************************************************)
Gap(t, sequence) == sequence - t.last - 1

Tracked(t, sequence) ==
  IF t.last = 0 \/ sequence <= t.last
  THEN [t EXCEPT !.last = IF sequence > @ THEN sequence ELSE @]
  ELSE [last |-> sequence, dropped |-> t.dropped + Gap(t, sequence)]

(***************************************************************************)
(* event_debounce::feed: timed_debounce::update on the physical level.     *)
(***************************************************************************)
Cancelled(d) == [d EXCEPT !.hasCandidate = FALSE]

Promotes(d, e) ==
  \/ ~d.hasStable
  \/ /\ e.physical # d.stable
     /\ Period = 0 \/ (d.hasCandidate /\ e.physical = d.candidate /\ e.time - d.since >= Period)

Promoted(d, e) ==
  IF ~d.hasStable
  THEN [d EXCEPT !.hasStable = TRUE, !.stable = e.physical, !.candidate = e.physical,
                 !.hasCandidate = FALSE]
  ELSE IF Period = 0 THEN [d EXCEPT !.stable = e.physical]
  ELSE [d EXCEPT !.stable = e.physical, !.hasCandidate = FALSE]

Waits(d, e) ==
  IF e.physical = d.stable THEN Cancelled(d)
  ELSE IF d.hasCandidate /\ e.physical = d.candidate THEN d
  ELSE [d EXCEPT !.hasCandidate = TRUE, !.candidate = e.physical, !.since = e.time]

Debounced(d, e) == IF Promotes(d, e) THEN Promoted(d, e) ELSE Waits(d, e)

(***************************************************************************)
(* The consumer.                                                           *)
(***************************************************************************)
ConsumerPops ==
  /\ PopEmpty \/ PopFound \/ PopTake \/ PopRelease
  /\ UNCHANGED <<kernelVars, drainVars, seenVars>>

ConsumerFeeds ==
  /\ PopReturn
  /\ tracker' = Tracked(tracker, value.sequence)
  /\ debounce' = Debounced(debounce, value)
  /\ fed' = Append(fed, value)
  /\ settled' = IF Promotes(debounce, value) THEN Append(settled, value) ELSE settled
  /\ UNCHANGED <<kernelVars, drainVars>>

\* tracker.reset() and debounce.reset().
ConsumerResets ==
  /\ popping = "idle" /\ fed # << >>
  /\ tracker' = NewTracker /\ debounce' = NewDebounce
  /\ fed' = << >> /\ settled' = << >>
  /\ UNCHANGED <<queueVars, kernelVars, drainVars>>

Next == Edge \/ Drain \/ ConsumerPops \/ ConsumerFeeds \/ ConsumerResets

Spec == Init /\ [][Next]_vars

(***************************************************************************)
(* Properties.                                                             *)
(***************************************************************************)
InFlight == IF drain \in {"push", "pushing"} THEN 1 ELSE 0
Moved == Plus(Plus(reported, unreported), report)

\* No event disappears without being counted where it was lost: every edge is in the
\* kernel's buffer, overrun there, in the hands of the drain, rejected by the sink and
\* counted both by it and by the drain's reports, or delivered.
Accounted ==
  /\ edges.sequence = Len(kernel) + overrun + InFlight + Moved.delivered + Moved.rejected
  /\ sinkDropped = Moved.rejected

\* The consumer's tracker knows every loss between the first and the last event it was
\* fed, wherever on the way it happened, exactly: the kernel's overruns and the sink's
\* rejections look alike to it, and nothing else does.
GapsExact ==
  fed # << >> =>
    /\ tracker.last = fed[Len(fed)].sequence
    /\ tracker.dropped = (tracker.last - fed[1].sequence + 1) - Len(fed)

\* After the first event, which is accepted as it is, the debouncer lets an event
\* through only when the level changed and every event fed during the period before it
\* had that level already: a bounce in between starts the wait again.
SettledHeld ==
  \A k \in 2..Len(settled) :
    /\ settled[k].physical # settled[k - 1].physical
    /\ \E i, j \in 1..Len(fed) :
         /\ fed[j] = settled[k]
         /\ fed[j].time - fed[i].time >= Period
         /\ \A m \in i..j : fed[m].physical = fed[j].physical

\* The debouncer's documented promise: a level the line has held for the period is
\* forwarded.  Two events with consecutive numbers and the period between them say that
\* the line held the level of the first.
HeldForwarded ==
  \A i \in 1..(Len(fed) - 1) :
    (/\ fed[i + 1].sequence = fed[i].sequence + 1
     /\ fed[i + 1].time - fed[i].time >= Period)
      => \E k \in 1..Len(settled) : settled[k].physical = fed[i].physical
=============================================================================
