-------------------------- MODULE ManagerShutdown ---------------------------
(***************************************************************************)
(* AsyncManager with a history variable: the tickets whose push had        *)
(* returned when shutdown set m_stop.                                      *)
(***************************************************************************)
EXTENDS AsyncManager

VARIABLE beforeStop

HistoryInit == Init /\ beforeStop = {}

HistoryNext ==
  /\ Next
  /\ beforeStop' = IF ~stop /\ stop' THEN published \ {ticket[p] : p \in Producers}
                                     ELSE beforeStop

HistorySpec == HistoryInit /\ [][HistoryNext]_<<vars, beforeStop>>

\* backend_loop's comment: a final drain runs after a stop is observed so that a
\* graceful shutdown loses no record.  What had been pushed before it is written.
ShutdownLosesNothing ==
  pc[Closer] = "done" => \A t \in beforeStop : t <= Len(written)
=============================================================================
