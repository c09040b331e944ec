---------------------------- MODULE MCGpioEvents ----------------------------
(* GpioEvents with the events that MaxEdges edges at most two apart can be. *)
EXTENDS GpioEvents

Events == [sequence : 1..MaxEdges, time : 1..2 * MaxEdges, physical : BOOLEAN]
=============================================================================
