--------------------------- MODULE MCSampleClients ---------------------------
(***************************************************************************)
(* Constants for model checking.  The sample date-times are apart by more  *)
(* milliseconds than there are events, as they are in the code by days.    *)
(***************************************************************************)
EXTENDS SampleClients

MCDateTimes == {0, 10, 20, 30, 40}
=============================================================================
