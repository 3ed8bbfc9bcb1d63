------------------------ MODULE MCInteractiveSession ------------------------
(***************************************************************************)
(* Constants for model checking: the four sample date-times, the oldest    *)
(* date-time, and one that no event has, all in half milliseconds.         *)
(***************************************************************************)
EXTENDS InteractiveSession

MCDateTimes == {0, 10, 20, 30, 36, 40}
=============================================================================
