---------------------------- MODULE MCEventQueue ----------------------------
(***************************************************************************)
(* Constants for model checking.  Half a millisecond is the smallest       *)
(* resolution that tells a date-time from its stamp.                       *)
(***************************************************************************)
EXTENDS EventQueueCorrectness

\* Truncated to stamps -1, 0, 0 and 1.
MCDateTimes == {-3, 0, 1, 2}

\* Two date-times of one millisecond, so that adding both displaces one.
MCTwoDateTimes == {0, 1}
=============================================================================
