-------------------------- MODULE MCEventQueueAccess --------------------------
(***************************************************************************)
(* Constants for model checking: two types, one of which has no JSON form, *)
(* at two date-times of one millisecond.                                   *)
(***************************************************************************)
EXTENDS EventQueueAccess

MCTwoDateTimes == {0, 1}

\* A status that differs from a new one in every number.
MCStatuses == {[current |-> 1, expected |-> 1, actual |-> 0]}
=============================================================================
