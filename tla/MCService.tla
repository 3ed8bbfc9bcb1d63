------------------------------ MODULE MCService ------------------------------
(***************************************************************************)
(* Constants for model checking: two services, two StdAir services, so     *)
(* that one can be the application's and the other a service's own.        *)
(***************************************************************************)
EXTENDS SEVMGR_Service, TLC

\* The one event may go anywhere: which slot it gets is for EventQueue to say.
MCDue == [payload \in Payload |-> 0]

\* Which service, and which StdAir service, makes no difference.
MCSymmetry == Permutations(Service) \cup Permutations(StdAir)
=============================================================================
