---------------------------- MODULE EventCalendar ----------------------------
(***************************************************************************)
(* What a client of the event queue relies on, with no loop, no exception  *)
(* and no per-type counter: a calendar where each pending event owns an    *)
(* instant, from which events are served one at a time, the earliest       *)
(* first, and which knows how many it has served.                          *)
(***************************************************************************)
EXTENDS Integers

CONSTANTS
  Payload,    \* what is scheduled
  Due         \* function from payloads to Int: the instant each one asks for

VARIABLES
  pending,    \* function from instants to payloads
  served      \* events served since the calendar was last cleared

Init ==
  /\ pending = [i \in {} |-> i]
  /\ served = 0

\* An event never goes before its due instant and never replaces another.
Schedule(payload, instant) ==
  /\ instant \notin DOMAIN pending
  /\ Due[payload] <= instant
  /\ pending' = [i \in DOMAIN pending \cup {instant} |->
                   IF i = instant THEN payload ELSE pending[i]]
  /\ UNCHANGED served

Serve(instant) ==
  /\ \A i \in DOMAIN pending : instant <= i
  /\ pending' = [i \in DOMAIN pending \ {instant} |-> pending[i]]
  /\ served' = served + 1

Clear ==
  /\ pending' = [i \in {} |-> i]
  /\ served' = 0

Next ==
  \/ \E payload \in Payload : \E instant \in DOMAIN pending' :
       Schedule(payload, instant)
  \/ \E instant \in DOMAIN pending : Serve(instant)
  \/ Clear

Spec == Init /\ [][Next]_<<pending, served>>
=============================================================================
