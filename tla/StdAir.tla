------------------------------- MODULE StdAir -------------------------------
(***************************************************************************)
(* The values that SEvMgr takes from the StdAir library: events, their     *)
(* date-time stamps and progress statuses.  StdAir is not part of this     *)
(* repository; each operator says what the code under src/sevmgr relies    *)
(* on.                                                                     *)
(*                                                                         *)
(* A date-time is the number of clock ticks since                          *)
(* DEFAULT_EVENT_OLDEST_DATETIME (01-JAN-2010), so it is negative for an   *)
(* earlier date.  A stamp is a number of milliseconds since the same date. *)
(***************************************************************************)
EXTENDS Integers, FiniteSets, Functions

CONSTANTS
  EventType,        \* the values of EventType::EN_EventType the client uses
  BKG_REQ, BRK_PT,  \* two of them: booking request and break point
  DateTime,         \* the date-times of the events and of the requests
  TicksPerMs,       \* resolution of a date-time; 1000 in a stock Boost build
  MaxCount,         \* greatest value of Count_T (unsigned int)
  ResetZeroesActual,\* whether ProgressStatus::reset also clears the actual total
  NoEvent           \* the EventStruct that no call has filled yet

DEFAULT_EVENT_OLDEST_DATETIME == 0

Event == [type : EventType, time : DateTime, stamp : Int]

ASSUME EventTypeAssumption ==
  /\ BKG_REQ \in EventType
  /\ BRK_PT \in EventType
  /\ BKG_REQ # BRK_PT

ASSUME DateTimeAssumption ==
  /\ DateTime \subseteq Int
  /\ DEFAULT_EVENT_OLDEST_DATETIME \in DateTime
  /\ TicksPerMs \in Nat \ {0}

ASSUME CountAssumption ==
  /\ MaxCount \in Nat \ {0}
  /\ ResetZeroesActual \in BOOLEAN

ASSUME NoEventAssumption == NoEvent \notin Event

-----------------------------------------------------------------------------
(* Events. *)

\* Duration_T::total_milliseconds: an integer division, which in C++ rounds
\* towards zero on both sides of the oldest date-time.
TotalMilliseconds(ticks) ==
  IF ticks >= 0 THEN ticks \div TicksPerMs ELSE -((-ticks) \div TicksPerMs)

\* The constructor of EventStruct derives the stamp from the content's date-time.
NewEvent(type, time) ==
  [type |-> type, time |-> time, stamp |-> TotalMilliseconds(time)]

\* Only the stamp moves: getEventTime still answers the content's date-time.
IncrementEventTimeStamp(event) == [event EXCEPT !.stamp = @ + 1]

-----------------------------------------------------------------------------
(* Counters: Count_T is unsigned, so its arithmetic is modulo MaxCount + 1. *)

Count == 0..MaxCount

Plus(a, b) == IF a + b <= MaxCount THEN a + b ELSE (a + b) - (MaxCount + 1)

Minus(a, b) == IF b <= a THEN a - b ELSE (a - b) + (MaxCount + 1)

ProgressStatus == [current : Count, expected : Count, actual : Count]

\* ProgressStatus (expected): no event yet, and as many actual as expected.
NewProgressStatus(n) == [current |-> 0, expected |-> n, actual |-> n]

\* operator++
Increment(status) == [status EXCEPT !.current = Plus(@, 1)]

ResetProgressStatus(status) ==
  [status EXCEPT !.current = 0,
                 !.actual = IF ResetZeroesActual THEN 0 ELSE @]

-----------------------------------------------------------------------------
(* std::map, as a function from the keys it holds. *)

EmptyMap == [k \in {} |-> k]

With(map, key, value) ==
  [k \in DOMAIN map \cup {key} |-> IF k = key THEN value ELSE map[k]]

Without(map, key) == Restrict(map, DOMAIN map \ {key})

\* begin() of a std::map: the entry with the least key.
IsFirstKey(map, key) ==
  /\ key \in DOMAIN map
  /\ \A k \in DOMAIN map : key <= k
=============================================================================
