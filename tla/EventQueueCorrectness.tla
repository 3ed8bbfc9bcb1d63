------------------------ MODULE EventQueueCorrectness ------------------------
(***************************************************************************)
(* What EventQueueManager has to guarantee, and the statements of the      *)
(* documentation that the code does not keep (last section).               *)
(***************************************************************************)
EXTENDS EventQueueManager

-----------------------------------------------------------------------------
(* The event list. *)

\* Every event sits under its own stamp, never before the millisecond of its
\* date-time: addEvent alters the caller's struct before it copies it
\* (EventQueue::addEvent), so a popped event tells where it really was.
KeysAreStamps ==
  \A key \in DOMAIN eventList :
    /\ eventList[key].stamp = key
    /\ TotalMilliseconds(eventList[key].time) <= key

\* The insertion loop has no working bound of its own (the attempt counter of
\* EventQueue::addEvent is a constant); what bounds it is that each failed
\* attempt has met a different event, so it can fail once per queued event.
AttemptsWithinQueue ==
  pc = "addEvent" =>
    /\ \A slot \in atCall.event.stamp .. (ioEvent.stamp - 1) : ~ isFree(slot)
    /\ ioEvent.stamp - atCall.event.stamp \in 0..getQueueSize

\* When addEvent returns, the event is in the first slot that was free at or
\* after the stamp it came with, its type and date-time are those it came with,
\* and every other event is where it was.  A slot is a millisecond, as in
\* EventQueue.cpp:441-460; EventQueue.hpp:254-256 speaks of equal date-times and
\* of moves by a nanosecond, which the code does not do.
AddReturnsFromFirstFreeSlot ==
  pc = "addEvent" /\ pc' # "addEvent" =>
     LET slot == ioEvent'.stamp IN
       /\ slot >= atCall.event.stamp
       /\ slot \notin DOMAIN atCall.list
       /\ \A s \in atCall.event.stamp .. (slot - 1) : s \in DOMAIN atCall.list
       /\ ioEvent' = [atCall.event EXCEPT !.stamp = slot]
       /\ eventList' = With(atCall.list, slot, ioEvent')

\* Every return of addEvent is one of those.
AddTakesFirstFreeSlot == [][AddReturnsFromFirstFreeSlot]_vars

-----------------------------------------------------------------------------
(* run and select. *)

\* The events of a call that have been popped so far.
played == DOMAIN atCall.list \ DOMAIN eventList

\* A loop plays the list from the front and in order: what has been popped is
\* a prefix of the list at the call, what is left is untouched, and the
\* client's struct holds the last event popped, or what it held at the call.
LoopPlaysAPrefix ==
  pc \in {"run", "select"} =>
    /\ eventList = Restrict(atCall.list, DOMAIN atCall.list \ played)
    /\ \A p \in played, q \in DOMAIN eventList : p < q
    /\ IF played = {} THEN ioEvent = atCall.event
       ELSE \E p \in played : /\ \A q \in played : q <= p
                              /\ ioEvent = atCall.list[p]

\* run never goes past a break point (EventQueueManager::run): when it comes
\* back without an exception, exactly the events up to and including the first
\* break point have been played, or all of them when there is none.
RunReturnsAtFirstBreakPoint ==
  pc = "run" /\ pc' # "run" /\ reply' = "void" =>
     LET breakPoints == {key \in DOMAIN atCall.list :
                           atCall.list[key].type = BRK_PT}
     IN  IF breakPoints = {}
         THEN isQueueDone'
         ELSE \E first \in breakPoints :
                /\ \A key \in breakPoints : first <= key
                /\ ioEvent' = atCall.list[first]
                /\ DOMAIN eventList' = {key \in DOMAIN atCall.list : key > first}

\* Every return of run is one of those.
RunStopsAtFirstBreakPoint == [][RunReturnsAtFirstBreakPoint]_vars

\* select comes back with the first event of the list that has the date-time
\* asked for, all earlier ones having been played, whenever there is such an
\* event; only the default date-time, at which the loop of
\* EventQueueManager::select does not even start, is excepted.
SelectReturnsAtDateTime ==
  pc = "select" /\ pc' # "select" /\ reply' # "threw"
      /\ iDateTime # DEFAULT_EVENT_OLDEST_DATETIME =>
     LET matches == {key \in DOMAIN atCall.list :
                       atCall.list[key].time = iDateTime}
     IN  IF matches = {}
         THEN reply' # "true"
         ELSE \E first \in matches :
                /\ \A key \in matches : first <= key
                /\ reply' = "true"
                /\ ioEvent' = atCall.list[first]
                /\ DOMAIN eventList' = {key \in DOMAIN atCall.list : key > first}

\* Every end of select but an exception is one of those.
SelectReachesDateTime == [][SelectReturnsAtDateTime]_vars

\* An exception out of run or select comes from the first event whose type has
\* no progress status.  That event is out of the queue with those before it,
\* it is in the client's struct, and what comes after it is still queued, so
\* that the client can take note of it and call again.
LoopThrowsAtFirstUnknownType ==
  pc \in {"run", "select"} /\ reply' = "threw" =>
    LET unknown == {key \in DOMAIN atCall.list :
                      ~ hasProgressStatus(atCall.list[key].type)}
    IN  \E first \in unknown :
          /\ \A key \in unknown : first <= key
          /\ ioEvent' = atCall.list[first]
          /\ eventList' = Restrict(atCall.list, {key \in DOMAIN atCall.list : key > first})

\* Every exception out of a loop is one of those.
ThrowLosesOnlyOneEvent == [][LoopThrowsAtFirstUnknownType]_vars

-----------------------------------------------------------------------------
(* Progress. *)

SumOverTypes(field) ==
  FoldFunction(LAMBDA status, sum : Plus(status[field], sum), 0, progressStatusMap)

\* The overall totals are the sums of those of the types, whatever the order
\* of addStatus, updateStatus and reset, and although updateStatus computes
\* an unsigned difference that wraps when a total goes down.
TotalsAddUp ==
  /\ progressStatus.expected = SumOverTypes("expected")
  /\ progressStatus.actual = SumOverTypes("actual")

\* No event is counted twice for its type: the types together never claim more
\* events than the overall counter.  They may claim fewer, since an event of a
\* type without a status counts overall only and addStatus restarts its type.
TypesNeverOvercount == SumOverTypes("current") <= progressStatus.current

\* Every call comes back: the retries of addEvent and the loops of run and
\* select end, by a return, an exception or a failed assertion.
CallsReturn == pc # "idle" ~> pc \in {"idle", "aborted"}

\* The events that the call in progress can still meet: a retry of addEvent, those
\* in its slot or after it; an iteration of run or select, all that are left.
eventsAhead ==
  IF pc = "addEvent" THEN {key \in DOMAIN eventList : ioEvent.stamp <= key}
  ELSE DOMAIN eventList

\* A step of a call that does not end it leaves one event behind for good, as
\* neither the retries nor the loops queue one.
IterationLeavesAnEventBehind ==
  pc \in Calls /\ pc' = pc =>
    /\ eventsAhead' \subseteq eventsAhead
    /\ Cardinality(eventsAhead') < Cardinality(eventsAhead)

\* Hence a call makes no more iterations than there are events, whatever they are:
\* none of the three loops has a counter of its own that works
\* (EventQueue::addEvent, EventQueueManager::run and select).
IterationsAreBounded == [][IterationLeavesAnEventBehind]_vars

-----------------------------------------------------------------------------
(* Refinement: the calendar that the queue implements.                      *)

Payload == [type : EventType, time : DateTime]

payloadOf(event) == [type |-> event.type, time |-> event.time]

Calendar == INSTANCE EventCalendar WITH
  Due     <- [payload \in Payload |-> TotalMilliseconds(payload.time)],
  pending <- [key \in DOMAIN eventList |-> payloadOf(eventList[key])],
  served  <- progressStatus.current

\* addEvent schedules an event once and at or after its millisecond; popEvent
\* serves the earliest one and counts it, even when it then throws; nothing
\* else but reset touches the list or the overall counter.
ImplementsCalendar == Calendar!Spec

-----------------------------------------------------------------------------
(* The inductive invariant behind the safety properties.                    *)

ListIsFinite == IsFiniteSet(DOMAIN eventList)

\* What is queued, about to be queued, or already counted fits the counter.
CountsFit ==
  getQueueSize + progressStatus.current + (IF pc = "addEvent" THEN 1 ELSE 0) <= MaxCount

\* The client's struct never holds a stamp before its own date-time, which is
\* what lets it be added again.
HeldEventIsDue ==
  ioEvent \in Event => TotalMilliseconds(ioEvent.time) <= ioEvent.stamp

\* During addEvent the list is that of the call, the struct has only moved
\* forward from what it was, and every slot it left behind was taken.
AddInv ==
  pc = "addEvent" =>
    /\ atCall.list = eventList
    /\ atCall.event \in Event
    /\ atCall.event.stamp <= ioEvent.stamp
    /\ ioEvent = [atCall.event EXCEPT !.stamp = ioEvent.stamp]
    /\ \A slot \in atCall.event.stamp .. (ioEvent.stamp - 1) : slot \in DOMAIN eventList

\* During run and select the history holds a list of events.
LoopHistoryOK ==
  pc \in {"run", "select"} =>
    /\ DOMAIN atCall.list \subseteq Int
    /\ atCall.list \in [DOMAIN atCall.list -> Event]
    /\ DOMAIN eventList \subseteq DOMAIN atCall.list

\* run: the local follows the last event played, and only that one may have
\* been a break point.
RunInv ==
  pc = "run" =>
    /\ played = {} => lEventType = BKG_REQ
    /\ played # {} => lEventType = ioEvent.type
    /\ \A p \in played : atCall.list[p].type = BRK_PT => \A q \in played : q <= p

\* select: likewise with the date-time.
SelectInv ==
  pc = "select" =>
    /\ played = {} => lDateTime = DEFAULT_EVENT_OLDEST_DATETIME
    /\ played # {} => lDateTime = ioEvent.time
    /\ \A p \in played : atCall.list[p].time = iDateTime => \A q \in played : q <= p

\* Between calls the locals of run and select have their defaults.
LocalsAtRest ==
  pc = "idle" => /\ lEventType = BKG_REQ
                 /\ lDateTime = DEFAULT_EVENT_OLDEST_DATETIME

\* A loop that is still under way has met no type without a status, and has
\* not answered.
PlayedTypesKnown ==
  pc \in {"run", "select"} =>
    /\ \A p \in played : hasProgressStatus(atCall.list[p].type)
    /\ reply = "none"

\* What holds of the list and of the call in progress, whatever the statuses.
OrderInv ==
  /\ TypeOK
  /\ ListIsFinite
  /\ KeysAreStamps
  /\ HeldEventIsDue
  /\ AddInv
  /\ LoopHistoryOK
  /\ LoopPlaysAPrefix
  /\ RunInv
  /\ SelectInv
  /\ LocalsAtRest

IInv == OrderInv /\ CountsFit

-----------------------------------------------------------------------------
(* Statements of the documentation that the code does not keep.             *)

\* EventQueueManager.cpp:272 asserts after its loop that the event of the
\* date-time asked for has been reached.
SelectAssertionHolds == pc # "aborted"

\* SEVMGR_Service.hpp:158-163: select says whether an event with the given date-time had
\* been encountered and thus returned.
SelectTrueMeansReturned ==
  [][reply' = "true" /\ reply # "true" => ioEvent' \in Event /\ ioEvent'.time = iDateTime]_vars

\* EventQueueManager.cpp:215: the only thing reported as having gone wrong in
\* popEvent is that the queue was empty.
CaughtMeansEmpty == [][reply' = "caught" /\ reply # "caught" => isQueueDone]_vars

\* EventQueue.cpp:448-451: after MaxAttempts attempts an assertion fails, so
\* that addEvent does not return.
AttemptsAreBounded ==
  [][pc = "addEvent" /\ pc' = "idle" =>
       ioEvent.stamp - atCall.event.stamp < MaxAttempts]_vars
=============================================================================
