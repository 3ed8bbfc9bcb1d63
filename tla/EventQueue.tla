----------------------------- MODULE EventQueue -----------------------------
(***************************************************************************)
(* The event queue (bom/EventQueue.cpp): a map from date-time stamps to    *)
(* events, an overall progress status, and one progress status per event   *)
(* type.  Every operator below is one method, as the change it makes to    *)
(* the three members; EventQueueManager.tla composes them into the calls a *)
(* client can make.                                                        *)
(***************************************************************************)
EXTENDS StdAir

CONSTANT MaxAttempts  \* the 1e3 of the insertion loop

ASSUME MaxAttemptsAssumption == MaxAttempts \in Nat \ {0}

VARIABLES
  eventList,          \* std::map: stamp -> event
  progressStatus,     \* overall counters
  progressStatusMap   \* std::map: event type -> counters of that type

queueVars == <<eventList, progressStatus, progressStatusMap>>

\* The members of EventQueue: stamps lead to events, and a counter is an unsigned
\* number for every type that has one.
QueueTypeOK ==
  /\ DOMAIN eventList \subseteq Int
  /\ eventList \in [DOMAIN eventList -> Event]
  /\ progressStatus \in ProgressStatus
  /\ DOMAIN progressStatusMap \subseteq EventType
  /\ progressStatusMap \in [DOMAIN progressStatusMap -> ProgressStatus]

QueueInit ==
  /\ eventList = EmptyMap
  /\ progressStatus = NewProgressStatus(0)
  /\ progressStatusMap = EmptyMap

-----------------------------------------------------------------------------
(* Queries. *)

getQueueSize == Cardinality(DOMAIN eventList)

isQueueDone == DOMAIN eventList = {}

hasProgressStatus(type) == type \in DOMAIN progressStatusMap

\* The look-ups by type answer with a reference into the map, or fail: two of
\* them by an exception,
getStatus(type) == IF hasProgressStatus(type) THEN "reference" ELSE "threw"
getExpectedTotalNbOfEvents(type) ==
  IF hasProgressStatus(type) THEN "reference" ELSE "threw"

\* and three by an assertion.
getCurrentNbOfEvents(type) ==
  IF hasProgressStatus(type) THEN "reference" ELSE "aborted"
getActualTotalNbOfEvents(type) ==
  IF hasProgressStatus(type) THEN "reference" ELSE "aborted"
calculateProgress(type) ==
  IF hasProgressStatus(type) THEN "ratio" ELSE "aborted"

\* Faulty variant: the result of the search is not looked at.
hasAnyEventDateTime(dateTime) == ~ isQueueDone

\* The search is by stamp, hence to the millisecond, and it looks at the
\* slots of the list, not at the date-times of the events in them.
hasEventDateTime(dateTime) == TotalMilliseconds(dateTime) \in DOMAIN eventList

-----------------------------------------------------------------------------
(* Adding: addEvent is a first insertion and then a loop of retries. *)

\* Faulty variant: operator[] in the place of insert, which overwrites.
alwaysFree(stamp) == TRUE

isFree(stamp) == stamp \notin DOMAIN eventList

\* Faulty variant: the event is copied before its stamp is moved.
insertUnmoved(event) ==
  /\ isFree(event.stamp)
  /\ eventList' = With(eventList, event.stamp, NewEvent(event.type, event.time))
  /\ UNCHANGED <<progressStatus, progressStatusMap>>

insert(event) ==
  /\ isFree(event.stamp)
  /\ eventList' = With(eventList, event.stamp, event)
  /\ UNCHANGED <<progressStatus, progressStatusMap>>

\* The counter of attempts is a constant 0 in the code: the loop condition
\* compares it with the bound, and nothing ever increments it.
attemptsLeft == 0 # MaxAttempts

-----------------------------------------------------------------------------
(* Removing. *)

setStatus(type, status) ==
  progressStatusMap' = [progressStatusMap EXCEPT ![type] = status]

\* Faulty variants of popEvent when the type has no status: the event is put
\* back but stays counted, and the event goes without being counted.
popEventHalfRolledBack(key) ==
  LET type == eventList[key].type IN
    /\ IsFirstKey(eventList, key)
    /\ progressStatus' = Increment(progressStatus)
    /\ IF hasProgressStatus(type)
         THEN /\ eventList' = Without(eventList, key)
              /\ setStatus(type, Increment(progressStatusMap[type]))
         ELSE UNCHANGED <<eventList, progressStatusMap>>

popEventCountsLate(key) ==
  LET type == eventList[key].type IN
    /\ IsFirstKey(eventList, key)
    /\ eventList' = Without(eventList, key)
    /\ IF hasProgressStatus(type)
         THEN /\ progressStatus' = Increment(progressStatus)
              /\ setStatus(type, Increment(progressStatusMap[type]))
         ELSE UNCHANGED <<progressStatus, progressStatusMap>>

\* Faulty variants: the type's counter is not stored back; the list is read
\* from its other end.
popEventOverallOnly(key) ==
  /\ IsFirstKey(eventList, key)
  /\ eventList' = Without(eventList, key)
  /\ progressStatus' = Increment(progressStatus)
  /\ UNCHANGED progressStatusMap

popEventLast(key) ==
  LET type == eventList[key].type IN
    /\ key \in DOMAIN eventList
    /\ \A k \in DOMAIN eventList : k <= key
    /\ eventList' = Without(eventList, key)
    /\ progressStatus' = Increment(progressStatus)
    /\ setStatus(type, Increment(progressStatusMap[type]))

\* Faulty variant: the event is read but not erased.
popEventKeepsEvent(key) ==
  LET type == eventList[key].type IN
    /\ IsFirstKey(eventList, key)
    /\ progressStatus' = Increment(progressStatus)
    /\ IF hasProgressStatus(type)
         THEN setStatus(type, Increment(progressStatusMap[type]))
         ELSE UNCHANGED progressStatusMap
    /\ UNCHANGED eventList

\* popEvent on a queue that holds the event of slot "key" first.  The event
\* has left the list and the overall counter has moved by the time
\* getStatus(type) is called; when that throws, they stay as they are.
popEvent(key) ==
  LET type == eventList[key].type IN
    /\ IsFirstKey(eventList, key)
    /\ eventList' = Without(eventList, key)
    /\ progressStatus' = Increment(progressStatus)
    /\ IF hasProgressStatus(type)
         THEN setStatus(type, Increment(progressStatusMap[type]))
         ELSE UNCHANGED progressStatusMap

popEventThrows(key) == ~ hasProgressStatus(eventList[key].type)

\* Faulty variant: the statuses of the types are forgotten.
resetOverallOnly ==
  /\ progressStatus' = ResetProgressStatus(progressStatus)
  /\ eventList' = EmptyMap
  /\ UNCHANGED progressStatusMap

\* Faulty variants: the map is cleared like the list; every type starts afresh.
resetForgetsTypes ==
  /\ progressStatus' = ResetProgressStatus(progressStatus)
  /\ eventList' = EmptyMap
  /\ progressStatusMap' = EmptyMap

resetForgetsTotals ==
  /\ progressStatus' = ResetProgressStatus(progressStatus)
  /\ eventList' = EmptyMap
  /\ progressStatusMap' = [type \in DOMAIN progressStatusMap |-> NewProgressStatus(0)]

reset ==
  /\ progressStatus' = ResetProgressStatus(progressStatus)
  /\ eventList' = EmptyMap
  /\ progressStatusMap' =
       [type \in DOMAIN progressStatusMap |->
          ResetProgressStatus(progressStatusMap[type])]

-----------------------------------------------------------------------------
(* Progress statuses. *)

\* Faulty variant: the totals are replaced, too.
mergedStatusReplaced(type, status) == status

\* updateStatus (type, status): the totals of a type that is already known
\* accumulate, while its current number is replaced.
mergedStatus(type, status) ==
  IF hasProgressStatus(type)
  THEN LET old == progressStatusMap[type] IN
       [current  |-> status.current,
        expected |-> Plus(old.expected, status.expected),
        actual   |-> Plus(old.actual, status.actual)]
  ELSE status

\* The overall totals are summed as double and cast back to Count_T, which is
\* defined only for a result that Count_T can hold.
addStatusIsDefined(n) ==
  /\ progressStatus.expected + n <= MaxCount
  /\ progressStatus.actual + n <= MaxCount

addStatus(type, n) ==
  /\ progressStatusMap' = With(progressStatusMap, type,
                               mergedStatus(type, NewProgressStatus(n)))
  /\ progressStatus' = [progressStatus EXCEPT !.expected = @ + n,
                                              !.actual = @ + n]
  /\ UNCHANGED eventList

\* Faulty variant: a number without a width.
castOfAny(sum) == {sum}

\* addStatus without that proviso: a sum that Count_T cannot hold may become any
\* number, for the expected and for the actual total.
castOf(sum) == IF sum <= MaxCount THEN {sum} ELSE Count

addStatusCast(type, n) ==
  /\ progressStatusMap' = With(progressStatusMap, type,
                               mergedStatus(type, NewProgressStatus(n)))
  /\ \E expected \in castOf(progressStatus.expected + n),
        actual \in castOf(progressStatus.actual + n) :
       progressStatus' = [progressStatus EXCEPT !.expected = expected,
                                                !.actual = actual]
  /\ UNCHANGED eventList

\* Faulty variants of updateStatus: a difference that is added without wrapping,
\* and one that is taken after the type's total has been replaced.
updateStatusUnwrapped(type, n) ==
  /\ IF hasProgressStatus(type)
       THEN LET delta == Minus(n, progressStatusMap[type].actual) IN
            /\ progressStatus' = [progressStatus EXCEPT !.actual = @ + delta]
            /\ setStatus(type, [progressStatusMap[type] EXCEPT !.actual = n])
       ELSE UNCHANGED <<progressStatus, progressStatusMap>>
  /\ UNCHANGED eventList

updateStatusTooLate(type, n) ==
  /\ setStatus(type, [progressStatusMap[type] EXCEPT !.actual = n])
  /\ UNCHANGED <<eventList, progressStatus>>

\* updateStatus (type, number): no effect at all on a type without a status.
\* The difference with the old total is unsigned, so it may wrap.
updateStatus(type, n) ==
  /\ IF hasProgressStatus(type)
       THEN LET delta == Minus(n, progressStatusMap[type].actual) IN
            /\ progressStatus' = [progressStatus EXCEPT !.actual = Plus(@, delta)]
            /\ setStatus(type, [progressStatusMap[type] EXCEPT !.actual = n])
       ELSE UNCHANGED <<progressStatus, progressStatusMap>>
  /\ UNCHANGED eventList

-----------------------------------------------------------------------------
(* Public setters, for whoever has a reference on the queue.               *)

setOverallStatus(status) ==
  /\ progressStatus' = status
  /\ UNCHANGED <<eventList, progressStatusMap>>

setNumbers(current, actual) ==
  setOverallStatus([progressStatus EXCEPT !.current = current, !.actual = actual])

setCurrentNbOfEvents(n) == setOverallStatus([progressStatus EXCEPT !.current = n])

setExpectedTotalNbOfEvents(n) == setOverallStatus([progressStatus EXCEPT !.expected = n])

\* updateStatus (type, status), without the overall sums of addStatus.
mergeStatus(type, status) ==
  /\ progressStatusMap' = With(progressStatusMap, type, mergedStatus(type, status))
  /\ UNCHANGED <<eventList, progressStatus>>
=============================================================================
