--------------------------- MODULE EventQueueSafety ---------------------------
(***************************************************************************)
(* Proofs of the safety properties of EventQueueCorrectness.  They all     *)
(* follow from the inductive invariant IInv stated there.  A step of the   *)
(* specification is first put in one of seven classes, by what it does to  *)
(* the list and to the call in progress; each part of IInv is then proved  *)
(* to survive each class.                                                  *)
(***************************************************************************)
EXTENDS EventQueueProofs

-----------------------------------------------------------------------------
(* The classes of steps.                                                    *)

\* addEvent is entered with an event that is not before its date-time.
AddStep(event) ==
  /\ TotalMilliseconds(event.time) <= event.stamp
  /\ AddEvent(event)

\* An event is popped, by popEvent or by an iteration of a loop.
PopStep(key) ==
  /\ popEvent(key)
  /\ ioEvent' = eventList[key]
  /\ pc # "addEvent"
  /\ \/ pc' = "idle" /\ lEventType' = BKG_REQ
                     /\ lDateTime' = DEFAULT_EVENT_OLDEST_DATETIME
     \/ /\ pc \in {"run", "select"}
        /\ UNCHANGED <<pc, iDateTime, atCall>>
        /\ pc = "run" => runGoesOn /\ lEventType' = eventList[key].type
        /\ pc = "select" => selectGoesOn /\ lDateTime' = eventList[key].time

\* run or select is entered.
LoopEntry ==
  /\ pc = "idle"
  /\ pc' \in {"run", "select"}
  /\ atCall' = [list |-> eventList, event |-> ioEvent]
  /\ UNCHANGED <<eventList, progressStatus, ioEvent, lEventType, lDateTime>>

\* Neither the list nor the client's struct changes, and no call is entered.
QuietStep ==
  /\ UNCHANGED <<eventList, ioEvent>>
  /\ \/ /\ pc # "addEvent"
        /\ pc' \in {"idle", "aborted"}
        /\ lEventType' = BKG_REQ
        /\ lDateTime' = DEFAULT_EVENT_OLDEST_DATETIME
     \/ UNCHANGED callVars

\* Nor does the overall current number.
StatusStep == QuietStep /\ progressStatus'.current = progressStatus.current

ResetStep == Reset

\* The steps of a client that counts by popping only, and those of any client.
CountedStep ==
  \/ \E event \in Event : AddStep(event)
  \/ InsertSucceeds
  \/ InsertFails
  \/ \E key \in DOMAIN eventList : PopStep(key)
  \/ LoopEntry
  \/ StatusStep
  \/ ResetStep

AnyStep ==
  \/ \E event \in Event : AddStep(event)
  \/ InsertSucceeds
  \/ InsertFails
  \/ \E key \in DOMAIN eventList : PopStep(key)
  \/ LoopEntry
  \/ QuietStep
  \/ ResetStep

\* Every step is of one of the classes.
LEMMA StepClasses ==
  ASSUME TypeOK, HeldEventIsDue, [Next]_vars
  PROVE  CountedStep
<1>1. CASE AddNewEvent
  <2>1. PICK type \in EventType, time \in DateTime : AddEvent(NewEvent(type, time))
    BY <1>1 DEF AddNewEvent
  <2> DEFINE event == NewEvent(type, time)
  <2>2. /\ event \in Event
        /\ event.time = time
        /\ event.stamp = TotalMilliseconds(time)
    BY NewEventType
  <2>3. TotalMilliseconds(event.time) <= event.stamp
    BY <2>2 DEF Event
  <2>4. AddStep(event)
    BY <2>1, <2>3 DEF AddStep
  <2>5. QED
    BY <2>2, <2>4 DEF CountedStep
<1>2. CASE AddHeldEvent
  BY <1>2 DEF AddHeldEvent, HeldEventIsDue, AddStep, CountedStep
<1>3. CASE InsertSucceeds \/ InsertFails
  BY <1>3 DEF CountedStep
<1>4. CASE PopEvent
  <2>1. CASE isQueueDone /\ Atomic("caught") /\ UNCHANGED <<queueVars, ioEvent>>
    BY <2>1 DEF Atomic, Leave, StatusStep, QuietStep, CountedStep, queueVars
  <2>2. CASE \E key \in DOMAIN eventList :
               /\ popEvent(key)
               /\ ioEvent' = eventList[key]
               /\ Atomic(IF popEventThrows(key) THEN "caught" ELSE "status")
    BY <2>2 DEF Atomic, Leave, PopStep, CountedStep
  <2>3. QED
    BY <1>4, <2>1, <2>2 DEF PopEvent
<1>5. CASE Run
  BY <1>5 DEF Run, Enter, LoopEntry, CountedStep, queueVars
<1>6. CASE RunPops
  <2>1. PICK key \in DOMAIN eventList :
          /\ popEvent(key)
          /\ ioEvent' = eventList[key]
          /\ IF popEventThrows(key)
               THEN Leave("idle", "threw")
               ELSE /\ lEventType' = eventList[key].type
                    /\ UNCHANGED <<pc, reply, lDateTime, iDateTime, atCall>>
    BY <1>6 DEF RunPops
  <2>2. PopStep(key)
    BY <1>6, <2>1 DEF RunPops, Leave, PopStep
  <2>3. QED
    BY <2>2 DEF CountedStep
<1>7. CASE RunReturns \/ SelectReturns
  BY <1>7 DEF RunReturns, SelectReturns, Leave, StatusStep, QuietStep, CountedStep, queueVars
<1>8. ASSUME NEW dateTime \in DateTime, Select(dateTime)
      PROVE  CountedStep
  <2>1. CASE Atomic("false") /\ UNCHANGED <<queueVars, ioEvent>>
    BY <2>1 DEF Atomic, Leave, StatusStep, QuietStep, CountedStep, queueVars
  <2>2. CASE /\ Enter("select", ioEvent)
             /\ UNCHANGED <<queueVars, ioEvent, lEventType, lDateTime>>
    BY <2>2 DEF Enter, LoopEntry, CountedStep, queueVars
  <2>3. QED
    BY <1>8, <2>1, <2>2 DEF Select
<1>9. CASE SelectPops
  <2>1. PICK key \in DOMAIN eventList :
          /\ popEvent(key)
          /\ ioEvent' = eventList[key]
          /\ IF popEventThrows(key)
               THEN Leave("idle", "threw")
               ELSE /\ lDateTime' = eventList[key].time
                    /\ UNCHANGED <<pc, reply, lEventType, iDateTime, atCall>>
    BY <1>9 DEF SelectPops
  <2>2. PopStep(key)
    BY <1>9, <2>1 DEF SelectPops, Leave, PopStep
  <2>3. QED
    BY <2>2 DEF CountedStep
<1>10. CASE Reset
  BY <1>10 DEF ResetStep, CountedStep
<1>11. ASSUME NEW type, NEW n, AddStatus(type, n) \/ UpdateStatus(type, n)
       PROVE  CountedStep
  <2>1. progressStatus \in ProgressStatus
    BY DEF TypeOK, QueueTypeOK
  <2>2. progressStatus'.current = progressStatus.current
    BY <1>11, <2>1 DEF AddStatus, UpdateStatus, addStatus, updateStatus, ProgressStatus
  <2>3. eventList' = eventList
    BY <1>11 DEF AddStatus, UpdateStatus, addStatus, updateStatus
  <2>4. QED
    BY <1>11, <2>2, <2>3
       DEF AddStatus, UpdateStatus, Atomic, Leave, StatusStep, QuietStep, CountedStep
<1>12. CASE Aborted \/ UNCHANGED vars
  BY <1>12 DEF Aborted, vars, queueVars, StatusStep, QuietStep, CountedStep
<1>13. QED
  BY <1>1, <1>2, <1>3, <1>4, <1>5, <1>6, <1>7, <1>8, <1>9, <1>10, <1>11, <1>12
     DEF Next, Call, Progress

\* Counted or not, it is a step of any client.
LEMMA CountedIsAny == CountedStep => AnyStep
BY DEF CountedStep, StatusStep, AnyStep

-----------------------------------------------------------------------------
(* What the classes do to the list and to the overall current number.       *)

\* What the insertion that ends addEvent does to the list, and what it leaves.
LEMMA InsertChange ==
  ASSUME TypeOK, InsertSucceeds
  PROVE  /\ ioEvent \in Event
         /\ ioEvent.stamp \in Int
         /\ ioEvent.stamp \notin DOMAIN eventList
         /\ eventList' = With(eventList, ioEvent.stamp, ioEvent)
         /\ DOMAIN eventList' = DOMAIN eventList \cup {ioEvent.stamp}
         /\ eventList'[ioEvent.stamp] = ioEvent
         /\ \A k \in DOMAIN eventList : eventList'[k] = eventList[k]
         /\ progressStatus' = progressStatus
         /\ ioEvent' = ioEvent
         /\ pc' = "idle"
<1>1. ioEvent \in Event /\ ioEvent.stamp \in Int
  BY DEF TypeOK, InsertSucceeds, Event
<1>2. QED
  BY <1>1 DEF InsertSucceeds, insert, isFree, With, Leave

\* What EventQueue::popEvent does to the list, thrown out of or not.
LEMMA PopChange ==
  ASSUME TypeOK, NEW key \in DOMAIN eventList, popEvent(key)
  PROVE  /\ DOMAIN eventList' = DOMAIN eventList \ {key}
         /\ \A k \in DOMAIN eventList' : eventList'[k] = eventList[k]
         /\ \A k \in DOMAIN eventList' : key < k
         /\ progressStatus'.current = Plus(progressStatus.current, 1)
<1>1. /\ DOMAIN eventList' = DOMAIN eventList \ {key}
      /\ \A k \in DOMAIN eventList' : eventList'[k] = eventList[k]
  BY DEF popEvent, Without, Restrict
<1>2. \A k \in DOMAIN eventList' : key < k
  BY <1>1 DEF popEvent, IsFirstKey, TypeOK, QueueTypeOK
<1>3. progressStatus \in ProgressStatus
  BY DEF TypeOK, QueueTypeOK
<1>4. progressStatus'.current = Plus(progressStatus.current, 1)
  BY <1>3 DEF popEvent, Increment, ProgressStatus
<1>5. QED
  BY <1>1, <1>2, <1>4

\* reset empties the list and leaves the caller's struct alone.
LEMMA ResetChange ==
  ASSUME TypeOK, Reset
  PROVE  /\ DOMAIN eventList' = {}
         /\ eventList' = EmptyMap
         /\ progressStatus'.current = 0
         /\ ioEvent' = ioEvent
         /\ pc = "idle"
         /\ pc' = "idle"
<1>1. progressStatus \in ProgressStatus
  BY DEF TypeOK, QueueTypeOK
<1>2. progressStatus'.current = 0
  BY <1>1 DEF Reset, reset, ResetProgressStatus, ProgressStatus
<1>3. QED
  BY <1>2 DEF Reset, reset, EmptyMap, Atomic, Leave

\* Entering addEvent changes nothing but the caller's struct and the frame.
LEMMA AddChange ==
  ASSUME TypeOK, NEW event \in Event, AddStep(event)
  PROVE  /\ eventList' = eventList
         /\ progressStatus' = progressStatus
         /\ ioEvent' = event
         /\ pc = "idle"
         /\ pc' = "addEvent"
         /\ atCall' = [list |-> eventList, event |-> event]
         /\ getQueueSize + progressStatus.current < MaxCount
         /\ event.stamp \in Int
         /\ event.time \in Int
         /\ TotalMilliseconds(event.time) <= event.stamp
BY DateTimeAssumption
   DEF AddStep, AddEvent, Enter, PopsFitCounter, queueVars, Event

\* A failed insertion changes nothing but the stamp of the caller's event.
LEMMA RetryChange ==
  ASSUME TypeOK, InsertFails
  PROVE  /\ eventList' = eventList
         /\ progressStatus' = progressStatus
         /\ ioEvent \in Event
         /\ ioEvent.stamp \in DOMAIN eventList
         /\ ioEvent' = IncrementEventTimeStamp(ioEvent)
         /\ ioEvent' \in Event
         /\ ioEvent'.stamp = ioEvent.stamp + 1
         /\ ioEvent'.time = ioEvent.time
         /\ pc = "addEvent"
         /\ pc' = pc
         /\ atCall' = atCall
BY IncrementEventTimeStampType
   DEF InsertFails, isFree, TypeOK, queueVars, callVars

-----------------------------------------------------------------------------
(* The parts of the invariant about the list and the counter.               *)

\* The list stays finite: each step adds at most one event.
LEMMA ListIsFiniteStep ==
  ASSUME TypeOK, ListIsFinite, AnyStep
  PROVE  ListIsFinite'
<1>1. CASE InsertSucceeds
  BY <1>1, InsertChange, FS_AddElement DEF ListIsFinite
<1>2. ASSUME NEW key \in DOMAIN eventList, PopStep(key)
      PROVE  ListIsFinite'
  <2>1. DOMAIN eventList' = DOMAIN eventList \ {key}
    BY <1>2, PopChange DEF PopStep
  <2>2. QED
    BY <2>1, FS_RemoveElement DEF ListIsFinite
<1>3. CASE ResetStep
  BY <1>3, ResetChange, FS_EmptySet DEF ListIsFinite, ResetStep
<1>4. ASSUME eventList' = eventList
      PROVE  ListIsFinite'
  BY <1>4 DEF ListIsFinite
<1>5. QED
  BY <1>1, <1>2, <1>3, <1>4, AddChange, RetryChange
     DEF AnyStep, LoopEntry, QuietStep

\* Each step keeps every event under its stamp, and the event that the client
\* holds at or after its millisecond.
LEMMA KeysAreStampsStep ==
  ASSUME TypeOK, KeysAreStamps, AddInv, HeldEventIsDue, AnyStep
  PROVE  KeysAreStamps' /\ HeldEventIsDue'
<1>1. ASSUME NEW event \in Event, AddStep(event)
      PROVE  KeysAreStamps' /\ HeldEventIsDue'
  BY <1>1, AddChange DEF KeysAreStamps, HeldEventIsDue
<1>2. CASE InsertSucceeds
  BY <1>2, InsertChange DEF KeysAreStamps, HeldEventIsDue
<1>3. CASE InsertFails
  <2>1. ioEvent.time \in Int /\ ioEvent.stamp \in Int
    BY <1>3, RetryChange, DateTimeAssumption DEF Event
  <2>2. TotalMilliseconds(ioEvent.time) \in Int
    BY <2>1, TotalMillisecondsInt
  <2>3. QED
    BY <1>3, <2>1, <2>2, RetryChange DEF KeysAreStamps, HeldEventIsDue
<1>4. ASSUME NEW key \in DOMAIN eventList, PopStep(key)
      PROVE  KeysAreStamps' /\ HeldEventIsDue'
  BY <1>4, PopChange DEF KeysAreStamps, HeldEventIsDue, PopStep
<1>5. CASE ResetStep
  BY <1>5, ResetChange DEF KeysAreStamps, HeldEventIsDue, ResetStep
<1>6. ASSUME UNCHANGED <<eventList, ioEvent>>
      PROVE  KeysAreStamps' /\ HeldEventIsDue'
  BY <1>6 DEF KeysAreStamps, HeldEventIsDue
<1>7. QED
  BY <1>1, <1>2, <1>3, <1>4, <1>5, <1>6 DEF AnyStep, LoopEntry, QuietStep

\* Counting does not wrap: what is popped had been reserved when it was added.
LEMMA CountsFitStep ==
  ASSUME TypeOK, ListIsFinite, CountsFit, CountedStep
  PROVE  CountsFit'
<1> DEFINE size == Cardinality(DOMAIN eventList)
           current == progressStatus.current
<1>1. /\ size \in Nat
      /\ current \in Nat
      /\ current \in Count
      /\ MaxCount \in Nat
  BY FS_CardinalityType, CountAssumption
     DEF ListIsFinite, TypeOK, QueueTypeOK, ProgressStatus, Count
<1>2. ASSUME NEW event \in Event, AddStep(event)
      PROVE  CountsFit'
  BY <1>1, <1>2, AddChange DEF CountsFit, getQueueSize
<1>3. CASE InsertSucceeds
  <2>1. Cardinality(DOMAIN eventList') = size + 1
    BY <1>3, InsertChange, FS_AddElement DEF ListIsFinite
  <2>2. pc = "addEvent"
    BY <1>3 DEF InsertSucceeds
  <2>3. QED
    BY <1>1, <1>3, <2>1, <2>2, InsertChange DEF CountsFit, getQueueSize
<1>4. CASE InsertFails
  BY <1>1, <1>4, RetryChange DEF CountsFit, getQueueSize
<1>5. ASSUME NEW key \in DOMAIN eventList, PopStep(key)
      PROVE  CountsFit'
  <2>1. Cardinality(DOMAIN eventList') = size - 1
    BY <1>5, PopChange, FS_RemoveElement DEF ListIsFinite, PopStep
  <2>2. Cardinality(DOMAIN eventList') \in Nat
    BY <1>5, PopChange, FS_RemoveElement, FS_CardinalityType
       DEF ListIsFinite, PopStep
  <2>3. current + 1 <= MaxCount
    <3>1. size + current <= MaxCount
      BY <1>1, <1>5 DEF CountsFit, getQueueSize, PopStep
    <3>2. size >= 1
      BY <1>1, <2>1, <2>2
    <3>3. QED
      BY <1>1, <3>1, <3>2
  <2>4. progressStatus'.current = current + 1
    BY <1>1, <1>5, <2>3, PopChange DEF PopStep, Plus
  <2>5. pc' # "addEvent"
    BY <1>5 DEF PopStep
  <2>6. QED
    BY <1>1, <2>1, <2>4, <2>5 DEF CountsFit, getQueueSize
<1>6. CASE ResetStep
  BY <1>1, <1>6, ResetChange, FS_EmptySet DEF CountsFit, getQueueSize, ResetStep
<1>7. CASE LoopEntry \/ StatusStep
  BY <1>1, <1>7 DEF CountsFit, getQueueSize, LoopEntry, StatusStep, QuietStep, callVars
<1>8. QED
  BY <1>2, <1>3, <1>4, <1>5, <1>6, <1>7 DEF CountedStep

-----------------------------------------------------------------------------
(* The part about addEvent.                                                 *)

\* Each step of addEvent leaves only taken slots between the first stamp tried
\* and the current one.
LEMMA AddInvStep ==
  ASSUME TypeOK, AddInv, AnyStep
  PROVE  AddInv'
<1>1. ASSUME NEW event \in Event, AddStep(event)
      PROVE  AddInv'
  <2>1. /\ atCall'.list = eventList'
        /\ atCall'.event = event
        /\ ioEvent' = event
        /\ event.stamp \in Int
    BY <1>1, AddChange
  <2>2. event = [event EXCEPT !.stamp = event.stamp]
    BY DEF Event
  <2>3. event.stamp .. (event.stamp - 1) = {}
    BY <2>1
  <2>4. QED
    BY <2>1, <2>2, <2>3 DEF AddInv
<1>2. CASE InsertFails
  <2> DEFINE asked == atCall.event.stamp
  <2>1. /\ pc = "addEvent" /\ pc' = "addEvent"
        /\ atCall' = atCall
        /\ eventList' = eventList
        /\ ioEvent.stamp \in DOMAIN eventList
        /\ ioEvent'.stamp = ioEvent.stamp + 1
        /\ ioEvent' = IncrementEventTimeStamp(ioEvent)
    BY <1>2, RetryChange
  <2>2. /\ asked \in Int /\ ioEvent.stamp \in Int
        /\ asked <= ioEvent.stamp
        /\ atCall.event \in Event
    BY <1>2, <2>1, RetryChange DEF AddInv, Event
  <2>3. ioEvent' = [atCall.event EXCEPT !.stamp = ioEvent'.stamp]
    <3>1. ioEvent' = [ioEvent EXCEPT !.stamp = ioEvent'.stamp]
      BY <1>2, <2>1, RetryChange DEF IncrementEventTimeStamp, Event
    <3>2. ioEvent = [atCall.event EXCEPT !.stamp = ioEvent.stamp]
      BY <2>1 DEF AddInv
    <3>3. QED
      BY <2>2, <3>1, <3>2 DEF Event
  <2>4. ASSUME NEW slot \in asked .. (ioEvent'.stamp - 1)
        PROVE  slot \in DOMAIN eventList'
    <3>1. slot = ioEvent.stamp \/ slot \in asked .. (ioEvent.stamp - 1)
      BY <2>1, <2>2
    <3>2. QED
      BY <2>1, <3>1 DEF AddInv
  <2>5. asked <= ioEvent'.stamp
    BY <2>1, <2>2
  <2>6. QED
    BY <2>1, <2>2, <2>3, <2>4, <2>5 DEF AddInv
<1>3. CASE InsertSucceeds
  BY <1>3, InsertChange DEF AddInv
<1>4. ASSUME NEW key \in DOMAIN eventList, PopStep(key)
      PROVE  AddInv'
  BY <1>4 DEF AddInv, PopStep
<1>5. CASE LoopEntry
  BY <1>5 DEF AddInv, LoopEntry
<1>6. CASE QuietStep
  BY <1>6 DEF AddInv, QuietStep, callVars
<1>7. CASE ResetStep
  BY <1>7, ResetChange DEF AddInv, ResetStep
<1>8. QED
  BY <1>1, <1>2, <1>3, <1>4, <1>5, <1>6, <1>7 DEF AnyStep

-----------------------------------------------------------------------------
(* The parts about run and select.                                          *)

\* What one iteration does to the history: the first event left is played.
LEMMA PlayedChange ==
  ASSUME TypeOK, LoopHistoryOK, LoopPlaysAPrefix, pc \in {"run", "select"},
         NEW key \in DOMAIN eventList, PopStep(key), pc' = pc
  PROVE  /\ atCall' = atCall
         /\ key \in DOMAIN atCall.list
         /\ key \notin played
         /\ played' = played \cup {key}
         /\ eventList[key] = atCall.list[key]
         /\ ioEvent' = atCall.list[key]
         /\ \A p \in played : p < key
         /\ played' \subseteq Int
<1>1. atCall' = atCall
  BY DEF PopStep
<1>2. DOMAIN eventList' = DOMAIN eventList \ {key}
  BY PopChange DEF PopStep
<1>3. key \in DOMAIN atCall.list /\ key \notin played
  BY DEF LoopHistoryOK, played
<1>4. played' = played \cup {key}
  BY <1>1, <1>2, <1>3 DEF played, LoopHistoryOK
<1>5. eventList[key] = atCall.list[key]
  <2>1. eventList = Restrict(atCall.list, DOMAIN atCall.list \ played)
    BY DEF LoopPlaysAPrefix
  <2>2. key \in DOMAIN atCall.list \ played
    BY <1>3
  <2>3. QED
    BY <2>1, <2>2 DEF Restrict
<1>6. \A p \in played : p < key
  BY DEF LoopPlaysAPrefix
<1>7. QED
  BY <1>1, <1>3, <1>4, <1>5, <1>6 DEF PopStep, LoopHistoryOK, played

\* Each iteration of run or select takes the first of the events that are left.
LEMMA LoopStep ==
  ASSUME TypeOK, LocalsAtRest, LoopHistoryOK, LoopPlaysAPrefix, AnyStep
  PROVE  LoopHistoryOK' /\ LoopPlaysAPrefix' /\ LocalsAtRest'
<1>1. CASE LoopEntry
  <2>1. LoopHistoryOK'
    BY <1>1 DEF LoopEntry, LoopHistoryOK, TypeOK, QueueTypeOK
  <2>2. played' = {}
    BY <1>1 DEF LoopEntry, played
  <2>3. eventList = Restrict(eventList, DOMAIN eventList)
    BY DEF TypeOK, QueueTypeOK, Restrict
  <2>4. LoopPlaysAPrefix'
    BY <1>1, <2>2, <2>3 DEF LoopEntry, LoopPlaysAPrefix
  <2>5. QED
    BY <1>1, <2>1, <2>4 DEF LoopEntry, LocalsAtRest
<1>2. ASSUME NEW key \in DOMAIN eventList, PopStep(key)
      PROVE  LoopHistoryOK' /\ LoopPlaysAPrefix' /\ LocalsAtRest'
  <2>1. CASE pc' = "idle" /\ lEventType' = BKG_REQ
                          /\ lDateTime' = DEFAULT_EVENT_OLDEST_DATETIME
    BY <2>1 DEF LoopHistoryOK, LoopPlaysAPrefix, LocalsAtRest
  <2>2. CASE pc \in {"run", "select"} /\ pc' = pc
    <3>1. /\ atCall' = atCall
          /\ played' = played \cup {key}
          /\ ioEvent' = atCall.list[key]
          /\ \A p \in played : p < key
          /\ key \in DOMAIN atCall.list
          /\ played' \subseteq Int
      BY <1>2, <2>2, PlayedChange
    <3>2. /\ DOMAIN eventList' = DOMAIN eventList \ {key}
          /\ \A k \in DOMAIN eventList' : eventList'[k] = eventList[k]
          /\ \A k \in DOMAIN eventList' : key < k
      BY <1>2, PopChange DEF PopStep
    <3>3. LoopHistoryOK'
      BY <2>2, <3>1, <3>2 DEF LoopHistoryOK
    <3>4. eventList' = Restrict(atCall.list, DOMAIN atCall.list \ played')
      <4>1. DOMAIN eventList' = DOMAIN atCall.list \ played'
        BY <2>2, <3>1, <3>2 DEF played, LoopHistoryOK
      <4>2. \A k \in DOMAIN eventList' : eventList'[k] = atCall.list[k]
        BY <2>2, <3>2 DEF LoopPlaysAPrefix, LoopHistoryOK, Restrict, played
      <4>3. eventList' = [k \in DOMAIN eventList' |-> eventList'[k]]
        <5>1. eventList' = Without(eventList, key)
          BY <1>2 DEF PopStep, popEvent
        <5>2. QED
          BY <5>1 DEF Without, Restrict
      <4>4. QED
        BY <4>1, <4>2, <4>3 DEF Restrict
    <3>5. \A p \in played', q \in DOMAIN eventList' : p < q
      BY <2>2, <3>1, <3>2 DEF LoopPlaysAPrefix
    <3>6. /\ key \in played'
          /\ \A q \in played' : q <= key
          /\ ioEvent' = atCall.list[key]
      BY <3>1
    <3>7. LoopPlaysAPrefix'
      BY <3>1, <3>4, <3>5, <3>6 DEF LoopPlaysAPrefix
    <3>8. QED
      BY <2>2, <3>3, <3>7 DEF LocalsAtRest
  <2>3. QED
    BY <1>2, <2>1, <2>2 DEF PopStep
<1>3. CASE QuietStep
  BY <1>3 DEF QuietStep, callVars, LoopHistoryOK, LoopPlaysAPrefix, LocalsAtRest, played
<1>4. ASSUME pc' = "addEvent"
      PROVE  LoopHistoryOK' /\ LoopPlaysAPrefix' /\ LocalsAtRest'
  BY <1>4 DEF LoopHistoryOK, LoopPlaysAPrefix, LocalsAtRest
<1>5. CASE InsertSucceeds \/ ResetStep
  BY <1>5 DEF InsertSucceeds, ResetStep, Reset, Atomic, Leave, LoopHistoryOK,
              LoopPlaysAPrefix, LocalsAtRest
<1>6. QED
  BY <1>1, <1>2, <1>3, <1>4, <1>5, AddChange, RetryChange DEF AnyStep

\* The loops look at their local before each pop, so only the last event
\* played can have been the one they look for.
LEMMA RunInvStep ==
  ASSUME TypeOK, LocalsAtRest, LoopHistoryOK, LoopPlaysAPrefix, RunInv, AnyStep
  PROVE  RunInv'
<1>1. ASSUME NEW key \in DOMAIN eventList, PopStep(key), pc' = "run"
      PROVE  RunInv'
  <2>1. pc = "run" /\ runGoesOn /\ lEventType' = eventList[key].type
    BY <1>1 DEF PopStep
  <2>2. /\ atCall' = atCall
        /\ played' = played \cup {key}
        /\ eventList[key] = atCall.list[key]
        /\ ioEvent' = atCall.list[key]
        /\ \A p \in played : p < key
        /\ played' \subseteq Int
    BY <1>1, <2>1, PlayedChange
  <2>3. \A p \in played : atCall.list[p].type # BRK_PT
    <3>1. SUFFICES ASSUME NEW p \in played, atCall.list[p].type = BRK_PT
                   PROVE  FALSE
      OBVIOUS
    <3>2. PICK last \in played : /\ \A q \in played : q <= last
                                 /\ ioEvent = atCall.list[last]
      BY <2>1 DEF LoopPlaysAPrefix
    <3>3. p = last
      BY <2>1, <2>2, <3>1, <3>2 DEF RunInv
    <3>4. lEventType = BRK_PT
      BY <2>1, <3>1, <3>2, <3>3 DEF RunInv
    <3>5. QED
      BY <2>1, <3>4 DEF runGoesOn
  <2>4. \A p \in played' : p # key => atCall'.list[p].type # BRK_PT
    BY <2>2, <2>3
  <2>5. \A q \in played' : q <= key
    BY <2>2
  <2>6. QED
    BY <2>1, <2>2, <2>4, <2>5 DEF RunInv
<1>2. CASE LoopEntry
  BY <1>2 DEF LoopEntry, LocalsAtRest, RunInv, played
<1>3. CASE QuietStep
  BY <1>3 DEF QuietStep, callVars, RunInv, played
<1>4. ASSUME pc' # "run"
      PROVE  RunInv'
  BY <1>4 DEF RunInv
<1>5. QED
  BY <1>1, <1>2, <1>3, <1>4, AddChange, InsertChange, RetryChange, ResetChange
     DEF AnyStep, ResetStep

\* Each iteration of select moves on by one event, short of the one looked for.
LEMMA SelectInvStep ==
  ASSUME TypeOK, LocalsAtRest, LoopHistoryOK, LoopPlaysAPrefix, SelectInv, AnyStep
  PROVE  SelectInv'
<1>1. ASSUME NEW key \in DOMAIN eventList, PopStep(key), pc' = "select"
      PROVE  SelectInv'
  <2>1. /\ pc = "select"
        /\ selectGoesOn
        /\ lDateTime' = eventList[key].time
        /\ iDateTime' = iDateTime
    BY <1>1 DEF PopStep
  <2>2. /\ atCall' = atCall
        /\ played' = played \cup {key}
        /\ eventList[key] = atCall.list[key]
        /\ ioEvent' = atCall.list[key]
        /\ \A p \in played : p < key
        /\ played' \subseteq Int
    BY <1>1, <2>1, PlayedChange
  <2>3. \A p \in played : atCall.list[p].time # iDateTime
    <3>1. SUFFICES ASSUME NEW p \in played, atCall.list[p].time = iDateTime
                   PROVE  FALSE
      OBVIOUS
    <3>2. PICK last \in played : /\ \A q \in played : q <= last
                                 /\ ioEvent = atCall.list[last]
      BY <2>1 DEF LoopPlaysAPrefix
    <3>3. p = last
      BY <2>1, <2>2, <3>1, <3>2 DEF SelectInv
    <3>4. lDateTime = iDateTime
      BY <2>1, <3>1, <3>2, <3>3 DEF SelectInv
    <3>5. QED
      BY <2>1, <3>4 DEF selectGoesOn
  <2>4. ASSUME NEW p \in played',
               atCall'.list[p].time = iDateTime'
        PROVE  p = key
    BY <2>1, <2>2, <2>3, <2>4
  <2>5. \A q \in played' : q <= key
    BY <2>2
  <2>6. lDateTime' = ioEvent'.time /\ played' # {}
    BY <2>1, <2>2
  <2>7. QED
    BY <2>4, <2>5, <2>6 DEF SelectInv
<1>2. CASE LoopEntry
  BY <1>2 DEF LoopEntry, LocalsAtRest, SelectInv, played
<1>3. CASE QuietStep
  BY <1>3 DEF QuietStep, callVars, SelectInv, played
<1>4. ASSUME pc' # "select"
      PROVE  SelectInv'
  BY <1>4 DEF SelectInv
<1>5. QED
  BY <1>1, <1>2, <1>3, <1>4, AddChange, InsertChange, RetryChange, ResetChange
     DEF AnyStep, ResetStep

-----------------------------------------------------------------------------
(* The invariant, and what follows from it.                                 *)

\* The inductive invariant holds of a new queue.
LEMMA IInvInit == Init => IInv
<1> SUFFICES ASSUME Init, TypeOK PROVE IInv
  BY TypeCorrectInit
<1>1. ListIsFinite
  BY FS_EmptySet, EmptyMapType DEF Init, QueueInit, ListIsFinite
<1>2. CountsFit
  BY FS_EmptySet, EmptyMapType, CountAssumption
     DEF Init, QueueInit, CountsFit, getQueueSize, NewProgressStatus
<1>3. KeysAreStamps
  BY EmptyMapType DEF Init, QueueInit, KeysAreStamps
<1>4. HeldEventIsDue
  BY NoEventAssumption DEF Init, HeldEventIsDue
<1>5. QED
  BY <1>1, <1>2, <1>3, <1>4
     DEF Init, IInv, OrderInv, AddInv, LoopHistoryOK, LoopPlaysAPrefix, RunInv, SelectInv,
         LocalsAtRest

\* The part of it that is about the list and the call is kept by every step of the
\* classes, counted or not: one lemma per conjunct, above.
LEMMA OrderInvStep ==
  ASSUME OrderInv, AnyStep, TypeOK'
  PROVE  OrderInv'
BY ListIsFiniteStep, KeysAreStampsStep, AddInvStep, LoopStep, RunInvStep, SelectInvStep
   DEF OrderInv

\* The inductive invariant is kept by every step.
LEMMA IInvStep == IInv /\ [Next]_vars => IInv'
<1> SUFFICES ASSUME IInv, [Next]_vars PROVE IInv'
  OBVIOUS
<1>1. CountedStep
  BY StepClasses DEF IInv, OrderInv
<1>2. TypeOK'
  BY TypeCorrectStep DEF IInv, OrderInv
<1>3. OrderInv'
  BY <1>1, <1>2, CountedIsAny, OrderInvStep DEF IInv
<1>4. CountsFit'
  BY <1>1, CountsFitStep DEF IInv, OrderInv
<1>5. QED
  BY <1>3, <1>4 DEF IInv

\* The inductive invariant holds in every reachable state.
THEOREM Invariance == Spec => []IInv
BY IInvInit, IInvStep, PTL DEF Spec

\* And so does its part about the list and the call.
LEMMA OrderInvariance == Spec => []OrderInv
<1>1. IInv => OrderInv
  BY DEF IInv
<1>2. QED
  BY <1>1, Invariance, PTL

\* Every queued event sits under its own stamp, at or after its date-time.
THEOREM KeysAreStampsHolds == Spec => []KeysAreStamps
<1>1. IInv => KeysAreStamps
  BY DEF IInv, OrderInv
<1>2. QED
  BY <1>1, Invariance, PTL

\* run and select play a prefix of the list they found.
THEOREM LoopPlaysAPrefixHolds == Spec => []LoopPlaysAPrefix
<1>1. IInv => LoopPlaysAPrefix
  BY DEF IInv, OrderInv
<1>2. QED
  BY <1>1, Invariance, PTL

\* The slots tried before are taken, and no more than the list has.
LEMMA AttemptsAreInvariant == OrderInv => AttemptsWithinQueue
<1> SUFFICES ASSUME OrderInv, pc = "addEvent"
             PROVE  /\ \A slot \in atCall.event.stamp .. (ioEvent.stamp - 1) :
                         ~ isFree(slot)
                    /\ ioEvent.stamp - atCall.event.stamp \in 0..getQueueSize
  BY DEF AttemptsWithinQueue
<1> DEFINE from == atCall.event.stamp
           tried == from .. (ioEvent.stamp - 1)
<1>1. /\ from \in Int
      /\ ioEvent.stamp \in Int
      /\ from <= ioEvent.stamp
  BY DEF OrderInv, TypeOK, AddInv, Event
<1>2. tried \in SUBSET DOMAIN eventList
  BY DEF OrderInv, AddInv
<1>3. Cardinality(tried) = ioEvent.stamp - from
  <2>1. ioEvent.stamp - 1 \in Int
    BY <1>1
  <2>2. Cardinality(tried) = IF from > ioEvent.stamp - 1 THEN 0
                             ELSE (ioEvent.stamp - 1) - from + 1
    BY <1>1, <2>1, FS_Interval
  <2>3. QED
    BY <1>1, <2>2
<1>4. Cardinality(tried) <= Cardinality(DOMAIN eventList)
  BY <1>2, FS_Subset DEF OrderInv, ListIsFinite
<1>5. getQueueSize \in Nat
  BY FS_CardinalityType DEF OrderInv, ListIsFinite, getQueueSize
<1>6. QED
  BY <1>1, <1>2, <1>3, <1>4, <1>5 DEF getQueueSize, isFree

\* The retries of addEvent are as many as the events in their way, hence at
\* most as many as there are events: the loop needs no other bound.
THEOREM AttemptsWithinQueueHolds == Spec => []AttemptsWithinQueue
BY AttemptsAreInvariant, OrderInvariance, PTL

-----------------------------------------------------------------------------
(* Action properties.                                                       *)

\* Only a successful insertion ends addEvent, in the first free slot.
LEMMA AddReturnsStep == OrderInv /\ [Next]_vars => AddReturnsFromFirstFreeSlot
<1> SUFFICES ASSUME OrderInv, [Next]_vars, pc = "addEvent", pc' # "addEvent"
             PROVE  AddReturnsFromFirstFreeSlot
  BY DEF AddReturnsFromFirstFreeSlot
<1>1. InsertSucceeds
  <2>1. AnyStep
    BY StepClasses, CountedIsAny DEF OrderInv
  <2>2. QED
    BY <2>1, AddChange, RetryChange, ResetChange
       DEF OrderInv, AnyStep, PopStep, LoopEntry, QuietStep, ResetStep, callVars
<1>2. /\ atCall.list = eventList
      /\ atCall.event.stamp <= ioEvent.stamp
      /\ ioEvent = [atCall.event EXCEPT !.stamp = ioEvent.stamp]
      /\ \A slot \in atCall.event.stamp .. (ioEvent.stamp - 1) : slot \in DOMAIN eventList
  BY DEF OrderInv, AddInv
<1>3. /\ ioEvent' = ioEvent
      /\ ioEvent.stamp \notin DOMAIN eventList
      /\ eventList' = With(eventList, ioEvent.stamp, ioEvent)
  BY <1>1, InsertChange DEF OrderInv
<1>4. QED
  BY <1>2, <1>3 DEF AddReturnsFromFirstFreeSlot

\* addEvent uses the first free slot and moves nothing else.
THEOREM AddTakesFirstFreeSlotHolds == Spec => AddTakesFirstFreeSlot
BY AddReturnsStep, OrderInvariance, PTL DEF Spec, AddTakesFirstFreeSlot

\* What a loop has left when it has just played event "last", or nothing.
LEMMA PlayedIsInitialSegment ==
  ASSUME TypeOK, LoopHistoryOK, LoopPlaysAPrefix, pc \in {"run", "select"},
         NEW last \in played, \A q \in played : q <= last
  PROVE  /\ ioEvent = atCall.list[last]
         /\ DOMAIN eventList = {key \in DOMAIN atCall.list : key > last}
         /\ played = {key \in DOMAIN atCall.list : key <= last}
<1>1. PICK p \in played : (\A q \in played : q <= p) /\ ioEvent = atCall.list[p]
  BY DEF LoopPlaysAPrefix
<1>2. played \subseteq Int /\ DOMAIN atCall.list \subseteq Int
  BY DEF LoopHistoryOK, played
<1>3. p = last
  BY <1>1, <1>2
<1>4. \A k \in DOMAIN atCall.list : k \in played <=> k \notin DOMAIN eventList
  BY DEF played
<1>5. \A k \in DOMAIN eventList : last < k
  BY DEF LoopPlaysAPrefix
<1>6. DOMAIN eventList \subseteq DOMAIN atCall.list
  BY DEF LoopHistoryOK
<1>7. DOMAIN eventList = {key \in DOMAIN atCall.list : key > last}
  BY <1>2, <1>4, <1>5, <1>6
<1>8. played = {key \in DOMAIN atCall.list : key <= last}
  BY <1>2, <1>4, <1>5 DEF played
<1>9. QED
  BY <1>1, <1>3, <1>7, <1>8

\* Every return of run is right after the first break point, or at the end.
LEMMA RunReturnsAtFirstBreakPointStep == OrderInv /\ [Next]_vars => RunReturnsAtFirstBreakPoint
<1> SUFFICES ASSUME OrderInv, [Next]_vars, pc = "run", pc' # "run", reply' = "void"
             PROVE  RunReturnsAtFirstBreakPoint
  BY DEF RunReturnsAtFirstBreakPoint
<1> DEFINE breakPoints == {key \in DOMAIN atCall.list :
                             atCall.list[key].type = BRK_PT}
<1>1. RunReturns
  BY DEF Next, Call, Progress, AddNewEvent, AddHeldEvent, AddEvent, Enter,
         PopEvent, Atomic, Run, Select, Reset, AddStatus, UpdateStatus,
         InsertSucceeds, InsertFails, RunPops, SelectPops, SelectReturns,
         Aborted, Leave, vars, callVars
<1>2. /\ isQueueDone \/ lEventType = BRK_PT
      /\ ioEvent' = ioEvent
      /\ eventList' = eventList
  BY <1>1 DEF RunReturns, runGoesOn, queueVars
<1>3. breakPoints \subseteq Int
  BY DEF OrderInv, LoopHistoryOK
<1>4. CASE lEventType = BRK_PT
  <2>1. played # {}
    BY <1>4, EventTypeAssumption DEF OrderInv, RunInv
  <2>2. PICK last \in played : /\ \A q \in played : q <= last
                               /\ ioEvent = atCall.list[last]
    BY <2>1 DEF OrderInv, LoopPlaysAPrefix
  <2>3. last \in breakPoints
    BY <1>4, <2>1, <2>2 DEF OrderInv, RunInv, played
  <2>4. /\ DOMAIN eventList = {key \in DOMAIN atCall.list : key > last}
        /\ played = {key \in DOMAIN atCall.list : key <= last}
    BY <2>2, PlayedIsInitialSegment DEF OrderInv
  <2>5. ASSUME NEW key \in breakPoints
        PROVE  last <= key
    <3>1. CASE key \in played
      <4>1. last <= key
        BY <2>2, <2>5, <3>1 DEF OrderInv, RunInv
      <4>2. QED
        BY <4>1
    <3>2. CASE key \notin played
      BY <1>3, <2>3, <2>4, <3>2
    <3>3. QED
      BY <3>1, <3>2
  <2>6. QED
    BY <1>2, <2>2, <2>3, <2>4, <2>5 DEF RunReturnsAtFirstBreakPoint
<1>5. CASE isQueueDone /\ lEventType # BRK_PT
  <2>1. ASSUME breakPoints # {}
        PROVE  FALSE
    <3>1. PICK key \in breakPoints : TRUE
      BY <2>1
    <3>2. key \in played
      BY <1>5 DEF isQueueDone, played
    <3>3. PICK last \in played : /\ \A q \in played : q <= last
                                 /\ ioEvent = atCall.list[last]
      BY <3>2 DEF OrderInv, LoopPlaysAPrefix
    <3>4. key = last
      <4>1. last <= key /\ key <= last
        BY <3>1, <3>2, <3>3 DEF OrderInv, RunInv
      <4>2. last \in Int
        BY <3>3 DEF OrderInv, LoopHistoryOK, played
      <4>3. QED
        BY <1>3, <4>1, <4>2
    <3>5. lEventType = BRK_PT
      BY <3>1, <3>2, <3>3, <3>4 DEF OrderInv, RunInv
    <3>6. QED
      BY <1>5, <3>5
  <2>2. QED
    BY <1>2, <1>5, <2>1 DEF RunReturnsAtFirstBreakPoint, isQueueDone
<1>6. QED
  BY <1>2, <1>4, <1>5

\* run stops right after the first break point, or plays everything.
THEOREM RunStopsAtFirstBreakPointHolds == Spec => RunStopsAtFirstBreakPoint
BY RunReturnsAtFirstBreakPointStep, OrderInvariance, PTL DEF Spec, RunStopsAtFirstBreakPoint

-----------------------------------------------------------------------------
(* The bound on the iterations of addEvent, run and select.                 *)

\* A finite set without one of its elements is smaller.
LEMMA SmallerWithout ==
  ASSUME NEW S, IsFiniteSet(S), NEW x \in S
  PROVE  Cardinality(S \ {x}) < Cardinality(S)
<1>1. /\ IsFiniteSet(S \ {x})
      /\ Cardinality(S \ {x}) = Cardinality(S) - 1
  BY FS_RemoveElement
<1>2. Cardinality(S) \in Nat
  BY FS_CardinalityType
<1>3. QED
  BY <1>1, <1>2

\* A retry of addEvent leaves the event behind that was in its slot, an iteration of
\* run or select the one that it has popped.
LEMMA IterationStep == OrderInv /\ [Next]_vars => [IterationLeavesAnEventBehind]_vars
<1> SUFFICES ASSUME OrderInv, Next, pc \in Calls, pc' = pc
             PROVE  /\ eventsAhead' \subseteq eventsAhead
                    /\ Cardinality(eventsAhead') < Cardinality(eventsAhead)
  BY DEF IterationLeavesAnEventBehind
<1>1. TypeOK /\ IsFiniteSet(DOMAIN eventList)
  BY DEF OrderInv, ListIsFinite
<1>2. ASSUME NEW key \in eventsAhead, eventsAhead' = eventsAhead \ {key}
      PROVE  /\ eventsAhead' \subseteq eventsAhead
             /\ Cardinality(eventsAhead') < Cardinality(eventsAhead)
  <2>1. eventsAhead \subseteq DOMAIN eventList
    BY DEF eventsAhead
  <2>2. IsFiniteSet(eventsAhead)
    BY <1>1, <2>1, FS_Subset
  <2>3. Cardinality(eventsAhead \ {key}) < Cardinality(eventsAhead)
    BY <2>2, SmallerWithout
  <2>4. QED
    BY <1>2, <2>3
<1>3. CASE InsertFails
  <2> DEFINE slot == ioEvent.stamp
  <2>1. /\ slot \in DOMAIN eventList
        /\ eventList' = eventList
        /\ ioEvent'.stamp = slot + 1
        /\ pc = "addEvent"
        /\ pc' = "addEvent"
    BY <1>1, <1>3, RetryChange
  <2>2. DOMAIN eventList \subseteq Int
    BY <1>1 DEF TypeOK, QueueTypeOK
  <2>3. eventsAhead = {k \in DOMAIN eventList : slot <= k}
    BY <2>1 DEF eventsAhead
  <2>4. eventsAhead' = {k \in DOMAIN eventList : slot + 1 <= k}
    BY <2>1 DEF eventsAhead
  <2>5. slot \in Int
    BY <2>1, <2>2
  <2> HIDE DEF slot
  <2>6. slot \in eventsAhead
    BY <2>1, <2>3, <2>5
  <2>7. \A k \in DOMAIN eventList : slot + 1 <= k <=> slot <= k /\ k # slot
    BY <2>2, <2>5
  <2>8. eventsAhead' = eventsAhead \ {slot}
    BY <2>3, <2>4, <2>7
  <2>9. QED
    BY <1>2, <2>6, <2>8
<1>4. CASE RunPops \/ SelectPops
  <2>1. /\ pc \in {"run", "select"}
        /\ \E key \in DOMAIN eventList : popEvent(key)
    BY <1>4 DEF RunPops, SelectPops
  <2>2. PICK key \in DOMAIN eventList : popEvent(key)
    BY <2>1
  <2>3. DOMAIN eventList' = DOMAIN eventList \ {key}
    BY <1>1, <2>2, PopChange
  <2>4. pc # "addEvent" /\ pc' # "addEvent"
    BY <2>1
  <2>5. key \in eventsAhead /\ eventsAhead' = eventsAhead \ {key}
    BY <2>3, <2>4 DEF eventsAhead
  <2>6. QED
    BY <1>2, <2>5
<1>5. CASE InsertSucceeds \/ RunReturns \/ SelectReturns
  BY <1>5 DEF InsertSucceeds, RunReturns, SelectReturns, Leave, Calls
<1>6. ~ Call /\ ~ Aborted
  <2>1. pc # "idle" /\ pc # "aborted"
    BY DEF Calls
  <2>2. QED
    BY <2>1 DEF Call, AddNewEvent, AddHeldEvent, AddEvent, PopEvent, Run, Select, Reset,
                AddStatus, UpdateStatus, Enter, Atomic, Aborted
<1>7. QED
  BY <1>3, <1>4, <1>5, <1>6 DEF Next, Progress

\* No loop of the manager makes more iterations than there are events in its way:
\* what termination rests on, beside that a call which can go on does so.
THEOREM IterationsAreBoundedHolds == Spec => IterationsAreBounded
BY OrderInvariance, IterationStep, PTL DEF Spec, IterationsAreBounded

-----------------------------------------------------------------------------
(* Refinement: the queue implements the calendar.                           *)

pendingOf(list) == [key \in DOMAIN list |-> payloadOf(list[key])]

\* A new queue is an empty calendar.
LEMMA CalendarInit == Init => Calendar!Init
BY DEF Init, QueueInit, EmptyMap, NewProgressStatus, Calendar!Init

\* Every step is a calendar step or leaves the calendar alone.
LEMMA CalendarStep ==
  ASSUME IInv, [Next]_vars
  PROVE  [Calendar!Next]_<<pendingOf(eventList), progressStatus.current>>
<1> DEFINE pending == pendingOf(eventList)
           served == progressStatus.current
<1>1. CountedStep
  BY StepClasses DEF IInv, OrderInv
<1>2. CASE InsertSucceeds
  <2> DEFINE slot == ioEvent.stamp
             payload == payloadOf(ioEvent)
  <2>1. /\ ioEvent \in Event
        /\ slot \notin DOMAIN eventList
        /\ eventList' = With(eventList, slot, ioEvent)
        /\ DOMAIN eventList' = DOMAIN eventList \cup {slot}
        /\ progressStatus' = progressStatus
    BY <1>2, InsertChange DEF IInv, OrderInv
  <2>2. payload \in Payload /\ payload.time = ioEvent.time
    BY <2>1 DEF Payload, payloadOf, Event
  <2>3. TotalMilliseconds(payload.time) <= slot
    BY <2>1, <2>2 DEF IInv, OrderInv, HeldEventIsDue
  <2>4. pendingOf(eventList') =
          [i \in DOMAIN pending \cup {slot} |-> IF i = slot THEN payload ELSE pending[i]]
    BY <2>1 DEF pendingOf, With
  <2>5. Calendar!Schedule(payload, slot)
    BY <2>1, <2>2, <2>3, <2>4 DEF Calendar!Schedule, pendingOf
  <2>6. slot \in DOMAIN pendingOf(eventList')
    BY <2>4
  <2>7. QED
    BY <2>2, <2>5, <2>6 DEF Calendar!Next, pendingOf
<1>3. ASSUME NEW key \in DOMAIN eventList, PopStep(key)
      PROVE  Calendar!Next
  <2>1. /\ DOMAIN eventList' = DOMAIN eventList \ {key}
        /\ \A k \in DOMAIN eventList' : eventList'[k] = eventList[k]
        /\ served' = Plus(served, 1)
    BY <1>3, PopChange DEF IInv, OrderInv, PopStep
  <2>2. served' = served + 1
    <3>1. served \in Nat /\ served \in Count
      BY CountAssumption DEF IInv, OrderInv, TypeOK, QueueTypeOK, ProgressStatus, Count
    <3>2. getQueueSize \in Nat
      BY FS_CardinalityType DEF IInv, OrderInv, ListIsFinite, getQueueSize
    <3>3. getQueueSize + served <= MaxCount
      BY <1>3, <3>1, <3>2 DEF IInv, OrderInv, CountsFit, PopStep
    <3>4. getQueueSize >= 1
      <4>1. /\ IsFiniteSet(DOMAIN eventList \ {key})
            /\ Cardinality(DOMAIN eventList \ {key}) = getQueueSize - 1
        BY FS_RemoveElement DEF IInv, OrderInv, ListIsFinite, getQueueSize
      <4>2. getQueueSize - 1 \in Nat
        BY <4>1, FS_CardinalityType
      <4>3. QED
        BY <3>2, <4>2
    <3>5. QED
      BY <2>1, <3>1, <3>2, <3>3, <3>4, CountAssumption DEF Plus, Count
  <2>3. \A i \in DOMAIN eventList : key <= i
    BY <1>3 DEF PopStep, popEvent, IsFirstKey
  <2>4. pendingOf(eventList') = [i \in DOMAIN pending \ {key} |-> pending[i]]
    BY <2>1 DEF pendingOf
  <2>5. Calendar!Serve(key)
    BY <2>2, <2>3, <2>4 DEF Calendar!Serve, pendingOf
  <2>6. QED
    BY <2>5 DEF Calendar!Next, pendingOf
<1>4. CASE ResetStep
  <2>1. eventList' = EmptyMap /\ served' = 0
    BY <1>4, ResetChange DEF IInv, OrderInv, ResetStep
  <2>2. Calendar!Clear
    BY <2>1 DEF Calendar!Clear, EmptyMap
  <2>3. QED
    BY <2>2 DEF Calendar!Next
<1>5. ASSUME eventList' = eventList, progressStatus'.current = served
      PROVE  UNCHANGED <<pendingOf(eventList), progressStatus.current>>
  BY <1>5
<1>6. QED
  BY <1>1, <1>2, <1>3, <1>4, <1>5, AddChange, RetryChange
     DEF CountedStep, LoopEntry, StatusStep, QuietStep, IInv, OrderInv

\* The event queue implements the calendar.
THEOREM Refinement == Spec => ImplementsCalendar
<1>1. Init => Calendar!Init
  BY CalendarInit
<1>2. IInv /\ [Next]_vars =>
        [Calendar!Next]_<<pendingOf(eventList), progressStatus.current>>
  BY CalendarStep
<1>3. QED
  BY <1>1, <1>2, Invariance, PTL DEF Spec, ImplementsCalendar, Calendar!Spec, pendingOf
-----------------------------------------------------------------------------
(* How the loops of select and run end: select at the date-time asked for,  *)
(* and both of them, when they throw, at the first event whose type has no  *)
(* progress status.                                                         *)

\* Every return of select is with the first event of the date-time, if there is one.
LEMMA SelectReturnsAtDateTimeStep == OrderInv /\ [Next]_vars => SelectReturnsAtDateTime
<1> SUFFICES ASSUME OrderInv, [Next]_vars, pc = "select", pc' # "select",
                    reply' # "threw", iDateTime # DEFAULT_EVENT_OLDEST_DATETIME
             PROVE  SelectReturnsAtDateTime
  BY DEF SelectReturnsAtDateTime
<1> DEFINE matches == {key \in DOMAIN atCall.list :
                         atCall.list[key].time = iDateTime}
<1>1. SelectReturns
  BY DEF Next, Call, Progress, AddNewEvent, AddHeldEvent, AddEvent, Enter,
         PopEvent, Atomic, Run, Select, Reset, AddStatus, UpdateStatus,
         InsertSucceeds, InsertFails, RunPops, SelectPops, RunReturns,
         Aborted, Leave, vars, callVars
<1>2. /\ isQueueDone \/ lDateTime = iDateTime
      /\ reply' = IF lDateTime = iDateTime THEN "true" ELSE "none"
      /\ ioEvent' = ioEvent
      /\ eventList' = eventList
  BY <1>1 DEF SelectReturns, selectGoesOn, queueVars, Leave
<1>3. matches \subseteq Int
  BY DEF OrderInv, LoopHistoryOK
<1>4. CASE lDateTime = iDateTime
  <2>1. played # {}
    BY <1>4 DEF OrderInv, SelectInv
  <2>2. PICK last \in played : /\ \A q \in played : q <= last
                               /\ ioEvent = atCall.list[last]
    BY <2>1 DEF OrderInv, LoopPlaysAPrefix
  <2>3. last \in matches
    BY <1>4, <2>1, <2>2 DEF OrderInv, SelectInv, played
  <2>4. /\ DOMAIN eventList = {key \in DOMAIN atCall.list : key > last}
        /\ played = {key \in DOMAIN atCall.list : key <= last}
    BY <2>2, PlayedIsInitialSegment DEF OrderInv
  <2>5. ASSUME NEW key \in matches
        PROVE  last <= key
    <3>1. CASE key \in played
      BY <2>2, <2>5, <3>1 DEF OrderInv, SelectInv
    <3>2. CASE key \notin played
      BY <1>3, <2>3, <2>4, <3>2
    <3>3. QED
      BY <3>1, <3>2
  <2>6. QED
    BY <1>2, <1>4, <2>2, <2>3, <2>4, <2>5 DEF SelectReturnsAtDateTime
<1>5. CASE isQueueDone /\ lDateTime # iDateTime
  <2>1. ASSUME NEW key \in matches
        PROVE  FALSE
    <3>1. key \in played
      BY <1>5 DEF isQueueDone, played
    <3>2. PICK last \in played : /\ \A q \in played : q <= last
                                 /\ ioEvent = atCall.list[last]
      BY <3>1 DEF OrderInv, LoopPlaysAPrefix
    <3>3. last <= key /\ key <= last
      BY <3>1, <3>2 DEF OrderInv, SelectInv
    <3>4. last \in Int
      BY <3>2 DEF OrderInv, LoopHistoryOK, played
    <3>5. key = last
      BY <1>3, <3>3, <3>4
    <3>6. lDateTime = iDateTime
      BY <3>1, <3>2, <3>5 DEF OrderInv, SelectInv
    <3>7. QED
      BY <1>5, <3>6
  <2>2. matches = {}
    BY <2>1
  <2>3. reply' # "true"
    BY <1>2, <1>5
  <2>4. QED
    BY <2>2, <2>3 DEF SelectReturnsAtDateTime
<1>6. QED
  BY <1>2, <1>4, <1>5

\* select comes back with the first event of the date-time asked for.
THEOREM SelectReachesDateTimeHolds == Spec => SelectReachesDateTime
BY SelectReturnsAtDateTimeStep, OrderInvariance, PTL DEF Spec, SelectReachesDateTime

-----------------------------------------------------------------------------
(* Exceptions.                                                              *)

\* One iteration of a loop, as the queue sees it, and whether it throws.
LEMMA LoopIteration ==
  ASSUME RunPops \/ SelectPops
  PROVE  \E key \in DOMAIN eventList :
           /\ popEvent(key)
           /\ ioEvent' = eventList[key]
           /\ popEventThrows(key) => pc' = "idle"
           /\ ~ popEventThrows(key) => UNCHANGED <<pc, reply, atCall>>
BY DEF RunPops, SelectPops, Leave

\* popEvent gives no type its first status and takes none away.
LEMMA PopKeepsTypes ==
  ASSUME TypeOK, NEW key \in DOMAIN eventList, popEvent(key)
  PROVE  DOMAIN progressStatusMap' = DOMAIN progressStatusMap
BY DEF popEvent, setStatus, TypeOK, QueueTypeOK

\* A step that goes on with a loop is an iteration or changes nothing.
LEMMA LoopGoesOn ==
  ASSUME [Next]_vars, pc \in {"run", "select"}, pc' \in {"run", "select"}
  PROVE  RunPops \/ SelectPops \/ UNCHANGED vars
BY DEF Next, Call, Progress, AddNewEvent, AddHeldEvent, AddEvent, Enter,
       PopEvent, Atomic, Run, Select, Reset, AddStatus, UpdateStatus,
       InsertSucceeds, InsertFails, RunReturns, SelectReturns,
       Aborted, Leave

\* Only run and select enter their loops, with nothing played.
LEMMA LoopStarts ==
  ASSUME [Next]_vars, pc \notin {"run", "select"}, pc' \in {"run", "select"}
  PROVE  played' = {} /\ reply' = "none"
<1>1. \/ Run
      \/ \E dateTime \in DateTime : Select(dateTime)
  BY DEF Next, Call, Progress, AddNewEvent, AddHeldEvent, AddEvent, Enter,
         PopEvent, Atomic, Reset, AddStatus, UpdateStatus, RunPops, SelectPops,
         InsertSucceeds, InsertFails, RunReturns, SelectReturns,
         Aborted, Leave, vars, callVars
<1>2. atCall'.list = eventList /\ eventList' = eventList /\ reply' = "none"
  BY <1>1 DEF Run, Select, Enter, Atomic, Leave, queueVars
<1>3. QED
  BY <1>2 DEF played

\* A loop that meets a type without a status does not go on.
LEMMA PlayedTypesKnownStep == OrderInv /\ PlayedTypesKnown /\ [Next]_vars => PlayedTypesKnown'
<1> SUFFICES ASSUME OrderInv, PlayedTypesKnown, [Next]_vars, pc' \in {"run", "select"}
             PROVE  /\ \A p \in played' : atCall'.list[p].type \in DOMAIN progressStatusMap'
                    /\ reply' = "none"
  BY DEF PlayedTypesKnown, hasProgressStatus
<1>1. CASE pc \notin {"run", "select"}
  BY <1>1, LoopStarts
<1>2. CASE pc \in {"run", "select"} /\ (RunPops \/ SelectPops)
  <2>1. PICK key \in DOMAIN eventList :
          /\ popEvent(key)
          /\ ioEvent' = eventList[key]
          /\ ~ popEventThrows(key)
          /\ UNCHANGED <<pc, reply, atCall>>
    BY <1>2, LoopIteration
  <2>2. /\ played' \subseteq played \cup {key}
        /\ eventList[key] = atCall.list[key]
    <3>1. DOMAIN eventList' = DOMAIN eventList \ {key}
      BY <2>1, PopChange DEF OrderInv
    <3>2. eventList = Restrict(atCall.list, DOMAIN atCall.list \ played)
      BY <1>2 DEF OrderInv, LoopPlaysAPrefix
    <3>3. key \in DOMAIN atCall.list \ played
      BY <1>2, <2>1 DEF OrderInv, LoopHistoryOK, played
    <3>4. QED
      BY <2>1, <3>1, <3>2, <3>3 DEF played, Restrict
  <2>3. DOMAIN progressStatusMap' = DOMAIN progressStatusMap
    BY <2>1, PopKeepsTypes DEF OrderInv
  <2>4. \A p \in played \cup {key} : hasProgressStatus(atCall.list[p].type)
    BY <1>2, <2>1, <2>2 DEF PlayedTypesKnown, popEventThrows
  <2>5. reply' = "none" /\ atCall' = atCall
    BY <1>2, <2>1 DEF PlayedTypesKnown
  <2>6. QED
    BY <2>2, <2>3, <2>4, <2>5 DEF hasProgressStatus
<1>3. CASE pc \in {"run", "select"} /\ UNCHANGED vars
  BY <1>3 DEF PlayedTypesKnown, vars, queueVars, callVars, played, hasProgressStatus
<1>4. QED
  BY <1>1, <1>2, <1>3, LoopGoesOn

\* Only an iteration throws, at the first type without a status.
LEMMA LoopThrowsStep == OrderInv /\ PlayedTypesKnown /\ [Next]_vars => LoopThrowsAtFirstUnknownType
<1> SUFFICES ASSUME OrderInv, PlayedTypesKnown, [Next]_vars,
                    pc \in {"run", "select"}, reply' = "threw"
             PROVE  LoopThrowsAtFirstUnknownType
  BY DEF LoopThrowsAtFirstUnknownType
<1> DEFINE unknown == {key \in DOMAIN atCall.list :
                         ~ hasProgressStatus(atCall.list[key].type)}
<1>1. reply # "threw"
  BY DEF PlayedTypesKnown
<1>2. RunPops \/ SelectPops
  BY <1>1 DEF Next, Call, Progress, AddNewEvent, AddHeldEvent, AddEvent, Enter,
     PopEvent, Atomic, Run, Select, Reset, AddStatus, UpdateStatus,
     InsertSucceeds, InsertFails, RunReturns, SelectReturns,
     Aborted, Leave, vars, callVars
<1>3. PICK key \in DOMAIN eventList :
        /\ popEvent(key)
        /\ ioEvent' = eventList[key]
        /\ popEventThrows(key)
  BY <1>1, <1>2, LoopIteration
<1>4. /\ eventList = Restrict(atCall.list, DOMAIN atCall.list \ played)
      /\ DOMAIN eventList = DOMAIN atCall.list \ played
      /\ DOMAIN atCall.list \subseteq Int
      /\ \A p \in played, q \in DOMAIN eventList : p < q
  BY DEF OrderInv, LoopPlaysAPrefix, LoopHistoryOK, played
<1>5. /\ key \in DOMAIN atCall.list
      /\ eventList[key] = atCall.list[key]
  BY <1>4 DEF Restrict
<1>6. key \in unknown /\ ioEvent' = atCall.list[key]
  BY <1>3, <1>5 DEF popEventThrows
<1>7. ASSUME NEW other \in unknown
      PROVE  key <= other
  <2>1. other \notin played
    BY <1>7 DEF PlayedTypesKnown
  <2>2. QED
    BY <1>3, <1>4, <1>7, <2>1 DEF popEvent, IsFirstKey
<1>8. DOMAIN eventList \ {key} = {k \in DOMAIN atCall.list : k > key}
  <2>1. \A k \in DOMAIN eventList : k # key => k > key
    BY <1>3, <1>4 DEF popEvent, IsFirstKey
  <2>2. QED
    BY <1>4, <1>5, <2>1
<1>9. eventList' = Restrict(atCall.list, {k \in DOMAIN atCall.list : k > key})
  <2>1. eventList' = Restrict(eventList, DOMAIN eventList \ {key})
    BY <1>3 DEF popEvent, Without
  <2>2. QED
    BY <1>4, <1>8, <2>1 DEF Restrict
<1>10. QED
  BY <1>6, <1>7, <1>9 DEF LoopThrowsAtFirstUnknownType

\* An exception out of run or select loses the event that it is about and no
\* other (popEvent, which has erased the event before getStatus throws).
THEOREM ThrowLosesOnlyOneEventHolds == Spec => ThrowLosesOnlyOneEvent
<1>1. Init => PlayedTypesKnown
  BY DEF Init, PlayedTypesKnown
<1>2. QED
  BY <1>1, LoopThrowsStep, OrderInvariance, PlayedTypesKnownStep, PTL
     DEF Spec, ThrowLosesOnlyOneEvent

-----------------------------------------------------------------------------
(* Totals.                                                                  *)

MapIsFinite == IsFiniteSet(DOMAIN progressStatusMap)

\* No group of types claims more events than the overall counter.  A group may
\* lose a type's claim, which addStatus restarts, so that the bound on the sum
\* of all types alone is not kept: with counters that wrap, less to add up may
\* give more.
GroupsNeverOvercount ==
  \A S \in SUBSET DOMAIN progressStatusMap :
    SumOf("current", progressStatusMap, S) <= progressStatus.current

SumInv ==
  /\ IInv
  /\ MapIsFinite
  /\ TotalsAddUp
  /\ GroupsNeverOvercount

\* The statuses change in popEvent, reset, addStatus and updateStatus only.
LEMMA StatusClasses ==
  ASSUME [Next]_vars
  PROVE  \/ UNCHANGED <<progressStatus, progressStatusMap>>
         \/ \E key \in DOMAIN eventList : popEvent(key)
         \/ reset
         \/ \E type \in EventType, n \in ClientCounts : addStatusIsDefined(n) /\ addStatus(type, n)
         \/ \E type \in EventType, n \in ClientCounts : updateStatus(type, n)
<1>1. CASE AddNewEvent \/ AddHeldEvent
  BY <1>1 DEF AddNewEvent, AddHeldEvent, AddEvent, queueVars
<1>2. CASE InsertSucceeds \/ InsertFails
  BY <1>2 DEF InsertSucceeds, insert, InsertFails, queueVars
<1>3. CASE PopEvent
  BY <1>3 DEF PopEvent, queueVars
<1>4. CASE RunPops \/ SelectPops
  BY <1>4 DEF RunPops, SelectPops
<1>5. CASE Run \/ RunReturns \/ SelectReturns \/ \E dateTime \in DateTime : Select(dateTime)
  BY <1>5 DEF Run, RunReturns, SelectReturns, Select, queueVars
<1>6. CASE Reset
  BY <1>6 DEF Reset
<1>7. CASE \/ \E type \in EventType, n \in ClientCounts : AddStatus(type, n)
           \/ \E type \in EventType, n \in ClientCounts : UpdateStatus(type, n)
  BY <1>7 DEF AddStatus, UpdateStatus
<1>8. CASE Aborted \/ UNCHANGED vars
  BY <1>8 DEF Aborted, vars, queueVars
<1>9. QED
  BY <1>1, <1>2, <1>3, <1>4, <1>5, <1>6, <1>7, <1>8 DEF Next, Call, Progress

\* TotalsAddUp and TypesNeverOvercount in terms of SumOf.
LEMMA TotalsAsSums ==
  /\ TotalsAddUp <=>
       \A field \in {"expected", "actual"} :
         progressStatus[field] = SumOf(field, progressStatusMap, DOMAIN progressStatusMap)
  /\ TotalsAddUp' <=>
       \A field \in {"expected", "actual"} :
         progressStatus'[field] = SumOf(field, progressStatusMap', DOMAIN progressStatusMap')
  /\ TypesNeverOvercount <=>
       SumOf("current", progressStatusMap, DOMAIN progressStatusMap) <= progressStatus.current
<1>1. \A field : SumOverTypes(field) = SumOf(field, progressStatusMap, DOMAIN progressStatusMap)
  BY DEF SumOverTypes, SumOf, FoldFunction
<1>2. (\A field : SumOverTypes(field) = SumOf(field, progressStatusMap, DOMAIN progressStatusMap))'
  BY <1>1, PTL
<1>3. QED
  BY <1>1, <1>2 DEF TotalsAddUp, TypesNeverOvercount

Fields == {"current", "expected", "actual"}

\* The fields of a status are counts.
LEMMA StatusFields ==
  ASSUME NEW status \in ProgressStatus
  PROVE  /\ \A field \in Fields : status[field] \in Count
         /\ Increment(status).expected = status.expected
         /\ Increment(status).actual = status.actual
         /\ Increment(status).current = Plus(status.current, 1)
BY DEF ProgressStatus, Fields, Increment

\* The fields of the types' statuses are counts, before a step and after it.
LEMMA MapFields ==
  ASSUME NEW map, map \in [DOMAIN map -> ProgressStatus], NEW field \in Fields
  PROVE  \A S \in SUBSET DOMAIN map : CountsIn(field, map, S)
BY StatusFields DEF CountsIn

\* popEvent moves current numbers, by one, and of one type at most.
LEMMA PopKeepsSums ==
  ASSUME SumInv, NEW key \in DOMAIN eventList, popEvent(key)
  PROVE  MapIsFinite' /\ TotalsAddUp' /\ GroupsNeverOvercount'
<1> DEFINE type == eventList[key].type
           map == progressStatusMap
           other == progressStatusMap'
           types == DOMAIN map
           was == progressStatus.current
<1>1. /\ IsFiniteSet(types)
      /\ map \in [types -> ProgressStatus]
      /\ progressStatus \in ProgressStatus
  BY DEF SumInv, IInv, OrderInv, MapIsFinite, TypeOK, QueueTypeOK
<1>2. /\ DOMAIN other = types
      /\ \A t \in types : other[t] = IF t = type THEN Increment(map[t]) ELSE map[t]
  BY <1>1 DEF popEvent, hasProgressStatus, setStatus
<1>3. /\ progressStatus' = Increment(progressStatus)
      /\ progressStatus'.current = Plus(was, 1)
      /\ \A field \in {"expected", "actual"} : progressStatus'[field] = progressStatus[field]
  BY <1>1, StatusFields DEF popEvent
<1>4. was + 1 <= MaxCount /\ was \in Nat /\ MaxCount \in Nat
  <2>1. IsFiniteSet(DOMAIN eventList) /\ CountsFit
    BY DEF SumInv, IInv, OrderInv, ListIsFinite
  <2>2. was \in Nat /\ MaxCount \in Nat
    BY <1>1, StatusFields, CountAssumption DEF Fields, Count
  <2>3. getQueueSize \in Nat /\ getQueueSize # 0
    BY <2>1, FS_CardinalityType, FS_EmptySet DEF getQueueSize
  <2>4. getQueueSize + was <= MaxCount
    BY <2>1, <2>2, <2>3 DEF CountsFit
  <2>5. QED
    BY <2>2, <2>3, <2>4
<1>5. ASSUME NEW field \in {"expected", "actual"}
      PROVE  SumOf(field, other, types) = SumOf(field, map, types)
  <2>1. CountsIn(field, map, types)
    BY <1>1, MapFields DEF Fields
  <2>2. \A t \in types : other[t][field] = map[t][field]
    BY <1>1, <1>2, StatusFields
  <2>3. QED
    BY <1>1, <2>1, <2>2, SumOfSame
<1>6. TotalsAddUp'
  <2>1. \A field \in {"expected", "actual"} : progressStatus[field] = SumOf(field, map, types)
    BY TotalsAsSums DEF SumInv
  <2>2. QED
    BY <1>2, <1>3, <1>5, <2>1, TotalsAsSums
<1>7. ASSUME NEW S \in SUBSET types
      PROVE  SumOf("current", other, S) <= was + 1
  <2>1. IsFiniteSet(S) /\ CountsIn("current", map, S)
    BY <1>1, FS_Subset, MapFields DEF Fields
  <2>2. SumOf("current", map, S) <= was /\ SumOf("current", map, S) \in Count
    BY <2>1, SumType DEF SumInv, GroupsNeverOvercount
  <2>3. CASE type \notin S
    <3>1. \A t \in S : other[t].current = map[t].current
      BY <1>2, <2>3
    <3>2. SumOf("current", other, S) = SumOf("current", map, S)
      BY <2>1, <3>1, SumOfSame
    <3>3. QED
      BY <1>4, <2>2, <3>2 DEF Count
  <2>4. CASE type \in S
    <3>1. /\ other[type].current = Plus(map[type].current, 1)
          /\ \A t \in S \ {type} : other[t].current = map[t].current
      BY <1>1, <1>2, <2>4, StatusFields
    <3>2. SumOf("current", other, S) <= SumOf("current", map, S) + 1
      BY <2>1, <2>4, <3>1, SumCountedUp
    <3>3. CountsIn("current", other, S)
      BY <1>1, <1>2, <2>1, <3>1, CountArithmetic DEF CountsIn
    <3>4. SumOf("current", other, S) \in Count
      BY <2>1, <3>3, SumType
    <3>5. QED
      BY <1>4, <2>2, <3>2, <3>4 DEF Count
  <2>5. QED
    BY <2>3, <2>4
<1>8. progressStatus'.current = was + 1
  BY <1>3, <1>4 DEF Plus
<1>9. GroupsNeverOvercount'
  BY <1>2, <1>7, <1>8 DEF GroupsNeverOvercount
<1>10. QED
  BY <1>1, <1>2, <1>6, <1>9 DEF MapIsFinite

\* reset takes the current numbers, and with them perhaps the actual totals, to
\* zero, of the types and overall alike.
LEMMA ResetKeepsSums ==
  ASSUME SumInv, reset
  PROVE  MapIsFinite' /\ TotalsAddUp' /\ GroupsNeverOvercount'
<1> DEFINE map == progressStatusMap
           other == progressStatusMap'
           types == DOMAIN map
<1>1. /\ IsFiniteSet(types)
      /\ map \in [types -> ProgressStatus]
      /\ progressStatus \in ProgressStatus
  BY DEF SumInv, IInv, OrderInv, MapIsFinite, TypeOK, QueueTypeOK
<1>2. /\ DOMAIN other = types
      /\ \A t \in types : other[t] = ResetProgressStatus(map[t])
      /\ progressStatus' = ResetProgressStatus(progressStatus)
  BY DEF reset
<1>3. ASSUME NEW status \in ProgressStatus
      PROVE  /\ ResetProgressStatus(status).current = 0
             /\ ResetProgressStatus(status).expected = status.expected
             /\ ResetProgressStatus(status).actual = IF ResetZeroesActual THEN 0 ELSE status.actual
  BY DEF ResetProgressStatus, ProgressStatus
<1>4. \A field \in {"expected", "actual"} : progressStatus[field] = SumOf(field, map, types)
  BY TotalsAsSums DEF SumInv
<1>5. \A field \in {"expected", "actual"} : CountsIn(field, map, types)
  BY <1>1, MapFields DEF Fields
<1>6. progressStatus'["expected"] = SumOf("expected", other, types)
  <2>1. \A t \in types : other[t]["expected"] = map[t]["expected"]
    BY <1>1, <1>2, <1>3
  <2>2. SumOf("expected", other, types) = SumOf("expected", map, types)
    BY <1>1, <1>5, <2>1, SumOfSame
  <2>3. QED
    BY <1>1, <1>2, <1>3, <1>4, <2>2
<1>7. progressStatus'["actual"] = SumOf("actual", other, types)
  <2>1. CASE ResetZeroesActual
    <3>1. \A t \in types : other[t]["actual"] = 0
      BY <1>1, <1>2, <1>3, <2>1
    <3>2. SumOf("actual", other, types) = 0
      BY <1>1, <3>1, SumOfZeros
    <3>3. QED
      BY <1>1, <1>2, <1>3, <2>1, <3>2
  <2>2. CASE ~ ResetZeroesActual
    <3>1. \A t \in types : other[t]["actual"] = map[t]["actual"]
      BY <1>1, <1>2, <1>3, <2>2
    <3>2. SumOf("actual", other, types) = SumOf("actual", map, types)
      BY <1>1, <1>5, <3>1, SumOfSame
    <3>3. QED
      BY <1>1, <1>2, <1>3, <1>4, <2>2, <3>2
  <2>3. QED
    BY <2>1, <2>2
<1>8. ASSUME NEW S \in SUBSET types
      PROVE  SumOf("current", other, S) = 0
  <2>1. IsFiniteSet(S) /\ \A t \in S : other[t]["current"] = 0
    BY <1>1, <1>2, <1>3, FS_Subset
  <2>2. QED
    BY <2>1, SumOfZeros
<1>9. progressStatus'.current = 0
  BY <1>1, <1>2, <1>3
<1>10. QED
  BY <1>1, <1>2, <1>6, <1>7, <1>8, <1>9, TotalsAsSums
     DEF MapIsFinite, GroupsNeverOvercount

\* What a step writes that gives one type, known or new, another status.
Written(type, status) ==
  /\ DOMAIN progressStatusMap' = DOMAIN progressStatusMap \cup {type}
  /\ progressStatusMap'[type] = status
  /\ \A t \in DOMAIN progressStatusMap \ {type} : progressStatusMap'[t] = progressStatusMap[t]

\* What that does to the sums.
LEMMA WrittenSums ==
  ASSUME SumInv, NEW type, NEW status \in ProgressStatus, Written(type, status),
         NEW field \in Fields
  PROVE  LET types == DOMAIN progressStatusMap
             rest == SumOf(field, progressStatusMap, types \ {type})
         IN  /\ rest \in Count
             /\ type \in types =>
                  SumOf(field, progressStatusMap, types) = Plus(progressStatusMap[type][field], rest)
             /\ type \notin types => SumOf(field, progressStatusMap, types) = rest
             /\ SumOf(field, progressStatusMap', types \cup {type}) = Plus(status[field], rest)
<1> DEFINE types == DOMAIN progressStatusMap
           all == types \cup {type}
<1>1. IsFiniteSet(types) /\ CountsIn(field, progressStatusMap, types)
  <2>1. progressStatusMap \in [types -> ProgressStatus]
    BY DEF SumInv, IInv, OrderInv, TypeOK, QueueTypeOK
  <2>2. QED
    BY <2>1, MapFields DEF SumInv, MapIsFinite
<1>2. /\ progressStatusMap'[type][field] = status[field]
      /\ progressStatusMap'[type][field] \in Count
      /\ \A t \in all \ {type} : progressStatusMap'[t][field] = progressStatusMap[t][field]
  BY StatusFields DEF Written
<1>3. /\ IsFiniteSet(all) /\ type \in all /\ all \ {type} = types \ {type}
      /\ CountsIn(field, progressStatusMap, all \ {type})
  BY <1>1, FS_AddElement DEF CountsIn
<1>4. /\ SumOf(field, progressStatusMap', all) =
           Plus(progressStatusMap'[type][field], SumOf(field, progressStatusMap, all \ {type}))
      /\ SumOf(field, progressStatusMap, all \ {type}) \in Count
  BY <1>2, <1>3, SumAfterWrite
<1>5. type \in types =>
        SumOf(field, progressStatusMap, types) =
          Plus(progressStatusMap[type][field], SumOf(field, progressStatusMap, types \ {type}))
  BY <1>1, SumTakesOut
<1>6. type \notin types => types \ {type} = types
  OBVIOUS
<1>7. QED
  BY <1>2, <1>3, <1>4, <1>5, <1>6

\* A type that is written with no current number, or with the one it has, leaves
\* every group within the overall counter.
LEMMA WrittenNeverOvercounts ==
  ASSUME SumInv, NEW type, NEW status \in ProgressStatus, Written(type, status),
         \/ status.current = 0
         \/ /\ type \in DOMAIN progressStatusMap
            /\ status.current = progressStatusMap[type].current,
         progressStatus'.current = progressStatus.current
  PROVE  GroupsNeverOvercount'
<1> DEFINE map == progressStatusMap
           other == progressStatusMap'
           types == DOMAIN map
<1>1. IsFiniteSet(types) /\ CountsIn("current", map, types)
  <2>1. map \in [types -> ProgressStatus]
    BY DEF SumInv, IInv, OrderInv, TypeOK, QueueTypeOK
  <2>2. QED
    BY <2>1, MapFields DEF SumInv, MapIsFinite, Fields
<1>2. ASSUME NEW S \in SUBSET (types \cup {type})
      PROVE  SumOf("current", other, S) <= progressStatus.current
  <2> DEFINE others == S \ {type}
  <2>1. /\ others \in SUBSET types
        /\ IsFiniteSet(others)
        /\ CountsIn("current", map, others)
    BY <1>1, FS_Subset DEF CountsIn
  <2>2. \A t \in others : other[t]["current"] = map[t]["current"]
    BY <2>1 DEF Written
  <2>3. /\ SumOf("current", other, others) = SumOf("current", map, others)
        /\ SumOf("current", map, others) \in Count
    BY <2>1, <2>2, SumOfSame, SumType
  <2>4. CASE type \notin S
    <3>1. others = S
      BY <2>4
    <3>2. QED
      BY <2>1, <2>3, <3>1 DEF SumInv, GroupsNeverOvercount
  <2>5. CASE type \in S
    <3>1. IsFiniteSet(S)
      BY <1>1, FS_AddElement, FS_Subset
    <3>2. other[type]["current"] = status["current"] /\ status["current"] \in Count
      BY StatusFields DEF Written, Fields
    <3>3. CountsIn("current", other, S)
      BY <2>1, <2>2, <3>2 DEF CountsIn
    <3>4. SumOf("current", other, S) = Plus(other[type]["current"], SumOf("current", other, others))
      BY <2>5, <3>1, <3>3, SumTakesOut
    <3>5. CASE status.current = 0
      <4>1. Plus(0, SumOf("current", map, others)) = SumOf("current", map, others)
        BY <2>3, CountAssumption DEF Plus, Count
      <4>2. QED
        BY <2>1, <2>3, <3>2, <3>4, <3>5, <4>1 DEF SumInv, GroupsNeverOvercount
    <3>6. CASE type \in types /\ status.current = map[type].current
      <4>1. S \in SUBSET types
        BY <3>6
      <4>2. CountsIn("current", map, S)
        BY <1>1, <4>1 DEF CountsIn
      <4>3. SumOf("current", map, S) = Plus(map[type]["current"], SumOf("current", map, others))
        BY <2>5, <3>1, <4>2, SumTakesOut
      <4>4. QED
        BY <2>3, <3>2, <3>4, <3>6, <4>1, <4>3 DEF SumInv, GroupsNeverOvercount
    <3>7. QED
      BY <3>5, <3>6
  <2>6. QED
    BY <2>4, <2>5
<1>3. QED
  BY <1>2 DEF Written, GroupsNeverOvercount

\* addStatus adds the same number to a type, known or new, and overall.
LEMMA AddStatusKeepsSums ==
  ASSUME SumInv, NEW type \in EventType, NEW n \in Count,
         addStatusIsDefined(n), addStatus(type, n)
  PROVE  MapIsFinite' /\ TotalsAddUp' /\ GroupsNeverOvercount'
<1> DEFINE map == progressStatusMap
           types == DOMAIN map
           status == mergedStatus(type, NewProgressStatus(n))
<1>1. /\ IsFiniteSet(types)
      /\ map \in [types -> ProgressStatus]
      /\ progressStatus \in ProgressStatus
  BY DEF SumInv, IInv, OrderInv, MapIsFinite, TypeOK, QueueTypeOK
<1>2. /\ status \in ProgressStatus
      /\ status.current = 0
      /\ \A field \in {"expected", "actual"} :
           status[field] = IF type \in types THEN Plus(map[type][field], n) ELSE n
  <2>1. /\ NewProgressStatus(n) = [current |-> 0, expected |-> n, actual |-> n]
        /\ 0 \in Count
    BY CountAssumption DEF NewProgressStatus, Count
  <2>2. CASE type \in types
    <3>1. map[type].expected \in Count /\ map[type].actual \in Count
      BY <1>1, <2>2 DEF ProgressStatus
    <3>2. status = [current |-> 0, expected |-> Plus(map[type].expected, n),
                    actual |-> Plus(map[type].actual, n)]
      BY <2>1, <2>2 DEF mergedStatus, hasProgressStatus
    <3>3. QED
      BY <2>1, <2>2, <3>1, <3>2, CountArithmetic DEF ProgressStatus
  <2>3. CASE type \notin types
    BY <2>1, <2>3 DEF mergedStatus, hasProgressStatus, ProgressStatus
  <2>4. QED
    BY <2>2, <2>3
<1>3. Written(type, status)
  BY DEF addStatus, With, Written
<1>4. /\ progressStatus'.current = progressStatus.current
      /\ \A field \in {"expected", "actual"} :
           /\ progressStatus'[field] = progressStatus[field] + n
           /\ progressStatus[field] + n <= MaxCount
  BY <1>1 DEF addStatus, addStatusIsDefined, ProgressStatus
<1> HIDE DEF status
<1>5. GroupsNeverOvercount'
  <2>1. status \in ProgressStatus /\ status.current = 0
    BY <1>2
  <2>2. progressStatus'.current = progressStatus.current
    BY <1>4
  <2>3. QED
    BY <1>3, <2>1, <2>2, WrittenNeverOvercounts
<1>6. ASSUME NEW field \in {"expected", "actual"}
      PROVE  progressStatus'[field] = SumOf(field, progressStatusMap', types \cup {type})
  <2> DEFINE rest == SumOf(field, map, types \ {type})
             total == SumOf(field, map, types)
  <2>1. /\ rest \in Count
        /\ type \in types => total = Plus(map[type][field], rest)
        /\ type \notin types => total = rest
        /\ SumOf(field, progressStatusMap', types \cup {type}) = Plus(status[field], rest)
    BY <1>2, <1>3, WrittenSums DEF Fields
  <2>2. progressStatus[field] = total /\ total \in Count
    BY <1>1, StatusFields, TotalsAsSums DEF SumInv, Fields
  <2> HIDE DEF rest, total
  <2>3. CASE type \in types
    <3>1. map[type][field] \in Count
      BY <1>1, <2>3, StatusFields DEF Fields
    <3>2. Plus(Plus(map[type][field], n), rest) = Plus(total, n)
      BY <2>1, <2>3, <3>1, PlusCommutes
    <3>3. Plus(total, n) = total + n
      BY <1>4, <2>2 DEF Plus
    <3>4. QED
      BY <1>2, <1>4, <2>1, <2>2, <2>3, <3>2, <3>3
  <2>4. CASE type \notin types
    <3>1. Plus(n, total) = total + n
      BY <1>4, <2>2, CountAssumption DEF Plus, Count
    <3>2. QED
      BY <1>2, <1>4, <2>1, <2>2, <2>4, <3>1
  <2>5. QED
    BY <2>3, <2>4
<1>7. TotalsAddUp'
  BY <1>3, <1>6, TotalsAsSums DEF Written
<1>8. MapIsFinite'
  BY <1>1, <1>3, FS_AddElement DEF Written, MapIsFinite
<1>9. QED
  BY <1>5, <1>7, <1>8

\* updateStatus moves the actual total of a type, and the overall one by an
\* unsigned difference, which may wrap and wraps back in the sum.
LEMMA UpdateStatusKeepsSums ==
  ASSUME SumInv, NEW type \in EventType, NEW n \in Count, updateStatus(type, n)
  PROVE  MapIsFinite' /\ TotalsAddUp' /\ GroupsNeverOvercount'
<1> DEFINE map == progressStatusMap
           types == DOMAIN map
           status == [map[type] EXCEPT !.actual = n]
<1>1. /\ IsFiniteSet(types)
      /\ map \in [types -> ProgressStatus]
      /\ progressStatus \in ProgressStatus
  BY DEF SumInv, IInv, OrderInv, MapIsFinite, TypeOK, QueueTypeOK
<1>2. CASE type \notin types
  BY <1>2, TotalsAsSums
     DEF updateStatus, hasProgressStatus, SumInv, MapIsFinite, GroupsNeverOvercount
<1>3. CASE type \in types
  <2>1. map[type] \in ProgressStatus
    BY <1>1, <1>3
  <2>2. /\ status \in ProgressStatus
        /\ status["current"] = map[type]["current"]
        /\ status["expected"] = map[type]["expected"]
        /\ status["actual"] = n
    BY <2>1 DEF ProgressStatus
  <2>3. Written(type, status) /\ types \cup {type} = types
    BY <1>1, <1>3 DEF updateStatus, hasProgressStatus, setStatus, Written
  <2>4. /\ progressStatus'["current"] = progressStatus["current"]
        /\ progressStatus'["expected"] = progressStatus["expected"]
        /\ progressStatus'["actual"] = Plus(progressStatus["actual"], Minus(n, map[type]["actual"]))
    BY <1>1, <1>3 DEF updateStatus, hasProgressStatus, ProgressStatus
  <2> HIDE DEF status
  <2>5. GroupsNeverOvercount'
    BY <1>3, <2>2, <2>3, <2>4, WrittenNeverOvercounts
  <2>6. \A field \in {"expected", "actual"} : progressStatus[field] = SumOf(field, map, types)
    BY TotalsAsSums DEF SumInv
  <2>7. ASSUME NEW field \in {"expected", "actual"}
        PROVE  /\ SumOf(field, map, types \ {type}) \in Count
               /\ SumOf(field, map, types) = Plus(map[type][field], SumOf(field, map, types \ {type}))
               /\ SumOf(field, progressStatusMap', types) =
                    Plus(status[field], SumOf(field, map, types \ {type}))
    <3>1. field \in Fields
      BY DEF Fields
    <3>2. /\ SumOf(field, map, types \ {type}) \in Count
          /\ SumOf(field, map, types) = Plus(map[type][field], SumOf(field, map, types \ {type}))
          /\ SumOf(field, progressStatusMap', types \cup {type}) =
               Plus(status[field], SumOf(field, map, types \ {type}))
      BY <1>3, <2>2, <2>3, <3>1, WrittenSums
    <3>3. QED
      BY <2>3, <3>2, Zenon
  <2>8. progressStatus'["expected"] = SumOf("expected", progressStatusMap', types)
    <3>1. /\ progressStatus["expected"] = SumOf("expected", map, types)
          /\ SumOf("expected", map, types) =
               Plus(map[type]["expected"], SumOf("expected", map, types \ {type}))
          /\ SumOf("expected", progressStatusMap', types) =
               Plus(status["expected"], SumOf("expected", map, types \ {type}))
      BY <2>6, <2>7
    <3>2. QED
      BY <2>2, <2>4, <3>1, Zenon
  <2>9. progressStatus'["actual"] = SumOf("actual", progressStatusMap', types)
    <3>1. ASSUME NEW v \in Count, NEW rest \in Count
          PROVE  Plus(Plus(v, rest), Minus(n, v)) = Plus(n, rest)
      BY CountAssumption DEF Plus, Minus, Count
    <3>2. map[type]["actual"] \in Count
      BY <2>1, StatusFields DEF Fields
    <3>3. QED
      BY <2>2, <2>4, <2>6, <2>7, <3>1, <3>2
  <2>10. TotalsAddUp'
    BY <2>3, <2>8, <2>9, TotalsAsSums DEF Written
  <2>11. QED
    BY <1>1, <2>3, <2>5, <2>10 DEF Written, MapIsFinite
<1>4. QED
  BY <1>2, <1>3

\* The sums and the overall counters start at zero.
LEMMA SumInvInit == Init => SumInv
<1> SUFFICES ASSUME Init PROVE SumInv
  OBVIOUS
<1>1. DOMAIN progressStatusMap = {} /\ progressStatus = NewProgressStatus(0)
  BY DEF Init, QueueInit, EmptyMap
<1>2. \A field : SumOf(field, progressStatusMap, {}) = 0
  BY FS_EmptySet, SumEquation
<1>3. \A S \in SUBSET DOMAIN progressStatusMap : S = {}
  BY <1>1
<1>4. TotalsAddUp
  BY <1>1, <1>2, TotalsAsSums DEF NewProgressStatus
<1>5. GroupsNeverOvercount
  <2>1. SumOf("current", progressStatusMap, {}) = 0 /\ progressStatus.current = 0
    BY <1>1, <1>2 DEF NewProgressStatus
  <2>2. QED
    BY <1>3, <2>1 DEF GroupsNeverOvercount
<1>6. QED
  BY <1>1, <1>4, <1>5, IInvInit, FS_EmptySet DEF SumInv, MapIsFinite

\* Every step keeps the sums and the overall counters together.
LEMMA SumInvStep == SumInv /\ [Next]_vars => SumInv'
<1> SUFFICES ASSUME SumInv, [Next]_vars PROVE SumInv'
  OBVIOUS
<1>1. IInv'
  BY IInvStep DEF SumInv
<1>2. ASSUME UNCHANGED <<progressStatus, progressStatusMap>>
      PROVE  MapIsFinite' /\ TotalsAddUp' /\ GroupsNeverOvercount'
  BY <1>2, TotalsAsSums DEF SumInv, MapIsFinite, GroupsNeverOvercount
<1>3. \A n \in ClientCounts : n \in Count
  BY ClientAssumption
<1>4. MapIsFinite' /\ TotalsAddUp' /\ GroupsNeverOvercount'
  BY <1>2, <1>3, StatusClasses, PopKeepsSums, ResetKeepsSums, AddStatusKeepsSums,
     UpdateStatusKeepsSums DEF SumInv
<1>5. QED
  BY <1>1, <1>4 DEF SumInv

\* Whatever the order of addStatus, updateStatus, reset and pops: the overall totals
\* are the sums of those of the types, modulo the width of Count_T.
THEOREM TotalsAddUpHolds == Spec => []TotalsAddUp
<1>1. SumInv => TotalsAddUp
  BY DEF SumInv
<1>2. QED
  BY <1>1, SumInvInit, SumInvStep, PTL DEF Spec

\* No event is counted twice for its type (popEvent, addStatus and reset).
THEOREM TypesNeverOvercountHolds == Spec => []TypesNeverOvercount
<1>1. SumInv => TypesNeverOvercount
  BY TotalsAsSums DEF SumInv, GroupsNeverOvercount
<1>2. QED
  BY <1>1, SumInvInit, SumInvStep, PTL DEF Spec
====
