---------------------------- MODULE SampleProofs ----------------------------
(***************************************************************************)
(* Proofs about the sample queue that the programs share: what the calls   *)
(* of buildSampleQueue are, and what each does to the list.                *)
(***************************************************************************)
EXTENDS SampleQueue, EventQueueSafety

\* The calls of buildSampleQueue are calls that any client can make: they name
\* known types, date-times and numbers.
LEMMA BuildCallsIsCall == BuildCalls => Next
<1> SUFFICES ASSUME BuildCalls PROVE Call
  BY DEF Next
<1> USE EventTypeAssumption, SampleAssumption
<1> DEFINE sample == samples[step]
<1>1. /\ sample.call = "addStatus" => sample.type \in EventType /\ sample.arg \in ClientCounts
      /\ sample.call = "addEvent" => sample.type \in EventType /\ sample.arg \in DateTime
  BY DEF BuildCalls, samples, AddsStatus, AddsEvent
<1>2. CASE sample.call = "addStatus" /\ AddStatus(sample.type, sample.arg)
  BY <1>1, <1>2 DEF Call
<1>3. CASE sample.call = "addEvent" /\ AddEvent(NewEvent(sample.type, sample.arg))
  BY <1>1, <1>3 DEF Call, AddNewEvent
<1> QED
  BY <1>2, <1>3 DEF BuildCalls

\* While buildSampleQueue runs, the library sees its calls and nothing else.
LEMMA BuildProgressIsNext == BuildProgress => [Next]_vars
<1>1. ASSUME BuildReturns PROVE UNCHANGED vars
  BY <1>1 DEF BuildReturns
<1>2. ASSUME LibraryRuns PROVE Next
  BY <1>2 DEF LibraryRuns, Next
<1> QED
  BY BuildCallsIsCall, <1>1, <1>2 DEF BuildProgress

-----------------------------------------------------------------------------
(* The sample events.                                                       *)

\* The calls of buildSampleQueue that add an event, and the events they add: the
\* event of call 2 is the latest of all, and a booking request.
Adds == {2, 3, 5, 6}

Sample(i) == NewEvent(samples[i].type, samples[i].arg)

Key(i) == TotalMilliseconds(samples[i].arg)

\* The four events are events, each with its own stamp, and none is as early as
\* the oldest date-time.
LEMMA SampleFacts ==
  /\ \A i \in Adds : /\ Key(i) \in Int /\ 0 < Key(i) /\ Key(i) <= Key(2)
                     /\ Sample(i) \in Event /\ Sample(i).stamp = Key(i)
                     /\ Sample(i).time \in DateTime
                     /\ TotalMilliseconds(Sample(i).time) = Key(i)
                     /\ Sample(i).type = samples[i].type
  /\ \A i, j \in Adds : Key(i) = Key(j) => i = j
  /\ 2 \in Adds /\ Sample(2).type = BKG_REQ
<1>1. /\ samples[2].arg = BookingRequest /\ samples[3].arg = BookingRequestForCRS
      /\ samples[5].arg = BreakPoint1 /\ samples[6].arg = BreakPoint2
      /\ samples[2].type = BKG_REQ /\ samples[3].type = BKG_REQ
      /\ samples[5].type = BRK_PT /\ samples[6].type = BRK_PT
  BY DEF samples, AddsEvent, AddsStatus
<1>2. \A i \in Adds : samples[i].arg \in DateTime /\ samples[i].type \in EventType
  BY <1>1, SampleAssumption, EventTypeAssumption DEF Adds
<1>3. ASSUME NEW i \in Adds
      PROVE  /\ Sample(i) \in Event /\ Sample(i).stamp = Key(i)
             /\ Sample(i).time = samples[i].arg /\ Sample(i).type = samples[i].type
  <2>1. samples[i].arg \in DateTime /\ samples[i].type \in EventType
    BY <1>2
  <2>2. QED
    BY <2>1, NewEventType DEF Sample, Key
<1>4. \A i \in Adds : Key(i) \in Int
  BY <1>2, TotalMillisecondsInt, DateTimeAssumption DEF Key
<1>5. 0 < Key(5) /\ Key(5) < Key(3) /\ Key(3) < Key(6) /\ Key(6) < Key(2)
  BY <1>1, SampleAssumption DEF Key
<1>6. /\ \A i \in Adds : 0 < Key(i) /\ Key(i) <= Key(2)
      /\ \A i, j \in Adds : Key(i) = Key(j) => i = j
  <2>1. Key(2) \in Int /\ Key(3) \in Int /\ Key(5) \in Int /\ Key(6) \in Int
    BY <1>4 DEF Adds
  <2> HIDE DEF Key
  <2>2. QED
    BY <1>5, <2>1 DEF Adds
<1>7. \A i \in Adds : TotalMilliseconds(Sample(i).time) = Key(i)
  BY <1>3 DEF Key
<1>8. QED
  BY <1>1, <1>2, <1>3, <1>4, <1>6, <1>7 DEF Adds

-----------------------------------------------------------------------------
(* What is announced, called and still to come.                             *)

SampleTypes == {BKG_REQ, BRK_PT}

\* The call of addStatus for a type; the two calls of addEvent come next.
First(type) == IF type = BKG_REQ THEN 1 ELSE 4

\* Events of a type that buildSampleQueue has started to add.
Called(type) ==
  LET n == step - First(type) - 1 IN IF n <= 0 THEN 0 ELSE IF n >= 2 THEN 2 ELSE n

\* Events of a type that are announced and not yet called.
ToCome(type) == IF step > First(type) THEN 2 - Called(type) ELSE 0

\* The event that addEvent has not yet put into the list.
Adding(type) == IF pc = "addEvent" /\ ioEvent.type = type THEN 1 ELSE 0

EventsOf(type) == {key \in DOMAIN eventList : eventList[key].type = type}

ExpectedOf(type) == IF hasProgressStatus(type) THEN progressStatusMap[type].expected ELSE 0

CurrentOf(type) == IF hasProgressStatus(type) THEN progressStatusMap[type].current ELSE 0

\* Events of a type that have been played, are queued, or are announced.
Load(type) ==
  CurrentOf(type) + Cardinality(EventsOf(type)) + Adding(type) + ToCome(type)

OverallLoad ==
  progressStatus.current + getQueueSize + Adding(BKG_REQ) + Adding(BRK_PT)
    + ToCome(BKG_REQ) + ToCome(BRK_PT)

\* Where buildSampleQueue is, and which types have a status: a type gets its own
\* before its first event is added, and keeps it.
BuildInv ==
  /\ step \in 0 .. (Len(samples) + 1)
  /\ step # 0 => pc \in {"idle", "addEvent"}
  /\ pc = "addEvent" => /\ \E type \in SampleTypes :
                             step - First(type) \in {2, 3} /\ ioEvent.type = type
                        /\ hasProgressStatus(ioEvent.type)
  /\ DOMAIN progressStatusMap \subseteq SampleTypes
  /\ \A type \in SampleTypes : step > First(type) => hasProgressStatus(type)
  /\ \A key \in DOMAIN eventList : hasProgressStatus(eventList[key].type)
  /\ progressStatus.expected = ExpectedOf(BKG_REQ) + ExpectedOf(BRK_PT)

\* No more is played, queued and announced than expected.
LoadFits ==
  /\ \A type \in SampleTypes : Load(type) <= ExpectedOf(type)
  /\ OverallLoad <= progressStatus.expected

\* Exactly as much is.
LoadIsExpected ==
  /\ \A type \in SampleTypes : Load(type) = ExpectedOf(type)
  /\ OverallLoad = progressStatus.expected
-----------------------------------------------------------------------------
(* The steps that the programs take, by what they do to those numbers.      *)

\* buildSampleQueue announces a type, or starts to add an event of it.
Announces(type) ==
  /\ step = First(type)
  /\ step' = step + 1
  /\ AddStatus(type, 2)
  /\ UNCHANGED listAtBuild

Brings(type) ==
  /\ step - First(type) \in {1, 2}
  /\ step' = step + 1
  /\ \E time \in DateTime : AddEvent(NewEvent(type, time))
  /\ UNCHANGED listAtBuild

\* addEvent gets on.
Inserts == InsertSucceeds /\ UNCHANGED buildVars

Retries == InsertFails /\ UNCHANGED buildVars

NotAdding == pc # "addEvent" /\ pc' # "addEvent"

\* Outside of buildSampleQueue an event is played, by whichever call, the queue is
\* reset, or nothing happens to it.
Plays(key) == step = 0 /\ popEvent(key) /\ NotAdding /\ UNCHANGED buildVars

Resets == step = 0 /\ Reset /\ UNCHANGED buildVars

Rests == step = 0 /\ NotAdding /\ UNCHANGED <<queueVars, buildVars>>

\* All that the programs do, but for reset.
PlainStep ==
  \/ BuildSampleQueue
  \/ \E type \in SampleTypes : Announces(type)
  \/ \E type \in SampleTypes : Brings(type)
  \/ BuildReturns
  \/ Inserts
  \/ Retries
  \/ \E key \in DOMAIN eventList : Plays(key)
  \/ Rests
  \/ UNCHANGED sampleVars

SampleStep == PlainStep \/ Resets

\* Each call of buildSampleQueue announces a type or brings an event of it.
LEMMA BuildCallsClasses ==
  ASSUME BuildCalls
  PROVE  \E type \in SampleTypes : Announces(type) \/ Brings(type)
<1> USE EventTypeAssumption, SampleAssumption
<1>1. /\ step \in 1 .. 6 /\ step' = step + 1 /\ UNCHANGED listAtBuild
      /\ \/ samples[step].call = "addStatus" /\ AddStatus(samples[step].type, samples[step].arg)
         \/ /\ samples[step].call = "addEvent"
            /\ AddEvent(NewEvent(samples[step].type, samples[step].arg))
  BY DEF BuildCalls, samples
<1>2. CASE step \in {1, 4}
  <2>1. PICK type \in SampleTypes : step = First(type) /\ AddStatus(type, 2)
    BY <1>1, <1>2 DEF samples, AddsStatus, AddsEvent, First, SampleTypes
  <2>2. QED
    BY <1>1, <2>1 DEF Announces
<1>3. CASE step \in {2, 3, 5, 6}
  <2>1. PICK type \in SampleTypes, time \in DateTime :
          step - First(type) \in {1, 2} /\ AddEvent(NewEvent(type, time))
    BY <1>1, <1>3 DEF samples, AddsStatus, AddsEvent, First, SampleTypes
  <2>2. QED
    BY <1>1, <2>1 DEF Brings
<1>4. QED
  BY <1>1, <1>2, <1>3

\* While buildSampleQueue runs, and in the loops of the library, every step is of
\* one of the classes.
LEMMA BuildProgressClasses ==
  ASSUME BuildInv, BuildProgress
  PROVE  PlainStep
<1>1. CASE BuildCalls
  BY <1>1, BuildCallsClasses DEF PlainStep
<1>2. CASE BuildReturns
  BY <1>2 DEF PlainStep
<1>3. CASE LibraryRuns
  <2>1. CASE InsertSucceeds \/ InsertFails
    BY <1>3, <2>1 DEF LibraryRuns, Inserts, Retries, PlainStep
  <2>2. CASE RunPops \/ SelectPops
    <3>1. PICK key \in DOMAIN eventList : popEvent(key)
      BY <2>2 DEF RunPops, SelectPops
    <3>2. step = 0 /\ NotAdding
      BY <2>2 DEF BuildInv, RunPops, SelectPops, Leave, NotAdding
    <3>3. Plays(key)
      BY <1>3, <3>1, <3>2 DEF LibraryRuns, Plays
    <3>4. QED
      BY <3>3 DEF PlainStep
  <2>3. CASE RunReturns \/ SelectReturns
    <3>1. step = 0 /\ NotAdding /\ UNCHANGED queueVars
      BY <2>3 DEF BuildInv, RunReturns, SelectReturns, Leave, NotAdding
    <3>2. QED
      BY <1>3, <3>1 DEF LibraryRuns, Rests, PlainStep
  <2>4. QED
    BY <1>3, <2>1, <2>2, <2>3 DEF LibraryRuns, Progress
<1>4. QED
  BY <1>1, <1>2, <1>3 DEF BuildProgress

\* popEvent, called outside of buildSampleQueue, plays an event or does nothing.
LEMMA PopEventClasses ==
  ASSUME step = 0, PopEvent, UNCHANGED buildVars
  PROVE  PlainStep
<1>1. NotAdding
  BY DEF PopEvent, Atomic, Leave, NotAdding
<1>2. CASE isQueueDone /\ UNCHANGED queueVars
  BY <1>1, <1>2 DEF Rests, PlainStep
<1>3. CASE \E key \in DOMAIN eventList : popEvent(key)
  BY <1>1, <1>3 DEF Plays, PlainStep
<1>4. QED
  BY <1>2, <1>3 DEF PopEvent

-----------------------------------------------------------------------------
(* Types have a status before their events come.                            *)

\* What addStatus does to the status of the sample types.
LEMMA AnnouncesChange ==
  ASSUME TypeOK, BuildInv, NEW type \in SampleTypes, Announces(type)
  PROVE  /\ UNCHANGED <<eventList, ioEvent>> /\ pc = "idle" /\ pc' = "idle"
         /\ DOMAIN progressStatusMap' = DOMAIN progressStatusMap \cup {type}
         /\ ExpectedOf(type)' = ExpectedOf(type) + 2
         /\ CurrentOf(type)' = 0
         /\ \A other \in SampleTypes \ {type} :
              /\ ExpectedOf(other)' = ExpectedOf(other)
              /\ CurrentOf(other)' = CurrentOf(other)
         /\ progressStatus'.expected = progressStatus.expected + 2
         /\ progressStatus'.current = progressStatus.current
<1> DEFINE new == mergedStatus(type, NewProgressStatus(2))
<1>1. /\ addStatusIsDefined(2) /\ UNCHANGED <<eventList, ioEvent>> /\ pc = "idle" /\ pc' = "idle"
      /\ progressStatusMap' = With(progressStatusMap, type, new)
      /\ progressStatus' = [progressStatus EXCEPT !.expected = @ + 2, !.actual = @ + 2]
  BY DEF Announces, AddStatus, addStatus, Atomic, Leave
<1>2. progressStatus \in ProgressStatus /\ MaxCount \in Nat
  BY CountAssumption DEF TypeOK, QueueTypeOK
<1>3. /\ progressStatus'.expected = progressStatus.expected + 2
      /\ progressStatus'.current = progressStatus.current
  BY <1>1, <1>2 DEF ProgressStatus
<1>4. ASSUME NEW other \in DOMAIN progressStatusMap
      PROVE  progressStatusMap[other] \in ProgressStatus
  BY DEF TypeOK, QueueTypeOK
<1>5. new.current = 0 /\ new.expected = ExpectedOf(type) + 2
  <2>1. CASE hasProgressStatus(type)
    <3>1. progressStatusMap[type] \in ProgressStatus
      BY <1>4, <2>1 DEF hasProgressStatus
    <3>2. ASSUME NEW t \in SampleTypes PROVE ExpectedOf(t) \in Nat
      BY <1>4 DEF ExpectedOf, hasProgressStatus, ProgressStatus, Count
    <3>3. ExpectedOf(type) <= progressStatus.expected
      BY <3>2 DEF BuildInv, SampleTypes
    <3>4. progressStatusMap[type].expected + 2 <= MaxCount
      BY <1>1, <1>2, <2>1, <3>1, <3>3
      DEF addStatusIsDefined, ExpectedOf, ProgressStatus, Count
    <3>5. QED
      BY <2>1, <3>1, <3>4 DEF mergedStatus, NewProgressStatus, Plus, ExpectedOf
  <2>2. CASE ~ hasProgressStatus(type)
    BY <2>2 DEF mergedStatus, NewProgressStatus, ExpectedOf
  <2>3. QED
    BY <2>1, <2>2
<1> HIDE DEF new
<1>6. /\ DOMAIN progressStatusMap' = DOMAIN progressStatusMap \cup {type}
      /\ progressStatusMap'[type] = new
      /\ \A other \in DOMAIN progressStatusMap \ {type} :
           progressStatusMap'[other] = progressStatusMap[other]
  BY <1>1 DEF With
<1>7. ExpectedOf(type)' = ExpectedOf(type) + 2 /\ CurrentOf(type)' = 0
  BY <1>5, <1>6 DEF ExpectedOf, CurrentOf, hasProgressStatus
<1>8. ASSUME NEW other \in SampleTypes \ {type}
      PROVE  /\ ExpectedOf(other)' = ExpectedOf(other)
             /\ CurrentOf(other)' = CurrentOf(other)
  BY <1>6 DEF ExpectedOf, CurrentOf, hasProgressStatus
<1>9. QED
  BY <1>1, <1>3, <1>6, <1>7, <1>8
\* What popEvent does to the statuses: its event has one.
LEMMA PlaysChange ==
  ASSUME TypeOK, BuildInv, NEW key \in DOMAIN eventList, Plays(key)
  PROVE  /\ eventList[key].type \in SampleTypes
         /\ DOMAIN progressStatusMap' = DOMAIN progressStatusMap
         /\ \A type \in SampleTypes :
              /\ ExpectedOf(type)' = ExpectedOf(type)
              /\ CurrentOf(type)' = IF eventList[key].type = type
                                    THEN Plus(CurrentOf(type), 1) ELSE CurrentOf(type)
         /\ progressStatus'.expected = progressStatus.expected
         /\ progressStatus'.current = Plus(progressStatus.current, 1)
<1> DEFINE played_type == eventList[key].type
           new == Increment(progressStatusMap[played_type])
<1>1. hasProgressStatus(played_type)
  BY DEF BuildInv
<1>2. /\ progressStatusMap' = [progressStatusMap EXCEPT ![played_type] = new]
      /\ progressStatus' = Increment(progressStatus)
  BY <1>1 DEF Plays, popEvent, setStatus
<1>3. progressStatus \in ProgressStatus /\ progressStatusMap[played_type] \in ProgressStatus
  BY <1>1 DEF TypeOK, QueueTypeOK, hasProgressStatus
<1>4. /\ progressStatus'.expected = progressStatus.expected
      /\ progressStatus'.current = Plus(progressStatus.current, 1)
      /\ new.expected = progressStatusMap[played_type].expected
      /\ new.current = Plus(progressStatusMap[played_type].current, 1)
  BY <1>2, <1>3 DEF Increment, ProgressStatus
<1> HIDE DEF new
<1>5. /\ DOMAIN progressStatusMap' = DOMAIN progressStatusMap
      /\ progressStatusMap'[played_type] = new
      /\ \A other \in DOMAIN progressStatusMap \ {played_type} :
           progressStatusMap'[other] = progressStatusMap[other]
  BY <1>1, <1>2 DEF hasProgressStatus, TypeOK, QueueTypeOK
<1>6. ASSUME NEW type \in SampleTypes
      PROVE  /\ ExpectedOf(type)' = ExpectedOf(type)
             /\ CurrentOf(type)' = IF played_type = type
                                   THEN Plus(CurrentOf(type), 1) ELSE CurrentOf(type)
  BY <1>1, <1>4, <1>5 DEF ExpectedOf, CurrentOf, hasProgressStatus
<1>7. played_type \in SampleTypes
  BY <1>1 DEF BuildInv, hasProgressStatus
<1>8. QED
  BY <1>4, <1>5, <1>6, <1>7

\* What reset does to them: the totals stay, for it forgets what was played only.
LEMMA ResetsChange ==
  ASSUME TypeOK, Resets
  PROVE  /\ DOMAIN progressStatusMap' = DOMAIN progressStatusMap
         /\ \A type \in SampleTypes :
              ExpectedOf(type)' = ExpectedOf(type) /\ CurrentOf(type)' = 0
         /\ progressStatus'.expected = progressStatus.expected
         /\ progressStatus'.current = 0
         /\ DOMAIN eventList' = {}
<1>1. /\ progressStatus' = ResetProgressStatus(progressStatus)
      /\ progressStatusMap' = [type \in DOMAIN progressStatusMap |->
                                 ResetProgressStatus(progressStatusMap[type])]
  BY DEF Resets, Reset, reset
<1>2. ASSUME NEW status \in ProgressStatus
      PROVE  /\ ResetProgressStatus(status).expected = status.expected
             /\ ResetProgressStatus(status).current = 0
  BY DEF ResetProgressStatus, ProgressStatus
<1>3. /\ progressStatus \in ProgressStatus
      /\ \A type \in DOMAIN progressStatusMap : progressStatusMap[type] \in ProgressStatus
  BY DEF TypeOK, QueueTypeOK
<1>4. ASSUME NEW type \in SampleTypes
      PROVE  ExpectedOf(type)' = ExpectedOf(type) /\ CurrentOf(type)' = 0
  BY <1>1, <1>2, <1>3 DEF ExpectedOf, CurrentOf, hasProgressStatus
<1>5. DOMAIN eventList' = {}
  BY ResetChange DEF Resets
<1>6. QED
  BY <1>1, <1>2, <1>3, <1>4, <1>5

\* Every step keeps a status for each type that is announced or queued.
LEMMA BuildInvStep ==
  ASSUME TypeOK, BuildInv, SampleStep
  PROVE  BuildInv'
<1> USE EventTypeAssumption
<1>0. Len(samples) = 6
  BY DEF samples
<1>1. CASE BuildSampleQueue
  <2>1. UNCHANGED <<eventList, progressStatus, progressStatusMap, ioEvent, pc>>
        /\ pc = "idle" /\ step' = 1
    BY <1>1 DEF BuildSampleQueue, vars, queueVars, callVars
  <2>2. QED
    BY <1>0, <2>1 DEF BuildInv, hasProgressStatus, ExpectedOf, First, SampleTypes
<1>2. ASSUME NEW type \in SampleTypes, Announces(type) PROVE BuildInv'
  <2>1. step' \in 0..7 /\ step' = First(type) + 1
    BY <1>2 DEF Announces, First, SampleTypes
  <2>2. /\ DOMAIN progressStatusMap' = DOMAIN progressStatusMap \cup {type}
        /\ UNCHANGED eventList /\ pc' = "idle"
        /\ progressStatus'.expected = ExpectedOf(BKG_REQ)' + ExpectedOf(BRK_PT)'
    <3>1. ASSUME NEW t \in SampleTypes PROVE ExpectedOf(t) \in Nat
      BY DEF ExpectedOf, hasProgressStatus, ProgressStatus, Count, TypeOK, QueueTypeOK
    <3>2. progressStatus.expected = ExpectedOf(BKG_REQ) + ExpectedOf(BRK_PT)
      BY DEF BuildInv
    <3>3. /\ BKG_REQ \in SampleTypes /\ BRK_PT \in SampleTypes
          /\ type = BKG_REQ \/ type = BRK_PT
      BY DEF SampleTypes
    <3>4. /\ ExpectedOf(type)' = ExpectedOf(type) + 2
          /\ \A other \in SampleTypes \ {type} : ExpectedOf(other)' = ExpectedOf(other)
          /\ progressStatus'.expected = progressStatus.expected + 2
      BY <1>2, AnnouncesChange
    <3>5. progressStatus'.expected = ExpectedOf(BKG_REQ)' + ExpectedOf(BRK_PT)'
      BY <3>1, <3>2, <3>3, <3>4
    <3>6. QED
      BY <1>2, <3>5, AnnouncesChange
  <2>3. \A t \in SampleTypes : step' > First(t) => hasProgressStatus(t)'
    BY <1>2, <2>1, <2>2 DEF Announces, BuildInv, hasProgressStatus, First, SampleTypes
  <2>4. QED
    BY <1>0, <2>1, <2>2, <2>3 DEF BuildInv, hasProgressStatus
<1>3. ASSUME NEW type \in SampleTypes, Brings(type) PROVE BuildInv'
  <2>1. PICK time \in DateTime : AddEvent(NewEvent(type, time))
    BY <1>3 DEF Brings
  <2>2. /\ UNCHANGED <<eventList, progressStatus, progressStatusMap>>
        /\ pc' = "addEvent" /\ ioEvent'.type = type
    BY <2>1 DEF AddEvent, Enter, queueVars, NewEvent
  <2>3. /\ step \in 0..7 /\ step' = step + 1 /\ step' - First(type) \in {2, 3}
        /\ step > First(type) /\ step' \in 0..7
    BY <1>0, <1>3 DEF Brings, BuildInv, First, SampleTypes
  <2>4. \A t \in SampleTypes : step' > First(t) => hasProgressStatus(t)
    BY <1>3, <2>3 DEF BuildInv, First, SampleTypes
  <2>5. QED
    BY <1>0, <2>2, <2>3, <2>4 DEF BuildInv, hasProgressStatus, ExpectedOf
<1>4. CASE BuildReturns
  <2>1. UNCHANGED <<eventList, progressStatus, progressStatusMap, ioEvent, pc>>
        /\ pc = "idle" /\ step' = 0
    BY <1>4 DEF BuildReturns, vars, queueVars, callVars
  <2>2. QED
    BY <1>0, <2>1 DEF BuildInv, hasProgressStatus, ExpectedOf, First, SampleTypes
<1>5. CASE Inserts
  <2>1. /\ UNCHANGED <<step, progressStatus, progressStatusMap>> /\ pc = "addEvent"
    BY <1>5 DEF Inserts, buildVars, InsertSucceeds, insert
  <2>2. /\ pc' = "idle" /\ hasProgressStatus(ioEvent.type)
        /\ \A key \in DOMAIN eventList' :
             eventList'[key] = ioEvent \/ (key \in DOMAIN eventList /\ eventList'[key] = eventList[key])
    BY <1>5, <2>1, InsertChange DEF Inserts, BuildInv
  <2>3. QED
    BY <1>0, <2>1, <2>2 DEF BuildInv, hasProgressStatus, ExpectedOf
<1>6. CASE Retries
  <2>1. /\ UNCHANGED <<step, pc, progressStatus, progressStatusMap, eventList>>
        /\ ioEvent'.type = ioEvent.type
    BY <1>6, RetryChange, IncrementEventTimeStampType
    DEF Retries, buildVars, InsertFails, queueVars, callVars
  <2>2. QED
    BY <1>0, <2>1 DEF BuildInv, hasProgressStatus, ExpectedOf
<1>7. ASSUME NEW key \in DOMAIN eventList, Plays(key) PROVE BuildInv'
  <2>1. /\ step = 0 /\ step' = 0 /\ pc' # "addEvent"
        /\ \A k \in DOMAIN eventList' : k \in DOMAIN eventList /\ eventList'[k] = eventList[k]
    BY <1>7, PopChange DEF Plays, NotAdding, buildVars
  <2>2. QED
    BY <1>0, <1>7, <2>1, PlaysChange DEF BuildInv, hasProgressStatus, First, SampleTypes
<1>8. CASE Resets
  <2>1. step = 0 /\ step' = 0 /\ pc' = "idle"
    BY <1>8, ResetChange DEF Resets, buildVars
  <2>2. QED
    BY <1>0, <1>8, <2>1, ResetsChange DEF BuildInv, hasProgressStatus, First, SampleTypes
<1>9. CASE Rests
  BY <1>9 DEF Rests, NotAdding, queueVars, buildVars, BuildInv, hasProgressStatus, ExpectedOf
<1>10. CASE UNCHANGED sampleVars
  BY <1>10 DEF sampleVars, vars, queueVars, callVars, buildVars, BuildInv, hasProgressStatus,
               ExpectedOf
<1>11. QED
  BY <1>1, <1>2, <1>3, <1>4, <1>5, <1>6, <1>7, <1>8, <1>9, <1>10 DEF SampleStep, PlainStep
-----------------------------------------------------------------------------
(* No more is played, queued and announced than expected.                   *)

Spare(type) == ExpectedOf(type) - Load(type)

OverallSpare == progressStatus.expected - OverallLoad

KeepsSpare ==
  /\ \A type \in SampleTypes : Spare(type)' = Spare(type)
  /\ OverallSpare' = OverallSpare

\* The numbers are numbers.
LEMMA Numbers ==
  ASSUME TypeOK, ListIsFinite, BuildInv
  PROVE  /\ \A type \in SampleTypes :
              /\ ExpectedOf(type) \in Count /\ CurrentOf(type) \in Count
              /\ IsFiniteSet(EventsOf(type)) /\ Cardinality(EventsOf(type)) \in Nat
              /\ Adding(type) \in {0, 1} /\ ToCome(type) \in 0..2
              /\ Load(type) \in Int
         /\ progressStatus.expected \in Count /\ progressStatus.current \in Count
         /\ getQueueSize \in Nat
         /\ OverallLoad \in Int
         /\ BKG_REQ \in SampleTypes /\ BRK_PT \in SampleTypes /\ MaxCount \in Nat
<1>1. BKG_REQ \in SampleTypes /\ BRK_PT \in SampleTypes /\ MaxCount \in Nat /\ 0 \in Count
  BY CountAssumption DEF SampleTypes, Count
<1>2. \A type \in SampleTypes : ExpectedOf(type) \in Count /\ CurrentOf(type) \in Count
  BY <1>1 DEF ExpectedOf, CurrentOf, hasProgressStatus, TypeOK, QueueTypeOK, ProgressStatus
<1>3. progressStatus.expected \in Count /\ progressStatus.current \in Count
  BY DEF TypeOK, QueueTypeOK, ProgressStatus
<1>4. \A type \in SampleTypes : Adding(type) \in {0, 1} /\ ToCome(type) \in 0..2
  BY DEF Adding, ToCome, Called, First, BuildInv, samples
<1>5. ASSUME NEW type \in SampleTypes
      PROVE  IsFiniteSet(EventsOf(type)) /\ Cardinality(EventsOf(type)) \in Nat
  <2>1. EventsOf(type) \in SUBSET DOMAIN eventList
    BY DEF EventsOf
  <2>2. IsFiniteSet(EventsOf(type))
    BY <2>1, FS_Subset DEF ListIsFinite
  <2>3. QED
    BY <2>2, FS_CardinalityType
<1>6. getQueueSize \in Nat
  BY FS_CardinalityType DEF ListIsFinite, getQueueSize
<1>7. \A type \in SampleTypes : Load(type) \in Int
  BY <1>2, <1>4, <1>5 DEF Load, Count
<1>8. OverallLoad \in Int
  BY <1>1, <1>3, <1>4, <1>6 DEF OverallLoad, Count
<1>9. QED
  BY <1>1, <1>2, <1>3, <1>4, <1>5, <1>6, <1>7, <1>8

\* What depends on where buildSampleQueue is: its calls come one by one.
LEMMA ToComeChange ==
  ASSUME BuildInv
  PROVE  /\ step = 0 => \A type \in SampleTypes : ToCome(type) = 0
         /\ BuildSampleQueue \/ BuildReturns \/ step' = step =>
              \A type \in SampleTypes : ToCome(type)' = ToCome(type)
         /\ \A type \in SampleTypes : Announces(type) =>
              /\ ToCome(type) = 0 /\ ToCome(type)' = 2
              /\ \A other \in SampleTypes \ {type} : ToCome(other)' = ToCome(other)
         /\ \A type \in SampleTypes : Brings(type) =>
              /\ ToCome(type)' = ToCome(type) - 1
              /\ \A other \in SampleTypes \ {type} : ToCome(other)' = ToCome(other)
<1> USE EventTypeAssumption DEF ToCome, Called, First, SampleTypes
<1>1. step \in 0..7 /\ Len(samples) = 6
  BY DEF BuildInv, samples
<1>2. step = 0 => \A type \in SampleTypes : ToCome(type) = 0
  OBVIOUS
<1>3. BuildSampleQueue \/ BuildReturns \/ step' = step =>
        \A type \in SampleTypes : ToCome(type)' = ToCome(type)
  BY <1>1 DEF BuildSampleQueue, BuildReturns
<1>4. ASSUME NEW type \in SampleTypes, Announces(type)
      PROVE  /\ ToCome(type) = 0 /\ ToCome(type)' = 2
             /\ \A other \in SampleTypes \ {type} : ToCome(other)' = ToCome(other)
  BY <1>1, <1>4 DEF Announces
<1>5. ASSUME NEW type \in SampleTypes, Brings(type)
      PROVE  /\ ToCome(type)' = ToCome(type) - 1
             /\ \A other \in SampleTypes \ {type} : ToCome(other)' = ToCome(other)
  BY <1>1, <1>5 DEF Brings
<1>6. QED
  BY <1>2, <1>3, <1>4, <1>5

\* addEvent moves an event from the announced to the one being added, and from
\* there into the list.
LEMMA AddingKeepsSpare ==
  ASSUME TypeOK, ListIsFinite, BuildInv,
         (\E type \in SampleTypes : Brings(type)) \/ Inserts \/ Retries
  PROVE  KeepsSpare
<1> USE EventTypeAssumption
<1>1. ASSUME NEW type \in SampleTypes, Brings(type) PROVE KeepsSpare
  <2>1. PICK time \in DateTime : AddEvent(NewEvent(type, time))
    BY <1>1 DEF Brings
  <2>2. /\ UNCHANGED <<eventList, progressStatus, progressStatusMap>>
        /\ pc = "idle" /\ pc' = "addEvent" /\ ioEvent'.type = type
    BY <2>1 DEF AddEvent, Enter, queueVars, NewEvent
  <2>3. \A t \in SampleTypes :
          /\ ExpectedOf(t)' = ExpectedOf(t) /\ CurrentOf(t)' = CurrentOf(t)
          /\ EventsOf(t)' = EventsOf(t)
          /\ Adding(t) = 0 /\ Adding(t)' = IF t = type THEN 1 ELSE 0
          /\ ToCome(t)' = IF t = type THEN ToCome(t) - 1 ELSE ToCome(t)
    BY <1>1, <2>2, ToComeChange
    DEF ExpectedOf, CurrentOf, hasProgressStatus, EventsOf, Adding
  <2>4. \A t \in SampleTypes : Spare(t)' = Spare(t)
    BY <2>3, Numbers DEF Spare, Load, Count
  <2>5. OverallSpare' = OverallSpare
    BY <2>2, <2>3, Numbers DEF OverallSpare, OverallLoad, Count, SampleTypes, getQueueSize
  <2>6. QED
    BY <2>4, <2>5 DEF KeepsSpare
<1>2. CASE Inserts
  <2>1. /\ UNCHANGED <<step, progressStatus, progressStatusMap>>
        /\ pc = "addEvent" /\ pc' = "idle"
        /\ DOMAIN eventList' = DOMAIN eventList \cup {ioEvent.stamp}
        /\ ioEvent.stamp \notin DOMAIN eventList
        /\ eventList'[ioEvent.stamp] = ioEvent
        /\ \A k \in DOMAIN eventList : eventList'[k] = eventList[k]
    BY <1>2, InsertChange DEF Inserts, buildVars, InsertSucceeds, insert
  <2>2. ioEvent.type \in SampleTypes
    BY <2>1 DEF BuildInv, hasProgressStatus
  <2>3. ASSUME NEW t \in SampleTypes
        PROVE  /\ ExpectedOf(t)' = ExpectedOf(t) /\ CurrentOf(t)' = CurrentOf(t)
               /\ ToCome(t)' = ToCome(t) /\ Adding(t)' = 0
               /\ Adding(t) = IF t = ioEvent.type THEN 1 ELSE 0
               /\ Cardinality(EventsOf(t)') = Cardinality(EventsOf(t)) + Adding(t)
    <3>1. /\ ExpectedOf(t)' = ExpectedOf(t) /\ CurrentOf(t)' = CurrentOf(t)
          /\ ToCome(t)' = ToCome(t) /\ Adding(t)' = 0
          /\ Adding(t) = IF t = ioEvent.type THEN 1 ELSE 0
      <4>1. ToCome(t)' = ToCome(t)
        BY <2>1, ToComeChange
      <4>2. Adding(t)' = 0 /\ Adding(t) = IF t = ioEvent.type THEN 1 ELSE 0
        BY <2>1 DEF Adding
      <4>3. ExpectedOf(t)' = ExpectedOf(t) /\ CurrentOf(t)' = CurrentOf(t)
        BY <2>1 DEF ExpectedOf, CurrentOf, hasProgressStatus
      <4>4. QED
        BY <4>1, <4>2, <4>3
    <3>2. IsFiniteSet(EventsOf(t)) /\ Cardinality(EventsOf(t)) \in Nat
      BY Numbers
    <3>3. CASE t = ioEvent.type
      <4>1. EventsOf(t)' = EventsOf(t) \cup {ioEvent.stamp} /\ ioEvent.stamp \notin EventsOf(t)
        BY <2>1, <3>3 DEF EventsOf
      <4>2. Cardinality(EventsOf(t)') = Cardinality(EventsOf(t)) + 1
        BY <3>2, <4>1, FS_AddElement
      <4>3. QED
        BY <3>1, <3>3, <4>2
    <3>4. CASE t # ioEvent.type
      <4>1. EventsOf(t)' = EventsOf(t)
        BY <2>1, <3>4 DEF EventsOf
      <4>2. QED
        BY <3>1, <3>2, <3>4, <4>1
    <3>5. QED
      BY <3>1, <3>3, <3>4
  <2>4. \A t \in SampleTypes : Spare(t)' = Spare(t)
    BY <2>3, Numbers DEF Spare, Load, Count
  <2>5. getQueueSize' = getQueueSize + 1
    BY <2>1, FS_AddElement DEF ListIsFinite, getQueueSize
  <2>6. /\ Adding(BKG_REQ) + Adding(BRK_PT) = 1
        /\ Adding(BKG_REQ)' = 0 /\ Adding(BRK_PT)' = 0
        /\ ToCome(BKG_REQ)' = ToCome(BKG_REQ) /\ ToCome(BRK_PT)' = ToCome(BRK_PT)
    BY <2>2, <2>3 DEF SampleTypes
  <2>7. OverallSpare' = OverallSpare
    BY <2>1, <2>5, <2>6, Numbers DEF OverallSpare, OverallLoad, Count
  <2>8. QED
    BY <2>4, <2>7 DEF KeepsSpare
<1>3. CASE Retries
  <2>1. /\ UNCHANGED <<step, pc, progressStatus, progressStatusMap, eventList>>
        /\ ioEvent'.type = ioEvent.type
    BY <1>3, RetryChange, IncrementEventTimeStampType
    DEF Retries, buildVars, InsertFails, queueVars, callVars
  <2>2. QED
    BY <2>1, ToComeChange
    DEF KeepsSpare, Spare, OverallSpare, Load, OverallLoad, ExpectedOf, CurrentOf,
        hasProgressStatus, EventsOf, Adding, getQueueSize, SampleTypes
<1>4. QED
  BY <1>1, <1>2, <1>3
\* Announcing a type makes room for its events, also for those played of it
\* before; the overall number makes no such room.
LEMMA AnnouncingAddsSpare ==
  ASSUME TypeOK, ListIsFinite, BuildInv, NEW type \in SampleTypes, Announces(type)
  PROVE  /\ Spare(type)' = Spare(type) + CurrentOf(type)
         /\ \A other \in SampleTypes \ {type} : Spare(other)' = Spare(other)
         /\ OverallSpare' = OverallSpare
<1>1. /\ UNCHANGED eventList /\ pc = "idle" /\ pc' = "idle"
      /\ ExpectedOf(type)' = ExpectedOf(type) + 2 /\ CurrentOf(type)' = 0
      /\ \A other \in SampleTypes \ {type} : /\ ExpectedOf(other)' = ExpectedOf(other)
                                             /\ CurrentOf(other)' = CurrentOf(other)
      /\ progressStatus'.expected = progressStatus.expected + 2
      /\ progressStatus'.current = progressStatus.current
  BY AnnouncesChange
<1>2. \A t \in SampleTypes : /\ EventsOf(t)' = EventsOf(t)
                             /\ Adding(t) = 0 /\ Adding(t)' = 0
  BY <1>1 DEF EventsOf, Adding
<1>3. /\ ToCome(type) = 0 /\ ToCome(type)' = 2
      /\ \A other \in SampleTypes \ {type} : ToCome(other)' = ToCome(other)
  BY ToComeChange
<1>4. Spare(type)' = Spare(type) + CurrentOf(type)
  BY <1>1, <1>2, <1>3, Numbers DEF Spare, Load, Count
<1>5. ASSUME NEW other \in SampleTypes \ {type} PROVE Spare(other)' = Spare(other)
  BY <1>1, <1>2, <1>3 DEF Spare, Load
<1>6. ToCome(BKG_REQ)' + ToCome(BRK_PT)' = ToCome(BKG_REQ) + ToCome(BRK_PT) + 2
  BY <1>3, Numbers, EventTypeAssumption DEF SampleTypes
<1>7. OverallSpare' = OverallSpare
  <2>1. getQueueSize' = getQueueSize
    BY <1>1 DEF getQueueSize
  <2>2. /\ ToCome(BKG_REQ) \in Int /\ ToCome(BRK_PT) \in Int
        /\ ToCome(BKG_REQ)' \in Int /\ ToCome(BRK_PT)' \in Int
    BY <1>3, Numbers, EventTypeAssumption DEF SampleTypes
  <2>3. QED
    BY <1>1, <1>2, <1>6, <2>1, <2>2, Numbers DEF OverallSpare, OverallLoad, Count
<1>8. QED
  BY <1>4, <1>5, <1>7

\* An event that is played goes from the queued to the current ones of its type
\* and overall; there is room for it in both counters.
LEMMA PlayingKeepsSpare ==
  ASSUME TypeOK, ListIsFinite, BuildInv, LoadFits, NEW key \in DOMAIN eventList, Plays(key)
  PROVE  KeepsSpare
<1> DEFINE played_type == eventList[key].type
<1>1. /\ played_type \in SampleTypes
      /\ \A t \in SampleTypes :
           /\ ExpectedOf(t)' = ExpectedOf(t)
           /\ CurrentOf(t)' = IF played_type = t THEN Plus(CurrentOf(t), 1) ELSE CurrentOf(t)
      /\ progressStatus'.expected = progressStatus.expected
      /\ progressStatus'.current = Plus(progressStatus.current, 1)
  BY PlaysChange
<1>2. /\ DOMAIN eventList' = DOMAIN eventList \ {key}
      /\ \A k \in DOMAIN eventList' : eventList'[k] = eventList[k]
      /\ pc # "addEvent" /\ pc' # "addEvent" /\ step' = step
  BY PopChange DEF Plays, NotAdding, buildVars
<1>3. \A t \in SampleTypes : Adding(t) = 0 /\ Adding(t)' = 0 /\ ToCome(t)' = ToCome(t)
  BY <1>2, ToComeChange DEF Adding
<1>4. ASSUME NEW t \in SampleTypes
      PROVE  CurrentOf(t)' + Cardinality(EventsOf(t)') = CurrentOf(t) + Cardinality(EventsOf(t))
  <2>1. IsFiniteSet(EventsOf(t)) /\ Cardinality(EventsOf(t)) \in Nat
    BY Numbers
  <2>2. CASE t = played_type
    <3>1. EventsOf(t)' = EventsOf(t) \ {key} /\ key \in EventsOf(t)
      BY <1>2, <2>2 DEF EventsOf
    <3>2. /\ Cardinality(EventsOf(t)') = Cardinality(EventsOf(t)) - 1
          /\ Cardinality(EventsOf(t)') \in Nat
      BY <2>1, <3>1, FS_RemoveElement, FS_CardinalityType
    <3>3. CurrentOf(t) + 1 <= MaxCount
      <4>1. CurrentOf(t) + Cardinality(EventsOf(t)) <= ExpectedOf(t)
        BY <1>3, Numbers DEF LoadFits, Load, Count
      <4>2. QED
        BY <2>1, <3>2, <4>1, Numbers DEF Count
    <3>4. QED
      BY <1>1, <2>1, <2>2, <3>2, <3>3, Numbers DEF Plus, Count
  <2>3. CASE t # played_type
    <3>1. EventsOf(t)' = EventsOf(t)
      BY <1>2, <2>3 DEF EventsOf
    <3>2. QED
      BY <1>1, <2>3, <3>1
  <2>4. QED
    BY <2>2, <2>3
<1>5. \A t \in SampleTypes : Spare(t)' = Spare(t)
  BY <1>1, <1>3, <1>4, Numbers DEF Spare, Load, Count
<1>6. OverallSpare' = OverallSpare
  <2>1. getQueueSize' = getQueueSize - 1 /\ getQueueSize' \in Nat
    BY <1>2, FS_RemoveElement, FS_CardinalityType DEF ListIsFinite, getQueueSize
  <2>2. progressStatus.current + 1 <= MaxCount
    <3>1. progressStatus.current + getQueueSize <= progressStatus.expected
      BY <1>3, Numbers DEF LoadFits, OverallLoad, Count
    <3>2. QED
      BY <2>1, <3>1, Numbers DEF Count
  <2>3. progressStatus'.current = progressStatus.current + 1
    BY <1>1, <2>2 DEF Plus
  <2>4. /\ Adding(BKG_REQ)' = Adding(BKG_REQ) /\ Adding(BRK_PT)' = Adding(BRK_PT)
        /\ ToCome(BKG_REQ)' = ToCome(BKG_REQ) /\ ToCome(BRK_PT)' = ToCome(BRK_PT)
    BY <1>3, Numbers
  <2>5. QED
    BY <1>1, <2>1, <2>3, <2>4, Numbers DEF OverallSpare, OverallLoad, Count
<1>7. QED
  BY <1>5, <1>6 DEF KeepsSpare

\* Steps outside the queue, and the first and last ones of buildSampleQueue.
LEMMA RestingKeepsSpare ==
  ASSUME TypeOK, BuildInv,
         BuildSampleQueue \/ BuildReturns \/ Rests \/ UNCHANGED sampleVars
  PROVE  KeepsSpare
<1> USE EventTypeAssumption
<1>1. /\ UNCHANGED <<eventList, progressStatus, progressStatusMap>>
      /\ \/ pc # "addEvent" /\ pc' # "addEvent"
         \/ UNCHANGED <<pc, ioEvent>>
  BY DEF BuildSampleQueue, BuildReturns, Rests, NotAdding, sampleVars, vars, queueVars, callVars
<1>2. \A t \in SampleTypes : ToCome(t)' = ToCome(t)
  BY ToComeChange DEF Rests, sampleVars, buildVars
<1>3. \A t \in SampleTypes :
        /\ ExpectedOf(t)' = ExpectedOf(t) /\ CurrentOf(t)' = CurrentOf(t)
        /\ EventsOf(t)' = EventsOf(t) /\ Adding(t)' = Adding(t)
  BY <1>1 DEF ExpectedOf, CurrentOf, hasProgressStatus, EventsOf, Adding
<1>4. QED
  BY <1>1, <1>2, <1>3
  DEF KeepsSpare, Spare, OverallSpare, Load, OverallLoad, getQueueSize, SampleTypes

\* Every step but reset keeps what is spare, or adds to it for a type that is
\* announced again.
LEMMA SpareStep ==
  ASSUME TypeOK, ListIsFinite, BuildInv, LoadFits, PlainStep
  PROVE  \/ KeepsSpare
         \/ \E type \in SampleTypes : Announces(type)
BY AddingKeepsSpare, PlayingKeepsSpare, RestingKeepsSpare DEF PlainStep

\* What fits leaves something, or nothing, to spare.
LEMMA SpareMeaning ==
  TypeOK /\ ListIsFinite /\ BuildInv =>
    /\ LoadFits <=> (\A type \in SampleTypes : Spare(type) >= 0) /\ OverallSpare >= 0
    /\ LoadIsExpected <=> (\A type \in SampleTypes : Spare(type) = 0) /\ OverallSpare = 0
<1> SUFFICES ASSUME TypeOK, ListIsFinite, BuildInv
             PROVE  /\ LoadFits <=> (\A type \in SampleTypes : Spare(type) >= 0) /\ OverallSpare >= 0
                    /\ LoadIsExpected <=> (\A type \in SampleTypes : Spare(type) = 0) /\ OverallSpare = 0
  OBVIOUS
<1>1. ASSUME NEW type \in SampleTypes
      PROVE  /\ Load(type) <= ExpectedOf(type) <=> Spare(type) >= 0
             /\ Load(type) = ExpectedOf(type) <=> Spare(type) = 0
  BY Numbers DEF Spare, Count
<1>2. /\ OverallLoad <= progressStatus.expected <=> OverallSpare >= 0
      /\ OverallLoad = progressStatus.expected <=> OverallSpare = 0
  BY Numbers DEF OverallSpare, Count
<1>3. QED
  BY <1>1, <1>2 DEF LoadFits, LoadIsExpected

\* No step makes more than is expected, whatever was in the queue.
LEMMA LoadFitsStep ==
  ASSUME TypeOK, ListIsFinite, BuildInv, LoadFits, TypeOK', ListIsFinite', BuildInv', SampleStep
  PROVE  LoadFits'
<1>1. LoadFits' <=> (\A type \in SampleTypes : Spare(type)' >= 0) /\ OverallSpare' >= 0
  <2>1. (TypeOK /\ ListIsFinite /\ BuildInv =>
          (LoadFits <=> (\A type \in SampleTypes : Spare(type) >= 0) /\ OverallSpare >= 0))'
    BY SpareMeaning, PTL
  <2>2. QED
    BY <2>1 DEF SampleTypes
<1>2. (\A type \in SampleTypes : Spare(type) >= 0) /\ OverallSpare >= 0
  BY SpareMeaning
<1>3. CASE Resets
  <2>1. \A type \in SampleTypes :
          /\ ExpectedOf(type)' = ExpectedOf(type) /\ CurrentOf(type)' = 0
          /\ EventsOf(type)' = {} /\ Adding(type) = 0 /\ Adding(type)' = 0
          /\ ToCome(type)' = ToCome(type) /\ ToCome(type) = 0
    BY <1>3, ResetsChange, ResetChange, ToComeChange DEF Resets, EventsOf, Adding, buildVars
  <2>2. /\ progressStatus'.expected = progressStatus.expected /\ progressStatus'.current = 0
        /\ getQueueSize' = 0
    BY <1>3, ResetsChange, FS_EmptySet DEF getQueueSize
  <2>3. ASSUME NEW type \in SampleTypes PROVE Spare(type)' >= 0
    <3>1. Cardinality(EventsOf(type)') = 0
      BY <2>1, FS_EmptySet
    <3>2. ExpectedOf(type) >= 0 /\ ExpectedOf(type) \in Int
      BY Numbers DEF Count
    <3>3. Spare(type)' = ExpectedOf(type)
      BY <2>1, <3>1, <3>2 DEF Spare, Load
    <3>4. QED
      BY <3>2, <3>3
  <2>4. OverallSpare' >= 0
    BY <2>1, <2>2, Numbers DEF OverallSpare, OverallLoad, Count
  <2>5. QED
    BY <1>1, <2>3, <2>4
<1>4. CASE KeepsSpare
  BY <1>1, <1>2, <1>4 DEF KeepsSpare
<1>5. ASSUME NEW type \in SampleTypes, Announces(type) PROVE LoadFits'
  <2>1. Spare(type) \in Int /\ CurrentOf(type) \in Nat
    BY Numbers DEF Spare, Count
  <2>2. QED
    BY <1>1, <1>2, <1>5, <2>1, AnnouncingAddsSpare
<1>6. QED
  BY <1>3, <1>4, <1>5, SpareStep DEF SampleStep

\* While nothing is reset and no type is announced again, exactly what is expected
\* is played, queued or announced.
LEMMA LoadIsExpectedStep ==
  ASSUME TypeOK, ListIsFinite, BuildInv, LoadIsExpected, TypeOK', ListIsFinite', BuildInv',
         PlainStep,
         \A type \in SampleTypes : Announces(type) => ~ hasProgressStatus(type)
  PROVE  LoadIsExpected'
<1>1. LoadIsExpected' <=> (\A type \in SampleTypes : Spare(type)' = 0) /\ OverallSpare' = 0
  <2>1. (TypeOK /\ ListIsFinite /\ BuildInv =>
          (LoadIsExpected <=> (\A type \in SampleTypes : Spare(type) = 0) /\ OverallSpare = 0))'
    BY SpareMeaning, PTL
  <2>2. QED
    BY <2>1 DEF SampleTypes
<1>2. (\A type \in SampleTypes : Spare(type) = 0) /\ OverallSpare = 0
  BY SpareMeaning
<1>3. LoadFits
  BY <1>2, SpareMeaning
<1>4. CASE KeepsSpare
  BY <1>1, <1>2, <1>4 DEF KeepsSpare
<1>5. ASSUME NEW type \in SampleTypes, Announces(type) PROVE LoadIsExpected'
  <2>1. CurrentOf(type) = 0
    BY <1>5 DEF CurrentOf
  <2>2. QED
    BY <1>1, <1>2, <1>5, <2>1, AnnouncingAddsSpare
<1>6. QED
  BY <1>3, <1>4, <1>5, SpareStep
=============================================================================
