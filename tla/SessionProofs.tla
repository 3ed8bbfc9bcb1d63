---------------------------- MODULE SessionProofs ----------------------------
(***************************************************************************)
(* Proofs about the interactive session: it is one of the clients that     *)
(* EventQueueManager describes, no call of it fails, and what it tells the *)
(* user is right, whatever he types.  The invariant is XInv.               *)
(***************************************************************************)
EXTENDS InteractiveSession, SampleProofs

\* Main makes its calls at the prompt and otherwise leaves the library alone.
LEMMA MainStepIsNext ==
  ASSUME [SessionNext]_sessionVars
  PROVE  [Next]_vars
<1>1. CASE BuildProgress
  BY <1>1, BuildProgressIsNext
<1>2. CASE Start
  BY <1>2 DEF Start, BuildSampleQueue
<1>3. CASE PopsTheFirstEvent
  BY <1>3 DEF PopsTheFirstEvent, Next, Call
<1>4. CASE Prompts \/ Selected \/ HasRun \/ Inspects \/ SelectTerminates \/ Quits
  BY <1>4 DEF Prompts, Selected, HasRun, Inspects, SelectTerminates, Quits, sampleVars
<1>5. CASE PlaysNext
  BY <1>5 DEF PlaysNext, Next, Call, sampleVars
<1>6. CASE Selects
  BY <1>6 DEF Selects, Next, Call
<1>7. CASE Runs
  BY <1>7 DEF Runs, Next, Call
<1>8. CASE Ended \/ UNCHANGED sessionVars
  BY <1>8 DEF Ended, sessionVars, sampleVars
<1> QED
  BY <1>1, <1>2, <1>3, <1>4, <1>5, <1>6, <1>7, <1>8
  DEF SessionNext, MainProgress, UserTypes

\* The interactive program makes only calls that EventQueueManager allows a
\* client to make (main of sevmgr.cpp and buildSampleQueue).
LEMMA SessionImplementsSpec == SessionSpec => Spec
<1>1. SessionInit => Init
  BY DEF SessionInit, SampleInit
<1>2. [SessionNext]_sessionVars => [Next]_vars
  BY MainStepIsNext
<1> QED
  BY <1>1, <1>2, PTL DEF SessionSpec, Spec

\* In the interactive session, too, every event stays under its own stamp, run
\* stops at the first break point, the loops are bounded and the totals are sums:
\* what is proved of every client holds of this one.
THEOREM SessionKeepsThePromises ==
  SessionSpec => /\ []KeysAreStamps /\ RunStopsAtFirstBreakPoint
                 /\ IterationsAreBounded /\ []TotalsAddUp
BY SessionImplementsSpec, KeysAreStampsHolds, RunStopsAtFirstBreakPointHolds,
   IterationsAreBoundedHolds, TotalsAddUpHolds, PTL

-----------------------------------------------------------------------------
(* The invariant of the session.                                            *)

\* Whether the event of call i has been put into the list.
IsAdded(i) ==
  at = "built" /\ (step = 0 \/ i < step - IF pc = "addEvent" THEN 1 ELSE 0)

PastStart == at \notin {"start", "built"}

\* The list holds sample events only, each in the slot of its own date-time.
SamplesInPlace ==
  \A key \in DOMAIN eventList :
    \E i \in Adds : key = Key(i) /\ eventList[key] = Sample(i)

\* Up to the first popEvent the list holds what has been added.  From then on the
\* struct holds an event that is earlier than what is queued; the last booking
\* request is queued unless everything has been played, and then it, or no break
\* point at least, is what the struct holds.
ListInv ==
  /\ SamplesInPlace
  /\ ~ PastStart => \A i \in Adds : Key(i) \in DOMAIN eventList <=> IsAdded(i)
  /\ PastStart =>
       /\ ioEvent \in Event
       /\ \A key \in DOMAIN eventList : ioEvent.stamp < key
       /\ IF isQueueDone THEN ioEvent.type = BKG_REQ ELSE Key(2) \in DOMAIN eventList

\* Which call is in progress where, and what is announced by then.
PlaceInv ==
  /\ at = "start" => pc = "idle" /\ DOMAIN progressStatusMap = {}
  /\ at = "built" => pc \in {"idle", "addEvent"}
  /\ at \in {"select", "run"} => pc \in {at, "idle"}
  /\ at \notin {"start", "built", "select", "run"} => pc = "idle"
  /\ step # 0 => at = "built"
  /\ pc = "addEvent" => step - 1 \in Adds /\ ioEvent = Sample(step - 1)
  /\ \A type \in SampleTypes :
       /\ step # 0 /\ step <= First(type) => ~ hasProgressStatus(type)
       /\ step = 0 /\ at # "start" => hasProgressStatus(type)

\* What run and select will answer: the list at the command decides.
CommandInv ==
  /\ at \in {"select", "run"} /\ pc # "idle" => atCall.list = listAtCommand
  /\ at = "select" /\ pc = "select" =>
       /\ iDateTime # DEFAULT_EVENT_OLDEST_DATETIME
       /\ \E key \in DOMAIN listAtCommand : listAtCommand[key].time = iDateTime
  /\ at = "select" /\ pc = "idle" =>
       /\ reply \in {"true", "false"}
       /\ reply = "true" <=> eventList # listAtCommand
  /\ at = "run" /\ pc = "idle" =>
       (ioEvent.type = BRK_PT
          <=> \E key \in DOMAIN listAtCommand : listAtCommand[key].type = BRK_PT)

NoCallFailed == reply \notin {"threw", "caught"}

XInv ==
  /\ IInv
  /\ BuildInv
  /\ LoadIsExpected
  /\ SessionTypeOK
  /\ ListInv
  /\ PlaceInv
  /\ CommandInv
  /\ NoCallFailed

-----------------------------------------------------------------------------
(* The queued events and the steps of the session.                          *)

\* What every queued event is.
LEMMA QueuedFacts ==
  ASSUME ListInv, NEW key \in DOMAIN eventList
  PROVE  /\ key \in Int /\ 0 < key /\ key <= Key(2)
         /\ eventList[key] \in Event
         /\ eventList[key].stamp = key
         /\ TotalMilliseconds(eventList[key].time) = key
         /\ eventList[key].time \in DateTime
         /\ key = Key(2) => eventList[key].type = BKG_REQ
<1>1. PICK i \in Adds : key = Key(i) /\ eventList[key] = Sample(i)
  BY DEF ListInv, SamplesInPlace
<1>2. key = Key(2) => i = 2
  BY <1>1, SampleFacts
<1>3. QED
  BY <1>1, <1>2, SampleFacts

\* buildSampleQueue goes on.
BuildsOn == at = "built" /\ UNCHANGED mainVars /\ (BuildCalls \/ BuildReturns \/ Inserts)

\* An event is played, by popEvent or in a loop; main goes on, or not.
PlaysOn(key) == Plays(key) /\ ioEvent' = eventList[key] /\ at # "start" /\ PastStart'

RestsOn == PastStart /\ PastStart' /\ Rests /\ UNCHANGED ioEvent

\* popEvent on a queue that is not empty.
LEMMA PopEventPlays ==
  ASSUME BuildInv, PopEvent, ~ isQueueDone
  PROVE  \E key \in DOMAIN eventList :
           popEvent(key) /\ ioEvent' = eventList[key] /\ Atomic("status")
<1>1. PICK key \in DOMAIN eventList :
        /\ popEvent(key)
        /\ ioEvent' = eventList[key]
        /\ Atomic(IF popEventThrows(key) THEN "caught" ELSE "status")
  BY DEF PopEvent
<1>2. ~ popEventThrows(key)
  BY DEF BuildInv, popEventThrows
<1>3. QED
  BY <1>1, <1>2

\* The retries of addEvent are not needed: no two sample events share a stamp.
LEMMA NoRetries ==
  ASSUME ListInv, PlaceInv, BuildInv
  PROVE  ~ InsertFails
<1> SUFFICES ASSUME pc = "addEvent" PROVE isFree(ioEvent.stamp)
  BY DEF InsertFails
<1>1. /\ step - 1 \in Adds /\ ioEvent = Sample(step - 1)
      /\ step \in 0 .. 7 /\ step # 0 /\ at = "built"
  BY DEF PlaceInv, BuildInv, samples, Adds
<1>2. ~ IsAdded(step - 1)
  BY <1>1 DEF IsAdded
<1>3. Key(step - 1) \notin DOMAIN eventList
  BY <1>1, <1>2 DEF ListInv, PastStart
<1>4. QED
  BY <1>1, <1>3, SampleFacts DEF isFree

\* The queue is not empty when main pops its first event.
LEMMA FirstPopFinds ==
  ASSUME ListInv, at = "built", step = 0
  PROVE  ~ isQueueDone
BY SampleFacts DEF ListInv, PastStart, IsAdded, isQueueDone

\* Every step of the session is of one of these classes.
LEMMA SessionStepClasses ==
  ASSUME TypeOK, BuildInv, ListInv, PlaceInv, [SessionNext]_sessionVars
  PROVE  \/ Start
         \/ BuildsOn
         \/ \E key \in DOMAIN eventList : PlaysOn(key)
         \/ RestsOn
         \/ UNCHANGED sessionVars
<1>1. CASE (BuildCalls \/ BuildReturns) /\ UNCHANGED mainVars
  <2>1. step # 0
    BY <1>1 DEF BuildCalls, BuildReturns, samples
  <2>2. QED
    BY <1>1, <2>1 DEF PlaceInv, BuildsOn
<1>2. CASE LibraryRuns /\ UNCHANGED mainVars
  <2>1. UNCHANGED buildVars /\ at' = at
    BY <1>2 DEF LibraryRuns, mainVars
  <2>2. CASE InsertSucceeds
    <3>1. at = "built"
      BY <2>2 DEF InsertSucceeds, PlaceInv
    <3>2. QED
      BY <1>2, <2>1, <2>2, <3>1 DEF BuildsOn, Inserts
  <2>3. CASE RunPops \/ SelectPops
    <3>1. PICK key \in DOMAIN eventList : popEvent(key) /\ ioEvent' = eventList[key]
      BY <2>3 DEF RunPops, SelectPops
    <3>2. NotAdding
      BY <2>3 DEF RunPops, SelectPops, Leave, NotAdding
    <3>3. step = 0 /\ at \in {"select", "run"}
      BY <2>3 DEF RunPops, SelectPops, PlaceInv
    <3>4. PlaysOn(key)
      BY <2>1, <3>1, <3>2, <3>3 DEF PlaysOn, Plays, PastStart
    <3>5. QED
      BY <3>4
  <2>4. CASE RunReturns \/ SelectReturns
    <3>1. NotAdding /\ UNCHANGED <<queueVars, ioEvent>>
      BY <2>4 DEF RunReturns, SelectReturns, Leave, NotAdding
    <3>2. step = 0 /\ at \in {"select", "run"}
      BY <2>4 DEF RunReturns, SelectReturns, PlaceInv
    <3>3. RestsOn
      BY <2>1, <3>1, <3>2 DEF RestsOn, Rests, PastStart
    <3>4. QED
      BY <3>3
  <2>5. QED
    BY <1>2, <2>2, <2>3, <2>4, NoRetries DEF LibraryRuns, Progress
<1>3. CASE Start
  BY <1>3
<1>4. CASE PopsTheFirstEvent
  <2>1. PICK key \in DOMAIN eventList :
          popEvent(key) /\ ioEvent' = eventList[key] /\ Atomic("status")
    BY <1>4, FirstPopFinds, PopEventPlays DEF PopsTheFirstEvent
  <2>2. PlaysOn(key)
    BY <1>4, <2>1 DEF PopsTheFirstEvent, PlaysOn, Plays, PastStart, NotAdding, Atomic, Leave
  <2>3. QED
    BY <2>2
<1>5. CASE Prompts \/ Selected \/ HasRun \/ Inspects \/ SelectTerminates \/ Quits
           \/ (PlaysNext /\ UNCHANGED sampleVars)
  <2>1. /\ UNCHANGED sampleVars /\ PastStart /\ PastStart'
    BY <1>5 DEF Prompts, Selected, HasRun, Inspects, SelectTerminates, Quits, PlaysNext, Typed,
                PastStart
  <2>2. step = 0 /\ pc # "addEvent" /\ pc' = pc
    BY <2>1 DEF PlaceInv, PastStart, sampleVars, vars, callVars
  <2>3. RestsOn
    BY <2>1, <2>2 DEF RestsOn, Rests, NotAdding, sampleVars, vars
  <2>4. QED
    BY <2>3
<1>6. CASE PlaysNext /\ ~ isQueueDone
  <2>1. PICK key \in DOMAIN eventList :
          popEvent(key) /\ ioEvent' = eventList[key] /\ Atomic("status")
    BY <1>6, PopEventPlays DEF PlaysNext
  <2>2. at = "prompt" /\ at' = "loop" /\ UNCHANGED buildVars /\ step = 0
    BY <1>6 DEF PlaysNext, Typed, PlaceInv
  <2>3. PlaysOn(key)
    BY <2>1, <2>2 DEF PlaysOn, Plays, PastStart, NotAdding, Atomic, Leave
  <2>4. QED
    BY <2>3
<1>7. CASE Selects \/ Runs
  <2>1. /\ at = "prompt" /\ at' \in {"select", "run"} /\ UNCHANGED buildVars /\ step = 0
    BY <1>7 DEF Selects, Runs, Typed, PlaceInv
  <2>2. UNCHANGED <<queueVars, ioEvent>> /\ NotAdding
    BY <1>7 DEF Selects, Runs, Select, Run, Atomic, Leave, Enter, NotAdding
  <2>3. RestsOn
    BY <2>1, <2>2 DEF RestsOn, Rests, PastStart
  <2>4. QED
    BY <2>3
<1>8. CASE Ended \/ UNCHANGED sessionVars
  BY <1>8 DEF Ended
<1>9. QED
  BY <1>1, <1>2, <1>3, <1>4, <1>5, <1>6, <1>7, <1>8
  DEF SessionNext, MainProgress, UserTypes, BuildProgress, PlaysNext

-----------------------------------------------------------------------------
(* The parts of the invariant.                                              *)

\* Each event goes to its own slot, and they leave from the front.
LEMMA ListInvStep ==
  ASSUME TypeOK, BuildInv, ListInv, PlaceInv, [SessionNext]_sessionVars
  PROVE  ListInv'
<1>1. CASE Start
  <2>1. /\ UNCHANGED eventList /\ at = "start" /\ at' = "built" /\ step' = 1
        /\ pc = "idle" /\ pc' = "idle"
    BY <1>1 DEF Start, BuildSampleQueue, vars, queueVars, callVars
  <2>2. \A i \in Adds : ~ IsAdded(i) /\ ~ IsAdded(i)'
    BY <2>1 DEF IsAdded, Adds
  <2>3. QED
    BY <2>1, <2>2 DEF ListInv, SamplesInPlace, PastStart
<1>2. CASE BuildsOn
  <2>1. at = "built" /\ at' = "built" /\ step \in 0 .. 7
    BY <1>2 DEF BuildsOn, mainVars, BuildInv, samples
  <2>2. CASE BuildCalls
    <3>1. UNCHANGED eventList /\ pc = "idle"
      BY <2>2 DEF BuildCalls, AddStatus, addStatus, Atomic, AddEvent, Enter, queueVars
    <3>2. /\ step \in 1 .. 6 /\ step' = step + 1
          /\ IF step \in Adds THEN pc' = "addEvent" ELSE pc' = "idle"
      <4>1. step \in 1 .. 6 /\ step' = step + 1
        BY <2>2 DEF BuildCalls, samples
      <4>2. CASE samples[step].call = "addStatus" /\ AddStatus(samples[step].type, samples[step].arg)
        BY <4>1, <4>2 DEF samples, AddsEvent, AddsStatus, Adds, AddStatus, Atomic, Leave
      <4>3. CASE /\ samples[step].call = "addEvent"
                 /\ AddEvent(NewEvent(samples[step].type, samples[step].arg))
        BY <4>1, <4>3 DEF samples, AddsEvent, AddsStatus, Adds, AddEvent, Enter
      <4>4. QED
        BY <2>2, <4>1, <4>2, <4>3 DEF BuildCalls
    <3>3. \A i \in Adds : IsAdded(i)' <=> IsAdded(i)
      BY <2>1, <3>1, <3>2 DEF IsAdded, Adds
    <3>4. QED
      BY <2>1, <3>1, <3>3 DEF ListInv, SamplesInPlace, PastStart
  <2>3. CASE BuildReturns
    <3>1. /\ UNCHANGED eventList /\ step = 7 /\ step' = 0 /\ pc = "idle"
      BY <2>3 DEF BuildReturns, samples, vars, queueVars
    <3>2. \A i \in Adds : IsAdded(i)' <=> IsAdded(i)
      BY <2>1, <3>1 DEF IsAdded, Adds
    <3>3. QED
      BY <2>1, <3>1, <3>2 DEF ListInv, SamplesInPlace, PastStart
  <2>4. CASE Inserts
    <3>1. /\ step' = step /\ pc = "addEvent" /\ pc' = "idle"
          /\ step - 1 \in Adds /\ ioEvent = Sample(step - 1)
          /\ DOMAIN eventList' = DOMAIN eventList \cup {ioEvent.stamp}
          /\ eventList'[ioEvent.stamp] = ioEvent
          /\ \A k \in DOMAIN eventList : eventList'[k] = eventList[k]
      BY <2>4, InsertChange DEF Inserts, buildVars, InsertSucceeds, PlaceInv
    <3>2. PICK n \in Adds : n = step - 1
      BY <3>1
    <3>3. /\ DOMAIN eventList' = DOMAIN eventList \cup {Key(n)}
          /\ eventList'[Key(n)] = Sample(n)
      BY <3>1, <3>2, SampleFacts
    <3>4. \A i \in Adds : IsAdded(i)' <=> IsAdded(i) \/ i = n
      <4>1. \A i \in Adds : IsAdded(i) <=> i < n
        BY <2>1, <3>1, <3>2 DEF IsAdded, Adds
      <4>2. \A i \in Adds : IsAdded(i)' <=> i <= n
        BY <2>1, <3>1, <3>2 DEF IsAdded, Adds
      <4>3. QED
        BY <4>1, <4>2 DEF Adds
    <3>5. \A i \in Adds : Key(i) \in DOMAIN eventList' <=> IsAdded(i)'
      BY <2>1, <3>2, <3>3, <3>4, SampleFacts DEF ListInv, PastStart
    <3>6. SamplesInPlace'
      BY <3>1, <3>2, <3>3 DEF ListInv, SamplesInPlace
    <3>7. QED
      BY <2>1, <3>5, <3>6 DEF ListInv, PastStart
  <2>5. QED
    BY <1>2, <2>2, <2>3, <2>4 DEF BuildsOn
<1>3. ASSUME NEW key \in DOMAIN eventList, PlaysOn(key) PROVE ListInv'
  <2>1. /\ DOMAIN eventList' = DOMAIN eventList \ {key}
        /\ \A k \in DOMAIN eventList' : eventList'[k] = eventList[k] /\ key < k
        /\ ioEvent' = eventList[key] /\ PastStart' /\ step = 0 /\ at # "start"
    BY <1>3, PopChange DEF PlaysOn, Plays
  <2>2. ioEvent' \in Event /\ ioEvent'.stamp = key
    BY <2>1, QueuedFacts
  <2>3. Key(2) \in DOMAIN eventList
    <3>1. CASE PastStart
      BY <3>1 DEF ListInv, isQueueDone
    <3>2. CASE ~ PastStart
      BY <2>1, <3>2, SampleFacts DEF ListInv, PastStart, IsAdded
    <3>3. QED
      BY <3>1, <3>2
  <2>4. CASE key = Key(2)
    <3>1. isQueueDone' /\ ioEvent'.type = BKG_REQ
      <4>1. ASSUME NEW k \in DOMAIN eventList' PROVE FALSE
        <5>1. key < k /\ k \in DOMAIN eventList
          BY <2>1
        <5>2. k \in Int /\ k <= Key(2) /\ key \in Int
          BY <5>1, QueuedFacts
        <5>3. QED
          BY <2>4, <5>1, <5>2
      <4>2. QED
        BY <2>1, <2>4, <4>1, QueuedFacts DEF isQueueDone
    <3>2. QED
      BY <2>1, <2>2, <3>1 DEF ListInv, SamplesInPlace, PastStart
  <2>5. CASE key # Key(2)
    <3>1. Key(2) \in DOMAIN eventList' /\ ~ isQueueDone'
      BY <2>1, <2>3, <2>5 DEF isQueueDone
    <3>2. QED
      BY <2>1, <2>2, <3>1 DEF ListInv, SamplesInPlace, PastStart
  <2>6. QED
    BY <2>4, <2>5
<1>4. CASE RestsOn
  BY <1>4 DEF RestsOn, Rests, queueVars, ListInv, SamplesInPlace, PastStart, isQueueDone
<1>5. CASE UNCHANGED sessionVars
  BY <1>5 DEF sessionVars, mainVars, sampleVars, vars, queueVars, callVars, buildVars,
              ListInv, SamplesInPlace, PastStart, isQueueDone, IsAdded
<1>6. QED
  BY <1>1, <1>2, <1>3, <1>4, <1>5, SessionStepClasses

\* select, in the session, finds the date-time that it has looked up, and has then
\* played something.
LEMMA SelectFinds ==
  ASSUME IInv, PlaceInv, CommandInv, SelectReturns
  PROVE  /\ at = "select" /\ pc' = "idle" /\ reply' = "true"
         /\ eventList' # listAtCommand
<1>1. pc = "select" /\ pc' # "select" /\ reply' # "threw"
  BY DEF SelectReturns, Leave
<1>2. at = "select"
  BY <1>1 DEF PlaceInv
<1>3. /\ atCall.list = listAtCommand
      /\ iDateTime # DEFAULT_EVENT_OLDEST_DATETIME
      /\ \E key \in DOMAIN listAtCommand : listAtCommand[key].time = iDateTime
  BY <1>1, <1>2 DEF CommandInv
<1>4. SelectReturns => Next
  BY DEF Next, Progress
<1>5. PICK first \in DOMAIN atCall.list :
        reply' = "true" /\ DOMAIN eventList' = {key \in DOMAIN atCall.list : key > first}
  BY <1>1, <1>3, <1>4, SelectReturnsAtDateTimeStep
     DEF IInv, SelectReturnsAtDateTime
<1>6. pc' = "idle"
  BY <1>5 DEF SelectReturns, Leave
<1>7. first \notin DOMAIN eventList'
  <2>1. first \in Int
    BY <1>1 DEF IInv, OrderInv, LoopHistoryOK
  <2>2. QED
    BY <1>5, <2>1
<1>8. QED
  BY <1>2, <1>3, <1>5, <1>6, <1>7

\* Main is where the call in progress says, and the types are announced before
\* their events come, each once.
LEMMA PlaceInvStep ==
  ASSUME IInv, BuildInv, ListInv, PlaceInv, CommandInv, [SessionNext]_sessionVars
  PROVE  PlaceInv'
<1> TypeOK
  BY DEF IInv, OrderInv
<1>1. CASE Start
  <2>1. /\ UNCHANGED progressStatusMap /\ at = "start" /\ at' = "built" /\ step' = 1
        /\ pc = "idle" /\ pc' = "idle"
    BY <1>1 DEF Start, BuildSampleQueue, vars, queueVars, callVars
  <2>2. QED
    BY <2>1 DEF PlaceInv, hasProgressStatus
<1>2. CASE BuildsOn
  <2>1. at = "built" /\ at' = "built" /\ step \in 0 .. 7
    BY <1>2 DEF BuildsOn, mainVars, BuildInv, samples
  <2>2. CASE BuildCalls
    <3>1. step \in 1 .. 6 /\ step' = step + 1
      BY <2>2 DEF BuildCalls, samples
    <3>2. pc' \in {"idle", "addEvent"}
      BY <2>2 DEF BuildCalls, AddStatus, Atomic, Leave, AddEvent, Enter
    <3>3. pc' = "addEvent" => step' - 1 \in Adds /\ ioEvent' = Sample(step' - 1)
      <4>1. CASE AddStatus(samples[step].type, samples[step].arg)
        BY <4>1 DEF AddStatus, Atomic, Leave
      <4>2. CASE /\ samples[step].call = "addEvent"
                 /\ AddEvent(NewEvent(samples[step].type, samples[step].arg))
        <5>1. step \in Adds
          BY <3>1, <4>2 DEF samples, AddsEvent, AddsStatus, Adds
        <5>2. ioEvent' = Sample(step) /\ step' - 1 = step
          BY <3>1, <4>2 DEF AddEvent, Sample
        <5>3. QED
          BY <5>1, <5>2
      <4>3. QED
        BY <2>2, <4>1, <4>2 DEF BuildCalls
    <3>4. ASSUME NEW type \in SampleTypes, step' <= First(type)
          PROVE  ~ hasProgressStatus(type)'
      <4>1. step <= First(type) /\ ~ hasProgressStatus(type)
        BY <3>1, <3>4 DEF PlaceInv, First
      <4>2. ASSUME NEW other \in SampleTypes, Announces(other)
            PROVE  ~ hasProgressStatus(type)'
        <5>1. other # type
          BY <3>1, <3>4, <4>2 DEF Announces, First
        <5>2. QED
          BY <4>1, <4>2, <5>1, AnnouncesChange DEF hasProgressStatus
      <4>3. ASSUME NEW other \in SampleTypes, Brings(other)
            PROVE  ~ hasProgressStatus(type)'
        BY <4>1, <4>3 DEF Brings, AddEvent, queueVars, hasProgressStatus
      <4>4. QED
        BY <2>2, <4>2, <4>3, BuildCallsClasses
    <3>5. QED
      BY <2>1, <3>1, <3>2, <3>3, <3>4 DEF PlaceInv
  <2>3. CASE BuildReturns
    <3>1. /\ UNCHANGED progressStatusMap /\ step = 7 /\ step' = 0 /\ pc' = "idle"
      BY <2>3 DEF BuildReturns, samples, vars, queueVars, callVars
    <3>2. \A type \in SampleTypes : hasProgressStatus(type)
      BY <3>1 DEF BuildInv, First
    <3>3. QED
      BY <2>1, <3>1, <3>2 DEF PlaceInv, hasProgressStatus
  <2>4. CASE Inserts
    <3>1. /\ step' = step /\ pc' = "idle" /\ UNCHANGED progressStatusMap
      BY <2>4 DEF Inserts, buildVars, InsertSucceeds, insert, Leave
    <3>2. QED
      BY <2>1, <3>1 DEF PlaceInv, hasProgressStatus
  <2>5. QED
    BY <1>2, <2>2, <2>3, <2>4 DEF BuildsOn
<1>3. ASSUME step = 0, step' = 0, at # "start", PastStart', pc' # "addEvent",
             DOMAIN progressStatusMap' = DOMAIN progressStatusMap,
             at' \in {"select", "run"} => pc' \in {at', "idle"},
             at' \notin {"select", "run"} => pc' = "idle"
      PROVE  PlaceInv'
  BY <1>3 DEF PlaceInv, PastStart, hasProgressStatus
<1>4. ASSUME \/ \E key \in DOMAIN eventList : PlaysOn(key)
             \/ RestsOn
      PROVE  PlaceInv'
  <2>1. /\ step = 0 /\ step' = 0 /\ at # "start" /\ PastStart' /\ pc' # "addEvent"
        /\ DOMAIN progressStatusMap' = DOMAIN progressStatusMap
    <3>1. ASSUME NEW key \in DOMAIN eventList, PlaysOn(key)
          PROVE  /\ step = 0 /\ step' = 0 /\ at # "start" /\ PastStart' /\ pc' # "addEvent"
                 /\ DOMAIN progressStatusMap' = DOMAIN progressStatusMap
      BY <3>1, PlaysChange DEF PlaysOn, Plays, NotAdding, buildVars
    <3>2. CASE RestsOn
      BY <3>2 DEF RestsOn, Rests, NotAdding, PlaceInv, PastStart, queueVars, buildVars
    <3>3. QED
      BY <1>4, <3>1, <3>2
  <2>2. /\ at' \in {"select", "run"} => pc' \in {at', "idle"}
        /\ at' \notin {"select", "run"} => pc' = "idle"
    <3>1. CASE BuildProgress /\ UNCHANGED mainVars
      <4>1. LibraryRuns
        BY <2>1, <3>1 DEF BuildProgress, BuildCalls, BuildReturns, samples
      <4>2. at' = at
        BY <3>1 DEF mainVars
      <4>3. PastStart
        BY <2>1, <4>2 DEF PastStart
      <4>4. CASE InsertSucceeds \/ RunReturns \/ SelectReturns
        <5>1. pc' = "idle"
          BY <4>4, SelectFinds DEF InsertSucceeds, RunReturns, Leave
        <5>2. QED
          BY <5>1
      <4>5. CASE RunPops \/ SelectPops
        <5>1. pc \in {"run", "select"} /\ pc' \in {pc, "idle"}
          BY <4>5 DEF RunPops, SelectPops, Leave
        <5>2. QED
          BY <4>2, <4>3, <5>1 DEF PlaceInv, PastStart
      <4>6. QED
        BY <4>1, <4>4, <4>5, NoRetries DEF LibraryRuns, Progress
    <3>2. QED
      <4>1. CASE PopsTheFirstEvent
        BY <4>1 DEF PopsTheFirstEvent, PopEvent, Atomic, Leave
      <4>2. CASE Prompts \/ Selected \/ HasRun \/ Inspects \/ SelectTerminates \/ Quits
        BY <4>2 DEF Prompts, Selected, HasRun, Inspects, SelectTerminates, Quits, Typed,
                    PlaceInv, sampleVars, vars, callVars
      <4>3. CASE PlaysNext
        BY <4>3 DEF PlaysNext, Typed, PlaceInv, sampleVars, vars, callVars, PopEvent, Atomic, Leave
      <4>4. CASE Selects \/ Runs
        BY <4>4 DEF Selects, Runs, Typed, Select, Run, Enter, Atomic, Leave
      <4>5. CASE Ended \/ UNCHANGED sessionVars
        BY <2>1, <4>5 DEF Ended, sessionVars, mainVars, sampleVars, vars, callVars, PlaceInv, PastStart
      <4>6. CASE Start
        BY <2>1, <4>6 DEF Start
      <4>7. QED
        BY <3>1, <4>1, <4>2, <4>3, <4>4, <4>5, <4>6 DEF SessionNext, MainProgress, UserTypes
  <2>3. QED
    BY <1>3, <2>1, <2>2
<1>5. CASE UNCHANGED sessionVars
  BY <1>5 DEF sessionVars, mainVars, sampleVars, vars, queueVars, callVars, buildVars,
              PlaceInv, hasProgressStatus
<1>6. QED
  BY <1>1, <1>2, <1>4, <1>5, SessionStepClasses

\* A typed date-time that select finds the stamp of is that of the event there, and
\* is not the oldest one.
LEMMA TypedDateTimeFinds ==
  ASSUME ListInv, NEW dateTime \in DateTime, hasEventDateTime(dateTime)
  PROVE  /\ dateTime # DEFAULT_EVENT_OLDEST_DATETIME
         /\ \E key \in DOMAIN eventList : eventList[key].time = dateTime
<1> DEFINE key == TotalMilliseconds(dateTime)
<1>1. key \in DOMAIN eventList
  BY DEF hasEventDateTime
<1>2. /\ key \in Int /\ 0 < key
      /\ eventList[key].time \in DateTime
      /\ TotalMilliseconds(eventList[key].time) = key
  BY <1>1, QueuedFacts
<1>3. dateTime = key * TicksPerMs
  BY TypedDateTimeAssumption
<1>4. eventList[key].time = key * TicksPerMs
  <2>1. eventList[key].time = TotalMilliseconds(eventList[key].time) * TicksPerMs
    BY <1>2, TypedDateTimeAssumption
  <2>2. QED
    BY <1>2, <2>1
<1>5. eventList[key].time = dateTime
  BY <1>3, <1>4
<1>6. dateTime # 0
  <2>1. TotalMilliseconds(0) = 0
    BY DateTimeAssumption DEF TotalMilliseconds
  <2>2. QED
    BY <1>2, <2>1
<1>7. QED
  BY <1>1, <1>5, <1>6 DEF DEFAULT_EVENT_OLDEST_DATETIME

\* A loop of the session that pops meets a type with a status, and goes on.
LEMMA LoopsGoOn ==
  ASSUME BuildInv, RunPops \/ SelectPops
  PROVE  UNCHANGED <<pc, reply, iDateTime, atCall>>
<1>1. PICK key \in DOMAIN eventList :
        IF popEventThrows(key) THEN TRUE ELSE UNCHANGED <<pc, reply, iDateTime, atCall>>
  BY DEF RunPops, SelectPops
<1>2. ~ popEventThrows(key)
  BY DEF BuildInv, popEventThrows
<1>3. QED
  BY <1>1, <1>2

\* What run and select will tell is settled when they are called.
LEMMA CommandInvStep ==
  ASSUME IInv, BuildInv, ListInv, ListInv', PlaceInv, CommandInv, [SessionNext]_sessionVars
  PROVE  CommandInv'
<1>1. CASE at' \notin {"select", "run"}
  BY <1>1 DEF CommandInv
<1>2. CASE Selects
  <2>1. at' = "select" /\ listAtCommand' = eventList
    BY <1>2 DEF Selects, Typed
  <2>2. PICK dateTime \in DateTime : Select(dateTime)
    BY <1>2 DEF Selects
  <2>3. CASE ~ hasEventDateTime(dateTime)
    <3>1. pc' = "idle" /\ reply' = "false" /\ eventList' = eventList
      BY <2>2, <2>3 DEF Select, Atomic, Leave, queueVars
    <3>2. QED
      BY <2>1, <3>1 DEF CommandInv
  <2>4. CASE hasEventDateTime(dateTime)
    <3>1. pc' = "select" /\ atCall'.list = eventList /\ iDateTime' = dateTime
      BY <2>2, <2>4 DEF Select, Enter
    <3>2. QED
      BY <2>1, <2>4, <3>1, TypedDateTimeFinds DEF CommandInv
  <2>5. QED
    BY <2>3, <2>4
<1>3. CASE Runs
  <2>1. at' = "run" /\ listAtCommand' = eventList /\ pc' = "run" /\ atCall'.list = eventList
    BY <1>3 DEF Runs, Typed, Run, Enter
  <2>2. QED
    BY <2>1 DEF CommandInv
<1>4. CASE LibraryRuns /\ UNCHANGED mainVars /\ at' \in {"select", "run"}
  <2>1. at' = at /\ UNCHANGED listAtCommand
    BY <1>4 DEF mainVars
  <2>2. CASE RunPops \/ SelectPops
    <3>1. UNCHANGED <<pc, reply, iDateTime, atCall>> /\ pc \in {"run", "select"}
      BY <2>2, LoopsGoOn DEF RunPops, SelectPops
    <3>2. QED
      BY <2>1, <3>1 DEF CommandInv
  <2>3. CASE RunReturns
    <3>1. at = "run" /\ pc = "run" /\ pc' = "idle" /\ reply' = "void"
      BY <2>3 DEF RunReturns, Leave, PlaceInv
    <3>2. atCall.list = listAtCommand
      BY <3>1 DEF CommandInv
    <3>3. Next
      BY <2>3 DEF Next, Progress
    <3> DEFINE breakPoints == {key \in DOMAIN atCall.list : atCall.list[key].type = BRK_PT}
    <3>4. IF breakPoints = {}
          THEN isQueueDone'
          ELSE \E first \in breakPoints : ioEvent' = atCall.list[first]
      BY <3>1, <3>3, RunReturnsAtFirstBreakPointStep
         DEF IInv, RunReturnsAtFirstBreakPoint
    <3>5. CASE breakPoints = {}
      <4>1. ioEvent'.type = BKG_REQ
        BY <2>1, <3>1, <3>4, <3>5 DEF ListInv, PastStart
      <4>2. QED
        BY <2>1, <3>1, <3>2, <3>5, <4>1, EventTypeAssumption DEF CommandInv
    <3>6. CASE breakPoints # {}
      BY <2>1, <3>1, <3>2, <3>4, <3>6 DEF CommandInv
    <3>7. QED
      BY <3>5, <3>6
  <2>4. CASE SelectReturns
    BY <2>1, <2>4, SelectFinds DEF CommandInv
  <2>5. CASE InsertSucceeds
    BY <1>4, <2>1, <2>5 DEF InsertSucceeds, PlaceInv
  <2>6. QED
    BY <1>4, <2>2, <2>3, <2>4, <2>5, NoRetries DEF LibraryRuns, Progress
<1>5. CASE UNCHANGED sessionVars
  BY <1>5 DEF sessionVars, mainVars, sampleVars, vars, queueVars, callVars, CommandInv
<1>6. CASE (BuildCalls \/ BuildReturns) /\ UNCHANGED mainVars
  <2>1. at' = "built"
    BY <1>6 DEF BuildCalls, BuildReturns, samples, PlaceInv, mainVars
  <2>2. QED
    BY <1>1, <2>1
<1>7. CASE Start \/ PopsTheFirstEvent \/ Prompts \/ Selected \/ HasRun
           \/ Inspects \/ PlaysNext \/ SelectTerminates \/ Quits
  BY <1>1, <1>7 DEF Start, PopsTheFirstEvent, Prompts, Selected, HasRun,
                    Inspects, PlaysNext, SelectTerminates, Quits, Typed
<1>8. QED
  BY <1>1, <1>2, <1>3, <1>4, <1>5, <1>6, <1>7
  DEF SessionNext, MainProgress, UserTypes, BuildProgress, Ended

\* No call throws, and popEvent finds something.
LEMMA NoCallFailedStep ==
  ASSUME BuildInv, ListInv, NoCallFailed, [SessionNext]_sessionVars
  PROVE  NoCallFailed'
<1>1. CASE PopEvent /\ ~ isQueueDone
  BY <1>1, PopEventPlays DEF Atomic, Leave, NoCallFailed
<1>2. CASE RunPops \/ SelectPops
  BY <1>2, LoopsGoOn DEF NoCallFailed
<1>3. CASE InsertSucceeds \/ RunReturns \/ SelectReturns
           \/ Run \/ (\E event : AddEvent(event)) \/ (\E type, n : AddStatus(type, n))
           \/ (\E dateTime : Select(dateTime))
  BY <1>3 DEF NoCallFailed, InsertSucceeds, RunReturns, SelectReturns, Run, AddEvent,
              AddStatus, Select, Enter, Atomic, Leave
<1>4. CASE UNCHANGED reply
  BY <1>4 DEF NoCallFailed
<1>5. QED
  BY <1>1, <1>2, <1>3, <1>4, FirstPopFinds
  DEF SessionNext, MainProgress, UserTypes, BuildProgress, BuildCalls, BuildReturns, LibraryRuns,
      Progress, InsertFails, Start, BuildSampleQueue, PopsTheFirstEvent, Prompts, Selected, HasRun,
      Inspects, PlaysNext, Selects, SelectTerminates, Runs, Quits, Ended,
      sessionVars, sampleVars, vars, callVars

\* The variables of main keep their types.
LEMMA SessionTypeOKStep ==
  ASSUME TypeOK', BuildInv', ListInv, ListInv', SessionTypeOK, [SessionNext]_sessionVars
  PROVE  SessionTypeOK'
<1>1. PastStart => ioEvent \in Event /\ ioEvent.time \in DateTime /\ ioEvent.type \in EventType
  BY DEF ListInv, Event
<1>2. at' \in Places
  BY DEF SessionTypeOK, SessionNext, MainProgress, UserTypes, Start, PopsTheFirstEvent, Prompts,
         Selected, HasRun, Inspects, PlaysNext, Selects, SelectTerminates, Runs, Quits, Ended,
         Typed, mainVars, sessionVars, Places
<1>3. lCurrentInteractiveDateTime' \in DateTime /\ lCurrentInteractiveEventType' \in EventType
  BY <1>1 DEF SessionTypeOK, SessionNext, MainProgress, UserTypes, Start, PopsTheFirstEvent, Prompts,
         Selected, HasRun, Inspects, PlaysNext, Selects, SelectTerminates, Runs, Quits, Ended,
         promptVars, mainVars, sessionVars, PastStart
<1>4. said' \in Sayings
  BY DEF SessionTypeOK, SessionNext, MainProgress, UserTypes, Start, PopsTheFirstEvent, Prompts,
         Selected, HasRun, Inspects, PlaysNext, Selects, SelectTerminates, Runs, Quits, Ended,
         mainVars, sessionVars, Sayings
<1>5. at' \in {"loop", "prompt", "select", "run"} => ioEvent' \in Event
  BY DEF ListInv, PastStart
<1>6. QED
  BY <1>2, <1>3, <1>4, <1>5 DEF SessionTypeOK, BuildInv

-----------------------------------------------------------------------------
(* What is told of the session.                                             *)

\* The invariant holds when main starts.
LEMMA XInvInit == SessionInit => XInv
<1> SUFFICES ASSUME SessionInit PROVE XInv
  OBVIOUS
<1>1. /\ Init /\ step = 0 /\ at = "start" /\ pc = "idle" /\ reply = "none"
      /\ eventList = EmptyMap /\ progressStatusMap = EmptyMap
      /\ progressStatus = NewProgressStatus(0)
      /\ DOMAIN EmptyMap = {}
  BY EmptyMapType DEF SessionInit, SampleInit, Init, QueueInit
<1>2. IInv
  BY <1>1, IInvInit
<1>3. BuildInv
  BY <1>1 DEF BuildInv, ExpectedOf, hasProgressStatus, NewProgressStatus, First, samples
<1>4. LoadIsExpected
  <2>1. \A type \in SampleTypes : /\ EventsOf(type) = {} /\ Adding(type) = 0 /\ ToCome(type) = 0
                                  /\ CurrentOf(type) = 0 /\ ExpectedOf(type) = 0
    BY <1>1 DEF EventsOf, Adding, ToCome, First, CurrentOf, ExpectedOf, hasProgressStatus
  <2>2. getQueueSize = 0 /\ progressStatus.current = 0 /\ progressStatus.expected = 0
    BY <1>1, FS_EmptySet DEF getQueueSize, NewProgressStatus
  <2>3. QED
    BY <2>1, <2>2, FS_EmptySet DEF LoadIsExpected, Load, OverallLoad, SampleTypes
<1>5. SessionTypeOK
  BY <1>1, <1>2, DateTimeAssumption, EventTypeAssumption
  DEF SessionTypeOK, SessionInit, Places, Sayings, IInv, OrderInv, samples,
      DEFAULT_EVENT_OLDEST_DATETIME
<1>6. ListInv
  BY <1>1 DEF ListInv, SamplesInPlace, PastStart, IsAdded
<1>7. QED
  BY <1>1, <1>2, <1>3, <1>4, <1>5, <1>6 DEF XInv, PlaceInv, CommandInv, NoCallFailed

\* And every step keeps it.
LEMMA XInvStep == XInv /\ [SessionNext]_sessionVars => XInv'
<1> SUFFICES ASSUME XInv, [SessionNext]_sessionVars PROVE XInv'
  OBVIOUS
<1> USE DEF XInv
<1>1. IInv'
  BY MainStepIsNext, IInvStep
<1>2. TypeOK /\ ListIsFinite /\ TypeOK' /\ ListIsFinite'
  BY <1>1 DEF IInv, OrderInv
<1>3. PlainStep
  <2>1. BuildsOn => PlainStep
    BY BuildCallsClasses DEF BuildsOn, PlainStep
  <2>2. QED
    BY <1>2, <2>1, SessionStepClasses
    DEF Start, PlaysOn, RestsOn, PlainStep, sessionVars
<1>4. BuildInv'
  BY <1>2, <1>3, BuildInvStep DEF SampleStep
<1>5. \A type \in SampleTypes : Announces(type) => ~ hasProgressStatus(type)
  BY DEF Announces, First, PlaceInv
<1>6. LoadIsExpected'
  BY <1>2, <1>3, <1>4, <1>5, LoadIsExpectedStep
<1>7. ListInv' /\ PlaceInv' /\ NoCallFailed'
  BY <1>2, ListInvStep, PlaceInvStep, NoCallFailedStep
<1>8. CommandInv' /\ SessionTypeOK'
  BY <1>2, <1>4, <1>7, CommandInvStep, SessionTypeOKStep
<1>9. QED
  BY <1>1, <1>4, <1>6, <1>7, <1>8

\* Every reachable state of the interactive program satisfies it (main of
\* ui/cmdline/sevmgr.cpp).
THEOREM SessionInvariance == SessionSpec => []XInv
BY XInvInit, XInvStep, PTL DEF SessionSpec

\* The variables of the interactive program and of the queue under it have their
\* types (main of sevmgr.cpp).
THEOREM SessionTypeOKHolds == SessionSpec => []SessionTypeOK
<1>1. XInv => SessionTypeOK
  BY DEF XInv
<1>2. QED
  BY <1>1, SessionInvariance, PTL

\* Whatever the user types, no call of the session on the sample queue throws,
\* fails its assertion or finds the queue empty (main of sevmgr.cpp, popEvent,
\* run and select).
THEOREM SessionCallsSucceedHolds == SessionSpec => []SessionCallsSucceed
<1>1. XInv => SessionCallsSucceed
  BY DEF XInv, PlaceInv, NoCallFailed, SessionCallsSucceed, SessionTypeOK, Places
<1>2. QED
  BY <1>1, SessionInvariance, PTL

\* Whatever the user types, each sample event is queued or has been played once
\* and counted, by its type and overall (popEvent, run and select).
THEOREM SamplesAreAccountedForHolds == SessionSpec => []SamplesAreAccountedFor
<1>1. XInv => SamplesAreAccountedFor
  <2> SUFFICES ASSUME XInv, UnderWay
               PROVE  /\ progressStatus.current + getQueueSize = progressStatus.expected
                      /\ \A type \in {BKG_REQ, BRK_PT} :
                           progressStatusMap[type].current
                             + Cardinality({key \in DOMAIN eventList : eventList[key].type = type})
                             = progressStatusMap[type].expected
    BY DEF SamplesAreAccountedFor
  <2>1. step = 0 /\ at # "start" /\ pc # "addEvent"
    BY DEF XInv, PlaceInv, UnderWay
  <2>2. TypeOK /\ ListIsFinite /\ BuildInv /\ LoadIsExpected
    BY DEF XInv, IInv, OrderInv
  <2>3. \A type \in SampleTypes : Adding(type) = 0 /\ ToCome(type) = 0 /\ hasProgressStatus(type)
    BY <2>1 DEF Adding, ToCome, First, XInv, PlaceInv
  <2>4. progressStatus.current + getQueueSize = progressStatus.expected
    BY <2>2, <2>3, Numbers DEF LoadIsExpected, OverallLoad, SampleTypes, Count
  <2>5. ASSUME NEW type \in SampleTypes
        PROVE  progressStatusMap[type].current + Cardinality(EventsOf(type))
                 = progressStatusMap[type].expected
    <3>1. CurrentOf(type) + Cardinality(EventsOf(type)) = ExpectedOf(type)
      BY <2>2, <2>3, Numbers DEF LoadIsExpected, Load, Count
    <3>2. QED
      BY <2>3, <3>1 DEF CurrentOf, ExpectedOf
  <2>6. QED
    BY <2>4, <2>5 DEF EventsOf, SampleTypes
<1>2. QED
  BY <1>1, SessionInvariance, PTL

\* Whatever mix of next, run and select: the event of the prompt is earlier than
\* everything that is queued (main of sevmgr.cpp).
THEOREM CurrentEventIsPastHolds == SessionSpec => []CurrentEventIsPast
<1>1. XInv => CurrentEventIsPast
  BY DEF XInv, ListInv, PastStart, CurrentEventIsPast, UnderWay
<1>2. QED
  BY <1>1, SessionInvariance, PTL

\* "Break point found" is told when there was one to find, and only then (the run
\* command of main in sevmgr.cpp).
THEOREM RunTellsTheTruthHolds == SessionSpec => RunTellsTheTruth
<1>1. XInv /\ [SessionNext]_sessionVars =>
        [at = "run" /\ at' = "loop" =>
           (said' = "breakPoint") =
             (\E key \in DOMAIN listAtCommand : listAtCommand[key].type = BRK_PT)]_sessionVars
  <2> SUFFICES ASSUME XInv, SessionNext, at = "run", at' = "loop"
               PROVE  (said' = "breakPoint") =
                        (\E key \in DOMAIN listAtCommand : listAtCommand[key].type = BRK_PT)
    OBVIOUS
  <2>1. HasRun
    BY DEF SessionNext, MainProgress, mainVars, Start, PopsTheFirstEvent, Prompts, Selected,
           UserTypes, Inspects, PlaysNext, Selects, SelectTerminates, Runs, Quits, Typed, Ended
  <2>2. pc = "idle" /\ (said' = "breakPoint" <=> ioEvent.type = BRK_PT)
    BY <2>1 DEF HasRun
  <2>3. QED
    BY <2>2 DEF XInv, CommandInv
<1>2. QED
  BY <1>1, SessionInvariance, PTL DEF SessionSpec, RunTellsTheTruth

\* "Selection successful" goes with a change of the queue, and a failed selection
\* leaves it as it was (the select command of main in sevmgr.cpp).
THEOREM SelectTellsTheTruthHolds == SessionSpec => SelectTellsTheTruth
<1>1. XInv /\ [SessionNext]_sessionVars =>
        [at = "select" /\ at' = "loop" =>
           (said' = "selected") = (eventList # listAtCommand)]_sessionVars
  <2> SUFFICES ASSUME XInv, SessionNext, at = "select", at' = "loop"
               PROVE  (said' = "selected") = (eventList # listAtCommand)
    OBVIOUS
  <2>1. Selected
    BY DEF SessionNext, MainProgress, mainVars, Start, PopsTheFirstEvent, Prompts, HasRun,
           UserTypes, Inspects, PlaysNext, Selects, SelectTerminates, Runs, Quits, Typed, Ended
  <2>2. pc = "idle" /\ (said' = "selected" <=> reply = "true")
    BY <2>1 DEF Selected, XInv, PlaceInv
  <2>3. QED
    BY <2>2 DEF XInv, CommandInv
<1>2. QED
  BY <1>1, SessionInvariance, PTL DEF SessionSpec, SelectTellsTheTruth
=============================================================================
