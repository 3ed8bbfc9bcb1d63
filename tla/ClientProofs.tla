----------------------------- MODULE ClientProofs -----------------------------
(***************************************************************************)
(* Proofs about the programs that build the sample queue and play it, the  *)
(* demo and the test suite: they are clients that EventQueueManager        *)
(* describes, and what they are told of the queue is right, however often  *)
(* they build, play and reset.                                             *)
(***************************************************************************)
EXTENDS SampleClients, SampleProofs

\* The events that buildSampleQueue has added, of a type.
NewOf(type) == {key \in DOMAIN eventList \ DOMAIN listAtBuild : eventList[key].type = type}

\* While buildSampleQueue runs, what was in the queue is where it was, and of each
\* type as many events are new as have been called for.
AddedInv ==
  step # 0 =>
    /\ listAtBuild \in [DOMAIN listAtBuild -> Event]
    /\ \A key \in DOMAIN listAtBuild :
         key \in DOMAIN eventList /\ eventList[key] = listAtBuild[key]
    /\ \A type \in SampleTypes : Cardinality(NewOf(type)) + Adding(type) = Called(type)

\* The event of call i of buildSampleQueue is in the first slot that was free for it.
TookSlot(i) == TookFirstFreeSlot(samples[i].type, samples[i].arg)

\* Whether that call has returned.
HasReturned(i) == i < step - IF pc = "addEvent" THEN 1 ELSE 0

\* While buildSampleQueue runs, addEvent is at work on the event of the last call,
\* and those of the calls before are in their slots.
PlacedInv ==
  step # 0 =>
    /\ pc = "addEvent" => step - 1 \in Adds /\ atCall.event = Sample(step - 1)
    /\ \A i \in Adds : HasReturned(i) => TookSlot(i)

\* The count of the main loop and the queue together are what the loop started on.
PlayInv ==
  /\ at \in {"free", "play"}
  /\ idx \in Nat
  /\ at = "free" => idx = 1
  /\ at = "play" => /\ step = 0 /\ pc = "idle"
                    /\ idx - 1 + getQueueSize = nbOfEvents

NothingThrown == reply # "threw"

CInv ==
  /\ IInv
  /\ BuildInv
  /\ LoadFits
  /\ AddedInv
  /\ PlacedInv
  /\ PlayInv
  /\ NothingThrown

-----------------------------------------------------------------------------
(* The steps of the programs.                                               *)

\* The programs' own steps are calls, or nothing that the library sees.
LEMMA ClientStepIsNext ==
  ASSUME [ClientNext]_clientVars
  PROVE  [Next]_vars
<1>1. CASE ProgramProgress
  <2>1. CASE BuildProgress
    BY <2>1, BuildProgressIsNext
  <2>2. CASE PlayPops
    BY <2>2 DEF PlayPops, Next, Call
  <2>3. CASE StopsPlaying
    BY <2>3 DEF StopsPlaying, sampleVars
  <2>4. QED
    BY <1>1, <2>1, <2>2, <2>3 DEF ProgramProgress
<1>2. CASE CallsOnce
  BY <1>2 DEF CallsOnce, Next, Call
<1>3. CASE Builds \/ StartsPlaying \/ UNCHANGED clientVars
  BY <1>3 DEF Builds, BuildSampleQueue, StartsPlaying, clientVars, sampleVars
<1>4. QED
  BY <1>1, <1>2, <1>3 DEF ClientNext

\* Every step is of one of the classes of the sample queue.
LEMMA ClientStepClasses ==
  ASSUME BuildInv, PlayInv, [ClientNext]_clientVars
  PROVE  SampleStep
<1>1. CASE ProgramProgress
  <2>1. CASE BuildProgress
    BY <2>1, BuildProgressClasses DEF SampleStep
  <2>2. CASE PlayPops
    BY <2>2, PopEventClasses DEF PlayPops, PlayInv, SampleStep
  <2>3. CASE StopsPlaying
    BY <2>3 DEF StopsPlaying, SampleStep, PlainStep
  <2>4. QED
    BY <1>1, <2>1, <2>2, <2>3 DEF ProgramProgress
<1>2. CASE CallsOnce
  <2>1. CASE PopEvent
    BY <1>2, <2>1, PopEventClasses DEF CallsOnce, Free, SampleStep
  <2>2. CASE Run
    <3>1. Rests
      BY <1>2, <2>2 DEF CallsOnce, Free, Run, Enter, Rests, NotAdding
    <3>2. QED
      BY <3>1 DEF SampleStep, PlainStep
  <2>3. CASE Reset
    BY <1>2, <2>3 DEF CallsOnce, Free, Resets, SampleStep
  <2>4. QED
    BY <1>2, <2>1, <2>2, <2>3 DEF CallsOnce
<1>3. CASE Builds \/ StartsPlaying \/ UNCHANGED clientVars
  BY <1>3 DEF Builds, StartsPlaying, clientVars, SampleStep, PlainStep
<1>4. QED
  BY <1>1, <1>2, <1>3 DEF ClientNext

-----------------------------------------------------------------------------
(* What buildSampleQueue adds.                                              *)

\* The events called for, from one call of buildSampleQueue to the next.
LEMMA CalledChange ==
  ASSUME BuildInv
  PROVE  /\ \A type \in SampleTypes :
              BuildSampleQueue => Called(type)' = 0
         /\ \A type \in SampleTypes : step' = step => Called(type)' = Called(type)
         /\ \A type, other \in SampleTypes :
              Announces(type) => Called(other)' = Called(other)
         /\ \A type \in SampleTypes : Brings(type) =>
              /\ Called(type)' = Called(type) + 1
              /\ \A other \in SampleTypes \ {type} : Called(other)' = Called(other)
         /\ step = 7 => \A type \in SampleTypes : Called(type) = 2
<1> USE EventTypeAssumption DEF Called, First, SampleTypes
<1>1. step \in 0..7
  BY DEF BuildInv, samples
<1>2. \A type \in SampleTypes : BuildSampleQueue => Called(type)' = 0
  BY DEF BuildSampleQueue
<1>3. \A type \in SampleTypes : step' = step => Called(type)' = Called(type)
  OBVIOUS
<1>4. ASSUME NEW type \in SampleTypes, NEW other \in SampleTypes, Announces(type)
      PROVE  Called(other)' = Called(other)
  BY <1>1, <1>4 DEF Announces
<1>5. ASSUME NEW type \in SampleTypes, Brings(type)
      PROVE  /\ Called(type)' = Called(type) + 1
             /\ \A other \in SampleTypes \ {type} : Called(other)' = Called(other)
  BY <1>1, <1>5 DEF Brings
<1>6. step = 7 => \A type \in SampleTypes : Called(type) = 2
  OBVIOUS
<1>7. QED
  BY <1>2, <1>3, <1>4, <1>5, <1>6

\* Every step of buildSampleQueue leaves the old events alone and counts the new.
LEMMA AddedInvStep ==
  ASSUME TypeOK, ListIsFinite, BuildInv, BuildInv', AddedInv, SampleStep
  PROVE  AddedInv'
<1> USE EventTypeAssumption
<1>1. CASE BuildSampleQueue
  <2>1. /\ UNCHANGED <<eventList, pc>> /\ pc = "idle" /\ listAtBuild' = eventList
    BY <1>1 DEF BuildSampleQueue, vars, queueVars, callVars
  <2>2. eventList \in [DOMAIN eventList -> Event]
    BY DEF TypeOK, QueueTypeOK
  <2>3. ASSUME NEW type \in SampleTypes
        PROVE  Cardinality(NewOf(type)') + Adding(type)' = Called(type)'
    <3>1. NewOf(type)' = {} /\ Adding(type)' = 0
      BY <2>1 DEF NewOf, Adding
    <3>2. QED
      BY <1>1, <3>1, CalledChange, FS_EmptySet
  <2>4. QED
    BY <2>1, <2>2, <2>3 DEF AddedInv
<1>2. \A type \in SampleTypes : /\ IsFiniteSet(NewOf(type)) /\ Cardinality(NewOf(type)) \in Nat
                                /\ Called(type) \in Int /\ Called(type)' \in Int
                                /\ Adding(type) \in Int /\ Adding(type)' \in Int
  <2>1. \A type \in SampleTypes : IsFiniteSet(NewOf(type)) /\ Cardinality(NewOf(type)) \in Nat
    <3>1. \A type \in SampleTypes : NewOf(type) \in SUBSET DOMAIN eventList
      BY DEF NewOf
    <3>2. QED
      BY <3>1, FS_Subset, FS_CardinalityType DEF ListIsFinite
  <2>2. step \in 0..7 /\ step' \in 0..7
    BY DEF BuildInv, samples
  <2>3. \A type \in SampleTypes : /\ Called(type) \in Int /\ Called(type)' \in Int
                                  /\ Adding(type) \in Int /\ Adding(type)' \in Int
    <3> SUFFICES ASSUME NEW type \in SampleTypes
                 PROVE  /\ Called(type) \in Int /\ Called(type)' \in Int
                        /\ Adding(type) \in Int /\ Adding(type)' \in Int
      OBVIOUS
    <3>1. Called(type) \in Int
      BY <2>2 DEF Called, First
    <3>2. Called(type)' \in Int
      <4>1. First(type) \in Int /\ First(type)' = First(type) /\ step' \in Int
        BY <2>2 DEF First
      <4>2. QED
        BY <4>1 DEF Called
    <3>3. Adding(type) \in Int /\ Adding(type)' \in Int
      BY DEF Adding
    <3>4. QED
      BY <3>1, <3>2, <3>3
  <2>4. QED
    BY <2>1, <2>3
<1>3. ASSUME UNCHANGED <<eventList, listAtBuild>>, step # 0,
             \A type \in SampleTypes :
               Called(type)' - Adding(type)' = Called(type) - Adding(type)
      PROVE  AddedInv'
  <2>1. \A type \in SampleTypes : NewOf(type)' = NewOf(type)
    BY <1>3 DEF NewOf
  <2>2. \A type \in SampleTypes : Cardinality(NewOf(type)') + Adding(type)' = Called(type)'
    BY <1>2, <1>3, <2>1 DEF AddedInv
  <2>3. QED
    BY <1>3, <2>2 DEF AddedInv
<1>4. ASSUME NEW type \in SampleTypes, Announces(type) PROVE AddedInv'
  <2>1. /\ UNCHANGED <<eventList, listAtBuild>> /\ pc = "idle" /\ pc' = "idle"
        /\ step # 0
    <3>1. UNCHANGED eventList /\ pc = "idle" /\ pc' = "idle"
      BY <1>4, AnnouncesChange
    <3>2. step # 0 /\ UNCHANGED listAtBuild
      BY <1>4 DEF Announces, First
    <3>3. QED
      BY <3>1, <3>2
  <2>2. \A t \in SampleTypes : Adding(t) = 0 /\ Adding(t)' = 0 /\ Called(t)' = Called(t)
    BY <1>4, <2>1, CalledChange DEF Adding
  <2>3. QED
    BY <1>3, <2>1, <2>2
<1>5. ASSUME NEW type \in SampleTypes, Brings(type) PROVE AddedInv'
  <2>1. PICK time \in DateTime : AddEvent(NewEvent(type, time))
    BY <1>5 DEF Brings
  <2>2. /\ UNCHANGED <<eventList, listAtBuild>> /\ step # 0
        /\ pc = "idle" /\ pc' = "addEvent" /\ ioEvent'.type = type
    BY <1>5, <2>1 DEF Brings, First, AddEvent, Enter, queueVars, NewEvent
  <2>3. \A t \in SampleTypes :
          Adding(t) = 0 /\ Adding(t)' = IF t = type THEN 1 ELSE 0
    BY <2>2 DEF Adding
  <2>4. \A t \in SampleTypes : Called(t)' = IF t = type THEN Called(t) + 1 ELSE Called(t)
    BY <1>5, CalledChange
  <2>5. QED
    BY <1>2, <1>3, <2>2, <2>3, <2>4
<1>6. CASE Retries
  <2>1. /\ UNCHANGED <<step, pc, eventList, listAtBuild>>
        /\ ioEvent'.type = ioEvent.type /\ pc = "addEvent"
    BY <1>6, RetryChange, IncrementEventTimeStampType DEF Retries, buildVars
  <2>2. step # 0
    BY <2>1 DEF BuildInv, First, SampleTypes
  <2>3. \A t \in SampleTypes : Adding(t)' = Adding(t) /\ Called(t)' = Called(t)
    BY <2>1, CalledChange DEF Adding
  <2>4. QED
    BY <1>3, <2>1, <2>2, <2>3
<1>7. CASE Inserts
  <2>1. /\ UNCHANGED <<step, listAtBuild>>
        /\ pc = "addEvent" /\ pc' = "idle"
        /\ DOMAIN eventList' = DOMAIN eventList \cup {ioEvent.stamp}
        /\ ioEvent.stamp \notin DOMAIN eventList
        /\ eventList'[ioEvent.stamp] = ioEvent
        /\ \A k \in DOMAIN eventList : eventList'[k] = eventList[k]
    BY <1>7, InsertChange DEF Inserts, buildVars, InsertSucceeds
  <2>2. step # 0
    BY <2>1 DEF BuildInv, First, SampleTypes
  <2>3. ASSUME NEW t \in SampleTypes
        PROVE  Cardinality(NewOf(t)') + Adding(t)' = Called(t)'
    <3>1. Adding(t)' = 0 /\ Called(t)' = Called(t)
      BY <2>1, CalledChange DEF Adding
    <3>2. Cardinality(NewOf(t)) + Adding(t) = Called(t)
      BY <2>2 DEF AddedInv
    <3>3. CASE t = ioEvent.type
      <4>1. /\ NewOf(t)' = NewOf(t) \cup {ioEvent.stamp} /\ ioEvent.stamp \notin NewOf(t)
            /\ Adding(t) = 1
        BY <2>1, <2>2, <3>3 DEF NewOf, AddedInv, Adding
      <4>2. Cardinality(NewOf(t)') = Cardinality(NewOf(t)) + 1
        BY <1>2, <4>1, FS_AddElement
      <4>3. QED
        BY <1>2, <3>1, <3>2, <4>1, <4>2
    <3>4. CASE t # ioEvent.type
      <4>1. NewOf(t)' = NewOf(t) /\ Adding(t) = 0
        BY <2>1, <3>4 DEF NewOf, Adding
      <4>2. QED
        BY <1>2, <3>1, <3>2, <4>1
    <3>5. QED
      BY <3>3, <3>4
  <2>4. QED
    BY <2>1, <2>2, <2>3 DEF AddedInv
<1>8. CASE step' = 0
  BY <1>8 DEF AddedInv
<1>9. CASE UNCHANGED sampleVars
  BY <1>9, <1>3, <1>8 DEF sampleVars, vars, queueVars, callVars, buildVars, Called, Adding
<1>10. QED
  BY <1>1, <1>4, <1>5, <1>6, <1>7, <1>8, <1>9
  DEF SampleStep, PlainStep, BuildReturns, Plays, Resets, Rests, buildVars

\* An event that took its slot stays there while the list only grows.
LEMMA SlotStays ==
  ASSUME listAtBuild' = listAtBuild,
         DOMAIN eventList \subseteq DOMAIN eventList',
         \A key \in DOMAIN eventList : eventList'[key] = eventList[key],
         NEW i, TookSlot(i)
  PROVE  TookSlot(i)'
<1> DEFINE type == samples[i].type
           time == samples[i].arg
<1>1. PICK key \in DOMAIN eventList \ DOMAIN listAtBuild :
        /\ eventList[key] = [type |-> type, time |-> time, stamp |-> key]
        /\ TotalMilliseconds(time) <= key
        /\ TotalMilliseconds(time) .. (key - 1) \subseteq DOMAIN eventList
  BY DEF TookSlot, TookFirstFreeSlot
<1>2. /\ key \in DOMAIN eventList' \ DOMAIN listAtBuild'
      /\ eventList'[key] = [type |-> type, time |-> time, stamp |-> key]
      /\ TotalMilliseconds(time) .. (key - 1) \subseteq DOMAIN eventList'
  BY <1>1
<1>3. QED
  BY <1>1, <1>2 DEF TookSlot, TookFirstFreeSlot, samples, AddsEvent, AddsStatus,
                    TotalMilliseconds

\* The insertion that ends a call of buildSampleQueue puts the event of that call
\* into the first free slot.
LEMMA InsertTakesSlot ==
  ASSUME OrderInv, BuildInv, AddedInv, PlacedInv, Inserts, NEW i \in Adds, i = step - 1
  PROVE  TookSlot(i)'
<1>1. /\ pc = "addEvent" /\ step # 0 /\ step \in Int
      /\ listAtBuild' = listAtBuild
      /\ DOMAIN listAtBuild \subseteq DOMAIN eventList
  BY DEF Inserts, InsertSucceeds, buildVars, BuildInv, First, SampleTypes, samples, AddedInv
<1>2. atCall.event = Sample(i)
  BY <1>1 DEF PlacedInv
<1>3. /\ atCall.event.stamp <= ioEvent.stamp
      /\ ioEvent = [atCall.event EXCEPT !.stamp = ioEvent.stamp]
      /\ \A slot \in atCall.event.stamp .. (ioEvent.stamp - 1) : slot \in DOMAIN eventList
  BY <1>1 DEF OrderInv, AddInv
<1>4. /\ DOMAIN eventList' = DOMAIN eventList \cup {ioEvent.stamp}
      /\ ioEvent.stamp \notin DOMAIN eventList
      /\ eventList'[ioEvent.stamp] = ioEvent
  BY InsertChange DEF OrderInv, Inserts
<1>5. Sample(i) = [type |-> samples[i].type, time |-> samples[i].arg, stamp |-> Key(i)]
  BY DEF Sample, NewEvent, Key
<1>6. PICK slot : slot = ioEvent.stamp
  OBVIOUS
<1>7. ioEvent = [type |-> samples[i].type, time |-> samples[i].arg, stamp |-> slot]
  BY <1>2, <1>3, <1>5, <1>6
<1>8. /\ slot \in DOMAIN eventList' \ DOMAIN listAtBuild'
      /\ eventList'[slot] = [type |-> samples[i].type, time |-> samples[i].arg, stamp |-> slot]
      /\ Key(i) <= slot
      /\ Key(i) .. (slot - 1) \subseteq DOMAIN eventList'
  BY <1>1, <1>2, <1>3, <1>4, <1>5, <1>6, <1>7
<1>9. QED
  BY <1>8 DEF TookSlot, TookFirstFreeSlot, Key, samples, AddsEvent, AddsStatus, TotalMilliseconds

\* Each call of buildSampleQueue starts when the event of the one before is in its
\* slot.
LEMMA PlacedInvStep ==
  ASSUME OrderInv, BuildInv, BuildInv', AddedInv, PlacedInv, PlayInv,
         [ClientNext]_clientVars
  PROVE  PlacedInv'
<1>1. step \in 0..7 /\ step' \in 0..7
  BY DEF BuildInv, samples
<1>2. CASE step' = 0
  BY <1>2 DEF PlacedInv
<1>3. CASE Builds
  <2>1. step' = 1 /\ pc' = "idle"
    BY <1>3 DEF Builds, BuildSampleQueue, vars, callVars
  <2>2. QED
    BY <2>1 DEF PlacedInv, HasReturned, Adds
<1>4. ASSUME UNCHANGED <<eventList, listAtBuild>>, step # 0,
             \A i \in Adds : HasReturned(i)' => HasReturned(i),
             pc' = "addEvent" => step' - 1 \in Adds /\ atCall'.event = Sample(step' - 1)
      PROVE  PlacedInv'
  <2>1. \A i \in Adds : TookSlot(i) => TookSlot(i)'
    BY <1>4, SlotStays
  <2>2. \A i \in Adds : HasReturned(i)' => TookSlot(i)'
    BY <1>4, <2>1 DEF PlacedInv
  <2>3. (pc = "addEvent" => step - 1 \in Adds /\ atCall.event = Sample(step - 1))'
    BY <1>4 DEF Adds, Sample, NewEvent, samples, AddsEvent, AddsStatus, TotalMilliseconds
  <2>4. QED
    BY <2>2, <2>3 DEF PlacedInv, Adds
<1>5. CASE BuildCalls
  <2>1. /\ step \in 1..6 /\ step' = step + 1 /\ UNCHANGED <<eventList, listAtBuild>>
        /\ pc = "idle"
    BY <1>5 DEF BuildCalls, samples, AddStatus, addStatus, Atomic, AddEvent, Enter, queueVars
  <2>2. IF step \in Adds
          THEN pc' = "addEvent" /\ atCall'.event = Sample(step)
          ELSE pc' = "idle"
    BY <1>5, <2>1 DEF BuildCalls, samples, AddsEvent, AddsStatus, Adds, Sample, AddStatus, Atomic,
                      Leave, AddEvent, Enter
  <2>3. \A i \in Adds : HasReturned(i)' => HasReturned(i)
    BY <2>1, <2>2 DEF HasReturned, Adds
  <2>4. pc' = "addEvent" => step' - 1 \in Adds /\ atCall'.event = Sample(step' - 1)
    <3>1. step' - 1 = step
      BY <2>1
    <3>2. QED
      BY <2>2, <3>1
  <2>5. QED
    BY <1>4, <2>1, <2>3, <2>4
<1>6. CASE Inserts
  <2>1. /\ step' = step /\ listAtBuild' = listAtBuild /\ pc = "addEvent" /\ pc' = "idle"
        /\ DOMAIN eventList \subseteq DOMAIN eventList'
        /\ \A key \in DOMAIN eventList : eventList'[key] = eventList[key]
    BY <1>6, InsertChange DEF Inserts, buildVars, InsertSucceeds, OrderInv
  <2>2. step # 0
    BY <2>1 DEF BuildInv, First, SampleTypes
  <2>3. ASSUME NEW i \in Adds, HasReturned(i)' PROVE TookSlot(i)'
    <3>1. i = step - 1 \/ HasReturned(i)
      BY <1>1, <2>1, <2>3 DEF HasReturned, Adds
    <3>2. CASE i = step - 1
      BY <1>6, <3>2, InsertTakesSlot
    <3>3. CASE HasReturned(i)
      BY <2>1, <2>2, <3>3, SlotStays DEF PlacedInv
    <3>4. QED
      BY <3>1, <3>2, <3>3
  <2>4. QED
    BY <2>1, <2>3 DEF PlacedInv, Adds
<1>7. CASE Retries
  <2>1. UNCHANGED <<step, pc, atCall, eventList, listAtBuild>> /\ pc = "addEvent"
    BY <1>7, RetryChange DEF Retries, buildVars, OrderInv
  <2>2. step # 0
    BY <2>1 DEF BuildInv, First, SampleTypes
  <2>3. \A i \in Adds : HasReturned(i)' => HasReturned(i)
    BY <2>1 DEF HasReturned
  <2>4. pc' = "addEvent" => step' - 1 \in Adds /\ atCall'.event = Sample(step' - 1)
    BY <2>1, <2>2 DEF PlacedInv
  <2>5. QED
    BY <1>4, <2>1, <2>2, <2>3, <2>4
<1>8. CASE UNCHANGED clientVars
  <2>1. UNCHANGED <<step, pc, atCall, eventList, listAtBuild>>
    BY <1>8 DEF clientVars, sampleVars, vars, queueVars, callVars, buildVars
  <2>2. \A i \in Adds : HasReturned(i)' => HasReturned(i)
    BY <2>1 DEF HasReturned
  <2>3. step # 0 => (pc' = "addEvent" => step' - 1 \in Adds /\ atCall'.event = Sample(step' - 1))
    BY <2>1 DEF PlacedInv
  <2>4. QED
    BY <1>2, <1>4, <2>1, <2>2, <2>3
<1>9. CASE LibraryRuns /\ ~ InsertSucceeds /\ ~ InsertFails
  <2>1. step = 0 /\ step' = step
    BY <1>9 DEF LibraryRuns, Progress, RunPops, RunReturns, SelectPops, SelectReturns, BuildInv,
                buildVars
  <2>2. QED
    BY <1>2, <2>1
<1>10. CASE CallsOnce \/ StartsPlaying \/ PlayPops \/ StopsPlaying \/ BuildReturns
  BY <1>2, <1>10 DEF CallsOnce, Free, StartsPlaying, PlayPops, StopsPlaying, BuildReturns, PlayInv,
                     sampleVars, buildVars
<1>11. QED
  BY <1>3, <1>5, <1>6, <1>7, <1>8, <1>9, <1>10
  DEF ClientNext, ProgramProgress, BuildProgress, LibraryRuns, Inserts, Retries

-----------------------------------------------------------------------------
(* The main loop, and what is thrown.                                       *)

\* popEvent, where every queued type has a status, takes one event, and does not
\* throw.
LEMMA PopEventPops ==
  ASSUME TypeOK, ListIsFinite, BuildInv, PopEvent
  PROVE  /\ pc = "idle" /\ pc' = "idle"
         /\ reply' \in {"caught", "status"}
         /\ reply' = "caught" => isQueueDone
         /\ ~ isQueueDone => getQueueSize' = getQueueSize - 1
         /\ isQueueDone => UNCHANGED queueVars
<1>1. CASE isQueueDone
  BY <1>1 DEF PopEvent, Atomic, Leave, isQueueDone
<1>2. ASSUME NEW key \in DOMAIN eventList, popEvent(key),
             Atomic(IF popEventThrows(key) THEN "caught" ELSE "status")
      PROVE  /\ pc = "idle" /\ pc' = "idle"
             /\ reply' = "status"
             /\ getQueueSize' = getQueueSize - 1
             /\ ~ isQueueDone
  <2>1. ~ popEventThrows(key)
    BY DEF BuildInv, popEventThrows
  <2>2. getQueueSize' = getQueueSize - 1
    BY <1>2, PopChange, FS_RemoveElement DEF ListIsFinite, getQueueSize
  <2>3. QED
    BY <1>2, <2>1, <2>2 DEF Atomic, Leave, isQueueDone
<1>3. QED
  BY <1>1, <1>2 DEF PopEvent

\* The loop counts each event that it pops.
LEMMA PlayInvStep ==
  ASSUME TypeOK, ListIsFinite, BuildInv, PlayInv, [ClientNext]_clientVars
  PROVE  PlayInv'
<1>0. getQueueSize \in Nat
  BY FS_CardinalityType DEF ListIsFinite, getQueueSize
<1>1. CASE BuildProgress /\ UNCHANGED loopVars
  <2>1. at # "play"
    BY <1>1 DEF PlayInv, BuildProgress, BuildCalls, BuildReturns, LibraryRuns, Progress,
                InsertSucceeds, InsertFails, RunPops, RunReturns, SelectPops, SelectReturns
  <2>2. QED
    BY <1>1, <2>1 DEF PlayInv, loopVars
<1>2. CASE PlayPops
  <2>1. PopEvent /\ ~ isQueueDone /\ idx' = idx + 1 /\ UNCHANGED <<step, at, nbOfEvents>>
    BY <1>2 DEF PlayPops, buildVars
  <2>2. QED
    BY <1>0, <1>2, <2>1, PopEventPops DEF PlayInv, PlayPops
<1>3. CASE StopsPlaying
  BY <1>3 DEF StopsPlaying, PlayInv
<1>4. CASE StartsPlaying
  <2>1. /\ at' = "play" /\ nbOfEvents' = getQueueSize /\ idx' = idx /\ idx = 1
        /\ step' = 0 /\ pc' = "idle" /\ getQueueSize' = getQueueSize
    BY <1>4 DEF StartsPlaying, Free, sampleVars, vars, queueVars, callVars, buildVars,
                PlayInv, getQueueSize
  <2>2. QED
    BY <1>0, <2>1 DEF PlayInv
<1>5. CASE Builds \/ CallsOnce
  BY <1>5 DEF Builds, CallsOnce, Free, loopVars, PlayInv
<1>6. CASE UNCHANGED clientVars
  BY <1>6 DEF clientVars, loopVars, sampleVars, vars, queueVars, callVars, buildVars, PlayInv,
              getQueueSize
<1>7. QED
  BY <1>1, <1>2, <1>3, <1>4, <1>5, <1>6 DEF ClientNext, ProgramProgress

\* Every call of a program on the sample events comes back without an exception,
\* save popEvent on an empty queue.
LEMMA NothingThrownStep ==
  ASSUME TypeOK, ListIsFinite, BuildInv, NothingThrown, [ClientNext]_clientVars
  PROVE  /\ NothingThrown'
         /\ reply' = "caught" /\ reply # "caught" => isQueueDone
<1>1. CASE PopEvent
  BY <1>1, PopEventPops DEF NothingThrown
<1>2. CASE RunPops \/ SelectPops
  <2>1. PICK key \in DOMAIN eventList :
          IF popEventThrows(key) THEN Leave("idle", "threw") ELSE UNCHANGED reply
    BY <1>2 DEF RunPops, SelectPops
  <2>2. ~ popEventThrows(key)
    BY DEF BuildInv, popEventThrows
  <2>3. QED
    BY <2>1, <2>2 DEF NothingThrown
<1>3. CASE InsertSucceeds \/ RunReturns \/ SelectReturns \/ Reset
           \/ Run \/ (\E event : AddEvent(event)) \/ (\E type, n : AddStatus(type, n))
  BY <1>3 DEF NothingThrown, InsertSucceeds, RunReturns, SelectReturns, Reset, Run, AddEvent,
              AddStatus, Enter, Atomic, Leave
<1>4. CASE UNCHANGED reply
  BY <1>4 DEF NothingThrown
<1>5. QED
  BY <1>1, <1>2, <1>3, <1>4
  DEF ClientNext, ProgramProgress, BuildProgress, BuildCalls, BuildReturns, LibraryRuns, Progress,
      InsertFails, callVars, PlayPops, StopsPlaying, StartsPlaying, Builds, BuildSampleQueue,
      CallsOnce, clientVars, sampleVars, vars

-----------------------------------------------------------------------------
\* The invariant of the programs holds before they have made a call.
LEMMA CInvInit == ClientInit => CInv
<1> SUFFICES ASSUME ClientInit PROVE CInv
  OBVIOUS
<1>1. /\ Init /\ step = 0 /\ at = "free" /\ idx = 1 /\ pc = "idle" /\ reply = "none"
      /\ eventList = EmptyMap /\ progressStatusMap = EmptyMap
      /\ progressStatus = NewProgressStatus(0)
  BY DEF ClientInit, SampleInit, Init, QueueInit
<1>2. IInv
  BY <1>1, IInvInit
<1>3. BuildInv
  BY <1>1 DEF BuildInv, EmptyMap, ExpectedOf, hasProgressStatus, NewProgressStatus, First, samples
<1>4. LoadFits
  <2>1. \A type \in SampleTypes : /\ EventsOf(type) = {} /\ Adding(type) = 0 /\ ToCome(type) = 0
                                  /\ CurrentOf(type) = 0 /\ ExpectedOf(type) = 0
    BY <1>1 DEF EventsOf, EmptyMap, Adding, ToCome, First, CurrentOf, ExpectedOf, hasProgressStatus
  <2>2. getQueueSize = 0 /\ progressStatus.current = 0 /\ progressStatus.expected = 0
    BY <1>1, FS_EmptySet DEF getQueueSize, EmptyMap, NewProgressStatus
  <2>3. QED
    BY <2>1, <2>2, FS_EmptySet DEF LoadFits, Load, OverallLoad, SampleTypes
<1>5. QED
  BY <1>1, <1>2, <1>3, <1>4 DEF CInv, AddedInv, PlacedInv, PlayInv, NothingThrown

\* And every step keeps it.
LEMMA CInvStep == CInv /\ [ClientNext]_clientVars => CInv'
<1> SUFFICES ASSUME CInv, [ClientNext]_clientVars PROVE CInv'
  OBVIOUS
<1> USE DEF CInv
<1>1. IInv'
  BY ClientStepIsNext, IInvStep
<1>2. TypeOK /\ ListIsFinite /\ TypeOK' /\ ListIsFinite'
  BY <1>1 DEF IInv, OrderInv
<1>3. SampleStep
  BY ClientStepClasses
<1>4. BuildInv'
  BY <1>2, <1>3, BuildInvStep
<1>5. LoadFits'
  BY <1>2, <1>3, <1>4, LoadFitsStep
<1>6. AddedInv' /\ PlayInv' /\ NothingThrown'
  BY <1>2, <1>3, <1>4, AddedInvStep, PlayInvStep, NothingThrownStep
<1>7. PlacedInv'
  BY <1>4, PlacedInvStep DEF IInv
<1>8. QED
  BY <1>1, <1>4, <1>5, <1>6, <1>7

\* Every reachable state of a program satisfies it (the main loop of
\* sevmgr_demo.cpp and of EventQueueManagementTestSuite.cpp).
THEOREM ClientInvariance == ClientSpec => []CInv
BY CInvInit, CInvStep, PTL DEF ClientSpec

\* The demo and the test suite make only calls that EventQueueManager allows a
\* client to make (buildSampleQueue and the main loops).
LEMMA ClientsImplementSpec == ClientSpec => Spec
<1>1. ClientInit => Init
  BY DEF ClientInit, SampleInit
<1>2. [ClientNext]_clientVars => [Next]_vars
  BY ClientStepIsNext
<1>3. QED
  BY <1>1, <1>2, PTL DEF ClientSpec, Spec

\* So the demo and the test suite lose no event in addEvent, have each one counted
\* once, meet loops that are bounded and leave totals that are sums, as every client
\* does.
THEOREM ClientsKeepThePromises ==
  ClientSpec => /\ []KeysAreStamps /\ AddTakesFirstFreeSlot /\ IterationsAreBounded
                /\ []TotalsAddUp /\ []TypesNeverOvercount
BY ClientsImplementSpec, KeysAreStampsHolds, AddTakesFirstFreeSlotHolds,
   IterationsAreBoundedHolds, TotalsAddUpHolds, TypesNeverOvercountHolds, PTL

\* However often a program builds, plays and resets: no progress, of a type or
\* overall, exceeds 100 %, and no counter wraps (EventQueueManager::buildSampleQueue
\* with EventQueue::addStatus, popEvent and reset).
THEOREM ProgressWithinExpectedHolds == ClientSpec => []ProgressWithinExpected
<1>1. CInv => ProgressWithinExpected
  <2> SUFFICES ASSUME CInv PROVE ProgressWithinExpected
    OBVIOUS
  <2>1. TypeOK /\ ListIsFinite /\ BuildInv /\ LoadFits
    BY DEF CInv, IInv, OrderInv
  <2>2. progressStatus.current + getQueueSize <= progressStatus.expected
    BY <2>1, Numbers DEF LoadFits, OverallLoad, Count
  <2>3. ASSUME NEW type \in DOMAIN progressStatusMap
        PROVE  progressStatusMap[type].current + Queued(type) <= progressStatusMap[type].expected
    <3>1. type \in SampleTypes
      BY <2>1 DEF BuildInv
    <3>2. CurrentOf(type) + Cardinality(EventsOf(type)) <= ExpectedOf(type)
      BY <2>1, <3>1, Numbers DEF LoadFits, Load, Count
    <3>3. QED
      BY <3>2 DEF CurrentOf, ExpectedOf, hasProgressStatus, Queued, EventsOf
  <2>4. QED
    BY <2>2, <2>3 DEF ProgressWithinExpected
<1>2. QED
  BY <1>1, ClientInvariance, PTL

\* Whatever is in the queue: buildSampleQueue adds its four events, each in the first
\* slot that is free at or after its date-time, and moves none of the others
\* (EventQueueManager::buildSampleQueue with EventQueue::addEvent).
THEOREM BuildAddsTheSamplesHolds == ClientSpec => BuildAddsTheSamples
<1> DEFINE AllAdded ==
      /\ Restrict(eventList, DOMAIN listAtBuild) = listAtBuild
      /\ getQueueSize = Cardinality(DOMAIN listAtBuild) + 4
      /\ \A time \in {BookingRequest, BookingRequestForCRS} : TookFirstFreeSlot(BKG_REQ, time)
      /\ \A time \in {BreakPoint1, BreakPoint2} : TookFirstFreeSlot(BRK_PT, time)
<1>1. CInv /\ [ClientNext]_clientVars =>
        [step = Len(samples) + 1 /\ step' = 0 => AllAdded]_clientVars
  <2> SUFFICES ASSUME CInv, ClientNext, step = Len(samples) + 1, step' = 0
               PROVE  AllAdded
    OBVIOUS
  <2>1. /\ step = 7 /\ BuildInv /\ AddedInv /\ PlacedInv /\ PlayInv /\ ListIsFinite
    BY DEF CInv, IInv, OrderInv, samples
  <2>2. pc = "idle"
    BY <2>1 DEF ClientNext, Builds, CallsOnce, Free, StartsPlaying, ProgramProgress, PlayPops,
                StopsPlaying, PlayInv, BuildProgress, BuildCalls, BuildReturns, LibraryRuns,
                samples, buildVars
  <2>3. \A type \in SampleTypes : Cardinality(NewOf(type)) = 2
    <3>1. \A type \in SampleTypes : Called(type) = 2 /\ Adding(type) = 0
      BY <2>1, <2>2, CalledChange DEF Adding
    <3>2. \A type \in SampleTypes : IsFiniteSet(NewOf(type)) /\ Cardinality(NewOf(type)) \in Nat
      <4>1. \A type \in SampleTypes : NewOf(type) \in SUBSET DOMAIN eventList
        BY DEF NewOf
      <4>2. QED
        BY <2>1, <4>1, FS_Subset, FS_CardinalityType DEF ListIsFinite
    <3>3. QED
      BY <2>1, <3>1, <3>2 DEF AddedInv
  <2>4. Restrict(eventList, DOMAIN listAtBuild) = listAtBuild
    BY <2>1 DEF AddedInv, Restrict
  <2>5. getQueueSize = Cardinality(DOMAIN listAtBuild) + 4
    <3> DEFINE old == DOMAIN listAtBuild
    <3>1. /\ IsFiniteSet(old) /\ IsFiniteSet(NewOf(BKG_REQ)) /\ IsFiniteSet(NewOf(BRK_PT))
      <4>1. /\ old \in SUBSET DOMAIN eventList
            /\ NewOf(BKG_REQ) \in SUBSET DOMAIN eventList
            /\ NewOf(BRK_PT) \in SUBSET DOMAIN eventList
        BY <2>1 DEF NewOf, AddedInv
      <4>2. QED
        BY <2>1, <4>1, FS_Subset DEF ListIsFinite
    <3>2. /\ DOMAIN eventList = (old \cup NewOf(BKG_REQ)) \cup NewOf(BRK_PT)
          /\ old \cap NewOf(BKG_REQ) = {}
          /\ (old \cup NewOf(BKG_REQ)) \cap NewOf(BRK_PT) = {}
      <4>1. \A key \in DOMAIN eventList : eventList[key].type \in SampleTypes
        BY <2>1 DEF BuildInv, hasProgressStatus
      <4>2. old \in SUBSET DOMAIN eventList
        BY <2>1 DEF AddedInv
      <4>3. DOMAIN eventList = (old \cup NewOf(BKG_REQ)) \cup NewOf(BRK_PT)
        BY <4>1, <4>2 DEF NewOf, SampleTypes
      <4>4. old \cap NewOf(BKG_REQ) = {}
        BY DEF NewOf
      <4>5. (old \cup NewOf(BKG_REQ)) \cap NewOf(BRK_PT) = {}
        BY EventTypeAssumption DEF NewOf
      <4>6. QED
        BY <4>3, <4>4, <4>5
    <3>3. /\ IsFiniteSet(old \cup NewOf(BKG_REQ))
          /\ Cardinality(old \cup NewOf(BKG_REQ)) = Cardinality(old) + 2
      <4>1. Cardinality(old \cup NewOf(BKG_REQ)) = Cardinality(old) + Cardinality(NewOf(BKG_REQ)) - 0
        BY <3>1, <3>2, FS_Union, FS_EmptySet
      <4>2. QED
        <5>1. IsFiniteSet(old \cup NewOf(BKG_REQ))
          BY <3>1, FS_Union
        <5>2. Cardinality(old) \in Nat
          BY <3>1, FS_CardinalityType
        <5>3. Cardinality(NewOf(BKG_REQ)) = 2
          BY <2>3 DEF SampleTypes
        <5>4. QED
          BY <4>1, <5>1, <5>2, <5>3
    <3>4. Cardinality(DOMAIN eventList)
            = Cardinality(old \cup NewOf(BKG_REQ)) + Cardinality(NewOf(BRK_PT)) - 0
      BY <3>1, <3>2, <3>3, FS_Union, FS_EmptySet
    <3>5. QED
      BY <2>3, <3>1, <3>3, <3>4, FS_CardinalityType DEF getQueueSize, SampleTypes
  <2>6. /\ TookFirstFreeSlot(BKG_REQ, BookingRequest)
        /\ TookFirstFreeSlot(BKG_REQ, BookingRequestForCRS)
        /\ TookFirstFreeSlot(BRK_PT, BreakPoint1)
        /\ TookFirstFreeSlot(BRK_PT, BreakPoint2)
    <3>1. TookSlot(2) /\ TookSlot(3) /\ TookSlot(5) /\ TookSlot(6)
      BY <2>1, <2>2 DEF PlacedInv, HasReturned, Adds
    <3>2. QED
      BY <3>1 DEF TookSlot, samples, AddsEvent, AddsStatus
  <2>7. QED
    BY <2>4, <2>5, <2>6
<1>2. QED
  BY <1>1, ClientInvariance, PTL DEF ClientSpec, BuildAddsTheSamples

\* For any number of builds: no call of a program that adds the sample events only
\* raises an exception, save popEvent on an empty queue (EventQueueManager::popEvent
\* and run).
THEOREM SamplesRaiseNothingHolds == ClientSpec => SamplesRaiseNothing
<1>1. CInv /\ [ClientNext]_clientVars =>
        [/\ reply' # "threw"
         /\ reply' = "caught" /\ reply # "caught" => isQueueDone]_clientVars
  BY NothingThrownStep DEF CInv, IInv, OrderInv, NothingThrown
<1>2. QED
  BY <1>1, ClientInvariance, PTL DEF ClientSpec, SamplesRaiseNothing

\* Whatever the queue held: the main loop counts as many events as there were before
\* it (EventQueueManagementTestSuite.cpp:141).
THEOREM PlayCountsTheEventsHolds == ClientSpec => PlayCountsTheEvents
<1>1. CInv /\ [ClientNext]_clientVars =>
        [at = "play" /\ at' = "free" => idx - 1 = nbOfEvents]_clientVars
  <2> SUFFICES ASSUME CInv, ClientNext, at = "play", at' = "free"
               PROVE  idx - 1 = nbOfEvents
    OBVIOUS
  <2>1. StopsPlaying
    BY DEF ClientNext, Builds, CallsOnce, Free, StartsPlaying, ProgramProgress, PlayPops, loopVars
  <2>2. getQueueSize = 0
    BY <2>1, FS_EmptySet DEF StopsPlaying, isQueueDone, getQueueSize
  <2>3. QED
    BY <2>2 DEF CInv, PlayInv
<1>2. QED
  BY <1>1, ClientInvariance, PTL DEF ClientSpec, PlayCountsTheEvents
=============================================================================
