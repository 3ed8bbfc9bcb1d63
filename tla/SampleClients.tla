---------------------------- MODULE SampleClients ----------------------------
(***************************************************************************)
(* The programs that build the sample queue and play it: the main loop of  *)
(* batches/sevmgr_demo.cpp, which the test suite                           *)
(* (test/sevmgr/EventQueueManagementTestSuite.cpp) repeats, and the single *)
(* calls that the test suite makes between and after, here in any order.   *)
(***************************************************************************)
EXTENDS SampleQueue

VARIABLES
  at,         \* "free" between calls, "play" inside the main loop
  idx,        \* the loop's count of events, from 1
  nbOfEvents  \* getQueueSize() before the loop

loopVars == <<at, idx, nbOfEvents>>
clientVars == <<sampleVars, loopVars>>

ClientInit ==
  /\ SampleInit
  /\ at = "free"
  /\ idx = 1
  /\ nbOfEvents = 0

Free == at = "free" /\ step = 0

\* buildSampleQueue may find events in the queue: nothing empties it first.
Builds ==
  /\ Free /\ BuildSampleQueue
  /\ UNCHANGED loopVars

CallsOnce ==
  /\ Free
  /\ PopEvent \/ Run \/ Reset
  /\ UNCHANGED <<buildVars, loopVars>>

StartsPlaying ==
  /\ Free /\ pc = "idle"
  /\ at' = "play"
  /\ nbOfEvents' = getQueueSize
  /\ UNCHANGED <<sampleVars, idx>>

\* Faulty variant: the event is not counted.
PlayPopsUncounted ==
  /\ at = "play"
  /\ ~ isQueueDone
  /\ PopEvent
  /\ UNCHANGED <<buildVars, loopVars>>

PlayPops ==
  /\ at = "play"
  /\ ~ isQueueDone
  /\ PopEvent
  /\ idx' = idx + 1
  /\ UNCHANGED <<buildVars, at, nbOfEvents>>

\* Faulty variant: the loop leaves the last event.
StopsPlayingEarly ==
  /\ at = "play"
  /\ getQueueSize <= 1
  /\ at' = "free" /\ idx' = 1 /\ nbOfEvents' = 0
  /\ UNCHANGED sampleVars

StopsPlaying ==
  /\ at = "play"
  /\ isQueueDone
  /\ at' = "free" /\ idx' = 1 /\ nbOfEvents' = 0
  /\ UNCHANGED sampleVars

ProgramProgress ==
  \/ BuildProgress /\ UNCHANGED loopVars
  \/ PlayPops
  \/ StopsPlaying

ClientNext ==
  \/ Builds
  \/ CallsOnce
  \/ StartsPlaying
  \/ ProgramProgress

\* A program goes on with what it has started: the calls of buildSampleQueue,
\* the library's loops and its own loop.
ClientSpec ==
  ClientInit /\ [][ClientNext]_clientVars /\ WF_clientVars(ProgramProgress)

-----------------------------------------------------------------------------
(* Properties.                                                              *)

\* A new event of that type and date-time is in the slot of its stamp, with none
\* free between that and the millisecond of the date-time.
TookFirstFreeSlot(type, time) ==
  \E key \in DOMAIN eventList \ DOMAIN listAtBuild :
    /\ eventList[key] = [type |-> type, time |-> time, stamp |-> key]
    /\ TotalMilliseconds(time) <= key
    /\ TotalMilliseconds(time) .. (key - 1) \subseteq DOMAIN eventList

\* buildSampleQueue adds four events, and moves none of the others, whatever the
\* queue held: two booking requests and two break points, each with its own
\* date-time and in the first slot that was free at or after that
\* (EventQueueManager::buildSampleQueue with EventQueue::addEvent).
BuildAddsTheSamples ==
  [][step = Len(samples) + 1 /\ step' = 0 =>
       /\ Restrict(eventList, DOMAIN listAtBuild) = listAtBuild
       /\ getQueueSize = Cardinality(DOMAIN listAtBuild) + 4
       /\ \A time \in {BookingRequest, BookingRequestForCRS} : TookFirstFreeSlot(BKG_REQ, time)
       /\ \A time \in {BreakPoint1, BreakPoint2} : TookFirstFreeSlot(BRK_PT, time)]_clientVars

Queued(type) == Cardinality({key \in DOMAIN eventList : eventList[key].type = type})

\* The progress of a type, played over expected, and the overall one never
\* exceed 100 %, even counting what is still queued: addStatus announces the
\* events before they come, reset forgets the played and the queued together.
ProgressWithinExpected ==
  /\ progressStatus.current + getQueueSize <= progressStatus.expected
  /\ \A type \in DOMAIN progressStatusMap :
       progressStatusMap[type].current + Queued(type) <= progressStatusMap[type].expected

\* No call of a program that adds the sample events only ever raises an
\* exception, save popEvent on an empty queue: all types have a status.
SamplesRaiseNothing ==
  [][/\ reply' # "threw"
     /\ reply' = "caught" /\ reply # "caught" => isQueueDone]_clientVars

\* EventQueueManagementTestSuite.cpp:141: the main loop pops as many events as
\* the queue held before it.
PlayCountsTheEvents ==
  [][at = "play" /\ at' = "free" => idx - 1 = nbOfEvents]_clientVars

\* The main loop ends with an empty queue.
PlayEmptiesTheQueue == at = "play" ~> at = "free" /\ isQueueDone
=============================================================================
