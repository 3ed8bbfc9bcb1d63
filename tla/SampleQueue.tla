----------------------------- MODULE SampleQueue -----------------------------
(***************************************************************************)
(* The sample queue (EventQueueManager::buildSampleQueue), which every     *)
(* program of the repository plays: the demo, the test suite and the       *)
(* interactive session.  It is a fixed series of calls, with local         *)
(* EventStructs; while it runs, ioEvent stands for the one being added.    *)
(***************************************************************************)
EXTENDS EventQueueManager, Sequences

CONSTANTS  \* the date-times of the four events
  BreakPoint1, BookingRequestForCRS, BreakPoint2, BookingRequest

ASSUME SampleAssumption ==
  /\ {BreakPoint1, BookingRequestForCRS, BreakPoint2, BookingRequest} \subseteq DateTime
  /\ 0 < TotalMilliseconds(BreakPoint1)
  /\ TotalMilliseconds(BreakPoint1) < TotalMilliseconds(BookingRequestForCRS)
  /\ TotalMilliseconds(BookingRequestForCRS) < TotalMilliseconds(BreakPoint2)
  /\ TotalMilliseconds(BreakPoint2) < TotalMilliseconds(BookingRequest)
  /\ 2 \in ClientCounts

VARIABLES
  step,        \* the call of buildSampleQueue to come, or 0
  listAtBuild  \* history: the event list when buildSampleQueue was called

buildVars == <<step, listAtBuild>>
sampleVars == <<vars, buildVars>>

AddsStatus(type) == [call |-> "addStatus", type |-> type, arg |-> 2]
AddsEvent(type, time) == [call |-> "addEvent", type |-> type, arg |-> time]

\* Faulty variants: the break points are not announced, and they come last.
samplesWithoutStatus ==
  << AddsStatus(BKG_REQ),
     AddsEvent(BKG_REQ, BookingRequest), AddsEvent(BKG_REQ, BookingRequestForCRS),
     AddsEvent(BRK_PT, BreakPoint1), AddsEvent(BRK_PT, BreakPoint2) >>
samplesWithLateBreakPoint ==
  << AddsStatus(BKG_REQ),
     AddsEvent(BKG_REQ, BreakPoint2), AddsEvent(BKG_REQ, BookingRequestForCRS),
     AddsStatus(BRK_PT),
     AddsEvent(BRK_PT, BreakPoint1), AddsEvent(BRK_PT, BookingRequest) >>

samples ==
  << AddsStatus(BKG_REQ),
     AddsEvent(BKG_REQ, BookingRequest), AddsEvent(BKG_REQ, BookingRequestForCRS),
     AddsStatus(BRK_PT),
     AddsEvent(BRK_PT, BreakPoint1), AddsEvent(BRK_PT, BreakPoint2) >>

SampleInit ==
  /\ Init
  /\ step = 0
  /\ listAtBuild = EmptyMap

\* Bound: the counters hold the four events to come.
SamplesFitCounters ==
  /\ getQueueSize + progressStatus.current + 4 <= MaxCount
  /\ addStatusIsDefined(4)

BuildSampleQueue ==
  /\ pc = "idle" /\ step = 0
  /\ SamplesFitCounters
  /\ step' = 1
  /\ listAtBuild' = eventList
  /\ UNCHANGED vars

\* Each call starts when the one before has returned.
BuildCalls ==
  /\ step \in 1..Len(samples)
  /\ LET sample == samples[step] IN
       \/ sample.call = "addStatus" /\ AddStatus(sample.type, sample.arg)
       \/ sample.call = "addEvent" /\ AddEvent(NewEvent(sample.type, sample.arg))
  /\ step' = step + 1
  /\ UNCHANGED listAtBuild

BuildReturns ==
  /\ pc = "idle" /\ step = Len(samples) + 1
  /\ step' = 0
  /\ listAtBuild' = EmptyMap
  /\ UNCHANGED vars

\* The loop of addEvent, inside or outside of buildSampleQueue.
LibraryRuns == Progress /\ UNCHANGED buildVars

BuildProgress == BuildCalls \/ BuildReturns \/ LibraryRuns
=============================================================================
