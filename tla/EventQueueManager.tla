-------------------------- MODULE EventQueueManager --------------------------
(***************************************************************************)
(* The calls a client can make on the queue (command/EventQueueManager.cpp)*)
(* on top of the methods of EventQueue.  The library has no thread of its  *)
(* own: one client makes one call at a time.  A call that loops            *)
(* (addEvent, run, select) takes one step per iteration, with the locals   *)
(* of the C++ frame as variables; every other call is one step.            *)
(*                                                                         *)
(* The client owns one EventStruct, ioEvent, which it passes by reference  *)
(* to every call, as ui/cmdline/sevmgr.cpp and batches/sevmgr_demo.cpp do. *)
(***************************************************************************)
EXTENDS EventQueue

CONSTANTS
  ClientCounts,  \* the numbers the client gives to addStatus and updateStatus
  MaxStamp       \* bound: the client re-adds no event with a later stamp

ASSUME ClientAssumption ==
  /\ ClientCounts \subseteq Count
  /\ MaxStamp \in Int

VARIABLES
  pc,          \* "idle", the call in progress, or "aborted" (failed assertion)
  ioEvent,     \* the client's EventStruct
  reply,       \* how the last call came back
  lEventType,  \* local of run
  lDateTime,   \* local of select
  iDateTime,   \* argument of select
  atCall       \* history: the event list and the EventStruct at the call

callVars == <<pc, reply, lEventType, lDateTime, iDateTime, atCall>>
vars == <<queueVars, ioEvent, callVars>>

Calls == {"addEvent", "run", "select"}
Replies == {"none", "void", "status", "caught", "true", "false", "threw"}

Struct == Event \cup {NoEvent}

NoCall == [list |-> EmptyMap, event |-> NoEvent]

\* Types of the queue and of the frame of the call in progress; addEvent always
\* has an event to insert.
TypeOK ==
  /\ QueueTypeOK
  /\ pc \in Calls \cup {"idle", "aborted"}
  /\ ioEvent \in Struct
  /\ pc = "addEvent" => ioEvent \in Event
  /\ reply \in Replies
  /\ lEventType \in EventType
  /\ lDateTime \in DateTime
  /\ iDateTime \in DateTime

Init ==
  /\ QueueInit
  /\ pc = "idle"
  /\ ioEvent = NoEvent
  /\ reply = "none"
  /\ lEventType = BKG_REQ
  /\ lDateTime = DEFAULT_EVENT_OLDEST_DATETIME
  /\ iDateTime = DEFAULT_EVENT_OLDEST_DATETIME
  /\ atCall = NoCall

-----------------------------------------------------------------------------
(* Frames.  A call enters with its locals at their defaults and leaves them *)
(* at the defaults, so that two idle states differ only in what survives.   *)

Enter(call, event) ==
  /\ pc = "idle"
  /\ pc' = call
  /\ reply' = "none"
  /\ atCall' = [list |-> eventList, event |-> event]

Leave(to, answer) ==
  /\ pc' = to
  /\ reply' = answer
  /\ lEventType' = BKG_REQ
  /\ lDateTime' = DEFAULT_EVENT_OLDEST_DATETIME
  /\ iDateTime' = DEFAULT_EVENT_OLDEST_DATETIME
  /\ atCall' = NoCall

\* A call that starts and ends in the same step.
Atomic(answer) == pc = "idle" /\ Leave("idle", answer)

-----------------------------------------------------------------------------
(* addEvent *)

\* Bound: the overall counter never runs over.  A queue of 2^32 events is out
\* of reach of the code, a small counter in a model is not.
PopsFitCounter == getQueueSize + progressStatus.current < MaxCount

\* The event is new, or it is the one the client's struct still holds.
AddEvent(event) ==
  /\ PopsFitCounter
  /\ Enter("addEvent", event)
  /\ ioEvent' = event
  /\ UNCHANGED <<queueVars, lEventType, lDateTime, iDateTime>>

AddNewEvent == \E type \in EventType, time \in DateTime :
                 AddEvent(NewEvent(type, time))

AddHeldEvent ==
  /\ ioEvent \in Event
  /\ ioEvent.stamp <= MaxStamp
  /\ AddEvent(ioEvent)

InsertSucceeds ==
  /\ pc = "addEvent"
  /\ insert(ioEvent)
  /\ Leave("idle", "void")
  /\ UNCHANGED ioEvent

\* Faulty variants: a retry that skips a slot, and one at the same slot.
InsertFailsTwice ==
  /\ pc = "addEvent"
  /\ ~ isFree(ioEvent.stamp)
  /\ ioEvent' = [ioEvent EXCEPT !.stamp = @ + 2]
  /\ UNCHANGED <<queueVars, callVars>>

InsertFailsUnmoved ==
  /\ pc = "addEvent"
  /\ ~ isFree(ioEvent.stamp)
  /\ UNCHANGED vars

InsertFails ==
  /\ pc = "addEvent"
  /\ ~ isFree(ioEvent.stamp)
  /\ attemptsLeft
  /\ ioEvent' = IncrementEventTimeStamp(ioEvent)
  /\ UNCHANGED <<queueVars, callVars>>

-----------------------------------------------------------------------------
(* popEvent: the exception of the queue is caught, whatever raised it. *)

PopEvent ==
  \/ /\ isQueueDone
     /\ Atomic("caught")
     /\ UNCHANGED <<queueVars, ioEvent>>
  \/ \E key \in DOMAIN eventList :
       /\ popEvent(key)
       /\ ioEvent' = eventList[key]
       /\ Atomic(IF popEventThrows(key) THEN "caught" ELSE "status")

-----------------------------------------------------------------------------
(* run: the exception of the queue leaves the loop and reaches the client. *)

Run ==
  /\ Enter("run", ioEvent)
  /\ UNCHANGED <<queueVars, ioEvent, lEventType, lDateTime, iDateTime>>

\* Faulty variants: the break point is not looked at, or only the break point.
runGoesOnToTheEnd == ~ isQueueDone
runGoesOnWhenEmpty == lEventType # BRK_PT

runGoesOn == ~ isQueueDone /\ lEventType # BRK_PT

RunPops ==
  /\ pc = "run"
  /\ runGoesOn
  /\ \E key \in DOMAIN eventList :
       /\ popEvent(key)
       /\ ioEvent' = eventList[key]
       /\ IF popEventThrows(key)
            THEN Leave("idle", "threw")
            ELSE /\ lEventType' = eventList[key].type
                 /\ UNCHANGED <<pc, reply, lDateTime, iDateTime, atCall>>

RunReturns ==
  /\ pc = "run"
  /\ ~ runGoesOn
  /\ Leave("idle", "void")
  /\ UNCHANGED <<queueVars, ioEvent>>

-----------------------------------------------------------------------------
(* select: the stamp is looked up once, then events are popped until one    *)
(* has the date-time itself.                                                *)

Select(dateTime) ==
  \/ /\ ~ hasEventDateTime(dateTime)
     /\ Atomic("false")
     /\ UNCHANGED <<queueVars, ioEvent>>
  \/ /\ hasEventDateTime(dateTime)
     /\ Enter("select", ioEvent)
     /\ iDateTime' = dateTime
     /\ UNCHANGED <<queueVars, ioEvent, lEventType, lDateTime>>

\* Faulty variant: date-times compared by order.
selectGoesOnBefore == ~ isQueueDone /\ lDateTime < iDateTime

selectGoesOn == ~ isQueueDone /\ lDateTime # iDateTime

SelectPops ==
  /\ pc = "select"
  /\ selectGoesOn
  /\ \E key \in DOMAIN eventList :
       /\ popEvent(key)
       /\ ioEvent' = eventList[key]
       /\ IF popEventThrows(key)
            THEN Leave("idle", "threw")
            ELSE /\ lDateTime' = eventList[key].time
                 /\ UNCHANGED <<pc, reply, lEventType, iDateTime, atCall>>

\* The assertion after the loop, then the answer of the look-up.
SelectReturns ==
  /\ pc = "select"
  /\ ~ selectGoesOn
  /\ IF lDateTime = iDateTime THEN Leave("idle", "true") ELSE Leave("aborted", "none")
  /\ UNCHANGED <<queueVars, ioEvent>>

-----------------------------------------------------------------------------
(* reset, addStatus, updateStatus *)

Reset ==
  /\ reset
  /\ Atomic("void")
  /\ UNCHANGED ioEvent

AddStatus(type, n) ==
  /\ addStatusIsDefined(n)
  /\ addStatus(type, n)
  /\ Atomic("void")
  /\ UNCHANGED ioEvent

UpdateStatus(type, n) ==
  /\ updateStatus(type, n)
  /\ Atomic("void")
  /\ UNCHANGED ioEvent

-----------------------------------------------------------------------------
Call ==
  \/ AddNewEvent
  \/ AddHeldEvent
  \/ PopEvent
  \/ Run
  \/ \E dateTime \in DateTime : Select(dateTime)
  \/ Reset
  \/ \E type \in EventType, n \in ClientCounts : AddStatus(type, n)
  \/ \E type \in EventType, n \in ClientCounts : UpdateStatus(type, n)

Progress ==
  \/ InsertSucceeds
  \/ InsertFails
  \/ RunPops
  \/ RunReturns
  \/ SelectPops
  \/ SelectReturns

\* The process is gone after a failed assertion.
Aborted == pc = "aborted" /\ UNCHANGED vars

Next == Call \/ Progress \/ Aborted

Spec == Init /\ [][Next]_vars

\* A call that has been entered runs on: nothing in the library waits.  The
\* client owes no further call.
FairSpec == Spec /\ WF_vars(Progress)
=============================================================================
