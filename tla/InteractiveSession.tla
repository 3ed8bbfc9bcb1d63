-------------------------- MODULE InteractiveSession --------------------------
(***************************************************************************)
(* The interactive program (main of ui/cmdline/sevmgr.cpp): it builds the  *)
(* sample queue, pops the first event, and then executes the commands of   *)
(* the user on one EventStruct, lCurrentInteractiveEventStruct, which is   *)
(* ioEvent here.  Nothing is caught in main: an exception ends the program.*)
(***************************************************************************)
EXTENDS SampleQueue

\* The user types date-times to the second.
ASSUME TypedDateTimeAssumption ==
  \A dateTime \in DateTime : dateTime = TotalMilliseconds(dateTime) * TicksPerMs

VARIABLES
  at,     \* where main is
  lCurrentInteractiveDateTime,
  lCurrentInteractiveEventType,
  said,   \* what the last command told the user
  listAtCommand  \* history: the event list when the command was typed

promptVars == <<lCurrentInteractiveDateTime, lCurrentInteractiveEventType>>
mainVars == <<at, promptVars, said, listAtCommand>>
sessionVars == <<sampleVars, mainVars>>

Places == {"start", "built", "loop", "prompt", "select", "run", "ended", "terminated"}
Sayings == {"nothing", "text", "empty", "popped", "selected", "notSelected",
            "breakPoint", "noBreakPoint"}

\* Types of the session's variables and of the queue's under it.
SessionTypeOK ==
  /\ TypeOK
  /\ step \in 0 .. (Len(samples) + 1)
  /\ at \in Places
  /\ lCurrentInteractiveDateTime \in DateTime
  /\ lCurrentInteractiveEventType \in EventType
  /\ said \in Sayings
  /\ at \in {"loop", "prompt", "select", "run"} => ioEvent \in Event

SessionInit ==
  /\ SampleInit
  /\ at = "start"
  /\ lCurrentInteractiveDateTime = DEFAULT_EVENT_OLDEST_DATETIME
  /\ lCurrentInteractiveEventType = BKG_REQ
  /\ said = "nothing"
  /\ listAtCommand = EmptyMap

-----------------------------------------------------------------------------
(* Before the first prompt. *)

Start ==
  /\ at = "start"
  /\ BuildSampleQueue
  /\ at' = "built"
  /\ UNCHANGED <<promptVars, said, listAtCommand>>

PopsTheFirstEvent ==
  /\ at = "built" /\ step = 0
  /\ PopEvent
  /\ at' = "loop"
  /\ UNCHANGED <<buildVars, promptVars, said, listAtCommand>>

\* Faulty variant: the stamp is taken for the date-time.
PromptsTheStamp ==
  /\ at = "loop"
  /\ lCurrentInteractiveDateTime' = ioEvent.stamp
  /\ lCurrentInteractiveEventType' = ioEvent.type
  /\ at' = "prompt"
  /\ UNCHANGED <<sampleVars, said, listAtCommand>>

\* The top of the loop: the prompt shows the event that the struct holds.
Prompts ==
  /\ at = "loop"
  /\ lCurrentInteractiveDateTime' = ioEvent.time
  /\ lCurrentInteractiveEventType' = ioEvent.type
  /\ at' = "prompt"
  /\ UNCHANGED <<sampleVars, said, listAtCommand>>

-----------------------------------------------------------------------------
(* Commands.                                                                *)

Typed(place) ==
  /\ at = "prompt"
  /\ at' = place
  /\ listAtCommand' = eventList

\* help, list, display, json_list, json_display, an empty line, a word that is
\* no command.
Inspects ==
  /\ Typed("loop")
  /\ said' = "text"
  /\ UNCHANGED <<sampleVars, promptVars>>

PlaysNext ==
  /\ Typed("loop")
  /\ IF isQueueDone
       THEN said' = "empty" /\ UNCHANGED sampleVars
       ELSE said' = "popped" /\ PopEvent /\ UNCHANGED buildVars
  /\ UNCHANGED promptVars

\* The date-time is any that the user can type, the one of the prompt included:
\* see DateTimeParser.tla, which also tells when the program ends here.
Selects ==
  /\ Typed("select")
  /\ \E dateTime \in DateTime : Select(dateTime)
  /\ UNCHANGED <<buildVars, promptVars, said>>

SelectTerminates ==
  /\ Typed("terminated")
  /\ UNCHANGED <<sampleVars, promptVars, said>>

Selected ==
  /\ at = "select" /\ pc \in {"idle", "aborted"}
  /\ IF pc = "aborted" \/ reply = "threw"
       THEN at' = "terminated" /\ UNCHANGED said
       ELSE /\ at' = "loop"
            /\ said' = IF reply = "true" THEN "selected" ELSE "notSelected"
  /\ UNCHANGED <<sampleVars, promptVars, listAtCommand>>

Runs ==
  /\ Typed("run")
  /\ Run
  /\ UNCHANGED <<buildVars, promptVars, said>>

\* The type that the user is told about is read from the struct, which run
\* fills only if it pops something.
HasRun ==
  /\ at = "run" /\ pc = "idle"
  /\ IF reply = "threw"
       THEN at' = "terminated" /\ UNCHANGED <<lCurrentInteractiveEventType, said>>
       ELSE /\ at' = "loop"
            /\ lCurrentInteractiveEventType' = ioEvent.type
            /\ said' = IF ioEvent.type = BRK_PT THEN "breakPoint" ELSE "noBreakPoint"
  /\ UNCHANGED <<sampleVars, lCurrentInteractiveDateTime, listAtCommand>>

Quits ==
  /\ Typed("ended")
  /\ UNCHANGED <<sampleVars, promptVars, said>>

-----------------------------------------------------------------------------
MainProgress ==
  \/ BuildProgress /\ UNCHANGED mainVars
  \/ Start
  \/ PopsTheFirstEvent
  \/ Prompts
  \/ Selected
  \/ HasRun

UserTypes == Inspects \/ PlaysNext \/ Selects \/ SelectTerminates \/ Runs \/ Quits

Ended == at \in {"ended", "terminated"} /\ UNCHANGED sessionVars

SessionNext == MainProgress \/ UserTypes \/ Ended

\* The program never waits but for the user, who owes it no command.
SessionSpec ==
  SessionInit /\ [][SessionNext]_sessionVars /\ WF_sessionVars(MainProgress)

-----------------------------------------------------------------------------
(* Properties.                                                              *)

UnderWay == at \in {"loop", "prompt", "select", "run", "ended"}

\* On the sample queue no call of the session fails: the types are known, the
\* slot that select finds holds the date-time asked for, and popEvent is called
\* only when there is something to pop (guards of main and buildSampleQueue).
SessionCallsSucceed == pc # "aborted" /\ reply \notin {"threw", "caught"}

\* Every sample event is either still queued or has been played once and
\* counted, by its type and overall (popEvent, run and select together).
SamplesAreAccountedFor ==
  UnderWay =>
    /\ progressStatus.current + getQueueSize = progressStatus.expected
    /\ \A type \in {BKG_REQ, BRK_PT} :
         progressStatusMap[type].current
           + Cardinality({key \in DOMAIN eventList : eventList[key].type = type})
           = progressStatusMap[type].expected

\* The session's time only moves forward: the event of the prompt is earlier
\* than everything still queued, whatever mix of next, run and select led there.
CurrentEventIsPast ==
  UnderWay => \A key \in DOMAIN eventList : ioEvent.stamp < key

\* "Break point found" is told when there was one to find, and only then, even
\* though main reads it from a struct that run on an empty queue leaves alone.
RunTellsTheTruth ==
  [][at = "run" /\ at' = "loop" =>
       (said' = "breakPoint") =
         (\E key \in DOMAIN listAtCommand : listAtCommand[key].type = BRK_PT)]_sessionVars

\* "Selection successful" goes with a new current event, and a failed
\* selection leaves the queue as it was.
SelectTellsTheTruth ==
  [][at = "select" /\ at' = "loop" =>
       (said' = "selected") = (eventList # listAtCommand)]_sessionVars

\* The session always gets to its next prompt, unless it has been terminated.
PromptComesBack ==
  at \in {"start", "built", "loop", "select", "run"} ~> at \in {"prompt", "terminated"}
=============================================================================
