-------------------------- MODULE EventQueueAccess --------------------------
(***************************************************************************)
(* What a client of SEVMGR_Service can do to its queue besides the calls   *)
(* of EventQueueManager: look at the statuses by type, list the events as  *)
(* text or JSON, and, through the reference that getEventQueue hands out,  *)
(* write the statuses itself.  A look-up answers with a reference into the *)
(* queue, a list with a copy: the client keeps both while it goes on       *)
(* calling.                                                                *)
(***************************************************************************)
EXTENDS EventQueueManager, Sequences, SequencesExt

CONSTANTS
  Silent,         \* types for whose events StdAir exports an empty string
  ClientStatuses, \* the statuses that the client writes
  MaxWrites,      \* bound: calls that write a status
  NoListing       \* the client has no list of what is queued

ASSUME AccessAssumption ==
  /\ Silent \subseteq EventType
  /\ ClientStatuses \subseteq ProgressStatus
  /\ MaxWrites \in Nat

VARIABLES
  referred,   \* types into whose status the client holds a reference
  listing,    \* the last list, its types and its events, while nothing was added
  popped,     \* history: the events of its types popped since
  announced,  \* history: the totals announced of each type
  writes      \* number of the calls that have written a status

lookVars == <<referred, listing, popped>>
writeVars == <<announced, writes>>
accessVars == <<vars, lookVars, writeVars>>

AccessInit ==
  /\ Init
  /\ referred = {}
  /\ listing = NoListing
  /\ popped = <<>>
  /\ announced = EmptyMap
  /\ writes = 0

\* Types of the client's variables and of the queue's under them.
AccessTypeOK ==
  /\ TypeOK
  /\ referred \subseteq EventType
  /\ listing # NoListing => /\ listing.types \subseteq EventType
                            /\ listing.events \in Seq(Event)
  /\ popped \in Seq(Event)
  /\ DOMAIN announced \subseteq EventType
  /\ announced \in [DOMAIN announced -> Count]
  /\ writes \in 0..MaxWrites

-----------------------------------------------------------------------------
(* Look-ups by type.  A failed assertion is the end of the program.         *)

Answers(outcome) ==
  /\ pc = "idle"
  /\ IF outcome = "aborted" THEN Leave("aborted", "none")
     ELSE Leave("idle", IF outcome = "threw" THEN "threw" ELSE "status")
  /\ UNCHANGED <<queueVars, ioEvent, listing, popped, writeVars>>

HasProgressStatus(type) ==
  /\ Atomic(IF hasProgressStatus(type) THEN "true" ELSE "false")
  /\ UNCHANGED <<queueVars, ioEvent, lookVars, writeVars>>

Refers(type, outcome) ==
  /\ Answers(outcome)
  /\ referred' = IF outcome = "reference" THEN referred \cup {type} ELSE referred

GetStatus(type) == Refers(type, getStatus(type))

GetExpectedTotal(type) == Refers(type, getExpectedTotalNbOfEvents(type))

GetActualTotal(type) == Refers(type, getActualTotalNbOfEvents(type))

\* The service has no method for these two: they are called on the queue.
GetCurrentNb(type) == Refers(type, getCurrentNbOfEvents(type))

CalculateProgress(type) == Refers(type, calculateProgress(type))

LooksUp(type) ==
  \/ HasProgressStatus(type)
  \/ GetStatus(type)
  \/ GetExpectedTotal(type)
  \/ GetActualTotal(type)
  \/ GetCurrentNb(type)
  \/ CalculateProgress(type)

-----------------------------------------------------------------------------
(* Lists. *)

\* The events of some types, and the i-th slot of a list: i - 1 come before it.
slotsOf(types) == {key \in DOMAIN eventList : eventList[key].type \in types}

slotAt(slots, i) == CHOOSE key \in slots : Cardinality({k \in slots : k < key}) = i - 1

\* Faulty variant: the list is browsed with reverse iterators.
eventsBackwards(types) ==
  LET slots == slotsOf(types)
      n == Cardinality(slots)
  IN  [i \in 1..n |-> eventList[slotAt(slots, n + 1 - i)]]

\* The loop over the list, in the order of the map, with its test of the type.
eventsOf(types) ==
  LET slots == slotsOf(types)
  IN  [i \in 1..Cardinality(slots) |-> eventList[slotAt(slots, i)]]

Lists(types) ==
  /\ Atomic("void")
  /\ listing' = [types |-> types, events |-> eventsOf(types)]
  /\ popped' = <<>>
  /\ UNCHANGED <<queueVars, ioEvent, referred, writeVars>>

\* list (), and list (type)
List == Lists(EventType) \/ \E type \in EventType : Lists({type})

\* An event without a JSON form is left out; one whose form read_json cannot
\* read, which depends on its content, ends the export with nothing returned.
JsonExports(types) ==
  \/ Lists(types \ Silent)
  \/ /\ \E key \in DOMAIN eventList : eventList[key].type \in types \ Silent
     /\ Atomic("threw")
     /\ UNCHANGED <<queueVars, ioEvent, lookVars, writeVars>>

JsonExportEventQueue == JsonExports(EventType) \/ \E type \in EventType : JsonExports({type})

\* A command with a type that is understood gets the events of the type, with
\* any other or none, all; what is no command for events, an error in JSON.
JsonHandler ==
  \/ JsonExportEventQueue
  \/ Atomic("void") /\ UNCHANGED <<queueVars, ioEvent, lookVars, writeVars>>

-----------------------------------------------------------------------------
(* Writing the statuses: through the reference of getEventQueue, but for    *)
(* addStatus and updateStatus (type, number), which the service has too.    *)

Writes ==
  /\ writes < MaxWrites
  /\ writes' = writes + 1
  /\ Atomic("void")
  /\ UNCHANGED <<ioEvent, lookVars>>

WritesOverall(status) ==
  /\ Writes
  /\ \/ setOverallStatus(status)
     \/ setNumbers(status.current, status.actual)
     \/ setCurrentNbOfEvents(status.current)
     \/ setExpectedTotalNbOfEvents(status.expected)
  /\ UNCHANGED announced

\* Nothing happens to a type without a status.
WritesType(type, status) ==
  /\ Writes
  /\ setStatus(type, status)
  /\ announced' = [announced EXCEPT ![type] = status.expected]
  /\ UNCHANGED <<eventList, progressStatus>>

\* What the type has been announced with, and n more.
announcedAlso(type, n) ==
  With(announced, type, IF type \in DOMAIN announced THEN Plus(announced[type], n) ELSE n)

MergesType(type, status) ==
  /\ Writes
  /\ mergeStatus(type, status)
  /\ announced' = announcedAlso(type, status.expected)

-----------------------------------------------------------------------------
(* The calls of EventQueueManager, as the client takes note of them. *)

Pops ==
  /\ PopEvent \/ RunPops \/ SelectPops
  /\ popped' = IF /\ eventList' # eventList
                  /\ listing # NoListing /\ ioEvent'.type \in listing.types
               THEN Append(popped, ioEvent') ELSE popped
  /\ UNCHANGED <<referred, listing, writeVars>>

\* From here on the list does not say what is queued.
Refills ==
  /\ AddNewEvent \/ AddHeldEvent \/ Reset
  /\ listing' = NoListing
  /\ popped' = <<>>
  /\ UNCHANGED <<referred, writeVars>>

Announces(type, n) ==
  /\ Writes
  /\ addStatusCast(type, n)
  /\ announced' = announcedAlso(type, n)

Updates(type, n) ==
  /\ Writes
  /\ updateStatus(type, n)
  /\ UNCHANGED announced

OtherCalls ==
  /\ \/ InsertSucceeds \/ InsertFails
     \/ Run \/ RunReturns
     \/ (\E dateTime \in DateTime : Select(dateTime)) \/ SelectReturns
     \/ Aborted
  /\ UNCHANGED <<lookVars, writeVars>>

AccessNext ==
  \/ Pops
  \/ Refills
  \/ \E type \in EventType, n \in ClientCounts : Announces(type, n) \/ Updates(type, n)
  \/ OtherCalls
  \/ \E type \in EventType : LooksUp(type)
  \/ List
  \/ JsonHandler
  \/ \E status \in ClientStatuses : WritesOverall(status)
  \/ \E type \in EventType, status \in ClientStatuses :
       WritesType(type, status) \/ MergesType(type, status)

AccessSpec == AccessInit /\ [][AccessNext]_accessVars

-----------------------------------------------------------------------------
(* Properties. *)

\* A reference that a look-up has answered with stays valid, and so does the
\* look-up: whatever is popped, thrown, reset or written since, the type keeps
\* its status (_progressStatusMap is never shrunk, not by EventQueue::reset).
ReferencesStayValid == referred \subseteq DOMAIN progressStatusMap

\* The types that answer are those that were announced, and their expected
\* totals are all that was announced, over resets ("not the expected one",
\* EventQueue::reset), pops, restarts of the current number, new actual totals
\* and casts that have lost the overall total.
AnnouncementsAreKept ==
  announced = [type \in DOMAIN progressStatusMap |-> progressStatusMap[type].expected]

\* A list foretells the future: as long as nothing is added, the events of its
\* types leave the queue in its order, whoever pops them, and the list is
\* exhausted when the queue is (EventQueue::list, BomJSONExport, popEvent).
ListingForetellsThePops ==
  listing # NoListing =>
    /\ IsPrefix(popped, listing.events)
    /\ isQueueDone => popped = listing.events
=============================================================================
