# SEvMgr in TLA+

SEvMgr (`sevmgr/`) is a C++ library for discrete-event simulation: clients put events with
date-times into a queue, and take them out in order while progress statuses count what was
announced and what was played.  It has no threads, no network and no persistence.  What is hard in
it is elsewhere: calls that may come in any order and each leave state to the next one, loops and
retries whose exit conditions look at other data than their bodies change, exceptions and
assertions in the middle of an update, unsigned counters, and date-times of one resolution used as
keys of another.

This directory models that code, model-checks it with TLC and proves its safety properties with TLAPS.

- [Inventory](#inventory): the parts of the system, their state, operations and hazards
- [Modules](#modules): which module models what, and how it corresponds to the code
- [Runs](#runs): what is model-checked, with which bounds, and what it shows
- [Findings](#findings): where the code and what is said of it disagree
- [Proofs](#proofs): what is proved, from what, and how
- [Not modelled](#not-modelled) and [plan](#plan)

## Inventory

| Part | State | Operations | What makes it correct |
|---|---|---|---|
| `EventQueue` (`bom/EventQueue.*`) | `_eventList`, a `std::map` from stamps (milliseconds since 01-JAN-2010) to `EventStruct`; `_progressStatus`, overall; `_progressStatusMap`, by event type | `addEvent`, `popEvent`, `reset`, `addStatus`, `updateStatus`, setters, look-ups by type, lists | no event is lost, replaced or moved before its time; pops come in order; the totals are sums; what was announced of a type stays announced, and a reference to it valid |
| `EventQueueManager` (`command/`) | none of its own: the locals of its loops, and the caller's `EventStruct` | the queue's operations plus `run` (to the next break point), `select` (to a date-time) and `buildSampleQueue` | a loop plays a prefix, stops where it says, and ends; an exception leaves a queue that can be used |
| `SEVMGR_Service` (`service/`, `factory/`) | a pointer on a context of a global pool; the context points on a queue and on a counted StdAir service | three constructors, the destructor, one method per manager operation, `getEventQueue` | a service has its own queue, a reference to it reaches no other one, and the StdAir service lives as long as someone uses it |
| `BomJSONExport` (`bom/`), `jsonHandler` | none | the events of all types or of one as JSON | it shows what is queued, in the order in which it will be popped |
| Interactive session (`ui/cmdline/sevmgr.cpp`) | the current `EventStruct`, its date-time and type | the commands next, run, select, list, display, json_list, json_display, help, quit; the date-time parser of select | what it tells is true; no command ends it but quit |
| Demo (`batches/sevmgr_demo.cpp`) and test suite (`test/sevmgr/`) | a loop counter | build the sample, play it, run, reset | the loop ends and has counted every event |
| `EventQueueKey`, constants, Python binding | none that changes | none that is used | see [Not modelled](#not-modelled) |
| StdAir, Boost, the standard library | events, statuses, smart pointers, dates | external | used as the code under `sevmgr/` uses them |

How the parts interact: a client calls a method of `SEVMGR_Service`, which checks its context
pointer, takes the queue of its context and delegates to `EventQueueManager`, which calls methods of
`EventQueue`.  All is by direct call in the client's thread.  Four things go through references:
the queue itself, which `getEventQueue` hands out; the statuses by type that its look-ups answer with;
the client's `EventStruct` (written by `popEvent`, `run`, `select` and, less
visibly, by `addEvent`, which moves its stamp), and the StdAir service shared by counted pointers.

The behaviours that are hard, and that the properties aim at (the full list with lines is under
`hazards` in `PROJECT.json`):

- **Key against content.** The list is keyed by stamp, truncated to milliseconds and moved on by
  `addEvent` when the slot is taken; `select` looks an event up by stamp and then waits for it by
  date-time.
- **Half-done updates.** `popEvent` erases the event and counts it before the look-up of its type's
  status, which throws for an unknown type.
- **Loops.** `addEvent` retries with no working bound; `run` and `select` end on conditions read
  from the caller's struct or from a look-up made before the loop.
- **Counters.** `updateStatus` adds the unsigned difference of two totals to the overall ones;
  `addStatus` may be called again, before or after pops and resets.
- **Sequences of calls.** A struct held by the client is added again after it was popped; the sample
  is built on a queue that is not empty; next, run and select mix.
- **Exceptions and assertions.** What is left in the queue, in the struct and in the pools.
- **Lifetimes.** Shared StdAir services, contexts that outlive their services, a factory singleton
  that is deleted from outside, and with it the contexts of services that are still used; one that could not be
  registered, and whose contexts then outlive their queues; a reference to a queue that outlives its service.
- **Queries.** The look-ups by type fail in two ways, by assertion or by exception; a list is read, and
  acted upon, while the queue goes on.

## Modules

```
 StdAir  <-  EventQueue  <-  EventQueueManager  <-  EventQueueCorrectness  <-  EventQueueProofs
                               ^     ^                 |  (INSTANCE)              <-  EventQueueSafety
            EventQueueAccess --+     |                 v                                ^
              ^                      |               EventCalendar                      |
  EventQueueAccessProofs (*)         |                 ^  (INSTANCE, one per service)   |
                                     |               SEVMGR_Service                     |
                                     |                 ^                                |
                SampleQueue ---------+               SEVMGR_ServiceProofs               |
                  ^   ^   ^--------------------------------- SampleProofs --------------+
                  |   |                                         ^   ^
                  |   +-- SampleClients       <-  ClientProofs -+   |
                  +------ InteractiveSession  <-  SessionProofs ----+

 DateTimeParser  <-  ParserProofs
```

(*) extends `EventQueueSafety` as well.  An arrow points at the module that is extended.  Each `MC...` module extends one of these and only gives
values to constants.

| Module | Models |
|---|---|
| `StdAir` | The values the code gets from StdAir and from the language: events, `total_milliseconds` (a C++ division, towards zero), `Count_T` arithmetic modulo `MaxCount + 1`, `ProgressStatus`, `std::map`.  External, each operator as `sevmgr/` relies on it. |
| `EventQueue` | `bom/EventQueue.cpp`: the three members, one operator per method, to be conjoined in actions. |
| `EventQueueManager` | `command/EventQueueManager.cpp` and the client's side of a call: one action per call; `addEvent`, `run` and `select` take one step per iteration. |
| `EventQueueCorrectness` | The properties of the queue, the inductive invariant and the statements that the code does not keep. |
| `EventQueueAccess` | What a client does besides the manager's calls: the look-ups by type with how each fails, the lists and their JSON form (`BomJSONExport`, `jsonHandler`), and the public setters, through the reference of `getEventQueue`.  The client keeps the references and the list that it got while it goes on calling. |
| `EventCalendar` | The abstract specification of the queue: pending payloads at instants, schedule, serve the earliest, clear. |
| `SampleQueue` | `buildSampleQueue`: a fixed series of calls of the manager. |
| `SampleClients` | The demo's main loop and the test suite's calls, in any order and number. |
| `InteractiveSession` | The main loop of `sevmgr.cpp` with every command. |
| `DateTimeParser` | `parseEventDateTime` and its tokens: the argument of the command select. |
| `SEVMGR_Service` | Services, contexts, factory, StdAir pointers, references to queues; queues as calendars. |
| `EventQueueProofs`, `EventQueueSafety`, `EventQueueAccessProofs`, `SampleProofs`, `ClientProofs`, `SessionProofs`, `ParserProofs`, `SEVMGR_ServiceProofs` | Theorems and their proofs. |

**State.** `eventList`, `progressStatus` and `progressStatusMap` are the members of `EventQueue`
without their underscores.  `pc` says which call is in progress (`"idle"`, `"addEvent"`, `"run"`,
`"select"`) or that an assertion failed (`"aborted"`); `reply` is how the last call came back:
`"void"`, `"true"`/`"false"`, `"status"` (a progress status), `"caught"` (the manager swallowed the
exception and returned a default set), `"threw"`.  `ioEvent` is the `EventStruct` that the client
passes by reference; during `buildSampleQueue`, which has structs of its own, it stands for the one
being added; in the session it is `lCurrentInteractiveEventStruct`.  `lEventType`, `lDateTime` and
`iDateTime` are locals and argument of the loops, reset to their defaults when the frame ends.
`atCall` is a history variable, the list and the struct at the call, used by properties only.

**Steps.** A call without a loop is one step: nothing else runs meanwhile.  The loops take a step
per iteration so that what they have done so far can be spoken of; the model interleaves nothing
with them.  An exception is a step that leaves the call with the state as it was at the `throw`:
`popEvent` of an unknown type leaves the event erased, the overall counter incremented and the
client's struct filled.  A failed assertion stops the program (`Aborted` only stutters).

**Data.** An event is its type, its date-time and its stamp.  A date-time is a number of clock ticks
and `TicksPerMs` of them make a millisecond, so that two date-times can share a stamp.  The content
of booking requests, and all texts, are left out.

**In the look-ups** each operator of `EventQueue` gives its outcome: a reference, a ratio, an exception or a
failed assertion, by whether the method asserts or throws for a type without a status.  `castOf` is the
conversion of a double to the counter's type, which is undefined out of range: any number.  In
`EventQueueAccess` the variables `referred` and `listing` are what the client holds; `popped` and `announced`
are histories that the properties compare it with.

**In the services** the constructor takes one step per call that can throw: the StdAir service (by
`make_shared`, or a copy of the application's pointer), the context, the end.  `useCount` is the
counter of the smart pointers; `serviceContext[s]` is `_sevmgrServiceContext`.  A call on a service is
an action of `EventCalendar` on the queue of its context, which is what the queue is proved to
implement; which calls abort or throw is `EventQueueManager`'s matter and not repeated.  When the last
pointer on a StdAir service is given up, StdAir may make `FacSupervisor` delete the factories, or not
(`cleaning`, `CleanAll`): other services are then left with a pointer to a deleted context (`Dangling`), and no
call is made on them.  What a throw inside the context's step leaves is modelled call by call: the factory made and
held by `_instance` but not registered (`InstanceThrows`; `supervised` counts the registrations, the history
`unregistered` remembers the throw), or a queue that no context leads to (`CreateThrows`).  A factory that
`FacSupervisor` does not know survives the deletion of the others, and its contexts lose their queues
(`ContextsAreForgotten`).  The factory of the queues, `FacBom<EventQueue>`, is StdAir's own and taken as
registered.  `reference` is an `EventQueue&` that the application got from `getEventQueue`, possibly of
a service that is gone since.

## Runs

| Run | Configuration | States | Question |
|---|---|---|---|
| `order` | `MCEventQueue_order.cfg` | 148,434 | where events go, in which order they leave, what the loops leave behind, that every call ends and after how many iterations, refinement of `EventCalendar` |
| `counters` | `MCEventQueue_counters.cfg` | 153,937 | the totals under unsigned wrap-around, and a `reset` that keeps the actual totals |
| `clients` | `MCSampleClients.cfg` | 2,753 | the demo and the test suite, building up to three times on whatever is queued |
| `session` | `MCInteractiveSession.cfg` | 291 | every sequence of interactive commands |
| `parser` | `MCDateTimeParser.cfg` | 21,732 | every line of tokens on either side of every test of the parser |
| `access` | `MCEventQueueAccess.cfg` | 1,535,231 | look-ups, lists, JSON and the setters between the calls: references, announcements and lists that the client keeps |
| `services` | `MCService.cfg` | 2,931,549 | two services, two StdAir services, three contexts, constructors that throw at each call, a reference to a queue: lifetimes and separation |

What each property says is in the comment above it.  The ones that carry the most:

- `AddTakesFirstFreeSlot`, `AttemptsWithinQueue`: `addEvent` puts the event into the first free slot at
  or after its stamp, and fails at most once per queued event although its own bound does not work.
- `LoopPlaysAPrefix`, `RunStopsAtFirstBreakPoint`, `SelectReachesDateTime`, `ThrowLosesOnlyOneEvent`:
  at every point of a loop, at its return and at an exception, what has been popped is exactly a
  prefix of the list at the call, and where it ends is where the call promises.
- `IterationsAreBounded`: a step that goes on with a call leaves one event behind for good, so that retries and
  loops are bounded by the events there are, with no counter that works.
- `TotalsAddUp`, `TypesNeverOvercount`: overall expected and actual totals are the sums of the types'
  after any order of `addStatus`, `updateStatus`, `reset` and pops, also when unsigned differences wrap.
- `BuildAddsTheSamples`: whatever is queued, each of the four sample events ends up with its own date-time in the
  first slot that is free at or after that, and nothing else moves.
- `ImplementsCalendar`: with its loops, retries, exceptions and statuses the queue is a calendar.
- `ProgressWithinExpected`, `SamplesAreAccountedFor`: played and queued events together never exceed,
  and in a session always equal, what was announced.
- `RunTellsTheTruth`, `SelectTellsTheTruth`, `CurrentEventIsPast`: what the session says follows from the
  queue, though it is read from a struct that a call may have left alone.
- `ParsesWhatIsMeant`, `EndsOnlyOnImpossibleDates`: the parser's result in terms of the line typed.
- `ListingForetellsThePops`: a list, or JSON export, is the order in which the events will leave, through
  pops, failed pops, runs and selects.  `AnnouncementsAreKept`: the expected total of a type is all that was ever
  announced of it, though resets, casts out of range and setters pass over it.  `ReferencesStayValid`.
- `StdAirLivesWhileHeld`, `CallsReachOneQueue`, `ServicesImplementCalendars`: through throwing
  constructors, destruction in any order and factories deleted in between.
- `ContextsGoWithTheirQueues`: the factory is known to `FacSupervisor` once while there is one, so that contexts and
  queues are deleted together; after a `registerServiceFactory` that threw, it never is.
- `OneStdAirLeavesNoneDangling`: an application with one StdAir service at a time need not care whether its
  end deletes the factories, nor whether the contexts or only their queues go with it.  With two alive the code promises nothing, and the model has services that dangle.
- `ReferenceReachesItsServiceOnly`: a reference to a queue never reaches a service built later.

**Bounds, and why they are enough.**

- `order`: `MaxCount = 3` bounds the events queued or popped since the last reset to three (guard
  `PopsFitCounter`), `MaxStamp = 2` the stamps at which a struct is added again.  The date-times
  -3, 0, 1, 2 at two ticks a millisecond give stamps -1, 0, 0, 1: below the oldest date-time, a shared
  millisecond, and a neighbour to be displaced into.  Three events make a displaced event displace
  another, a break point be followed by events, and an unknown type sit between known ones.
- `counters`: two-bit counters wrap in both directions after two calls; two types are the least for
  which a sum differs from its terms; `ClientCounts = {1, 2}` reaches every value.  The sum of doubles
  that `addStatus` casts is kept in range (guard `addStatusIsDefined`): beyond it the cast is undefined.
- `clients`: `MaxCount = 12` holds three samples of four events, so that a build meets an empty, a
  full and a partly played queue, and displaced events meet displaced ones.
- `session`: the sample's four date-times, the oldest date-time and one that no event has.
- `parser`: tokens are taken on either side of each comparison, and the current date is one that
  not every month has.
- `access`: `MaxWrites = 2` and `MaxCount = 2` with announcements of 2, so that a second one overflows the
  cast; two types, of which one has no JSON form; two date-times of the same millisecond, so that a list
  shows an event that was displaced.  `MaxWrites` counts only the calls that write a status.
- `services`: the services, and the StdAir services, are interchangeable: they form a symmetry set, which is
  sound as no liveness is checked and no property names one of them.  `MaxContexts = 3` lets a third service be
  built after two, one of them destroyed; `MaxServed = 1` and one event at two instants make queues that differ.
- `MaxAttempts = 1000` is the code's constant; it is never reached.  In the run `attempts` it is 2.
- `ResetZeroesActual`: whether `ProgressStatus::reset` also clears the actual total is decided in
  StdAir.  It is a constant, `TRUE` in `order`, `clients` and `session`, `FALSE` in `counters`; the proofs hold for both.

**Fairness.** `FairSpec`, `ClientSpec` and `SessionSpec` assume weak fairness of the steps of a call that
has started and of the programs' own loops: the code is sequential and never waits for anything but
the user, so that what it has started it goes on with.  Nothing is assumed of the client or the user,
who need not make any call.  `CallsReturn`, `PlayEmptiesTheQueue` and `PromptComesBack` rest on it.

**Deadlock** is checked in all runs; a program that has ended or aborted stutters explicitly.

**Mutants.** Every property of these runs comes with a faulty variant of a definition (marked
"Faulty variant" in the modules, never part of a specification) under which TLC finds it violated: a skipped
slot, a pop from the wrong end, a difference that does not wrap, a context handed out twice, and so on.

## Findings

Each of these is a run in which TLC shows the code contradicting a statement of the repository.

| Run | Statement | What happens |
|---|---|---|
| `select_assert` | `EventQueueManager.cpp:272` asserts `lDateTime == iDateTime` | With a displaced event, or two date-times of one millisecond, the look-up succeeds by stamp, the loop waits by date-time, pops everything and the assertion fails. |
| `select_oldest` | `SEVMGR_Service.hpp:162-163`: tells whether an event "had been encountered and thus returned" | For the date-time at which the local starts, the loop is not entered: the answer is true, nothing is popped and the struct is left. |
| `caught` | `EventQueueManager.cpp:215`: "The event queue is empty: no event can be popped out." | Also said when the type of a popped event has no status; the event is gone. |
| `attempts` | `EventQueue.cpp:448-451`: a check on 1000 attempts "to avoid potential infinite loops", then "an assertion will fail" | The counter is a constant 0.  (`AttemptsWithinQueue` shows why the loop ends all the same.) |
| `parser_dates` | `sevmgr.cpp:293-295`: a date that cannot be understood is ignored and "the default value is kept" | Only `bad_month` is caught: a day that the month does not have ends the session. |

These are noted without a run.  A second `addStatus` for a type restarts its current number
and leaves the overall one, so that the overall current number is no longer the sum that
`EventQueue.hpp:53-65` shows; `TypesNeverOvercount` is what remains true.  `addEvent` will "update
accordingly the corresponding progress statuses" (`EventQueue.hpp:262-263`): it touches none, and an event whose type
was never announced makes a later pop throw.  The destructor of a service says
"Delete/Clean all the objects from memory" (`SEVMGR_Service.cpp:102`), and gives up the StdAir pointer only:
the context and its queue stay in the pools (`Destroy` in `SEVMGR_Service.tla`).  `EventQueue.hpp:254-256` says that
an event "with the same date-time" as a queued one is moved "one nanosecond forward": the code compares stamps, so
that an event is displaced by any other of the same millisecond, and it is displaced by one millisecond
(`EventQueue.cpp:441-446`, `454-462`); `AddTakesFirstFreeSlot` states what the code does, not the comment.  The
destructor of the factory clears `_instance` so as "to be clean for the next" `instance()`
(`FacSEVMGRServiceContext.hpp:26-29`): when `registerServiceFactory` has thrown, `_instance` is set and nothing will
ever run that destructor (`InstanceThrows`).

One comment can be read in two ways.  `SEVMGR_Service.hpp:165-167` calls the event that `select` returns "the copy of
the current first event of the queue".  The event has been popped by then, so that this is so of the queue before
its last pop, and not of the queue at the return; `SelectReachesDateTime` states both, the struct and what is left.

## Proofs

Everything below holds for every set of types and date-times, every clock resolution, every counter
width and both meanings of `ProgressStatus::reset`, under the named assumptions of the modules, which TLC
evaluates on every run:

- `EventTypeAssumption`, `DateTimeAssumption`, `CountAssumption`, `NoEventAssumption` (`StdAir`),
  `MaxAttemptsAssumption` (`EventQueue`), `ClientAssumption` (`EventQueueManager`), `AccessAssumption`
  (`EventQueueAccess`): what the constants stand for.
- `SampleAssumption` (`SampleQueue`), for the programs: the sample's date-times are in order, at different
  milliseconds and after the oldest date-time, as those of `EventQueueManager.cpp:34-101` are.
- `TypedDateTimeAssumption` (`InteractiveSession`): a typed date-time has no fraction of a millisecond.
- `TokenAssumption`, `CurrentDateTimeAssumption` (`DateTimeParser`): what the regular expression of
  `sevmgr.cpp:499-504` lets through (only the month and the minutes can be words), and that an `EventStruct`
  holds a day of the calendar.
- `NullAssumption` (`SEVMGR_Service`): `NULL`, the pointer to a deleted context, the numbers of contexts and the
  frame of a constructor are different things.

| Theorem | States |
|---|---|
| `EventQueueProofs!TypeCorrect` | `Spec => []TypeOK`: in particular no counter leaves the range of its unsigned type |
| `EventQueueSafety!Invariance` | `Spec => []IInv` |
| `EventQueueSafety!KeysAreStampsHolds`, `LoopPlaysAPrefixHolds`, `AttemptsWithinQueueHolds` | the three invariants of `order` |
| `EventQueueSafety!AddTakesFirstFreeSlotHolds`, `RunStopsAtFirstBreakPointHolds`, `SelectReachesDateTimeHolds`, `ThrowLosesOnlyOneEventHolds` | its action properties about the calls |
| `EventQueueSafety!IterationsAreBoundedHolds` | the bound on the iterations of `addEvent`, `run` and `select` |
| `EventQueueSafety!TotalsAddUpHolds`, `TypesNeverOvercountHolds` | the two invariants of `counters`, modulo the width of the counters |
| `EventQueueSafety!Refinement` | `Spec => ImplementsCalendar` |
| `SessionProofs!SessionKeepsThePromises` | what is proved of every client holds in a session |
| `EventQueueAccessProofs!ReferencesStayValidHolds`, `AnnouncementsAreKeptHolds`, `ListingForetellsThePopsHolds`, `AccessTypeOKHolds` | the invariants of `access`, for every status that the client writes |
| `EventQueueAccessProofs!OrderSurvivesTheSetters` | `AccessSpec =>` the three invariants and five action properties of `order` that are about the list and the calls: a client that writes the statuses itself spoils no order |
| `SEVMGR_ServiceProofs!ServiceInvariance`, `ReferenceReachesItsServiceOnlyHolds`, `ContextsGoWithTheirQueuesHolds` | the invariant of the paths from services to queues, and two invariants of `services` |
| `SEVMGR_ServiceProofs!CallsReachOneQueueHolds`, `ServicesImplementCalendarsHolds` | separation and refinement, for any number of services, StdAir services, contexts and events |
| `SEVMGR_ServiceProofs!LifetimeInvariance`, `StdAirLivesWhileHeldHolds`, `OneStdAirLeavesNoneDanglingHolds`, `ServiceTypeOKHolds` | the invariant of the counted pointers, and the other three invariants of `services` |
| `SessionProofs!SessionInvariance`, `SessionTypeOKHolds`, `SessionCallsSucceedHolds`, `SamplesAreAccountedForHolds`, `CurrentEventIsPastHolds`, `RunTellsTheTruthHolds`, `SelectTellsTheTruthHolds` | the invariant of the session, its four invariants and two action properties |
| `ClientProofs!ClientsKeepThePromises` | and with the demo and the test suite: events and totals are safe with them, too |
| `ClientProofs!ClientInvariance`, `ProgressWithinExpectedHolds`, `BuildAddsTheSamplesHolds`, `SamplesRaiseNothingHolds`, `PlayCountsTheEventsHolds` | the invariant of these programs, and the safety properties of `clients` |
| `ParserProofs!ParserInvariance`, `ParsesWhatIsMeantHolds`, `EndsOnlyOnImpossibleDatesHolds` | the invariant of the parse, and both properties of `parser`, for every line and every current date-time |

**The inductive invariant.** None of the properties is inductive.  That an insertion fills the *first*
free slot can be proved only if it is known that all slots between the first one tried and the
current one are taken (`AddInv`); that a loop has popped a prefix, only if the list at the call is known to
contain the present one (`LoopHistoryOK`); that `run` has passed no break point, only if none of the
played events but the last is one, and the last is what `lEventType` says (`RunInv`); the same for the
date-time of `select` (`SelectInv`), whose locals must start at their defaults (`LocalsAtRest`).  That an
event never goes before its millisecond needs it of the struct the client holds, since the client may
add it again (`HeldEventIsDue`).  The refinement needs the number of queued and popped events to fit
the counter (`CountsFit`), hence a finite list (`ListIsFinite`).  `IInv` is the conjunction, `OrderInv` what is
left of it without `CountsFit`; `IInv` was checked by TLC on the
instances of `order` and `counters` before it was proved.

**The argument.** Many calls do the same thing to the variables that a conjunct speaks of, so the proof
of `IInvStep` first shows that every step is of one of a few classes (`AnyStep`: an insertion, a retry, an
entry into a call, a pop, a reset, or one that leaves list and struct alone and enters no call), and then has one
lemma per conjunct with one case per class.  The action properties follow from the invariant and
the classes of steps that can end the call.  For the refinement, `pending` is the list without stamps, `served`
the overall current number: an insertion schedules, a pop serves, a reset clears, and all else stutters.
`ThrowLosesOnlyOneEvent` needs one more invariant, `PlayedTypesKnown`: inside a loop all events played so
far had types with a status, for the first that had none has ended the call.  For `IterationsAreBounded` the
events that a call can still meet are a finite set, `eventsAhead`: for `addEvent` those in its slot or after it,
for the loops all that are queued.  Every step that does not end the call takes one out and puts none in.  This is the part of
termination that can be proved; that a call which can take a step takes it is the fairness that `CallsReturn` adds.

**Setters.** A client with a reference on the queue may write any number into the overall status, and `CountsFit` with the
refinement is lost.  Beyond their types, no other part of `IInv` mentions a status: `OrderInv` survives every step that leaves list, struct and
calls alone (`OrderInvStep`), and each call of such a client is one of the manager's or such a step
(`ManagerStepOrAside`).  Hence `OrderSurvivesTheSetters`.  The bound `PopsFitCounter` guards `addEvent` with this
client as well: after it has written a current number near the counter's limit it adds no event until that is
written or reset again.  Nor is anything said of the overall totals once a cast was out of range.

**Look-ups and announcements.** The map's keys and values must be typed for a sum of totals to stay one
(`MapOK`); with it and the two invariants, `AccessInv`, every call is of one of a few classes: it keeps all
expected totals, overwrites one or merges one, and refers only to types that have a status.

**Lists.** `ListInv` says more than that a list begins with what was popped of it: what was popped *and what the
queue would list now* are the list.  A pop takes the first slot away; that the list then loses its first event, or
nothing if the event is of another type, rests on the way `slotAt` counts slots off.  There is one slot for each
place since the slots before a slot are fewer than those before a later one, and an injection between finite
sets of one size is onto (`slotAtPlace`); without the first slot all others move up by one
(`slotAtWithoutFirst`, `ListWithoutFirst`).  An insertion meets no list, for the call that it ends gave it up.

**Sums.** `SumOverTypes` is a fold over a finite map.  Its equation (`SumEquation`), and that the order does not
matter (`SumTakesOut`), are proved by induction on the subsets of the types, stated for a set of subsets
(`SubsetInduction`) since the provers take no predicate as a parameter; a set of numbers without a least
element is empty (`LeastNumber`).  The sums of the totals are then kept because unsigned addition is
associative, commutative and undone by unsigned subtraction, wrapped or not.  `TypesNeverOvercount` is not
inductive: with counters that wrap, the current numbers of all types might add up to little while those of
some add up to more than the overall number, and a restart of the others would show it.
`GroupsNeverOvercount` is the bound for every group of types, and is kept.

**Services.** That a call reaches one queue is a matter of paths: a service has a context, the context a queue.
The paths do not cross because every queue is the queue of one context at most (`QueuesAreOwn`), though there may be
queues without a context, left by a constructor that threw, and contexts without a queue, left by a deletion that
did not reach them; and because a context is given out once (`ContextsAreOwn`).  A
reference keeps its number when its service goes; a new service gets a number that is in neither pool,
hence not that of the reference (`RefereeIsReached`, `ReferenceReachesItsServiceOnly`).  `AnyStep` again sorts the steps into
classes: those that touch no path, a call on one queue, a service that opens, closes or shows its queue, and the
deletion of the factories, which takes all the queues, with their contexts or without.  For the refinement, a
service without a context or a queue is seen as an empty calendar: opening one is invisible, closing it clears the
calendar, and a call is one step of the calendar of its queue.

**Lifetimes.** The code counts pointers, the properties speak of who holds one.  `LInv` joins them: the use count
of a StdAir service is the number of its holders, that is of the contexts that have it, of the constructor that is
under way and of the application (`CountsHolders`).  A holder that comes or goes changes a finite set by one
element and the count by one; that no one else changes it rests on `SInv` again, since two services that shared
a context would be one holder.  From `ContextsAreFilled` a constructed service is a holder, so that the count of
its StdAir service is not zero; from `OneAtATime` the one that ends is alone, so that nobody is left whose
context or queue the deletion of the factories could take: at the deletion no service has a context at all
(`CleanAllMeetsNobody`).

**The programs.** `SampleProofs` has what the demo, the test suite and the session share: the calls of
`buildSampleQueue` are legal, and each step of a program either plays events or resets (`SampleStep`).  For the demo
and the test suite, `CInv` counts: what was played, is queued, is being added and is still to come is never more
than what was announced (`LoadFits`), by type and overall; during a build the new events of a type are those the
calls so far have added, and the old ones are where they were (`AddedInv`), each new one in the slot that addEvent
promises, since the list only grows (`PlacedInv`); during the main loop the iterations and
the queue together are what the loop started on (`PlayInv`).

**The session.** The queue of a session is built once and never reset, hence more is true (`XInv`).  The load
*equals* what was announced (`LoadIsExpected`); the list holds nothing but sample events, each in the slot of its
own stamp, since their stamps differ and no retry occurs; the last booking request is there until all is played
(`ListInv`).  No call can therefore fail.  That the answer to a command is right is settled where the call returns:
the theorems about `run` and `select` say where they stop in the list at the call, and `CommandInv` carries that
to the place where main reads the struct and speaks (`RunTellsTheTruth`, `SelectTellsTheTruth`).

**The parser.** `PInv` follows the tokens: the locals already read are the parts that the user means, the others those
of the current date-time (`LocalInv`), and the date and the time of the event are replaced as a whole when the
parser has passed them (`EventInv`).  The arithmetic is the way from seconds since midnight to three parts and
back.

**Only model-checked.** Liveness (`CallsReturn`, `PlayEmptiesTheQueue`, `PromptComesBack`): fairness and ENABLED are
beyond the prover.  Of the first, the bound on the iterations is proved (`IterationsAreBoundedHolds`).

## Not modelled

- The texts of the displays and of the JSON (`describeKey`, `toString`, the property trees): only which events they
  show, in which order, and that an unreadable one ends the export.  In the session, where the exports are the
  action `Inspects`, StdAir is taken to write readable JSON.
- `calculateProgress` as a ratio, and the overall look-ups, which read one number each.
- `popEvent` on services that were never constructed: `_sevmgrServiceContext` is `NULL` in constructors that
  assert false only.
- The command-line options, the logs, the readline history.
- The Python binding (`python/pysevmgr.cpp`): it calls methods that the service does not have and is not
  part of the build.  `EventQueueKey`: a string that nothing tests.
- StdAir, Boost and the standard library, beyond the operators marked external.  Whether the end of a StdAir
  service deletes the factories is left open in `SEVMGR_Service`.

## Plan

1. *Done*: `StdAir`, `EventQueue`, `EventQueueManager`, `EventCalendar`, properties, and their proofs; the sample
   queue and its programs; the interactive session and its parser; the look-ups, lists, JSON export and setters; the
   services with references, shared StdAir services and deleted factories, and the proof of their separation.
2. *Done, proved*: every safety property that a run checks, for the queue, its look-ups, the sample programs, the
   session, the parser and the services.
3. *Perhaps, model*: a client that drives the queue from a generator, adding events while it plays.
