--------------------------- MODULE SEVMGR_Service ---------------------------
(***************************************************************************)
(* The services of an application: how each is built, what it holds, and   *)
(* what is left when it is destroyed (service/SEVMGR_Service.cpp,          *)
(* service/SEVMGR_ServiceContext.cpp, factory/FacSEVMGRServiceContext.cpp).*)
(*                                                                         *)
(* A service is a handle on a context of the factory's pool; the context   *)
(* holds a counted pointer on a StdAir service, which the SEvMgr service   *)
(* has made for itself or shares with the application, and a pointer on an *)
(* event queue.  The constructor takes one step per call that may throw.   *)
(* The end of a StdAir service may make FacSupervisor delete the factories *)
(* with all they have made, also what other services still use.            *)
(*                                                                         *)
(* The queues are calendars (EventCalendar), which EventQueueManager       *)
(* implements: here it matters whose queue a call reaches.  A pop by run   *)
(* or select is a pop; the calls on the statuses and the calls that fail   *)
(* are left to EventQueueManager.                                          *)
(***************************************************************************)
EXTENDS Integers, Sequences

CONSTANTS
  Service,      \* the SEVMGR_Service objects an application may have at a time
  StdAir,       \* the STDAIR_Service objects, also those of the application
  NULL,
  Dangling,     \* a pointer to a context or a queue that was deleted
  Payload, Due, \* the events, and the instant that each one asks for
  Instant,      \* the instants at which they may be queued
  MaxContexts,  \* bound: contexts in the pool, and queues made between two cleanings
  MaxServed     \* bound: events popped from one queue

ASSUME NullAssumption ==
  /\ NULL \notin StdAir \cup Service \cup Int
  /\ NULL \notin [service : Service, stdair : StdAir, own : BOOLEAN]
  /\ Dangling \notin Int \cup {NULL}

VARIABLES
  serviceContext,  \* _sevmgrServiceContext of each service; NULL also if there is no such service
  useCount,        \* of each StdAir service, which lives while this is not 0
  application,     \* StdAir services on which the application has a pointer
  constructing,    \* frame of the constructor in progress, or NULL
  cleaning,        \* FacSupervisor is about to delete the factories
  instance,        \* whether FacSEVMGRServiceContext::_instance is not NULL
  supervised,      \* how many times FacSupervisor has the factory registered
  unregistered,    \* history: registerServiceFactory has thrown
  pool,            \* contexts made by the factory
  queues,          \* queues made by FacBom<EventQueue>
  reference,       \* queue to which the application holds a reference, or NULL
  referee,         \* history: the service it is of, while that exists, or NULL
  apart            \* history: two StdAir services have lived at the same time

factoryVars == <<instance, supervised, unregistered>>
referenceVars == <<reference, referee>>
vars == <<serviceContext, useCount, application, constructing, cleaning, factoryVars,
          pool, queues, referenceVars, apart>>

Queue == [pending : UNION {[slots -> Payload] : slots \in SUBSET Instant}, served : Nat]

NewQueue == [pending |-> <<>>, served |-> 0]

-----------------------------------------------------------------------------
ServiceInit ==
  /\ serviceContext = [s \in Service |-> NULL]
  /\ useCount = [x \in StdAir |-> 0]
  /\ application = {}
  /\ constructing = NULL
  /\ instance = FALSE
  /\ supervised = 0
  /\ unregistered = FALSE
  /\ cleaning = FALSE
  /\ pool = <<>>
  /\ queues = <<>>
  /\ reference = NULL
  /\ referee = NULL
  /\ apart = FALSE

\* No constructor and no cleaning is in progress: the application runs, with
\* one thread.
AtRest == constructing = NULL /\ ~ cleaning

HasContext(s) == serviceContext[s] \notin {NULL, Dangling}

QueueOf(s) == pool[serviceContext[s]].queue

\* What a call on a service whose context or queue was deleted does is undefined:
\* the application makes none.
Exists(s) == HasContext(s) /\ AtRest
IsUsable(s) == Exists(s) /\ QueueOf(s) # Dangling

\* The last pointer on a StdAir service is given up, with which it ends: StdAir
\* decides whether the factories go with it.
MayEnd(x) == cleaning' \in IF useCount[x] = 1 THEN BOOLEAN ELSE {FALSE}

Lives(x) == apart' = (apart \/ \E y \in StdAir \ {x} : useCount[y] > 0)

-----------------------------------------------------------------------------
(* The application's own StdAir service, which it may give to services. *)

ApplicationMakes(x) ==
  /\ AtRest
  /\ useCount[x] = 0
  /\ useCount' = [useCount EXCEPT ![x] = 1]
  /\ application' = application \cup {x}
  /\ Lives(x)
  /\ UNCHANGED <<serviceContext, constructing, cleaning, factoryVars, pool, queues,
                 referenceVars>>

ApplicationDrops(x) ==
  /\ AtRest
  /\ x \in application
  /\ useCount' = [useCount EXCEPT ![x] = @ - 1]
  /\ application' = application \ {x}
  /\ MayEnd(x)
  /\ UNCHANGED <<serviceContext, constructing, factoryVars, pool, queues,
                 referenceVars, apart>>

-----------------------------------------------------------------------------
(* Construction. *)

\* The constructors that make a StdAir service.  When that throws, nothing has
\* been made yet and the step would change nothing.
ConstructWithOwn(s, x) ==
  /\ AtRest
  /\ serviceContext[s] = NULL
  /\ useCount[x] = 0
  /\ useCount' = [useCount EXCEPT ![x] = 1]
  /\ constructing' = [service |-> s, stdair |-> x, own |-> TRUE]
  /\ Lives(x)
  /\ UNCHANGED <<serviceContext, application, cleaning, factoryVars, pool, queues,
                 referenceVars>>

\* Faulty variant: the pointer is taken without being counted.
ConstructOnUncounted(s, x) ==
  /\ AtRest
  /\ serviceContext[s] = NULL
  /\ x \in application
  /\ constructing' = [service |-> s, stdair |-> x, own |-> FALSE]
  /\ UNCHANGED <<serviceContext, useCount, application, cleaning, factoryVars, pool,
                 queues, referenceVars, apart>>

\* The constructor that gets one, by value.
ConstructOn(s, x) ==
  /\ AtRest
  /\ serviceContext[s] = NULL
  /\ x \in application
  /\ useCount' = [useCount EXCEPT ![x] = @ + 1]
  /\ constructing' = [service |-> s, stdair |-> x, own |-> FALSE]
  /\ UNCHANGED <<serviceContext, application, cleaning, factoryVars, pool, queues,
                 referenceVars, apart>>

\* The factory is made, and registered with FacSupervisor, when first used.
Instance ==
  /\ instance' = TRUE
  /\ supervised' = IF instance THEN supervised ELSE supervised + 1
  /\ UNCHANGED unregistered

\* No memory for the factory; or it is made, and _instance has it, but
\* registerServiceFactory throws: later calls find it and do not register it.
InstanceThrows ==
  /\ ~ instance
  /\ UNCHANGED supervised
  /\ \/ UNCHANGED <<instance, unregistered>>
     \/ instance' = TRUE /\ unregistered' = TRUE

\* Faulty variants: all services get the first context, or its queue.
CreateReused(s) ==
  /\ Instance
  /\ queues' = IF pool = <<>> THEN <<NewQueue>> ELSE queues
  /\ pool' = IF pool = <<>> THEN <<[stdair |-> NULL, own |-> FALSE, queue |-> 1]>>
                            ELSE pool
  /\ serviceContext' = [serviceContext EXCEPT ![s] = 1]

CreateOnOneQueue(s) ==
  /\ Len(pool) < MaxContexts /\ Len(queues) < MaxContexts
  /\ Instance
  /\ queues' = IF queues = <<>> THEN <<NewQueue>> ELSE queues
  /\ pool' = Append(pool, [stdair |-> NULL, own |-> FALSE, queue |-> 1])
  /\ serviceContext' = [serviceContext EXCEPT ![s] = Len(pool) + 1]

\* A context of its own, in the pool, with a queue of its own.  The constructor
\* of the context leaves _ownStdairService as the memory was.
Create(s) ==
  /\ Len(pool) < MaxContexts /\ Len(queues) < MaxContexts
  /\ Instance
  /\ queues' = Append(queues, NewQueue)
  /\ \E own \in BOOLEAN :
       pool' = Append(pool, [stdair |-> NULL, own |-> own, queue |-> Len(queues) + 1])
  /\ serviceContext' = [serviceContext EXCEPT ![s] = Len(pool) + 1]

\* No memory for the context, for its queue, or at last for its place in the pool:
\* then FacBom has made a queue that no context of the pool leads to.
CreateThrows ==
  /\ Instance
  /\ \/ UNCHANGED queues
     \/ Len(queues) < MaxContexts /\ queues' = Append(queues, NewQueue)

InitServiceContext ==
  /\ constructing # NULL
  /\ serviceContext[constructing.service] = NULL
  /\ Create(constructing.service)
  /\ UNCHANGED <<useCount, application, constructing, cleaning, referenceVars, apart>>

\* Faulty variant: a plain pointer in the frame.
InitServiceContextThrowsHeld ==
  /\ constructing # NULL
  /\ serviceContext[constructing.service] = NULL
  /\ constructing' = NULL
  /\ UNCHANGED <<serviceContext, useCount, application, cleaning, factoryVars, pool,
                 queues, referenceVars, apart>>

\* The pointer held by the frame is released, and there is no service to destroy.
InitServiceContextThrows ==
  /\ constructing # NULL
  /\ serviceContext[constructing.service] = NULL
  /\ \/ InstanceThrows /\ UNCHANGED queues
     \/ CreateThrows
  /\ useCount' = [useCount EXCEPT ![constructing.stdair] = @ - 1]
  /\ MayEnd(constructing.stdair)
  /\ constructing' = NULL
  /\ UNCHANGED <<serviceContext, application, pool, referenceVars, apart>>

\* The pointer goes from the frame, which ends, to the context.
AddStdAirService ==
  /\ constructing # NULL
  /\ LET c == serviceContext[constructing.service]
     IN /\ c # NULL
        /\ pool' = [pool EXCEPT ![c] = [@ EXCEPT !.stdair = constructing.stdair,
                                                 !.own = constructing.own]]
  /\ constructing' = NULL
  /\ UNCHANGED <<serviceContext, useCount, application, cleaning, factoryVars, queues,
                 referenceVars, apart>>

-----------------------------------------------------------------------------
(* Calls: each one goes to the queue of the service's context, or to the    *)
(* one that a reference from getEventQueue refers to.                       *)

OnlyQueuesChange ==
  UNCHANGED <<serviceContext, useCount, application, constructing, cleaning,
              factoryVars, pool, referenceVars, apart>>

Adds(q) ==
  LET pending == queues[q].pending IN
    /\ \E payload \in Payload, instant \in Instant \ DOMAIN pending :
         /\ Due[payload] <= instant
         /\ queues' = [queues EXCEPT ![q].pending =
                         [i \in DOMAIN pending \cup {instant} |->
                            IF i = instant THEN payload ELSE pending[i]]]
    /\ OnlyQueuesChange

Pops(q) ==
  LET pending == queues[q].pending IN
    /\ queues[q].served < MaxServed
    /\ \E instant \in DOMAIN pending :
         /\ \A i \in DOMAIN pending : instant <= i
         /\ queues' = [queues EXCEPT ![q] =
                         [pending |-> [i \in DOMAIN pending \ {instant} |-> pending[i]],
                          served  |-> @.served + 1]]
    /\ OnlyQueuesChange

Resets(q) ==
  /\ queues' = [queues EXCEPT ![q] = NewQueue]
  /\ OnlyQueuesChange

AddEvent(s) == IsUsable(s) /\ Adds(QueueOf(s))

PopEvent(s) == IsUsable(s) /\ Pops(QueueOf(s))

Reset(s) == IsUsable(s) /\ Resets(QueueOf(s))

GetEventQueue(s) ==
  /\ IsUsable(s)
  /\ reference' = QueueOf(s)
  /\ referee' = s
  /\ UNCHANGED <<serviceContext, useCount, application, constructing, cleaning,
                 factoryVars, pool, queues, apart>>

\* The service that the reference is of may be gone.
CallThroughReference ==
  /\ AtRest
  /\ reference # NULL
  /\ Adds(reference) \/ Pops(reference) \/ Resets(reference)

-----------------------------------------------------------------------------
(* Destruction. *)

Forgets(s) == referee' = IF referee = s THEN NULL ELSE referee

\* Faulty variant: a second release, by the destructor of the context.
DestroyTwice(s) ==
  /\ Exists(s)
  /\ LET c == serviceContext[s]
     IN /\ useCount' = [useCount EXCEPT ![pool[c].stdair] = @ - 2]
        /\ pool' = [pool EXCEPT ![c].stdair = NULL]
        /\ MayEnd(pool[c].stdair)
  /\ serviceContext' = [serviceContext EXCEPT ![s] = NULL]
  /\ Forgets(s)
  /\ UNCHANGED <<application, constructing, factoryVars, queues, reference, apart>>

\* The context gives up its pointer on the StdAir service, whoever made it, and
\* stays in the pool with its queue.
Destroy(s) ==
  /\ Exists(s)
  /\ LET c == serviceContext[s]
     IN /\ useCount' = [useCount EXCEPT ![pool[c].stdair] = @ - 1]
        /\ pool' = [pool EXCEPT ![c].stdair = NULL]
        /\ MayEnd(pool[c].stdair)
  /\ serviceContext' = [serviceContext EXCEPT ![s] = NULL]
  /\ Forgets(s)
  /\ UNCHANGED <<application, constructing, factoryVars, queues, reference, apart>>

\* FacSupervisor, of StdAir, deletes the factories it knows and what they made,
\* FacBom with the queues among them.
QueuesAreDeleted ==
  /\ cleaning
  /\ cleaning' = FALSE
  /\ queues' = <<>>
  /\ reference' = NULL
  /\ referee' = NULL
  /\ UNCHANGED <<application, constructing, unregistered, apart>>

\* The destructors of the contexts give up their pointers, so that only those of
\* the application are left.
ContextsAreDeleted ==
  /\ supervised > 0
  /\ supervised' = 0
  /\ pool' = <<>>
  /\ serviceContext' = [s \in Service |-> IF HasContext(s) THEN Dangling ELSE serviceContext[s]]
  /\ useCount' = [x \in StdAir |-> IF x \in application THEN 1 ELSE 0]

\* FacSupervisor does not know the factory: the contexts outlive their queues.
ContextsAreForgotten ==
  /\ supervised = 0
  /\ pool' = [c \in DOMAIN pool |-> [pool[c] EXCEPT !.queue = Dangling]]
  /\ UNCHANGED <<serviceContext, useCount, instance, supervised>>

\* Faulty variant: the destructor of the factory leaves _instance as it is.
CleanAllInstanceKept ==
  /\ QueuesAreDeleted
  /\ \/ ContextsAreDeleted /\ UNCHANGED instance
     \/ ContextsAreForgotten

CleanAll ==
  /\ QueuesAreDeleted
  /\ \/ ContextsAreDeleted /\ instance' = FALSE
     \/ ContextsAreForgotten

-----------------------------------------------------------------------------
ServiceNext ==
  \/ \E x \in StdAir : ApplicationMakes(x) \/ ApplicationDrops(x)
  \/ \E s \in Service, x \in StdAir : ConstructWithOwn(s, x) \/ ConstructOn(s, x)
  \/ InitServiceContext
  \/ InitServiceContextThrows
  \/ AddStdAirService
  \/ \E s \in Service : AddEvent(s) \/ PopEvent(s) \/ Reset(s) \/ GetEventQueue(s)
  \/ CallThroughReference
  \/ \E s \in Service : Destroy(s)
  \/ CleanAll

ServiceSpec == ServiceInit /\ [][ServiceNext]_vars

-----------------------------------------------------------------------------
(* Properties. *)

\* Every member and local stays in its type; a context number is one of the pool.
ServiceTypeOK ==
  /\ serviceContext \in [Service -> DOMAIN pool \cup {NULL, Dangling}]
  /\ useCount \in [StdAir -> Nat]
  /\ application \subseteq StdAir
  /\ constructing \in [service : Service, stdair : StdAir, own : BOOLEAN] \cup {NULL}
  /\ cleaning \in BOOLEAN
  /\ instance \in BOOLEAN
  /\ supervised \in Nat
  /\ unregistered \in BOOLEAN
  /\ \A c \in DOMAIN pool :
       pool[c] \in [stdair : StdAir \cup {NULL}, own : BOOLEAN,
                    queue : DOMAIN queues \cup {Dangling}]
  /\ queues \in Seq(Queue)
  /\ reference \in DOMAIN queues \cup {NULL}
  /\ referee \in Service \cup {NULL}
  /\ apart \in BOOLEAN

\* The application, a service, or the constructor of one has a pointer on x.
IsHeld(x) ==
  \/ x \in application
  \/ constructing # NULL /\ constructing.stdair = x
  \/ \E s \in Service : /\ HasContext(s)
                        /\ pool[serviceContext[s]].stdair = x

\* A StdAir service lives as long as the application or a SEvMgr service uses it,
\* and no longer: no constructor that throws and no destructor, in any order,
\* takes it from another user or leaves it behind (SEVMGR_Service::finalise and
\* the counts of STDAIR_ServicePtr_T).  Nor does a service lose its pointer while
\* it exists, which SEVMGR_ServiceContext::getSTDAIR_Service asserts.
StdAirLivesWhileHeld ==
  /\ \A x \in StdAir : useCount[x] > 0 <=> IsHeld(x)
  /\ \A s \in Service : Exists(s) => pool[serviceContext[s]].stdair # NULL

\* Services that have only ever met one StdAir service at a time keep their
\* contexts and their queues, whatever StdAir does when that one ends: it does not
\* end before them (FacSEVMGRServiceContext and the order of finalise and
\* addStdAirService).  With a second one alive the code promises nothing, and
\* services do dangle.
OneStdAirLeavesNoneDangling ==
  ~ apart => \A s \in Service : /\ serviceContext[s] # Dangling
                               /\ HasContext(s) => QueueOf(s) # Dangling

\* A reference from getEventQueue reaches its service while that exists, and no
\* service of the living afterwards, however many are built and destroyed.
ReferenceReachesItsServiceOnly ==
  reference # NULL =>
    \A s \in Service : HasContext(s) => (QueueOf(s) = reference <=> s = referee)

\* What a client sees of the queue of a service.
HasQueue(s) == HasContext(s) /\ QueueOf(s) # Dangling

Seen(s) == IF HasQueue(s) THEN queues[QueueOf(s)] ELSE NewQueue

\* No step but the deletion of the factories changes what the clients of two
\* services see: no queue is the queue of two services, so that what is done to
\* one through a service or a reference is not seen through another
\* (SEVMGR_Service::getEventQueue and the factory).
CallsReachOneQueue ==
  [][~ cleaning =>
       \A s, t \in Service :
         s # t => Seen(s)' = Seen(s) \/ Seen(t)' = Seen(t)]_vars

Calendar(s) == INSTANCE EventCalendar WITH pending <- Seen(s).pending,
                                           served <- Seen(s).served

\* Each service is a calendar of its own, empty from its construction, whatever
\* is left in the pools of services destroyed before and whatever the others do
\* (SEVMGR_ServiceContext::initEventQueue and FacSEVMGRServiceContext::create).
ServicesImplementCalendars ==
  /\ \A s \in Service : Calendar(s)!Init
  /\ [][\A s \in Service : [Calendar(s)!Next]_(Seen(s))]_vars

\* FacSupervisor knows the factory exactly once while there is one, and deletes
\* the contexts with their queues, so that no context of the pool has lost its own,
\* unless registerServiceFactory has thrown: _instance was set by then, and the
\* factory stays, unknown, for good (FacSEVMGRServiceContext::instance and its
\* destructor).
ContextsGoWithTheirQueues ==
  /\ pool # <<>> => instance
  /\ IF unregistered
       THEN instance /\ supervised = 0
       ELSE /\ supervised = IF instance THEN 1 ELSE 0
            /\ \A c \in DOMAIN pool : pool[c].queue # Dangling
=============================================================================
