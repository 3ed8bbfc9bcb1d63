------------------------ MODULE SEVMGR_ServiceProofs ------------------------
(***************************************************************************)
(* Proofs of SEVMGR_Service: whose queue a call reaches, for any number of *)
(* services, StdAir services and contexts.                                 *)
(***************************************************************************)
EXTENDS SEVMGR_Service, FiniteSetTheorems, TLAPS

Frame == [service : Service, stdair : StdAir, own : BOOLEAN]

Context == [stdair : StdAir \cup {NULL}, own : BOOLEAN, queue : Nat \cup {Dangling}]

\* Types of what leads from a service to a queue.
PathsOK ==
  /\ pool \in Seq(Context)
  /\ queues \in Seq(Queue)
  /\ serviceContext \in [Service -> DOMAIN pool \cup {NULL, Dangling}]
  /\ constructing \in Frame \cup {NULL}
  /\ reference \in DOMAIN queues \cup {NULL}
  /\ referee \in Service \cup {NULL}

\* Every context has a queue of its own, or has lost it.
QueuesAreOwn ==
  /\ \A c \in DOMAIN pool : pool[c].queue \in DOMAIN queues \cup {Dangling}
  /\ \A c, d \in DOMAIN pool :
       pool[c].queue = pool[d].queue /\ pool[c].queue # Dangling => c = d

\* No two services have the same context.
ContextsAreOwn ==
  \A s, t \in Service : HasContext(s) /\ serviceContext[t] = serviceContext[s] => s = t

\* While the service of the reference exists, the reference is to its queue.
RefereeIsReached ==
  referee # NULL => HasContext(referee) /\ reference = QueueOf(referee)

SInv ==
  /\ PathsOK
  /\ QueuesAreOwn
  /\ ContextsAreOwn
  /\ RefereeIsReached
  /\ ReferenceReachesItsServiceOnly

-----------------------------------------------------------------------------
\* A new queue is a queue.
LEMMA NewQueueType == NewQueue \in Queue
<1>1. {} \in SUBSET Instant /\ <<>> \in [{} -> Payload]
  OBVIOUS
<1>2. QED
  BY <1>1 DEF NewQueue, Queue

\* A service that has a context has one of the pool, and calls on it go to a
\* queue, if that is not lost.
LEMMA QueueOfContext ==
  ASSUME PathsOK, QueuesAreOwn, NEW s \in Service, HasContext(s)
  PROVE  /\ serviceContext[s] \in DOMAIN pool
         /\ QueueOf(s) \in DOMAIN queues \cup {Dangling}
<1>1. serviceContext[s] \in DOMAIN pool
  BY DEF PathsOK, HasContext
<1>2. QED
  BY <1>1 DEF QueuesAreOwn, QueueOf

\* Two services do not have the same queue.
LEMMA QueueOfOne ==
  ASSUME PathsOK, QueuesAreOwn, ContextsAreOwn,
         NEW s \in Service, NEW t \in Service, HasQueue(s), HasContext(t),
         QueueOf(t) = QueueOf(s)
  PROVE  s = t
<1>1. serviceContext[s] \in DOMAIN pool /\ serviceContext[t] \in DOMAIN pool
  BY QueueOfContext DEF HasQueue
<1>2. serviceContext[s] = serviceContext[t]
  BY <1>1 DEF HasQueue, QueueOf, QueuesAreOwn
<1>3. QED
  BY <1>2 DEF HasQueue, ContextsAreOwn

\* A reference is to a queue.
LEMMA ReferenceOfReferee ==
  ASSUME PathsOK, QueuesAreOwn, RefereeIsReached, referee # NULL
  PROVE  referee \in Service /\ HasQueue(referee) /\ reference = QueueOf(referee)
<1>1. referee \in Service /\ HasContext(referee) /\ reference = QueueOf(referee)
  BY DEF PathsOK, RefereeIsReached
<1>2. reference \in DOMAIN queues \cup {NULL} /\ DOMAIN queues \subseteq Int
  BY DEF PathsOK
<1>3. reference # Dangling
  BY <1>2, NullAssumption
<1>4. QED
  BY <1>1, <1>3 DEF HasQueue

-----------------------------------------------------------------------------
(* What a step can do to the paths from services to queues.                 *)

\* Contexts get or give up StdAir services, queues change, and one may be made
\* that no context gets: paths stay.
KeepsPaths ==
  /\ PathsOK'
  /\ DOMAIN pool' = DOMAIN pool /\ Len(pool') = Len(pool)
  /\ DOMAIN queues \subseteq DOMAIN queues'
  /\ \A c \in DOMAIN pool : pool'[c].queue = pool[c].queue
  /\ UNCHANGED reference

\* A service gets a new context with a new queue.
Opens(s) ==
  /\ ~ HasContext(s)
  /\ \E own \in BOOLEAN :
       pool' = Append(pool, [stdair |-> NULL, own |-> own, queue |-> Len(queues) + 1])
  /\ queues' = Append(queues, NewQueue)
  /\ serviceContext' = [serviceContext EXCEPT ![s] = Len(pool) + 1]
  /\ UNCHANGED <<constructing, referenceVars>>

\* A service goes; the reference may outlive it.
Closes(s) ==
  /\ KeepsPaths
  /\ serviceContext' = [serviceContext EXCEPT ![s] = NULL]
  /\ referee' = IF referee = s THEN NULL ELSE referee

\* The application gets a reference.
Shows(s) ==
  /\ HasQueue(s)
  /\ reference' = QueueOf(s)
  /\ referee' = s
  /\ UNCHANGED <<serviceContext, pool, queues, constructing>>

\* The queues are deleted, the contexts are not.
Forsakes ==
  /\ pool' = [c \in DOMAIN pool |-> [pool[c] EXCEPT !.queue = Dangling]]
  /\ queues' = <<>>
  /\ reference' = NULL /\ referee' = NULL
  /\ UNCHANGED <<serviceContext, constructing>>

\* Everything is deleted.
Deletes ==
  /\ pool' = <<>> /\ queues' = <<>>
  /\ \A s \in Service : serviceContext'[s] \in {NULL, Dangling}
  /\ serviceContext' \in [Service -> {NULL, Dangling}]
  /\ reference' = NULL /\ referee' = NULL
  /\ UNCHANGED constructing

\* A call leaves a queue at its place.
LEMMA CallKeepsPaths ==
  ASSUME PathsOK, NEW q \in DOMAIN queues, Adds(q) \/ Pops(q) \/ Resets(q)
  PROVE  /\ KeepsPaths
         /\ UNCHANGED <<serviceContext, referee>>
         /\ \A r \in DOMAIN queues \ {q} : queues'[r] = queues[r]
<1> DEFINE pending == queues[q].pending
<1>1. queues \in Seq(Queue) /\ queues[q] \in Queue
  BY DEF PathsOK
<1>2. PICK new \in Queue : queues' = [queues EXCEPT ![q] = new]
  <2>1. CASE Adds(q)
    <3>1. PICK payload \in Payload, instant \in Instant \ DOMAIN pending :
            queues' = [queues EXCEPT ![q].pending =
                         [i \in DOMAIN pending \cup {instant} |->
                            IF i = instant THEN payload ELSE pending[i]]]
      BY <2>1 DEF Adds
    <3> DEFINE grown == [i \in DOMAIN pending \cup {instant} |->
                           IF i = instant THEN payload ELSE pending[i]]
    <3>2. PICK slots \in SUBSET Instant : pending \in [slots -> Payload]
      BY <1>1 DEF Queue
    <3>3. slots \cup {instant} \in SUBSET Instant /\ grown \in [slots \cup {instant} -> Payload]
      BY <3>2
    <3> HIDE DEF grown
    <3>4. [queues[q] EXCEPT !.pending = grown] \in Queue
      BY <1>1, <3>3 DEF Queue
    <3>5. queues' = [queues EXCEPT ![q] = [queues[q] EXCEPT !.pending = grown]]
      BY <1>1, <3>1 DEF grown
    <3>6. QED
      BY <3>4, <3>5
  <2>2. CASE Pops(q)
    <3>1. PICK instant \in DOMAIN pending :
            queues' = [queues EXCEPT ![q] =
                         [pending |-> [i \in DOMAIN pending \ {instant} |-> pending[i]],
                          served  |-> queues[q].served + 1]]
      BY <1>1, <2>2 DEF Pops
    <3> DEFINE left == [i \in DOMAIN pending \ {instant} |-> pending[i]]
    <3>2. PICK slots \in SUBSET Instant : pending \in [slots -> Payload]
      BY <1>1 DEF Queue
    <3>3. slots \ {instant} \in SUBSET Instant /\ left \in [slots \ {instant} -> Payload]
      BY <3>2
    <3>4. queues[q].served + 1 \in Nat
      BY <1>1 DEF Queue
    <3> HIDE DEF left
    <3>5. [pending |-> left, served |-> queues[q].served + 1] \in Queue
      BY <3>3, <3>4 DEF Queue
    <3>6. QED
      BY <3>1, <3>5 DEF left
  <2>3. CASE Resets(q)
    BY <2>3, NewQueueType DEF Resets
  <2>4. QED
    BY <2>1, <2>2, <2>3
<1>3. UNCHANGED <<serviceContext, pool, constructing, referenceVars>>
  BY DEF Adds, Pops, Resets, OnlyQueuesChange
<1>4. /\ queues' \in Seq(Queue) /\ Len(queues') = Len(queues)
      /\ DOMAIN queues' = DOMAIN queues
      /\ \A r \in DOMAIN queues \ {q} : queues'[r] = queues[r]
  BY <1>1, <1>2
<1>5. QED
  BY <1>3, <1>4 DEF KeepsPaths, PathsOK, referenceVars

-----------------------------------------------------------------------------
(* Every step is of one of seven classes.                                   *)

Stays == KeepsPaths /\ UNCHANGED <<serviceContext, referee>>

\* No queue changes: contexts, StdAir services and the application's pointers do.
StaysQuiet == Stays /\ \A q \in DOMAIN queues : queues'[q] = queues[q]

\* A step that leaves contexts and queues alone and at most gives the
\* constructor another frame keeps the paths.
LEMMA FrameKeepsPaths ==
  ASSUME PathsOK, constructing' \in Frame \cup {NULL},
         UNCHANGED <<serviceContext, pool, queues, reference, referee>>
  PROVE  StaysQuiet
BY DEF StaysQuiet, Stays, KeepsPaths, PathsOK

\* A context that gets another StdAir service keeps its queue.
LEMMA HolderKeepsPaths ==
  ASSUME PathsOK, NEW c \in DOMAIN pool, NEW new \in Context, new.queue = pool[c].queue,
         pool' = [pool EXCEPT ![c] = new],
         constructing' \in Frame \cup {NULL},
         UNCHANGED <<queues, reference>>, referee' \in Service \cup {NULL},
         serviceContext' \in [Service -> DOMAIN pool \cup {NULL, Dangling}]
  PROVE  KeepsPaths
<1>1. pool \in Seq(Context)
  BY DEF PathsOK
<1>2. /\ pool' \in Seq(Context) /\ Len(pool') = Len(pool) /\ DOMAIN pool' = DOMAIN pool
      /\ \A d \in DOMAIN pool : pool'[d].queue = pool[d].queue
  BY <1>1
<1>3. QED
  BY <1>2 DEF KeepsPaths, PathsOK

\* The application's own StdAir services, and the constructor before it has a
\* context, lead to no queue.
LEMMA LifetimesStay ==
  ASSUME PathsOK,
         \/ \E x \in StdAir : ApplicationMakes(x) \/ ApplicationDrops(x)
         \/ \E s \in Service, x \in StdAir : ConstructWithOwn(s, x) \/ ConstructOn(s, x)
  PROVE  StaysQuiet
<1>1. UNCHANGED <<serviceContext, pool, queues, reference, referee>>
  BY DEF ApplicationMakes, ApplicationDrops, ConstructWithOwn, ConstructOn, referenceVars
<1>2. constructing' \in Frame \cup {NULL}
  <2>1. CASE \E s \in Service, x \in StdAir : ConstructWithOwn(s, x) \/ ConstructOn(s, x)
    <3>1. PICK s \in Service, x \in StdAir : ConstructWithOwn(s, x) \/ ConstructOn(s, x)
      BY <2>1
    <3>2. PICK own \in BOOLEAN : constructing' = [service |-> s, stdair |-> x, own |-> own]
      BY <3>1 DEF ConstructWithOwn, ConstructOn
    <3>3. QED
      BY <3>2 DEF Frame
  <2>2. CASE \E x \in StdAir : ApplicationMakes(x) \/ ApplicationDrops(x)
    BY <2>2 DEF ApplicationMakes, ApplicationDrops, PathsOK
  <2>3. QED
    BY <2>1, <2>2
<1>3. QED
  BY <1>1, <1>2, FrameKeepsPaths

\* A constructor that throws may leave a queue behind, which no path leads to.
LEMMA ThrowStays ==
  ASSUME PathsOK, InitServiceContextThrows
  PROVE  StaysQuiet
<1>1. /\ UNCHANGED <<serviceContext, pool, reference, referee>> /\ constructing' = NULL
      /\ UNCHANGED queues \/ queues' = Append(queues, NewQueue)
  BY DEF InitServiceContextThrows, CreateThrows, referenceVars
<1>2. CASE UNCHANGED queues
  BY <1>1, <1>2, FrameKeepsPaths
<1>3. CASE queues' = Append(queues, NewQueue)
  <2>1. queues \in Seq(Queue) /\ NewQueue \in Queue
    BY NewQueueType DEF PathsOK
  <2>2. /\ queues' \in Seq(Queue)
        /\ DOMAIN queues \subseteq DOMAIN queues'
        /\ \A q \in DOMAIN queues : queues'[q] = queues[q]
    BY <1>3, <2>1
  <2>3. PathsOK'
    BY <1>1, <2>2 DEF PathsOK
  <2>4. QED
    BY <1>1, <2>2, <2>3 DEF StaysQuiet, Stays, KeepsPaths
<1>4. QED
  BY <1>1, <1>2, <1>3

\* The end of a constructor, in a context that may have been deleted meanwhile.
LEMMA AddStdAirServiceStays ==
  ASSUME PathsOK, AddStdAirService
  PROVE  StaysQuiet
<1> DEFINE c == serviceContext[constructing.service]
           new == [pool[c] EXCEPT !.stdair = constructing.stdair, !.own = constructing.own]
<1>1. /\ constructing \in Frame /\ c \in DOMAIN pool \cup {Dangling}
      /\ constructing' = NULL
      /\ UNCHANGED <<serviceContext, queues, reference, referee>>
      /\ pool' = [pool EXCEPT ![c] = new]
  BY DEF AddStdAirService, PathsOK, Frame, referenceVars
<1>2. CASE c \in DOMAIN pool
  <2>1. pool[c] \in Context
    BY <1>2 DEF PathsOK
  <2>2. new \in Context /\ new.queue = pool[c].queue
    BY <1>1, <2>1 DEF Context, Frame
  <2>3. KeepsPaths
    <3> HIDE DEF new
    <3>1. serviceContext' \in [Service -> DOMAIN pool \cup {NULL, Dangling}]
          /\ referee' \in Service \cup {NULL}
      BY <1>1 DEF PathsOK
    <3> HIDE DEF c
    <3>2. QED
      BY <1>1, <1>2, <2>2, <3>1, HolderKeepsPaths
  <2>4. QED
    BY <1>1, <2>3 DEF StaysQuiet, Stays
<1>3. CASE c \notin DOMAIN pool
  <2>1. pool' = pool
    BY <1>1, <1>3 DEF PathsOK
  <2>2. QED
    BY <1>1, <2>1, FrameKeepsPaths
<1>4. QED
  BY <1>2, <1>3

\* The destructor of a service.
LEMMA DestroyCloses ==
  ASSUME PathsOK, NEW s \in Service, Destroy(s)
  PROVE  Closes(s) /\ UNCHANGED queues
<1> DEFINE c == serviceContext[s]
           new == [pool[c] EXCEPT !.stdair = NULL]
<1>1. /\ c \in DOMAIN pool
      /\ UNCHANGED <<queues, reference, constructing>>
      /\ pool' = [pool EXCEPT ![c] = new]
      /\ serviceContext' = [serviceContext EXCEPT ![s] = NULL]
      /\ referee' = IF referee = s THEN NULL ELSE referee
  BY DEF Destroy, Exists, HasContext, Forgets, PathsOK
<1>2. pool[c] \in Context
  BY <1>1 DEF PathsOK
<1>3. new \in Context /\ new.queue = pool[c].queue
  BY <1>2 DEF Context
<1>4. /\ serviceContext' \in [Service -> DOMAIN pool \cup {NULL, Dangling}]
      /\ referee' \in Service \cup {NULL}
      /\ constructing' \in Frame \cup {NULL}
  BY <1>1 DEF PathsOK
<1> HIDE DEF c, new
<1>5. KeepsPaths
  BY <1>1, <1>3, <1>4, HolderKeepsPaths
<1>6. QED
  BY <1>1, <1>5 DEF Closes

\* The steps, by what they do to the paths and to the queues.
Calls(q) ==
  /\ q \in DOMAIN queues
  /\ Stays
  /\ Adds(q) \/ Pops(q) \/ Resets(q)
  /\ \A r \in DOMAIN queues \ {q} : queues'[r] = queues[r]

\* A deletion takes the contexts with it, or only their queues.
LEMMA CleanAllIsOfTwoKinds ==
  ASSUME CleanAll
  PROVE  Deletes \/ Forsakes
<1>1. /\ queues' = <<>> /\ reference' = NULL /\ referee' = NULL /\ UNCHANGED constructing
      /\ ContextsAreDeleted \/ ContextsAreForgotten
  BY DEF CleanAll, QueuesAreDeleted
<1>2. ContextsAreDeleted => Deletes
  BY <1>1 DEF ContextsAreDeleted, Deletes, HasContext
<1>3. ContextsAreForgotten => Forsakes
  BY <1>1 DEF ContextsAreForgotten, Forsakes
<1>4. QED
  BY <1>1, <1>2, <1>3

\* Every step of the services is of one class.
LEMMA AnyStep ==
  ASSUME PathsOK, QueuesAreOwn, [ServiceNext]_vars
  PROVE  \/ StaysQuiet
         \/ \E q \in DOMAIN queues : Calls(q)
         \/ \E s \in Service : Opens(s)
         \/ \E s \in Service : Closes(s) /\ UNCHANGED queues
         \/ \E s \in Service : Shows(s)
         \/ CleanAll /\ (Deletes \/ Forsakes)
<1>1. CASE \/ \E x \in StdAir : ApplicationMakes(x) \/ ApplicationDrops(x)
           \/ \E s \in Service, x \in StdAir : ConstructWithOwn(s, x) \/ ConstructOn(s, x)
           \/ InitServiceContextThrows
  BY <1>1, LifetimesStay, ThrowStays
<1>2. CASE InitServiceContext
  <2>1. constructing.service \in Service
    BY <1>2 DEF InitServiceContext, PathsOK, Frame
  <2>2. Opens(constructing.service)
    BY <1>2, <2>1 DEF InitServiceContext, Create, Opens, HasContext, referenceVars
  <2>3. QED
    BY <2>1, <2>2
<1>3. CASE AddStdAirService
  BY <1>3, AddStdAirServiceStays
<1>4. CASE \E s \in Service : AddEvent(s) \/ PopEvent(s) \/ Reset(s)
  <2>1. PICK s \in Service : AddEvent(s) \/ PopEvent(s) \/ Reset(s)
    BY <1>4
  <2>2. /\ QueueOf(s) \in DOMAIN queues
        /\ Adds(QueueOf(s)) \/ Pops(QueueOf(s)) \/ Resets(QueueOf(s))
    BY <2>1, QueueOfContext DEF AddEvent, PopEvent, Reset, IsUsable, Exists
  <2>3. QED
    BY <2>2, CallKeepsPaths DEF Calls, Stays
<1>5. CASE CallThroughReference
  <2>1. /\ reference \in DOMAIN queues
        /\ Adds(reference) \/ Pops(reference) \/ Resets(reference)
    BY <1>5 DEF CallThroughReference, PathsOK
  <2>2. QED
    BY <2>1, CallKeepsPaths DEF Calls, Stays
<1>6. CASE \E s \in Service : GetEventQueue(s)
  BY <1>6 DEF GetEventQueue, IsUsable, Exists, Shows, HasQueue
<1>7. CASE \E s \in Service : Destroy(s)
  BY <1>7, DestroyCloses
<1>8. CASE CleanAll
  BY <1>8, CleanAllIsOfTwoKinds
<1>9. CASE UNCHANGED vars
  <2>1. UNCHANGED <<serviceContext, pool, queues, reference, referee, constructing>>
    BY <1>9 DEF vars, referenceVars
  <2>2. QED
    BY <2>1, FrameKeepsPaths DEF PathsOK
<1>10. QED
  BY <1>1, <1>2, <1>3, <1>4, <1>5, <1>6, <1>7, <1>8, <1>9 DEF ServiceNext

-----------------------------------------------------------------------------
(* The invariant.                                                           *)

LEMMA PathsStep ==
  ASSUME SInv, [ServiceNext]_vars
  PROVE  PathsOK'
<1> USE DEF SInv
<1>1. CASE \E s \in Service : Opens(s)
  <2>1. PICK s \in Service, own \in BOOLEAN :
          /\ Opens(s)
          /\ pool' = Append(pool, [stdair |-> NULL, own |-> own, queue |-> Len(queues) + 1])
    BY <1>1 DEF Opens
  <2> DEFINE new == [stdair |-> NULL, own |-> own, queue |-> Len(queues) + 1]
  <2>2. pool \in Seq(Context) /\ queues \in Seq(Queue)
    BY DEF PathsOK
  <2>3. new \in Context
    BY <2>2 DEF Context
  <2> HIDE DEF new
  <2>4. /\ pool' \in Seq(Context) /\ DOMAIN pool' = DOMAIN pool \cup {Len(pool) + 1}
        /\ Len(pool) + 1 \in DOMAIN pool'
    BY <2>1, <2>2, <2>3 DEF new
  <2>5. queues' \in Seq(Queue) /\ DOMAIN queues' = DOMAIN queues \cup {Len(queues) + 1}
    BY <2>1, <2>2, NewQueueType DEF Opens
  <2>6. serviceContext' \in [Service -> DOMAIN pool' \cup {NULL, Dangling}]
    BY <2>1, <2>4 DEF Opens, PathsOK
  <2>7. QED
    BY <2>1, <2>4, <2>5, <2>6 DEF Opens, PathsOK, referenceVars
<1>2. CASE \E s \in Service : Shows(s)
  <2>1. PICK s \in Service : Shows(s)
    BY <1>2
  <2>2. QueueOf(s) \in DOMAIN queues
    BY <2>1, QueueOfContext DEF Shows, HasQueue
  <2>3. QED
    BY <2>1, <2>2 DEF Shows, PathsOK
<1>3. CASE Deletes
  <2>1. <<>> \in Seq(Context) /\ <<>> \in Seq(Queue)
    OBVIOUS
  <2>2. serviceContext' \in [Service -> DOMAIN pool' \cup {NULL, Dangling}]
    BY <1>3 DEF Deletes
  <2>3. QED
    BY <1>3, <2>1, <2>2 DEF Deletes, PathsOK
<1>4. CASE Forsakes
  <2>1. pool \in Seq(Context) /\ <<>> \in Seq(Queue)
    BY DEF PathsOK
  <2>2. ASSUME NEW c \in DOMAIN pool PROVE [pool[c] EXCEPT !.queue = Dangling] \in Context
    <3>1. pool[c] \in Context
      BY <2>1
    <3>2. QED
      BY <3>1 DEF Context
  <2>3. pool' \in Seq(Context) /\ DOMAIN pool' = DOMAIN pool
    BY <1>4, <2>1, <2>2 DEF Forsakes
  <2>4. QED
    BY <1>4, <2>1, <2>3 DEF Forsakes, PathsOK
<1>5. QED
  BY <1>1, <1>2, <1>3, <1>4, AnyStep DEF StaysQuiet, Stays, Calls, Closes, KeepsPaths

\* A queue is given out once.
LEMMA PairsStep ==
  ASSUME SInv, [ServiceNext]_vars
  PROVE  QueuesAreOwn'
<1> USE DEF SInv
<1>1. CASE \E s \in Service : Opens(s)
  <2>1. PICK own \in BOOLEAN :
          pool' = Append(pool, [stdair |-> NULL, own |-> own, queue |-> Len(queues) + 1])
    BY <1>1 DEF Opens
  <2>2. queues' = Append(queues, NewQueue)
    BY <1>1 DEF Opens
  <2> DEFINE new == [stdair |-> NULL, own |-> own, queue |-> Len(queues) + 1]
  <2>3. pool \in Seq(Context) /\ queues \in Seq(Queue)
    BY DEF PathsOK
  <2>4. new \in Context /\ new.queue = Len(queues) + 1
    BY <2>3 DEF Context
  <2> HIDE DEF new
  <2>5. pool' = Append(pool, new)
    BY <2>1 DEF new
  <2>6. /\ DOMAIN pool' = DOMAIN pool \cup {Len(pool) + 1}
        /\ pool'[Len(pool) + 1] = new
        /\ \A c \in DOMAIN pool : pool'[c] = pool[c]
    BY <2>3, <2>4, <2>5
  <2>7. DOMAIN queues' = DOMAIN queues \cup {Len(queues) + 1}
    BY <2>2, <2>3, NewQueueType
  <2>8. Len(queues) + 1 \notin DOMAIN queues \cup {Dangling}
    BY <2>3, NullAssumption
  <2>9. \A c \in DOMAIN pool : pool[c].queue \in DOMAIN queues \cup {Dangling}
    BY DEF QueuesAreOwn
  <2>10. \A c \in DOMAIN pool' : pool'[c].queue \in DOMAIN queues' \cup {Dangling}
    BY <2>4, <2>6, <2>7, <2>9
  <2>11. \A c, d \in DOMAIN pool' :
           pool'[c].queue = pool'[d].queue /\ pool'[c].queue # Dangling => c = d
    <3>1. \A c, d \in DOMAIN pool :
            pool'[c].queue = pool'[d].queue /\ pool'[c].queue # Dangling => c = d
      BY <2>6 DEF QueuesAreOwn
    <3>2. \A c \in DOMAIN pool : pool'[c].queue # pool'[Len(pool) + 1].queue
      BY <2>4, <2>6, <2>8, <2>9
    <3>3. QED
      BY <2>6, <3>1, <3>2
  <2>12. QED
    BY <2>10, <2>11 DEF QueuesAreOwn
<1>2. CASE Deletes
  BY <1>2 DEF Deletes, QueuesAreOwn
<1>3. CASE Forsakes
  <2>1. DOMAIN pool' = DOMAIN pool /\ \A c \in DOMAIN pool : pool'[c].queue = Dangling
    <3>1. \A c \in DOMAIN pool : pool[c] \in Context
      BY DEF PathsOK
    <3>2. QED
      BY <1>3, <3>1 DEF Forsakes, Context
  <2>2. QED
    BY <2>1 DEF QueuesAreOwn
<1>4. CASE KeepsPaths
  BY <1>4 DEF KeepsPaths, QueuesAreOwn
<1>5. CASE UNCHANGED <<pool, queues>>
  BY <1>5 DEF QueuesAreOwn
<1>6. QED
  BY <1>1, <1>2, <1>3, <1>4, <1>5, AnyStep DEF StaysQuiet, Stays, Calls, Closes, Shows

\* A context is given out once.
LEMMA OwnStep ==
  ASSUME SInv, [ServiceNext]_vars
  PROVE  ContextsAreOwn'
<1> USE DEF SInv
<1>1. CASE \E s \in Service : Opens(s)
  <2>1. PICK s \in Service : Opens(s)
    BY <1>1
  <2>2. /\ Len(pool) \in Nat /\ DOMAIN pool = 1..Len(pool)
        /\ serviceContext \in [Service -> DOMAIN pool \cup {NULL, Dangling}]
    BY DEF PathsOK
  <2>3. Len(pool) + 1 \notin DOMAIN pool \cup {NULL, Dangling}
    BY <2>2, NullAssumption
  <2>4. serviceContext' = [serviceContext EXCEPT ![s] = Len(pool) + 1]
    BY <2>1 DEF Opens
  <2>5. QED
    BY <2>2, <2>3, <2>4 DEF ContextsAreOwn, HasContext
<1>2. CASE \E s \in Service : Closes(s)
  BY <1>2 DEF Closes, ContextsAreOwn, HasContext, PathsOK
<1>3. CASE Deletes
  BY <1>3 DEF Deletes, ContextsAreOwn, HasContext
<1>4. CASE UNCHANGED serviceContext
  BY <1>4 DEF ContextsAreOwn, HasContext
<1>5. QED
  BY <1>1, <1>2, <1>3, <1>4, AnyStep DEF StaysQuiet, Stays, Calls, Shows, Forsakes

\* A reference outlives its service, and no later service gets its queue.
LEMMA ReferenceStep ==
  ASSUME SInv, [ServiceNext]_vars
  PROVE  RefereeIsReached' /\ ReferenceReachesItsServiceOnly'
<1>1. /\ PathsOK /\ QueuesAreOwn /\ ContextsAreOwn /\ RefereeIsReached
      /\ ReferenceReachesItsServiceOnly
  BY DEF SInv
<1>2. /\ referee \in Service \cup {NULL} /\ NULL \notin Service
      /\ serviceContext \in [Service -> DOMAIN pool \cup {NULL, Dangling}]
  BY <1>1, NullAssumption DEF PathsOK
<1>3. CASE \E s \in Service : Opens(s)
  <2>1. PICK s \in Service, own \in BOOLEAN :
          /\ Opens(s)
          /\ pool' = Append(pool, [stdair |-> NULL, own |-> own, queue |-> Len(queues) + 1])
    BY <1>3 DEF Opens
  <2>2. /\ pool \in Seq(Context) /\ queues \in Seq(Queue)
        /\ reference \in DOMAIN queues \cup {NULL}
    BY <1>1 DEF PathsOK
  <2>3. /\ serviceContext' = [serviceContext EXCEPT ![s] = Len(pool) + 1]
        /\ reference' = reference /\ referee' = referee /\ ~ HasContext(s)
    BY <2>1 DEF Opens, referenceVars
  <2>4. \A t \in Service \ {s} : /\ HasContext(t)' <=> HasContext(t)
                                 /\ HasContext(t) => QueueOf(t)' = QueueOf(t)
    <3>1. \A c \in DOMAIN pool : pool'[c] = pool[c]
      BY <2>1, <2>2
    <3>2. \A t \in Service \ {s} : serviceContext'[t] = serviceContext[t]
      BY <1>2, <2>3
    <3>3. QED
      BY <1>2, <3>1, <3>2 DEF HasContext, QueueOf
  <2>5. referee # s
    BY <1>1, <1>2, <2>3 DEF RefereeIsReached
  <2>6. RefereeIsReached'
    BY <1>1, <1>2, <2>3, <2>4, <2>5 DEF RefereeIsReached
  <2>7. reference # NULL => QueueOf(s)' # reference
    <3>1. pool'[Len(pool) + 1].queue = Len(queues) + 1
      BY <2>1, <2>2
    <3>2. serviceContext'[s] = Len(pool) + 1
      BY <1>2, <2>3
    <3>3. Len(queues) + 1 \notin DOMAIN queues
      BY <2>2
    <3>4. QED
      BY <2>2, <3>1, <3>2, <3>3 DEF QueueOf
  <2>8. ReferenceReachesItsServiceOnly'
    BY <1>1, <2>3, <2>4, <2>5, <2>7 DEF ReferenceReachesItsServiceOnly
  <2>9. QED
    BY <2>6, <2>8
<1>4. CASE \E s \in Service : Closes(s)
  <2>1. PICK s \in Service : Closes(s)
    BY <1>4
  <2>2. /\ serviceContext' = [serviceContext EXCEPT ![s] = NULL]
        /\ reference' = reference
        /\ referee' = IF referee = s THEN NULL ELSE referee
        /\ \A c \in DOMAIN pool : pool'[c].queue = pool[c].queue
    BY <2>1 DEF Closes, KeepsPaths
  <2>3. \A t \in Service \ {s} : /\ HasContext(t)' <=> HasContext(t)
                                 /\ HasContext(t) => QueueOf(t)' = QueueOf(t)
    <3>1. \A t \in Service \ {s} : serviceContext'[t] = serviceContext[t]
      BY <1>2, <2>2
    <3>2. QED
      BY <1>2, <2>2, <3>1 DEF HasContext, QueueOf
  <2>4. ~ HasContext(s)'
    BY <1>2, <2>2 DEF HasContext
  <2>5. RefereeIsReached'
    BY <1>1, <1>2, <2>2, <2>3 DEF RefereeIsReached
  <2>6. ReferenceReachesItsServiceOnly'
    BY <1>1, <1>2, <2>2, <2>3, <2>4 DEF ReferenceReachesItsServiceOnly
  <2>7. QED
    BY <2>5, <2>6
<1>5. CASE \E s \in Service : Shows(s)
  <2>1. PICK s \in Service : Shows(s)
    BY <1>5
  <2>2. \A t \in Service : /\ HasContext(t)' <=> HasContext(t)
                           /\ QueueOf(t)' = QueueOf(t)
    BY <2>1 DEF Shows, HasContext, QueueOf
  <2>3. reference' = QueueOf(s) /\ referee' = s /\ HasQueue(s) /\ HasContext(s)
    BY <2>1 DEF Shows, HasQueue
  <2>4. \A t \in Service : HasContext(t) => (QueueOf(t) = QueueOf(s) <=> t = s)
    BY <1>1, <2>3, QueueOfOne
  <2>5. QED
    BY <2>2, <2>3, <2>4 DEF RefereeIsReached, ReferenceReachesItsServiceOnly
<1>6. CASE Deletes \/ Forsakes
  BY <1>6 DEF Deletes, Forsakes, RefereeIsReached, ReferenceReachesItsServiceOnly
<1>7. CASE Stays
  <2>1. UNCHANGED <<serviceContext, reference, referee>>
    BY <1>7 DEF Stays, KeepsPaths
  <2>2. \A t \in Service : /\ HasContext(t)' <=> HasContext(t)
                           /\ HasContext(t) => QueueOf(t)' = QueueOf(t)
    BY <1>2, <1>7, <2>1 DEF Stays, KeepsPaths, HasContext, QueueOf
  <2>3. RefereeIsReached'
    BY <1>1, <1>2, <2>1, <2>2 DEF RefereeIsReached
  <2>4. ReferenceReachesItsServiceOnly'
    BY <1>1, <2>1, <2>2 DEF ReferenceReachesItsServiceOnly
  <2>5. QED
    BY <2>3, <2>4
<1>8. QED
  BY <1>1, <1>3, <1>4, <1>5, <1>6, <1>7, AnyStep DEF StaysQuiet, Calls

\* The invariant holds at the start: there is no service yet.
LEMMA SInvInit == ServiceInit => SInv
<1> SUFFICES ASSUME ServiceInit PROVE SInv
  OBVIOUS
<1>1. <<>> \in Seq(Context) /\ <<>> \in Seq(Queue)
  OBVIOUS
<1>2. PathsOK
  BY <1>1 DEF ServiceInit, PathsOK
<1>3. QED
  BY <1>2 DEF ServiceInit, SInv, QueuesAreOwn, ContextsAreOwn, RefereeIsReached,
              ReferenceReachesItsServiceOnly, HasContext

\* And every step keeps it.
LEMMA SInvStep == SInv /\ [ServiceNext]_vars => SInv'
BY PathsStep, PairsStep, OwnStep, ReferenceStep DEF SInv

\* Every reachable state satisfies the invariant of the paths from services to
\* queues: contexts and queues are given out once, also when others are lost
\* (FacSEVMGRServiceContext::create, SEVMGR_ServiceContext::initEventQueue).
THEOREM ServiceInvariance == ServiceSpec => []SInv
BY SInvInit, SInvStep, PTL DEF ServiceSpec

\* For any number of services: a reference from getEventQueue reaches its service
\* while that exists and none of the living afterwards
\* (SEVMGR_Service::getEventQueue).
THEOREM ReferenceReachesItsServiceOnlyHolds == ServiceSpec => []ReferenceReachesItsServiceOnly
<1>1. SInv => ReferenceReachesItsServiceOnly
  BY DEF SInv
<1>2. QED
  BY <1>1, ServiceInvariance, PTL

-----------------------------------------------------------------------------
(* What clients see.                                                        *)

\* A service that keeps its context, or its lack of one, and whose queue does
\* not change, looks the same.
LEMMA SeenStays ==
  ASSUME NEW s \in Service, serviceContext'[s] = serviceContext[s],
         HasContext(s) => QueueOf(s)' = QueueOf(s),
         HasQueue(s) => queues'[QueueOf(s)] = queues[QueueOf(s)]
  PROVE  Seen(s)' = Seen(s)
<1>1. HasContext(s)' <=> HasContext(s)
  BY DEF HasContext
<1>2. HasQueue(s)' <=> HasQueue(s)
  BY <1>1 DEF HasQueue
<1>3. HasQueue(s) => QueueOf(s)' = QueueOf(s)
  BY DEF HasQueue
<1>4. QED
  BY <1>2, <1>3 DEF Seen, NewQueue

\* Where the paths stay, so does the queue of a service that keeps its context.
LEMMA QueueStays ==
  ASSUME PathsOK, KeepsPaths, NEW s \in Service, serviceContext'[s] = serviceContext[s],
         HasContext(s)
  PROVE  QueueOf(s)' = QueueOf(s)
BY DEF PathsOK, KeepsPaths, HasContext, QueueOf

\* The other services when one opens or closes; and a new service is as if it
\* had never been anything else.
LEMMA OpeningIsUnseen ==
  ASSUME SInv, NEW s \in Service, Opens(s), NEW t \in Service
  PROVE  Seen(t)' = Seen(t)
<1>1. PathsOK /\ QueuesAreOwn
  BY DEF SInv
<1>2. PICK own \in BOOLEAN :
        pool' = Append(pool, [stdair |-> NULL, own |-> own, queue |-> Len(queues) + 1])
  BY DEF Opens
<1>3. serviceContext' = [serviceContext EXCEPT ![s] = Len(pool) + 1] /\ ~ HasContext(s)
  BY DEF Opens
<1>4. /\ pool \in Seq(Context) /\ queues \in Seq(Queue) /\ queues' = Append(queues, NewQueue)
      /\ NewQueue \in Queue
      /\ serviceContext \in [Service -> DOMAIN pool \cup {NULL, Dangling}]
  BY <1>1, NewQueueType DEF Opens, PathsOK
<1>5. CASE t = s
  <2>1. /\ serviceContext'[s] = Len(pool) + 1 /\ Len(pool) + 1 \in Int
        /\ Len(queues) + 1 \in Int
    BY <1>3, <1>4
  <2>2. HasContext(s)'
    BY <2>1, NullAssumption DEF HasContext
  <2>3. QueueOf(s)' = Len(queues) + 1
    <3>1. pool'[Len(pool) + 1].queue = Len(queues) + 1
      BY <1>2, <1>4
    <3>2. QED
      BY <2>1, <3>1 DEF QueueOf
  <2>4. HasQueue(s)'
    BY <2>1, <2>2, <2>3, NullAssumption DEF HasQueue
  <2>5. queues'[Len(queues) + 1] = NewQueue
    BY <1>4
  <2>6. Seen(s)' = NewQueue /\ Seen(s) = NewQueue
    BY <1>3, <2>3, <2>4, <2>5 DEF Seen, HasQueue, NewQueue
  <2>7. QED
    BY <1>5, <2>6
<1>6. CASE t # s
  <2>1. serviceContext'[t] = serviceContext[t]
    BY <1>3, <1>4, <1>6
  <2>2. HasContext(t) => QueueOf(t)' = QueueOf(t)
    <3>1. \A c \in DOMAIN pool : pool'[c] = pool[c]
      BY <1>2, <1>4
    <3>2. QED
      BY <1>1, <2>1, <3>1, QueueOfContext DEF QueueOf
  <2>3. HasQueue(t) => queues'[QueueOf(t)] = queues[QueueOf(t)]
    <3>1. HasQueue(t) => QueueOf(t) \in DOMAIN queues
      BY <1>1, QueueOfContext DEF HasQueue
    <3>2. QED
      BY <1>4, <3>1
  <2>4. QED
    BY <2>1, <2>2, <2>3, SeenStays
<1>7. QED
  BY <1>5, <1>6

LEMMA ClosingIsUnseen ==
  ASSUME SInv, NEW s \in Service, Closes(s), UNCHANGED queues,
         NEW t \in Service \ {s}
  PROVE  Seen(t)' = Seen(t)
<1>1. PathsOK /\ KeepsPaths /\ serviceContext'[t] = serviceContext[t]
  BY DEF SInv, Closes, PathsOK
<1>2. HasContext(t) => QueueOf(t)' = QueueOf(t)
  BY <1>1, QueueStays
<1>3. QED
  BY <1>1, <1>2, SeenStays

\* A step that only leaves another queue behind, or shows one.
LEMMA QuietIsUnseen ==
  ASSUME SInv, StaysQuiet \/ UNCHANGED <<serviceContext, pool, queues>>, NEW t \in Service
  PROVE  Seen(t)' = Seen(t)
<1>1. PathsOK /\ QueuesAreOwn /\ serviceContext'[t] = serviceContext[t]
  BY DEF SInv, StaysQuiet, Stays
<1>2. HasContext(t) => QueueOf(t)' = QueueOf(t)
  BY <1>1, QueueStays DEF StaysQuiet, Stays, QueueOf
<1>3. HasQueue(t) => queues'[QueueOf(t)] = queues[QueueOf(t)]
  BY <1>1, QueueOfContext DEF HasQueue, StaysQuiet
<1>4. QED
  BY <1>1, <1>2, <1>3, SeenStays

\* A call on queue q is seen by the service of that queue only.
LEMMA CallIsSeenByOne ==
  ASSUME SInv, NEW q \in DOMAIN queues, Calls(q),
         NEW t \in Service, HasQueue(t) => QueueOf(t) # q
  PROVE  Seen(t)' = Seen(t)
<1>1. PathsOK /\ QueuesAreOwn /\ KeepsPaths /\ serviceContext'[t] = serviceContext[t]
  BY DEF SInv, Calls, Stays
<1>2. HasContext(t) => QueueOf(t)' = QueueOf(t)
  BY <1>1, QueueStays
<1>3. HasQueue(t) => queues'[QueueOf(t)] = queues[QueueOf(t)]
  BY <1>1, QueueOfContext DEF Calls, HasQueue
<1>4. QED
  BY <1>1, <1>2, <1>3, SeenStays

\* No step but a deletion is seen by two services.
LEMMA SeenByOne ==
  ASSUME SInv, [ServiceNext]_vars, ~ cleaning, NEW s \in Service, NEW t \in Service, s # t
  PROVE  Seen(s)' = Seen(s) \/ Seen(t)' = Seen(t)
<1>1. PathsOK /\ QueuesAreOwn /\ ContextsAreOwn
  BY DEF SInv
<1>2. CASE StaysQuiet \/ \E r \in Service : Shows(r)
  BY <1>2, QuietIsUnseen DEF Shows
<1>3. CASE \E q \in DOMAIN queues : Calls(q)
  <2>1. PICK q \in DOMAIN queues : Calls(q)
    BY <1>3
  <2>2. \/ HasQueue(s) => QueueOf(s) # q
        \/ HasQueue(t) => QueueOf(t) # q
    BY <1>1, QueueOfOne DEF HasQueue
  <2>3. QED
    BY <2>1, <2>2, CallIsSeenByOne
<1>4. CASE \E r \in Service : Opens(r)
  BY <1>4, OpeningIsUnseen
<1>5. CASE \E r \in Service : Closes(r) /\ UNCHANGED queues
  <2>1. PICK r \in Service : Closes(r) /\ UNCHANGED queues
    BY <1>5
  <2>2. s \in Service \ {r} \/ t \in Service \ {r}
    OBVIOUS
  <2>3. QED
    BY <2>1, <2>2, ClosingIsUnseen
<1>6. ~ CleanAll
  BY DEF CleanAll, QueuesAreDeleted
<1>7. QED
  BY <1>1, <1>2, <1>3, <1>4, <1>5, <1>6, AnyStep

\* For any number of services and contexts: a call on a service, or through a
\* reference, does not reach what the client of another service sees
\* (SEVMGR_Service::getEventQueue and the factory).
THEOREM CallsReachOneQueueHolds == ServiceSpec => CallsReachOneQueue
<1>1. SInv /\ [ServiceNext]_vars =>
        [~ cleaning => \A s, t \in Service :
           s # t => Seen(s)' = Seen(s) \/ Seen(t)' = Seen(t)]_vars
  BY SeenByOne
<1>2. QED
  BY <1>1, ServiceInvariance, PTL DEF ServiceSpec, CallsReachOneQueue

-----------------------------------------------------------------------------
(* The services as calendars.                                               *)

\* The queue of a new service is an empty calendar.
LEMMA NewIsClear == NewQueue.pending = [i \in {} |-> i] /\ NewQueue.served = 0
<1>1. <<>> = [i \in {} |-> i]
  OBVIOUS
<1>2. QED
  BY <1>1 DEF NewQueue

\* A call on its queue is a step of a service's calendar.
LEMMA CallIsCalendarStep ==
  ASSUME NEW s \in Service,
         Seen(s) \in Queue, NEW q \in DOMAIN queues, queues \in Seq(Queue),
         Seen(s) = queues[q], Seen(s)' = queues'[q],
         Adds(q) \/ Pops(q) \/ Resets(q)
  PROVE  Calendar(s)!Next
<1> DEFINE pending == queues[q].pending
<1>1. CASE Adds(q)
  <2>1. PICK payload \in Payload, instant \in Instant \ DOMAIN pending :
          /\ Due[payload] <= instant
          /\ queues' = [queues EXCEPT ![q].pending =
                         [i \in DOMAIN pending \cup {instant} |->
                            IF i = instant THEN payload ELSE pending[i]]]
    BY <1>1 DEF Adds
  <2> DEFINE grown == [i \in DOMAIN pending \cup {instant} |->
                         IF i = instant THEN payload ELSE pending[i]]
  <2>2. queues' = [queues EXCEPT ![q].pending = grown] /\ DOMAIN grown = DOMAIN pending \cup {instant}
    BY <2>1
  <2> HIDE DEF grown
  <2>3. queues'[q].pending = grown /\ queues'[q].served = queues[q].served
    BY <2>2 DEF Queue
  <2>4. Calendar(s)!Schedule(payload, instant)
    BY <2>1, <2>3 DEF Calendar!Schedule, grown
  <2>5. QED
    BY <2>2, <2>3, <2>4 DEF Calendar!Next
<1>2. CASE Pops(q)
  <2>1. PICK instant \in DOMAIN pending :
          /\ \A i \in DOMAIN pending : instant <= i
          /\ queues' = [queues EXCEPT ![q] =
                         [pending |-> [i \in DOMAIN pending \ {instant} |-> pending[i]],
                          served  |-> queues[q].served + 1]]
    BY <1>2 DEF Pops
  <2> DEFINE left == [i \in DOMAIN pending \ {instant} |-> pending[i]]
  <2>2. queues'[q].pending = left /\ queues'[q].served = queues[q].served + 1
    <3> HIDE DEF left
    <3>1. queues' = [queues EXCEPT ![q] = [pending |-> left, served |-> queues[q].served + 1]]
      BY <2>1 DEF left
    <3>2. QED
      BY <3>1
  <2>3. Calendar(s)!Serve(instant)
    BY <2>1, <2>2 DEF Calendar!Serve
  <2>4. QED
    BY <2>3 DEF Calendar!Next
<1>3. CASE Resets(q)
  BY <1>3, NewIsClear DEF Resets, Calendar!Next, Calendar!Clear
<1>4. QED
  BY <1>1, <1>2, <1>3

\* A service that goes, or loses its queue, is seen as a calendar that is cleared.
LEMMA GoneIsCleared ==
  ASSUME NEW s \in Service, ~ HasQueue(s)'
  PROVE  Calendar(s)!Next
<1>1. Seen(s)' = NewQueue
  BY DEF Seen, NewQueue
<1>2. QED
  BY <1>1, NewIsClear DEF Calendar!Next, Calendar!Clear

\* The services whose contexts outlive their queues have none any more.
LEMMA ForsakenQueueIsLost ==
  ASSUME PathsOK, Forsakes, NEW s \in Service
  PROVE  ~ HasQueue(s)'
<1> SUFFICES ASSUME HasContext(s)' PROVE QueueOf(s)' = Dangling
  BY DEF HasQueue
<1>1. serviceContext[s] \in DOMAIN pool /\ serviceContext' = serviceContext
  BY DEF Forsakes, PathsOK, HasContext
<1>2. pool[serviceContext[s]] \in Context
  BY <1>1 DEF PathsOK
<1>3. pool'[serviceContext[s]].queue = Dangling
  BY <1>1, <1>2 DEF Forsakes, Context
<1>4. QED
  BY <1>1, <1>3 DEF QueueOf

\* Every step is, of each service, a step of its calendar or unseen.
LEMMA CalendarStep ==
  ASSUME SInv, [ServiceNext]_vars, NEW s \in Service
  PROVE  Calendar(s)!Next \/ Seen(s)' = Seen(s)
<1>1. PathsOK /\ QueuesAreOwn /\ queues \in Seq(Queue)
  BY DEF SInv, PathsOK
<1>2. CASE StaysQuiet \/ \E r \in Service : Shows(r)
  BY <1>2, QuietIsUnseen DEF Shows
<1>3. CASE \E q \in DOMAIN queues : Calls(q)
  <2>1. PICK q \in DOMAIN queues : Calls(q)
    BY <1>3
  <2>2. CASE HasQueue(s) /\ QueueOf(s) = q
    <3>1. Seen(s) = queues[q]
      BY <2>2 DEF Seen
    <3>2. HasContext(s) /\ KeepsPaths /\ serviceContext' = serviceContext
      BY <2>1, <2>2 DEF Calls, Stays, HasQueue
    <3>3. QueueOf(s)' = q /\ HasQueue(s)'
      <4>1. QueueOf(s)' = q
        BY <1>1, <2>2, <3>2, QueueStays
      <4>2. QED
        BY <2>2, <3>2, <4>1 DEF HasQueue, HasContext
    <3>4. Seen(s)' = queues'[q]
      BY <3>3 DEF Seen
    <3>5. QED
      BY <1>1, <2>1, <3>1, <3>4, CallIsCalendarStep DEF Calls
  <2>3. CASE ~ (HasQueue(s) /\ QueueOf(s) = q)
    BY <2>1, <2>3, CallIsSeenByOne
  <2>4. QED
    BY <2>2, <2>3
<1>4. CASE \E r \in Service : Opens(r)
  BY <1>4, OpeningIsUnseen
<1>5. CASE \E r \in Service : Closes(r) /\ UNCHANGED queues
  <2>1. PICK r \in Service : Closes(r) /\ UNCHANGED queues
    BY <1>5
  <2>2. CASE s = r
    <3>1. ~ HasQueue(s)'
      BY <1>1, <2>1, <2>2 DEF Closes, HasContext, HasQueue, PathsOK
    <3>2. QED
      BY <3>1, GoneIsCleared
  <2>3. CASE s # r
    BY <2>1, <2>3, ClosingIsUnseen
  <2>4. QED
    BY <2>2, <2>3
<1>6. CASE Deletes
  <2>1. ~ HasQueue(s)'
    BY <1>6 DEF Deletes, HasContext, HasQueue
  <2>2. QED
    BY <2>1, GoneIsCleared
<1>7. CASE Forsakes
  <2>1. ~ HasQueue(s)'
    BY <1>1, <1>7, ForsakenQueueIsLost
  <2>2. QED
    BY <2>1, GoneIsCleared
<1>8. QED
  BY <1>1, <1>2, <1>3, <1>4, <1>5, <1>6, <1>7, AnyStep

\* For any number of services: each is a calendar of its own, empty from its
\* construction, whatever the others do and whatever was left in the pools
\* (SEVMGR_ServiceContext::initEventQueue, FacSEVMGRServiceContext::create).
THEOREM ServicesImplementCalendarsHolds == ServiceSpec => ServicesImplementCalendars
<1>1. ServiceInit => \A s \in Service : Calendar(s)!Init
  BY NewIsClear DEF ServiceInit, Calendar!Init, Seen, HasQueue, HasContext
<1>2. SInv /\ [ServiceNext]_vars =>
        [\A s \in Service : [Calendar(s)!Next]_(Seen(s))]_vars
  BY CalendarStep
<1>3. QED
  BY <1>1, <1>2, ServiceInvariance, PTL DEF ServiceSpec, ServicesImplementCalendars

-----------------------------------------------------------------------------
(* The factory.                                                             *)

\* A context that is not forgotten has its queue.
QueuesAreKept == \A c \in DOMAIN pool : pool[c].queue # Dangling

\* A step on the paths takes no queue from a context, save a deletion that does not
\* reach the contexts.
LEMMA QueuesKeptStep ==
  ASSUME SInv, [ServiceNext]_vars, QueuesAreKept
  PROVE  QueuesAreKept' \/ (CleanAll /\ Forsakes)
<1>1. PathsOK /\ QueuesAreOwn
  BY DEF SInv
<1>2. CASE \E s \in Service : Opens(s)
  <2>1. PICK own \in BOOLEAN :
          pool' = Append(pool, [stdair |-> NULL, own |-> own, queue |-> Len(queues) + 1])
    BY <1>2 DEF Opens
  <2>2. pool \in Seq(Context) /\ Len(queues) + 1 \in Int
    BY <1>1 DEF PathsOK
  <2>3. /\ DOMAIN pool' = DOMAIN pool \cup {Len(pool) + 1}
        /\ pool'[Len(pool) + 1].queue = Len(queues) + 1
        /\ \A c \in DOMAIN pool : pool'[c] = pool[c]
    BY <2>1, <2>2
  <2>4. QED
    BY <2>2, <2>3, NullAssumption DEF QueuesAreKept
<1>3. CASE KeepsPaths
  BY <1>3 DEF KeepsPaths, QueuesAreKept
<1>4. CASE Deletes
  BY <1>4 DEF Deletes, QueuesAreKept
<1>5. CASE UNCHANGED pool
  BY <1>5 DEF QueuesAreKept
<1>6. QED
  BY <1>1, <1>2, <1>3, <1>4, <1>5, AnyStep DEF StaysQuiet, Stays, Calls, Closes, Shows

\* What FacSupervisor knows, and whether there is a context.
FactoryOK ==
  /\ pool # <<>> => instance
  /\ IF unregistered THEN instance /\ supervised = 0
                     ELSE supervised = IF instance THEN 1 ELSE 0

\* The factory registers when it is made, if that does not throw, and is forgotten
\* when it is deleted.
LEMMA FactoryStep ==
  ASSUME SInv, FactoryOK, [ServiceNext]_vars
  PROVE  FactoryOK'
<1>1. CASE Instance
  BY <1>1 DEF Instance, FactoryOK
<1>2. CASE CleanAll
  <2>1. QueuesAreDeleted /\ UNCHANGED unregistered
    BY <1>2 DEF CleanAll, QueuesAreDeleted
  <2>2. CASE ContextsAreDeleted /\ instance' = FALSE
    BY <2>1, <2>2 DEF ContextsAreDeleted, FactoryOK
  <2>3. CASE ContextsAreForgotten
    <3>1. pool = <<>> => pool' = <<>>
      BY <2>3 DEF ContextsAreForgotten
    <3>2. QED
      BY <2>1, <2>3, <3>1 DEF ContextsAreForgotten, FactoryOK
  <2>4. QED
    BY <1>2, <2>2, <2>3 DEF CleanAll
<1>3. CASE UNCHANGED factoryVars /\ DOMAIN pool' = DOMAIN pool
  <2>1. pool \in Seq(Context) /\ pool' \in Seq(Context)
    BY PathsStep DEF SInv, PathsOK
  <2>2. pool' # <<>> => pool # <<>>
    BY <1>3, <2>1
  <2>3. QED
    BY <1>3, <2>2 DEF FactoryOK, factoryVars
<1>4. CASE AddStdAirService \/ \E s \in Service : Destroy(s)
  <2>1. pool \in Seq(Context)
    BY DEF SInv, PathsOK
  <2>2. UNCHANGED factoryVars /\ DOMAIN pool' = DOMAIN pool
    BY <1>4, <2>1 DEF AddStdAirService, Destroy
  <2>3. QED
    BY <1>3, <2>2
<1>5. CASE \E q : Adds(q) \/ Pops(q) \/ Resets(q)
  BY <1>3, <1>5 DEF Adds, Pops, Resets, OnlyQueuesChange
<1>6. CASE InstanceThrows /\ UNCHANGED pool
  BY <1>6 DEF InstanceThrows, FactoryOK
<1>7. QED
  BY <1>1, <1>2, <1>3, <1>4, <1>5, <1>6
  DEF ServiceNext, vars, ApplicationMakes, ApplicationDrops, ConstructWithOwn, ConstructOn,
      InitServiceContext, Create, InitServiceContextThrows, CreateThrows, AddEvent, PopEvent,
      Reset, GetEventQueue, CallThroughReference

\* A context loses its queue only when FacSupervisor does not know the factory,
\* which has then failed to register.
LEMMA LostQueueStep ==
  ASSUME SInv, FactoryOK, [ServiceNext]_vars, ~ unregistered => QueuesAreKept
  PROVE  ~ unregistered' => QueuesAreKept'
<1> SUFFICES ASSUME ~ unregistered', ~ QueuesAreKept' PROVE FALSE
  OBVIOUS
<1>1. unregistered => unregistered'
  BY DEF ServiceNext, vars, factoryVars, ApplicationMakes, ApplicationDrops, ConstructWithOwn,
         ConstructOn, Instance, InstanceThrows, InitServiceContext, Create, CreateThrows,
         InitServiceContextThrows, AddStdAirService, AddEvent, PopEvent, Reset, Adds, Pops,
         Resets, OnlyQueuesChange, GetEventQueue, CallThroughReference, Destroy, CleanAll,
         QueuesAreDeleted
<1>2. ~ unregistered /\ QueuesAreKept /\ CleanAll /\ Forsakes
  BY <1>1, QueuesKeptStep
<1>3. pool # <<>>
  <2>1. pool = <<>> => QueuesAreKept'
    BY <1>2 DEF Forsakes, QueuesAreKept
  <2>2. QED
    BY <2>1
<1>4. supervised = 1
  BY <1>2, <1>3 DEF FactoryOK
<1>5. pool' = <<>>
  BY <1>2, <1>4 DEF CleanAll, ContextsAreDeleted, ContextsAreForgotten
<1>6. QED
  BY <1>5 DEF QueuesAreKept

\* Whatever is built, thrown, destroyed and deleted, a context goes with its queue
\* and FacSupervisor knows the factory once while there is one, or the registration
\* itself has thrown (FacSEVMGRServiceContext::instance and its destructor).
THEOREM ContextsGoWithTheirQueuesHolds == ServiceSpec => []ContextsGoWithTheirQueues
<1> DEFINE Kept == ~ unregistered => QueuesAreKept
<1>1. ServiceInit => FactoryOK /\ Kept
  BY DEF ServiceInit, FactoryOK, QueuesAreKept
<1>2. SInv /\ FactoryOK /\ Kept /\ [ServiceNext]_vars => FactoryOK' /\ Kept'
  BY FactoryStep, LostQueueStep
<1>3. FactoryOK /\ Kept => ContextsGoWithTheirQueues
  BY DEF FactoryOK, QueuesAreKept, ContextsGoWithTheirQueues
<1> HIDE DEF Kept
<1>4. QED
  BY <1>1, <1>2, <1>3, ServiceInvariance, PTL DEF ServiceSpec

-----------------------------------------------------------------------------
(* Lifetimes: the count of a StdAir service is the number of its holders.   *)

\* The services whose context has a pointer on x.
Users(x) == {s \in Service : HasContext(s) /\ pool[serviceContext[s]].stdair = x}

InFrame(x) == constructing # NULL /\ constructing.stdair = x

HolderCount(x) ==
  Cardinality(Users(x)) + (IF x \in application THEN 1 ELSE 0)
                        + (IF InFrame(x) THEN 1 ELSE 0)

LifetimesOK ==
  /\ useCount \in [StdAir -> Nat]
  /\ application \subseteq StdAir
  /\ cleaning \in BOOLEAN
  /\ apart \in BOOLEAN

CountsHolders ==
  \A x \in StdAir : IsFiniteSet(Users(x)) /\ useCount[x] = HolderCount(x)

\* A constructor in progress is not interrupted by a deletion, and its context,
\* if there is one yet, holds nothing that the frame does not hold.
FrameHolds ==
  constructing # NULL =>
    /\ ~ cleaning
    /\ serviceContext[constructing.service] # Dangling
    /\ HasContext(constructing.service) =>
         pool[serviceContext[constructing.service]].stdair = NULL

\* A service that is constructed holds a StdAir service.
ContextsAreFilled ==
  \A s \in Service :
    HasContext(s) => \/ pool[serviceContext[s]].stdair \in StdAir
                     \/ constructing # NULL /\ constructing.service = s

\* Until two StdAir services have lived together, the one that ends is alone.
OneAtATime ==
  ~ apart =>
    /\ \A x, y \in StdAir : useCount[x] > 0 /\ useCount[y] > 0 => x = y
    /\ cleaning => \A x \in StdAir : useCount[x] = 0

\* A service that has only met one StdAir service keeps its context.
NoContextDangles == ~ apart => \A s \in Service : serviceContext[s] # Dangling

LInv ==
  /\ SInv
  /\ LifetimesOK
  /\ CountsHolders
  /\ FrameHolds
  /\ ContextsAreFilled
  /\ OneAtATime
  /\ NoContextDangles

\* Without a StdAir service there is no holder.
LEMMA NothingHoldsTheDead ==
  ASSUME LInv, NEW x \in StdAir
  PROVE  /\ Cardinality(Users(x)) \in Nat
         /\ useCount[x] \in Nat
         /\ useCount[x] = HolderCount(x)
         /\ useCount[x] = 0 => x \notin application /\ ~ InFrame(x) /\ Users(x) = {}
<1>1. IsFiniteSet(Users(x)) /\ useCount[x] = HolderCount(x) /\ useCount[x] \in Nat
  BY DEF LInv, CountsHolders, LifetimesOK
<1>2. Cardinality(Users(x)) \in Nat /\ (Cardinality(Users(x)) = 0 <=> Users(x) = {})
  BY <1>1, FS_CardinalityType, FS_EmptySet
<1>3. QED
  BY <1>1, <1>2 DEF HolderCount

\* The users change with the contexts only.
LEMMA UsersStay ==
  ASSUME NEW x \in StdAir, UNCHANGED <<serviceContext, pool>>
  PROVE  Users(x)' = Users(x)
BY DEF Users, HasContext

\* A StdAir service is made, by the application or by a constructor: it has no
\* holder yet, and is alone unless there has been another.
LEMMA MakingLeavesOneAtATime ==
  ASSUME LInv, NEW x \in StdAir, useCount[x] = 0, ~ cleaning,
         useCount' = [useCount EXCEPT ![x] = 1], Lives(x), UNCHANGED cleaning
  PROVE  OneAtATime'
BY DEF LInv, LifetimesOK, OneAtATime, Lives

\* A pointer is given up: where only one StdAir service lives, it is this one, and
\* the factories go only when no other holder is left.
LEMMA GivingUpLeavesOneAtATime ==
  ASSUME LInv, NEW x \in StdAir, useCount[x] > 0,
         useCount' = [useCount EXCEPT ![x] = @ - 1], MayEnd(x), UNCHANGED apart
  PROVE  OneAtATime'
<1>1. useCount \in [StdAir -> Nat] /\ OneAtATime
  BY DEF LInv, LifetimesOK
<1>2. \A y \in StdAir : useCount'[y] = IF y = x THEN useCount[x] - 1 ELSE useCount[y]
  BY <1>1
<1>3. ASSUME ~ apart', NEW y \in StdAir, y # x PROVE useCount'[y] = 0
  BY <1>1, <1>2, <1>3 DEF OneAtATime
<1>4. cleaning' => useCount[x] = 1
  BY DEF MayEnd
<1>5. QED
  BY <1>1, <1>2, <1>3, <1>4 DEF OneAtATime

\* The application makes a StdAir service.
LEMMA ApplicationMakesLifetimes ==
  ASSUME LInv, SInv', NEW x \in StdAir, ApplicationMakes(x)
  PROVE  LInv'
<1>1. /\ constructing = NULL /\ ~ cleaning /\ useCount[x] = 0
      /\ useCount' = [useCount EXCEPT ![x] = 1] /\ application' = application \cup {x}
      /\ Lives(x)
      /\ UNCHANGED <<serviceContext, constructing, cleaning, pool>>
  BY DEF ApplicationMakes, AtRest
<1>2. LifetimesOK'
  BY <1>1 DEF LInv, LifetimesOK, Lives
<1>3. ASSUME NEW y \in StdAir PROVE IsFiniteSet(Users(y)') /\ useCount'[y] = HolderCount(y)'
  <2>1. Users(y)' = Users(y) /\ (InFrame(y)' <=> InFrame(y)) /\ IsFiniteSet(Users(y))
    BY <1>1, UsersStay DEF InFrame, LInv, CountsHolders
  <2>2. useCount'[y] = IF y = x THEN 1 ELSE useCount[y]
    BY <1>1 DEF LInv, LifetimesOK
  <2>3. QED
    BY <1>1, <2>1, <2>2, NothingHoldsTheDead DEF HolderCount
<1>4. CountsHolders'
  BY <1>3 DEF CountsHolders
<1>5. OneAtATime'
  BY <1>1, MakingLeavesOneAtATime
<1>6. FrameHolds' /\ ContextsAreFilled' /\ NoContextDangles'
  BY <1>1 DEF LInv, FrameHolds, ContextsAreFilled, NoContextDangles, HasContext, Lives
<1>7. QED
  BY <1>2, <1>4, <1>5, <1>6 DEF LInv

\* The application drops its pointer.
LEMMA ApplicationDropsLifetimes ==
  ASSUME LInv, SInv', NEW x \in StdAir, ApplicationDrops(x)
  PROVE  LInv'
<1>1. /\ constructing = NULL /\ ~ cleaning /\ x \in application
      /\ useCount' = [useCount EXCEPT ![x] = @ - 1] /\ application' = application \ {x}
      /\ MayEnd(x)
      /\ UNCHANGED <<serviceContext, constructing, pool, apart>>
  BY DEF ApplicationDrops, AtRest
<1>2. useCount[x] > 0 /\ useCount[x] - 1 \in Nat
  BY <1>1, NothingHoldsTheDead
<1>3. LifetimesOK'
  BY <1>1, <1>2 DEF LInv, LifetimesOK, MayEnd
<1>4. ASSUME NEW y \in StdAir PROVE IsFiniteSet(Users(y)') /\ useCount'[y] = HolderCount(y)'
  <2>1. Users(y)' = Users(y) /\ (InFrame(y)' <=> InFrame(y)) /\ IsFiniteSet(Users(y))
    BY <1>1, UsersStay DEF InFrame, LInv, CountsHolders
  <2>2. useCount'[y] = IF y = x THEN useCount[x] - 1 ELSE useCount[y]
    BY <1>1 DEF LInv, LifetimesOK
  <2>3. QED
    BY <1>1, <2>1, <2>2, NothingHoldsTheDead DEF HolderCount
<1>5. CountsHolders'
  BY <1>4 DEF CountsHolders
<1>6. OneAtATime'
  BY <1>1, <1>2, GivingUpLeavesOneAtATime
<1>7. FrameHolds' /\ ContextsAreFilled' /\ NoContextDangles'
  BY <1>1 DEF LInv, FrameHolds, ContextsAreFilled, NoContextDangles, HasContext
<1>8. QED
  BY <1>3, <1>5, <1>6, <1>7 DEF LInv

\* A constructor starts, with a StdAir service of its own or with a counted
\* pointer on one of the application's.
LEMMA ConstructLifetimes ==
  ASSUME LInv, SInv', NEW s \in Service, NEW x \in StdAir,
         ConstructWithOwn(s, x) \/ ConstructOn(s, x)
  PROVE  LInv'
<1>1. /\ constructing = NULL /\ ~ cleaning /\ serviceContext[s] = NULL
      /\ useCount' = [useCount EXCEPT ![x] = @ + 1]
      /\ \E own \in BOOLEAN : constructing' = [service |-> s, stdair |-> x, own |-> own]
      /\ UNCHANGED <<serviceContext, application, cleaning, pool>>
  <2>1. CASE ConstructWithOwn(s, x)
    <3>1. useCount[x] = 0 /\ useCount' = [useCount EXCEPT ![x] = 1] /\ 0 + 1 = 1
      BY <2>1 DEF ConstructWithOwn
    <3>2. useCount' = [useCount EXCEPT ![x] = @ + 1]
      BY <3>1
    <3>3. QED
      BY <2>1, <3>2 DEF ConstructWithOwn, AtRest
  <2>2. CASE ConstructOn(s, x)
    BY <2>2 DEF ConstructOn, AtRest
  <2>3. QED
    BY <2>1, <2>2
<1>2. constructing' # NULL /\ constructing'.service = s /\ constructing'.stdair = x
  BY <1>1, NullAssumption
<1>3. useCount[x] \in Nat
  BY NothingHoldsTheDead
<1>4. LifetimesOK'
  <2>1. ConstructWithOwn(s, x) \/ ConstructOn(s, x) => apart' \in BOOLEAN
    BY DEF ConstructWithOwn, ConstructOn, Lives, LInv, LifetimesOK
  <2>2. QED
    BY <1>1, <1>3, <2>1 DEF LInv, LifetimesOK
<1>5. ASSUME NEW y \in StdAir PROVE IsFiniteSet(Users(y)') /\ useCount'[y] = HolderCount(y)'
  <2>1. Users(y)' = Users(y) /\ IsFiniteSet(Users(y)) /\ (InFrame(y)' <=> y = x) /\ ~ InFrame(y)
    BY <1>1, <1>2, UsersStay DEF InFrame, LInv, CountsHolders
  <2>2. useCount'[y] = IF y = x THEN useCount[x] + 1 ELSE useCount[y]
    BY <1>1 DEF LInv, LifetimesOK
  <2>3. QED
    BY <1>1, <2>1, <2>2, NothingHoldsTheDead DEF HolderCount
<1>6. CountsHolders'
  BY <1>5 DEF CountsHolders
<1>7. OneAtATime'
  <2>1. CASE ConstructWithOwn(s, x)
    BY <1>1, <2>1, MakingLeavesOneAtATime DEF ConstructWithOwn
  <2>2. CASE ConstructOn(s, x)
    <3>1. useCount[x] > 0 /\ UNCHANGED apart
      BY <2>2, NothingHoldsTheDead DEF ConstructOn
    <3>2. useCount \in [StdAir -> Nat] /\ OneAtATime
      BY DEF LInv, LifetimesOK
    <3>3. \A y \in StdAir : useCount'[y] > 0 => useCount[y] > 0
      BY <1>1, <3>1, <3>2
    <3>4. QED
      BY <1>1, <3>1, <3>2, <3>3 DEF OneAtATime
  <2>3. QED
    BY <2>1, <2>2
<1>8. FrameHolds'
  BY <1>1, <1>2, NullAssumption DEF FrameHolds, HasContext
<1>9. ContextsAreFilled'
  BY <1>1 DEF LInv, ContextsAreFilled, HasContext
<1>10. NoContextDangles'
  <2>1. apart => apart'
    BY DEF ConstructWithOwn, ConstructOn, Lives
  <2>2. QED
    BY <1>1, <2>1 DEF LInv, NoContextDangles
<1>11. QED
  BY <1>4, <1>6, <1>7, <1>8, <1>9, <1>10 DEF LInv

\* The constructor gets its context, which holds nothing yet.
LEMMA InitServiceContextLifetimes ==
  ASSUME LInv, SInv', InitServiceContext
  PROVE  LInv'
<1> DEFINE s == constructing.service
<1>1. PICK own \in BOOLEAN :
        pool' = Append(pool, [stdair |-> NULL, own |-> own, queue |-> Len(queues) + 1])
  BY DEF InitServiceContext, Create
<1>2. /\ constructing # NULL /\ serviceContext[s] = NULL
      /\ serviceContext' = [serviceContext EXCEPT ![s] = Len(pool) + 1]
      /\ UNCHANGED <<useCount, application, constructing, cleaning, apart>>
  BY DEF InitServiceContext, Create
<1>3. /\ s \in Service /\ pool \in Seq(Context)
      /\ serviceContext \in [Service -> DOMAIN pool \cup {NULL, Dangling}]
  BY <1>2 DEF LInv, SInv, PathsOK, Frame
<1>4. /\ pool'[Len(pool) + 1].stdair = NULL
      /\ \A c \in DOMAIN pool : pool'[c] = pool[c]
      /\ Len(pool) + 1 \in Int
  BY <1>1, <1>3
<1>5. serviceContext'[s] = Len(pool) + 1 /\ HasContext(s)'
  BY <1>2, <1>3, <1>4, NullAssumption DEF HasContext
<1>6. ASSUME NEW t \in Service \ {s}
      PROVE  /\ serviceContext'[t] = serviceContext[t]
             /\ HasContext(t)' <=> HasContext(t)
             /\ HasContext(t) => pool'[serviceContext[t]] = pool[serviceContext[t]]
  BY <1>2, <1>3, <1>4 DEF HasContext
<1>7. ASSUME NEW y \in StdAir PROVE Users(y)' = Users(y)
  <2>1. s \notin Users(y) /\ s \notin Users(y)'
    BY <1>2, <1>4, <1>5, NullAssumption DEF Users, HasContext
  <2>2. QED
    BY <1>6, <2>1 DEF Users
<1>8. CountsHolders'
  BY <1>2, <1>7 DEF LInv, CountsHolders, HolderCount, InFrame
<1>9. LifetimesOK' /\ OneAtATime'
  BY <1>2 DEF LInv, LifetimesOK, OneAtATime
<1>10. FrameHolds'
  BY <1>2, <1>4, <1>5 DEF LInv, FrameHolds, HasContext
<1>11. ContextsAreFilled'
  BY <1>2, <1>6 DEF LInv, ContextsAreFilled
<1>12. NoContextDangles'
  BY <1>2, <1>5, <1>6 DEF LInv, NoContextDangles, HasContext
<1>13. QED
  BY <1>8, <1>9, <1>10, <1>11, <1>12 DEF LInv

\* The constructor throws: the frame gives up its pointer.
LEMMA InitServiceContextThrowsLifetimes ==
  ASSUME LInv, SInv', InitServiceContextThrows
  PROVE  LInv'
<1> DEFINE x == constructing.stdair
<1>1. /\ constructing # NULL /\ constructing' = NULL
      /\ serviceContext[constructing.service] = NULL
      /\ useCount' = [useCount EXCEPT ![x] = @ - 1]
      /\ MayEnd(x)
      /\ UNCHANGED <<serviceContext, application, pool, apart>>
  BY DEF InitServiceContextThrows
<1>2. x \in StdAir /\ InFrame(x)
  BY <1>1 DEF LInv, SInv, PathsOK, Frame, InFrame
<1>3. useCount[x] > 0 /\ useCount[x] - 1 \in Nat
  BY <1>2, NothingHoldsTheDead
<1>4. LifetimesOK'
  BY <1>1, <1>2, <1>3 DEF LInv, LifetimesOK, MayEnd
<1>5. ASSUME NEW y \in StdAir PROVE IsFiniteSet(Users(y)') /\ useCount'[y] = HolderCount(y)'
  <2>1. Users(y)' = Users(y) /\ IsFiniteSet(Users(y)) /\ ~ InFrame(y)' /\ (InFrame(y) <=> y = x)
    BY <1>1, UsersStay DEF InFrame, LInv, CountsHolders
  <2>2. useCount'[y] = IF y = x THEN useCount[x] - 1 ELSE useCount[y]
    BY <1>1, <1>2 DEF LInv, LifetimesOK
  <2>3. QED
    BY <1>1, <2>1, <2>2, NothingHoldsTheDead DEF HolderCount
<1>6. CountsHolders'
  BY <1>5 DEF CountsHolders
<1>7. OneAtATime'
  BY <1>1, <1>2, <1>3, GivingUpLeavesOneAtATime
<1>8. FrameHolds' /\ NoContextDangles'
  BY <1>1 DEF LInv, FrameHolds, NoContextDangles
<1>9. ContextsAreFilled'
  BY <1>1 DEF LInv, ContextsAreFilled, HasContext
<1>10. QED
  BY <1>4, <1>6, <1>7, <1>8, <1>9 DEF LInv

\* The services that keep their contexts see only the one context that changes.
LEMMA OtherUsersStay ==
  ASSUME SInv, NEW s \in Service, HasContext(s), NEW t \in Service \ {s},
         NEW new, pool' = [pool EXCEPT ![serviceContext[s]] = new],
         serviceContext'[t] = serviceContext[t]
  PROVE  /\ HasContext(t)' <=> HasContext(t)
         /\ HasContext(t) => pool'[serviceContext[t]] = pool[serviceContext[t]]
<1>1. HasContext(t)' <=> HasContext(t)
  BY DEF HasContext
<1>2. HasContext(t) => serviceContext[t] # serviceContext[s]
  BY DEF SInv, ContextsAreOwn
<1>3. HasContext(t) => serviceContext[t] \in DOMAIN pool
  BY QueueOfContext DEF SInv
<1>4. QED
  BY <1>1, <1>2, <1>3

\* The pointer goes from the frame to the context: the count is the same, and
\* now the context holds it.
LEMMA AddStdAirServiceLifetimes ==
  ASSUME LInv, SInv', AddStdAirService
  PROVE  LInv'
<1>0. PICK s \in Service, x \in StdAir, c \in Int \cup {Dangling} :
        s = constructing.service /\ x = constructing.stdair /\ c = serviceContext[s]
  <2>1. constructing \in Frame /\ serviceContext[constructing.service] \in Int \cup {Dangling}
    BY DEF AddStdAirService, LInv, SInv, PathsOK, Frame
  <2>2. QED
    BY <2>1 DEF Frame
<1> DEFINE new == [pool[c] EXCEPT !.stdair = x, !.own = constructing.own]
<1>1. /\ constructing # NULL /\ constructing' = NULL
      /\ c # NULL /\ pool' = [pool EXCEPT ![c] = new]
      /\ UNCHANGED <<serviceContext, useCount, application, cleaning, apart>>
  BY <1>0 DEF AddStdAirService
<1>3. HasContext(s) /\ pool[c].stdair = NULL /\ ~ cleaning
  BY <1>0, <1>1 DEF LInv, FrameHolds, HasContext
<1>4. c \in DOMAIN pool /\ pool[c] \in Context
  BY <1>0, <1>3, QueueOfContext DEF LInv, SInv, PathsOK
<1>5. HasContext(s)' /\ pool'[c].stdair = x
  <2>1. pool \in Seq(Context) /\ pool'[c] = new
    BY <1>1, <1>4 DEF LInv, SInv, PathsOK
  <2>2. QED
    BY <1>0, <1>1, <1>3, <1>4, <2>1 DEF HasContext, Context
<1>6. ASSUME NEW t \in Service \ {s}
      PROVE  /\ HasContext(t)' <=> HasContext(t)
             /\ HasContext(t) => pool'[serviceContext[t]] = pool[serviceContext[t]]
  <2> HIDE DEF new
  <2>1. QED
    BY <1>0, <1>1, <1>3, OtherUsersStay DEF LInv
<1>7. s \notin Users(x) /\ Users(x)' = Users(x) \cup {s}
  <2>1. s \notin Users(x)
    BY <1>0, <1>3, NullAssumption DEF Users
  <2>2. s \in Users(x)'
    BY <1>0, <1>1, <1>5 DEF Users
  <2>3. \A t \in Service \ {s} : t \in Users(x)' <=> t \in Users(x)
    BY <1>1, <1>6 DEF Users
  <2>4. Users(x) \subseteq Service /\ Users(x)' \subseteq Service
    BY DEF Users
  <2>5. QED
    BY <2>1, <2>2, <2>3, <2>4
<1>8. ASSUME NEW y \in StdAir \ {x} PROVE Users(y)' = Users(y)
  <2>1. s \notin Users(y) /\ s \notin Users(y)'
    BY <1>0, <1>1, <1>3, <1>5, NullAssumption DEF Users
  <2>2. \A t \in Service \ {s} : t \in Users(y)' <=> t \in Users(y)
    BY <1>1, <1>6 DEF Users
  <2>3. Users(y) \subseteq Service /\ Users(y)' \subseteq Service
    BY DEF Users
  <2>4. QED
    BY <2>1, <2>2, <2>3
<1>9. ASSUME NEW y \in StdAir PROVE IsFiniteSet(Users(y)') /\ useCount'[y] = HolderCount(y)'
  <2>1. IsFiniteSet(Users(y)) /\ useCount[y] = HolderCount(y) /\ Cardinality(Users(y)) \in Nat
    BY NothingHoldsTheDead DEF LInv, CountsHolders
  <2>2. ~ InFrame(y)' /\ (InFrame(y) <=> y = x)
    BY <1>0, <1>1 DEF InFrame
  <2>3. CASE y = x
    <3>1. IsFiniteSet(Users(x)') /\ Cardinality(Users(x)') = Cardinality(Users(x)) + 1
      BY <1>7, <2>1, <2>3, FS_AddElement
    <3>2. QED
      BY <1>1, <2>1, <2>2, <2>3, <3>1 DEF HolderCount
  <2>4. CASE y # x
    BY <1>1, <1>8, <2>1, <2>2, <2>4 DEF HolderCount
  <2>5. QED
    BY <2>3, <2>4
<1>10. CountsHolders'
  BY <1>9 DEF CountsHolders
<1>11. LifetimesOK' /\ OneAtATime' /\ NoContextDangles' /\ FrameHolds'
  BY <1>1 DEF LInv, LifetimesOK, OneAtATime, NoContextDangles, FrameHolds
<1>12. ContextsAreFilled'
  <2>1. ASSUME NEW t \in Service, HasContext(t)'
        PROVE  pool'[serviceContext'[t]].stdair \in StdAir
    <3>1. CASE t = s
      BY <1>0, <1>1, <1>5, <3>1
    <3>2. CASE t # s
      BY <1>0, <1>1, <1>6, <2>1, <3>2 DEF LInv, ContextsAreFilled
    <3>3. QED
      BY <3>1, <3>2
  <2>2. QED
    BY <2>1 DEF ContextsAreFilled
<1>13. QED
  BY <1>10, <1>11, <1>12 DEF LInv

\* A service is destroyed: its context gives up its pointer.
LEMMA DestroyLifetimes ==
  ASSUME LInv, SInv', NEW s \in Service, Destroy(s)
  PROVE  LInv'
<1>0. PICK c \in DOMAIN pool, x \in StdAir : c = serviceContext[s] /\ x = pool[c].stdair
  <2>1. HasContext(s) /\ constructing = NULL
    BY DEF Destroy, Exists, AtRest
  <2>2. QED
    BY <2>1, QueueOfContext DEF LInv, SInv, ContextsAreFilled
<1> DEFINE new == [pool[c] EXCEPT !.stdair = NULL]
<1>1. /\ HasContext(s) /\ constructing = NULL /\ ~ cleaning
      /\ useCount' = [useCount EXCEPT ![x] = @ - 1]
      /\ pool' = [pool EXCEPT ![c] = new]
      /\ MayEnd(x)
      /\ serviceContext' = [serviceContext EXCEPT ![s] = NULL]
      /\ UNCHANGED <<application, constructing, apart>>
  BY <1>0 DEF Destroy, Exists, AtRest
<1>3. s \in Users(x) /\ serviceContext \in [Service -> DOMAIN pool \cup {NULL, Dangling}]
  BY <1>0, <1>1 DEF Users, LInv, SInv, PathsOK
<1>4. useCount[x] > 0 /\ useCount[x] - 1 \in Nat /\ useCount \in [StdAir -> Nat]
  BY <1>3, NothingHoldsTheDead DEF LInv, LifetimesOK
<1>5. serviceContext'[s] = NULL /\ ~ HasContext(s)'
  BY <1>1, <1>3 DEF HasContext
<1>6. ASSUME NEW t \in Service \ {s}
      PROVE  /\ serviceContext'[t] = serviceContext[t]
             /\ HasContext(t)' <=> HasContext(t)
             /\ HasContext(t) => pool'[serviceContext[t]] = pool[serviceContext[t]]
  <2>1. serviceContext'[t] = serviceContext[t]
    BY <1>1, <1>3
  <2> HIDE DEF new
  <2>2. QED
    BY <1>0, <1>1, <2>1, OtherUsersStay DEF LInv
<1>7. Users(x)' = Users(x) \ {s}
  BY <1>5, <1>6 DEF Users
<1>8. ASSUME NEW y \in StdAir \ {x} PROVE Users(y)' = Users(y)
  <2>1. s \notin Users(y) /\ s \notin Users(y)'
    BY <1>0, <1>5 DEF Users
  <2>2. QED
    BY <1>6, <2>1 DEF Users
<1>9. ASSUME NEW y \in StdAir PROVE IsFiniteSet(Users(y)') /\ useCount'[y] = HolderCount(y)'
  <2>1. IsFiniteSet(Users(y)) /\ useCount[y] = HolderCount(y) /\ Cardinality(Users(y)) \in Nat
    BY NothingHoldsTheDead DEF LInv, CountsHolders
  <2>2. ~ InFrame(y)' /\ ~ InFrame(y)
    BY <1>1 DEF InFrame
  <2>3. CASE y = x
    <3>1. IsFiniteSet(Users(x)') /\ Cardinality(Users(x)') = Cardinality(Users(x)) - 1
      BY <1>3, <1>7, <2>1, <2>3, FS_RemoveElement
    <3>2. useCount'[x] = useCount[x] - 1
      BY <1>1, <1>4
    <3>3. QED
      BY <1>1, <2>1, <2>2, <2>3, <3>1, <3>2 DEF HolderCount
  <2>4. CASE y # x
    BY <1>1, <1>4, <1>8, <2>1, <2>2, <2>4 DEF HolderCount
  <2>5. QED
    BY <2>3, <2>4
<1>10. CountsHolders'
  BY <1>9 DEF CountsHolders
<1>11. LifetimesOK'
  BY <1>1, <1>4 DEF LInv, LifetimesOK, MayEnd
<1>12. OneAtATime'
  BY <1>1, <1>4, GivingUpLeavesOneAtATime
<1>13. FrameHolds'
  BY <1>1 DEF FrameHolds
<1>14. ContextsAreFilled'
  BY <1>1, <1>5, <1>6 DEF LInv, ContextsAreFilled
<1>15. NoContextDangles'
  BY <1>1, <1>5, <1>6, NullAssumption DEF LInv, NoContextDangles
<1>16. QED
  BY <1>10, <1>11, <1>12, <1>13, <1>14, <1>15 DEF LInv

\* A deletion comes when no constructor is in progress; and as long as only one
\* StdAir service has lived, it is gone, and nobody holds anything any more.
LEMMA CleanAllMeetsNobody ==
  ASSUME LInv, cleaning
  PROVE  /\ constructing = NULL
         /\ ~ apart => \A s \in Service : ~ HasContext(s)
<1>1. constructing = NULL
  BY DEF LInv, FrameHolds
<1>2. ASSUME ~ apart, NEW x \in StdAir PROVE Users(x) = {}
  BY <1>2, NothingHoldsTheDead DEF LInv, OneAtATime
<1>3. QED
  BY <1>1, <1>2 DEF LInv, ContextsAreFilled, Users

\* The factories are deleted: no service holds anything any more.  When only one
\* StdAir service has lived, it is gone, and no service was left to dangle.
LEMMA ContextsAreDeletedLifetimes ==
  ASSUME LInv, SInv', QueuesAreDeleted, ContextsAreDeleted
  PROVE  LInv'
<1>1. /\ cleaning /\ cleaning' = FALSE
      /\ useCount' = [x \in StdAir |-> IF x \in application THEN 1 ELSE 0]
      /\ serviceContext' = [s \in Service |-> IF HasContext(s) THEN Dangling
                                                               ELSE serviceContext[s]]
      /\ UNCHANGED <<application, constructing, apart>>
  BY DEF QueuesAreDeleted, ContextsAreDeleted
<1>2. /\ constructing = NULL /\ constructing' = NULL
      /\ ~ apart => \A s \in Service : ~ HasContext(s)
  BY <1>1, CleanAllMeetsNobody
<1>3. \A s \in Service : ~ HasContext(s)'
  BY <1>1 DEF HasContext
<1>4. CountsHolders'
  <2>1. ASSUME NEW y \in StdAir PROVE IsFiniteSet(Users(y)') /\ useCount'[y] = HolderCount(y)'
    <3>1. Users(y)' = {} /\ ~ InFrame(y)'
      BY <1>2, <1>3 DEF Users, InFrame
    <3>2. QED
      BY <1>1, <3>1, FS_EmptySet DEF HolderCount
  <2>2. QED
    BY <2>1 DEF CountsHolders
<1>5. ASSUME ~ apart, NEW x \in StdAir PROVE useCount[x] = 0 /\ x \notin application
  BY <1>1, <1>5, NothingHoldsTheDead DEF LInv, OneAtATime
<1>6. NoContextDangles'
  BY <1>1, <1>2 DEF LInv, NoContextDangles
<1>7. LifetimesOK' /\ OneAtATime'
  BY <1>1, <1>5 DEF LInv, LifetimesOK, OneAtATime
<1>8. FrameHolds' /\ ContextsAreFilled'
  BY <1>2, <1>3 DEF FrameHolds, ContextsAreFilled
<1>9. QED
  BY <1>4, <1>6, <1>7, <1>8 DEF LInv

\* The contexts outlive their queues: what they hold, they hold on.
LEMMA ContextsAreForgottenLifetimes ==
  ASSUME LInv, SInv', QueuesAreDeleted, ContextsAreForgotten
  PROVE  LInv'
<1>1. /\ cleaning /\ cleaning' = FALSE
      /\ pool' = [c \in DOMAIN pool |-> [pool[c] EXCEPT !.queue = Dangling]]
      /\ UNCHANGED <<serviceContext, useCount, application, constructing, apart>>
  BY DEF QueuesAreDeleted, ContextsAreForgotten
<1>2. constructing = NULL
  BY <1>1, CleanAllMeetsNobody
<1>3. \A c \in DOMAIN pool : pool'[c].stdair = pool[c].stdair
  <2>1. \A c \in DOMAIN pool : pool[c] \in Context
    BY DEF LInv, SInv, PathsOK
  <2>2. QED
    BY <1>1, <2>1 DEF Context
<1>4. ASSUME NEW s \in Service
      PROVE  /\ HasContext(s)' <=> HasContext(s)
             /\ HasContext(s) => pool'[serviceContext[s]].stdair = pool[serviceContext[s]].stdair
  <2>1. HasContext(s) => serviceContext[s] \in DOMAIN pool
    BY QueueOfContext DEF LInv, SInv
  <2>2. QED
    BY <1>1, <1>3, <2>1 DEF HasContext
<1>5. ASSUME NEW x \in StdAir PROVE Users(x)' = Users(x)
  BY <1>1, <1>4 DEF Users
<1>6. CountsHolders'
  BY <1>1, <1>5 DEF LInv, CountsHolders, HolderCount, InFrame
<1>7. LifetimesOK' /\ OneAtATime' /\ NoContextDangles'
  BY <1>1 DEF LInv, LifetimesOK, OneAtATime, NoContextDangles
<1>8. FrameHolds' /\ ContextsAreFilled'
  BY <1>1, <1>2, <1>4 DEF LInv, FrameHolds, ContextsAreFilled
<1>9. QED
  BY <1>6, <1>7, <1>8 DEF LInv

\* Either way the lifetimes are kept.
LEMMA CleanAllLifetimes ==
  ASSUME LInv, SInv', CleanAll
  PROVE  LInv'
BY ContextsAreDeletedLifetimes, ContextsAreForgottenLifetimes DEF CleanAll

-----------------------------------------------------------------------------
\* The invariant of the lifetimes holds at the start: nothing lives yet.
LEMMA LInvInit == ServiceInit => LInv
<1> SUFFICES ASSUME ServiceInit PROVE LInv
  OBVIOUS
<1>1. /\ useCount = [x \in StdAir |-> 0] /\ application = {} /\ constructing = NULL
      /\ cleaning = FALSE /\ apart = FALSE /\ serviceContext = [s \in Service |-> NULL]
  BY DEF ServiceInit
<1>2. \A s \in Service : ~ HasContext(s) /\ serviceContext[s] # Dangling
  BY <1>1, NullAssumption DEF HasContext
<1>3. \A x \in StdAir : Users(x) = {} /\ ~ InFrame(x)
  BY <1>1, <1>2 DEF Users, InFrame
<1>4. CountsHolders
  BY <1>1, <1>3, FS_EmptySet DEF CountsHolders, HolderCount
<1>5. LifetimesOK /\ FrameHolds /\ OneAtATime
  <2>1. useCount \in [StdAir -> Nat] /\ \A x \in StdAir : ~ useCount[x] > 0
    BY <1>1
  <2>2. cleaning \in BOOLEAN /\ apart \in BOOLEAN
    BY <1>1
  <2>3. QED
    BY <1>1, <2>1, <2>2 DEF LifetimesOK, FrameHolds, OneAtATime
<1>6. ContextsAreFilled /\ NoContextDangles
  BY <1>2 DEF ContextsAreFilled, NoContextDangles
<1>7. QED
  BY <1>4, <1>5, <1>6, SInvInit DEF LInv

\* And every step keeps it.
LEMMA LInvStep == LInv /\ [ServiceNext]_vars => LInv'
<1> SUFFICES ASSUME LInv, [ServiceNext]_vars PROVE LInv'
  OBVIOUS
<1>1. SInv'
  BY SInvStep DEF LInv
<1>2. ASSUME UNCHANGED <<serviceContext, useCount, application, constructing, cleaning, pool, apart>>
      PROVE  LInv'
  <2>1. CountsHolders'
    BY <1>2, UsersStay DEF LInv, CountsHolders, HolderCount, InFrame
  <2>2. LifetimesOK' /\ OneAtATime' /\ NoContextDangles'
    BY <1>2 DEF LInv, LifetimesOK, OneAtATime, NoContextDangles
  <2>3. FrameHolds' /\ ContextsAreFilled'
    BY <1>2 DEF LInv, FrameHolds, ContextsAreFilled, HasContext
  <2>4. QED
    BY <1>1, <2>1, <2>2, <2>3 DEF LInv
<1>3. CASE \E q : Adds(q) \/ Pops(q) \/ Resets(q)
  BY <1>2, <1>3 DEF Adds, Pops, Resets, OnlyQueuesChange
<1>4. CASE UNCHANGED vars \/ \E s \in Service : GetEventQueue(s)
  BY <1>2, <1>4 DEF vars, GetEventQueue
<1>5. QED
  BY <1>1, <1>3, <1>4, ApplicationMakesLifetimes, ApplicationDropsLifetimes, ConstructLifetimes,
     InitServiceContextLifetimes, InitServiceContextThrowsLifetimes, AddStdAirServiceLifetimes,
     DestroyLifetimes, CleanAllLifetimes
  DEF ServiceNext, AddEvent, PopEvent, Reset, CallThroughReference

\* Every reachable state satisfies the invariant of the lifetimes: the count of a
\* StdAir service is the number of its holders (STDAIR_ServicePtr_T, taken by
\* SEVMGR_Service::addStdAirService and given up by finalise and by a frame).
THEOREM LifetimeInvariance == ServiceSpec => []LInv
BY LInvInit, LInvStep, PTL DEF ServiceSpec

\* Whatever throws and whatever is destroyed, in any order: a StdAir service lives
\* exactly as long as somebody holds it, and no service loses the one it has
\* (SEVMGR_Service::finalise, SEVMGR_ServiceContext::getSTDAIR_Service).
THEOREM StdAirLivesWhileHeldHolds == ServiceSpec => []StdAirLivesWhileHeld
<1>1. LInv => StdAirLivesWhileHeld
  <2> SUFFICES ASSUME LInv PROVE StdAirLivesWhileHeld
    OBVIOUS
  <2>1. ASSUME NEW x \in StdAir PROVE useCount[x] > 0 <=> IsHeld(x)
    <3>1. IsHeld(x) <=> x \in application \/ InFrame(x) \/ Users(x) # {}
      BY DEF IsHeld, InFrame, Users
    <3>2. IsFiniteSet(Users(x)) /\ (Cardinality(Users(x)) = 0 <=> Users(x) = {})
      BY FS_EmptySet DEF LInv, CountsHolders
    <3>3. QED
      BY <3>1, <3>2, NothingHoldsTheDead DEF HolderCount
  <2>2. ASSUME NEW s \in Service, Exists(s) PROVE pool[serviceContext[s]].stdair # NULL
    BY <2>2, NullAssumption DEF Exists, AtRest, LInv, ContextsAreFilled
  <2>3. QED
    BY <2>1, <2>2 DEF StdAirLivesWhileHeld
<1>2. QED
  BY <1>1, LifetimeInvariance, PTL

\* Services that have only met one StdAir service keep their queues.
QueuesLive == ~ apart => \A s \in Service : HasContext(s) => QueueOf(s) # Dangling

\* A queue is lost only in a deletion, which meets no service as long as only one
\* StdAir service has lived.
LEMMA QueuesLiveStep ==
  ASSUME LInv, QueuesLive, [ServiceNext]_vars
  PROVE  QueuesLive'
<1>1. /\ PathsOK /\ QueuesAreOwn
      /\ serviceContext \in [Service -> DOMAIN pool \cup {NULL, Dangling}]
  BY DEF LInv, SInv, PathsOK
<1>2. apart => apart'
  BY DEF ServiceNext, vars, ApplicationMakes, ApplicationDrops, ConstructWithOwn,
         ConstructOn, Lives, InitServiceContext, InitServiceContextThrows,
         AddStdAirService, AddEvent, PopEvent, Reset, Adds, Pops,
         Resets, OnlyQueuesChange, GetEventQueue, CallThroughReference, Destroy, CleanAll,
         QueuesAreDeleted
<1>3. SUFFICES ASSUME ~ apart', NEW t \in Service, HasContext(t)', QueueOf(t)' = Dangling
               PROVE  FALSE
  BY DEF QueuesLive
<1>4. HasContext(t) => QueueOf(t) # Dangling
  BY <1>2, <1>3 DEF QueuesLive
<1>5. CASE \E s \in Service : Opens(s)
  <2>1. PICK s \in Service, own \in BOOLEAN :
          /\ Opens(s)
          /\ pool' = Append(pool, [stdair |-> NULL, own |-> own, queue |-> Len(queues) + 1])
    BY <1>5 DEF Opens
  <2>2. pool \in Seq(Context) /\ Len(queues) + 1 \in Int
    BY <1>1 DEF PathsOK
  <2>3. serviceContext' = [serviceContext EXCEPT ![s] = Len(pool) + 1]
    BY <2>1 DEF Opens
  <2>4. CASE t = s
    <3>1. serviceContext'[t] = Len(pool) + 1 /\ pool'[Len(pool) + 1].queue = Len(queues) + 1
      BY <1>1, <2>1, <2>2, <2>3, <2>4
    <3>2. QueueOf(t)' = Len(queues) + 1
      BY <3>1 DEF QueueOf
    <3>3. QED
      BY <1>3, <2>2, <3>2, NullAssumption
  <2>5. CASE t # s
    <3>1. serviceContext'[t] = serviceContext[t] /\ \A c \in DOMAIN pool : pool'[c] = pool[c]
      BY <1>1, <2>1, <2>2, <2>3, <2>5
    <3>2. HasContext(t) /\ QueueOf(t)' = QueueOf(t)
      BY <1>1, <1>3, <3>1, QueueOfContext DEF HasContext, QueueOf
    <3>3. QED
      BY <1>3, <1>4, <3>2
  <2>6. QED
    BY <2>4, <2>5
<1>6. CASE KeepsPaths /\ serviceContext'[t] = serviceContext[t]
  <2>1. HasContext(t)
    BY <1>3, <1>6 DEF HasContext
  <2>2. QED
    BY <1>1, <1>3, <1>4, <1>6, <2>1, QueueStays
<1>7. CASE \E s \in Service : Closes(s)
  <2>1. PICK s \in Service : Closes(s)
    BY <1>7
  <2>2. serviceContext' = [serviceContext EXCEPT ![s] = NULL] /\ KeepsPaths
    BY <2>1 DEF Closes
  <2>3. t # s
    BY <1>1, <1>3, <2>2 DEF HasContext
  <2>4. QED
    BY <1>1, <1>6, <2>2, <2>3
<1>8. CASE \E s \in Service : Shows(s)
  BY <1>3, <1>4, <1>8 DEF Shows, HasContext, QueueOf
<1>9. CASE CleanAll
  <2>1. ~ HasContext(t)
    BY <1>2, <1>3, <1>9, CleanAllMeetsNobody DEF CleanAll, QueuesAreDeleted
  <2>2. CASE Deletes
    BY <1>3, <2>2 DEF Deletes, HasContext
  <2>3. CASE Forsakes
    BY <1>3, <2>1, <2>3 DEF Forsakes, HasContext
  <2>4. Deletes \/ Forsakes
    BY <1>9, CleanAllIsOfTwoKinds
  <2>5. QED
    BY <2>2, <2>3, <2>4
<1>10. QED
  BY <1>1, <1>5, <1>6, <1>7, <1>8, <1>9, AnyStep DEF StaysQuiet, Stays, Calls

\* For any number of services on one StdAir service at a time: none loses its
\* context or its queue, whatever StdAir does when that one ends
\* (FacSEVMGRServiceContext, the order of SEVMGR_Service::finalise).
THEOREM OneStdAirLeavesNoneDanglingHolds == ServiceSpec => []OneStdAirLeavesNoneDangling
<1>1. ServiceInit => QueuesLive
  BY DEF ServiceInit, QueuesLive, HasContext
<1>2. LInv /\ QueuesLive /\ [ServiceNext]_vars => QueuesLive'
  BY QueuesLiveStep
<1>3. LInv /\ QueuesLive => OneStdAirLeavesNoneDangling
  BY DEF LInv, NoContextDangles, QueuesLive, OneStdAirLeavesNoneDangling
<1>4. QED
  BY <1>1, <1>2, <1>3, LifetimeInvariance, PTL DEF ServiceSpec

\* Every member and local stays in its type, and a context number is one of the
\* pool (SEVMGR_Service and SEVMGR_ServiceContext).
THEOREM ServiceTypeOKHolds == ServiceSpec => []ServiceTypeOK
<1>1. FactoryOK /\ LInv /\ instance \in BOOLEAN /\ unregistered \in BOOLEAN => ServiceTypeOK
  <2> SUFFICES ASSUME FactoryOK, LInv, instance \in BOOLEAN, unregistered \in BOOLEAN
               PROVE  ServiceTypeOK
    OBVIOUS
  <2>1. /\ PathsOK /\ QueuesAreOwn /\ LifetimesOK
        /\ pool \in Seq(Context) /\ queues \in Seq(Queue)
    BY DEF LInv, SInv, PathsOK
  <2>2. ASSUME NEW c \in DOMAIN pool
        PROVE  pool[c] \in [stdair : StdAir \cup {NULL}, own : BOOLEAN,
                            queue : DOMAIN queues \cup {Dangling}]
    <3>1. pool[c] \in Context /\ pool[c].queue \in DOMAIN queues \cup {Dangling}
      BY <2>1 DEF QueuesAreOwn
    <3>2. QED
      BY <3>1 DEF Context
  <2>3. supervised \in Nat
    BY DEF FactoryOK
  <2>4. QED
    BY <2>1, <2>2, <2>3 DEF ServiceTypeOK, PathsOK, LifetimesOK, Frame
<1> DEFINE FlagsOK == instance \in BOOLEAN /\ unregistered \in BOOLEAN
<1>2. ServiceInit => FactoryOK /\ FlagsOK
  BY DEF ServiceInit, FactoryOK
<1>3. FlagsOK /\ [ServiceNext]_vars => FlagsOK'
  BY DEF ServiceNext, vars, factoryVars, ApplicationMakes, ApplicationDrops, ConstructWithOwn,
         ConstructOn, Instance, InstanceThrows, InitServiceContext, Create, CreateThrows,
         InitServiceContextThrows, AddStdAirService, AddEvent, PopEvent, Reset, Adds, Pops,
         Resets, OnlyQueuesChange, GetEventQueue, CallThroughReference, Destroy, CleanAll,
         QueuesAreDeleted, ContextsAreForgotten
<1>4. LInv => SInv
  BY DEF LInv
<1>5. SInv /\ FactoryOK /\ [ServiceNext]_vars => FactoryOK'
  BY FactoryStep
<1>6. FactoryOK /\ LInv /\ FlagsOK => ServiceTypeOK
  BY <1>1
<1> HIDE DEF FlagsOK
<1>7. QED
  BY <1>2, <1>3, <1>4, <1>5, <1>6, LifetimeInvariance, PTL DEF ServiceSpec
=============================================================================
