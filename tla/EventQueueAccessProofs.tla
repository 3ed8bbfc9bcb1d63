------------------------ MODULE EventQueueAccessProofs ------------------------
(***************************************************************************)
(* Proofs of EventQueueAccess: what a client may keep over its calls, for  *)
(* every set of types, statuses and date-times and every counter width.    *)
(***************************************************************************)
EXTENDS EventQueueAccess, EventQueueSafety

\* The statuses by type, with the two properties that are proved.
MapOK == progressStatusMap \in [DOMAIN progressStatusMap -> ProgressStatus]

AccessInv == MapOK /\ ReferencesStayValid /\ AnnouncementsAreKept

-----------------------------------------------------------------------------
(* What a step can do to the statuses by type.                              *)

\* Current numbers and actual totals may move: no type comes, none goes, and
\* the expected totals stay.
KeepsExpected ==
  /\ MapOK'
  /\ DOMAIN progressStatusMap' = DOMAIN progressStatusMap
  /\ \A type \in DOMAIN progressStatusMap :
       progressStatusMap'[type].expected = progressStatusMap[type].expected

\* The status of a type that is known is replaced.
Overwrites ==
  \E type \in EventType, status \in ProgressStatus :
    /\ progressStatusMap' = [progressStatusMap EXCEPT ![type] = status]
    /\ announced' = [announced EXCEPT ![type] = status.expected]

\* A type comes, or its totals grow.
Merges ==
  \E type \in EventType, status \in ProgressStatus :
    /\ progressStatusMap' = With(progressStatusMap, type, mergedStatus(type, status))
    /\ announced' = announcedAlso(type, status.expected)

\* What the client refers to, it has referred to or it has just been shown.
RefersToKnown == referred' \subseteq referred \cup DOMAIN progressStatusMap

-----------------------------------------------------------------------------
\* EventQueue::popEvent moves current numbers only, exception or not.
LEMMA popEventKeeps ==
  ASSUME MapOK, NEW key, popEvent(key)
  PROVE  KeepsExpected
<1> DEFINE type == eventList[key].type
           status == Increment(progressStatusMap[type])
<1>1. CASE hasProgressStatus(type)
  <2>1. progressStatusMap' = [progressStatusMap EXCEPT ![type] = status]
    BY <1>1 DEF popEvent, setStatus
  <2>2. progressStatusMap[type] \in ProgressStatus
    BY <1>1 DEF MapOK, hasProgressStatus
  <2>3. /\ status \in ProgressStatus
        /\ status.expected = progressStatusMap[type].expected
    <3>1. Plus(progressStatusMap[type].current, 1) \in Count
      BY <2>2, CountAssumption DEF Plus, Count, ProgressStatus
    <3>2. QED
      BY <2>2, <3>1 DEF Increment, ProgressStatus
  <2> HIDE DEF status
  <2>4. QED
    BY <2>1, <2>3 DEF KeepsExpected, MapOK
<1>2. CASE ~ hasProgressStatus(type)
  BY <1>2 DEF popEvent, KeepsExpected, MapOK
<1>3. QED
  BY <1>1, <1>2

\* EventQueue::reset keeps every type and its expected total, whatever
\* ProgressStatus::reset does to the actual one.
LEMMA resetKeeps ==
  ASSUME MapOK, reset
  PROVE  KeepsExpected
<1>1. progressStatusMap' = [type \in DOMAIN progressStatusMap |->
                              ResetProgressStatus(progressStatusMap[type])]
  BY DEF reset
<1>2. ASSUME NEW status \in ProgressStatus
      PROVE  /\ ResetProgressStatus(status) \in ProgressStatus
             /\ ResetProgressStatus(status).expected = status.expected
  <2>1. 0 \in Count
    BY CountAssumption DEF Count
  <2>2. QED
    BY <2>1 DEF ResetProgressStatus, ProgressStatus
<1>3. QED
  BY <1>1, <1>2 DEF KeepsExpected, MapOK

\* updateStatus (type, number) moves actual totals only.
LEMMA updateStatusKeeps ==
  ASSUME MapOK, NEW type \in EventType, NEW n \in Count, updateStatus(type, n)
  PROVE  KeepsExpected
<1> DEFINE status == [progressStatusMap[type] EXCEPT !.actual = n]
<1>1. CASE hasProgressStatus(type)
  <2>1. progressStatusMap' = [progressStatusMap EXCEPT ![type] = status]
    BY <1>1 DEF updateStatus, setStatus
  <2>2. /\ status \in ProgressStatus
        /\ status.expected = progressStatusMap[type].expected
    BY <1>1 DEF MapOK, hasProgressStatus, ProgressStatus
  <2> HIDE DEF status
  <2>3. QED
    BY <2>1, <2>2 DEF KeepsExpected, MapOK
<1>2. CASE ~ hasProgressStatus(type)
  BY <1>2 DEF updateStatus, KeepsExpected, MapOK
<1>3. QED
  BY <1>1, <1>2

\* A merged status is a status, whose expected total is that of the type before,
\* if any, and the new one.
LEMMA mergedStatusType ==
  ASSUME MapOK, NEW type \in EventType, NEW status \in ProgressStatus
  PROVE  /\ mergedStatus(type, status) \in ProgressStatus
         /\ mergedStatus(type, status).expected =
              IF hasProgressStatus(type)
              THEN Plus(progressStatusMap[type].expected, status.expected)
              ELSE status.expected
<1>1. CASE hasProgressStatus(type)
  <2> DEFINE old == progressStatusMap[type]
  <2>1. old \in ProgressStatus
    BY <1>1 DEF MapOK, hasProgressStatus
  <2>2. /\ Plus(old.expected, status.expected) \in Count
        /\ Plus(old.actual, status.actual) \in Count
        /\ status.current \in Count
    BY <2>1, CountAssumption DEF Plus, Count, ProgressStatus
  <2>3. QED
    BY <1>1, <2>2 DEF mergedStatus, ProgressStatus
<1>2. CASE ~ hasProgressStatus(type)
  BY <1>2 DEF mergedStatus
<1>3. QED
  BY <1>1, <1>2

-----------------------------------------------------------------------------
(* Every step is of one of these classes.                                   *)

\* Each step keeps the expected totals with what was announced, or changes both
\* alike; and it refers the client only to types that are known.
LEMMA AnyAccess ==
  ASSUME MapOK, [AccessNext]_accessVars
  PROVE  /\ RefersToKnown
         /\ \/ KeepsExpected /\ announced' = announced
            \/ Overwrites
            \/ Merges
<1> USE DEF RefersToKnown, writeVars, lookVars, queueVars
<1> DEFINE Same == KeepsExpected /\ announced' = announced
<1>1. ASSUME UNCHANGED progressStatusMap
      PROVE  KeepsExpected
  BY <1>1 DEF KeepsExpected, MapOK
<1>2. CASE Pops
  <2>1. PopEvent \/ RunPops \/ SelectPops
    BY <1>2 DEF Pops
  <2>2. \/ UNCHANGED progressStatusMap
        \/ \E key \in DOMAIN eventList : popEvent(key)
    BY <2>1 DEF PopEvent, RunPops, SelectPops
  <2>3. QED
    BY <1>1, <1>2, <2>2, popEventKeeps DEF Pops
<1>3. CASE Refills
  <2>1. UNCHANGED progressStatusMap \/ reset
    BY <1>3 DEF Refills, AddNewEvent, AddHeldEvent, AddEvent, Reset
  <2>2. QED
    BY <1>1, <1>3, <2>1, resetKeeps DEF Refills
<1>4. ASSUME NEW type \in EventType, NEW n \in ClientCounts, Announces(type, n)
      PROVE  Merges /\ referred' = referred
  <2>1. NewProgressStatus(n) \in ProgressStatus /\ NewProgressStatus(n).expected = n
    <3>1. n \in Count /\ 0 \in Count
      BY ClientAssumption, CountAssumption DEF Count
    <3>2. QED
      BY <3>1 DEF NewProgressStatus, ProgressStatus
  <2>2. /\ progressStatusMap' = With(progressStatusMap, type,
                                    mergedStatus(type, NewProgressStatus(n)))
        /\ announced' = announcedAlso(type, n)
        /\ referred' = referred
    BY <1>4 DEF Announces, addStatusCast, Writes
  <2>3. QED
    BY <2>1, <2>2 DEF Merges
<1>5. ASSUME NEW type \in EventType, NEW n \in ClientCounts, Updates(type, n)
      PROVE  Same /\ referred' = referred
  BY <1>5, ClientAssumption, updateStatusKeeps DEF Updates, Writes
<1>6. CASE OtherCalls
  <2>1. UNCHANGED progressStatusMap
    BY <1>6 DEF OtherCalls, InsertSucceeds, insert, InsertFails, Run, RunReturns,
                Select, SelectReturns, Aborted, vars
  <2>2. QED
    BY <1>1, <1>6, <2>1 DEF OtherCalls
<1>7. ASSUME NEW type \in EventType, LooksUp(type)
      PROVE  Same /\ RefersToKnown
  <2>1. CASE HasProgressStatus(type)
    BY <1>1, <2>1 DEF HasProgressStatus
  <2>2. ASSUME NEW outcome, Refers(type, outcome),
               outcome = "reference" => hasProgressStatus(type)
        PROVE  Same /\ RefersToKnown
    BY <1>1, <2>2 DEF Refers, Answers, hasProgressStatus
  <2>3. CASE GetStatus(type) \/ GetExpectedTotal(type)
    BY <2>2, <2>3 DEF GetStatus, getStatus, GetExpectedTotal, getExpectedTotalNbOfEvents
  <2>4. CASE GetActualTotal(type) \/ GetCurrentNb(type)
    BY <2>2, <2>4 DEF GetActualTotal, getActualTotalNbOfEvents, GetCurrentNb,
                      getCurrentNbOfEvents
  <2>5. CASE CalculateProgress(type)
    BY <2>2, <2>5 DEF CalculateProgress, calculateProgress
  <2>6. QED
    BY <1>7, <2>1, <2>3, <2>4, <2>5 DEF LooksUp
<1>8. CASE List \/ JsonHandler
  <2>1. UNCHANGED <<progressStatusMap, announced, referred>>
    BY <1>8 DEF List, JsonHandler, JsonExportEventQueue, JsonExports, Lists
  <2>2. QED
    BY <1>1, <2>1
<1>9. ASSUME NEW status \in ClientStatuses, WritesOverall(status)
      PROVE  Same /\ referred' = referred
  BY <1>1, <1>9 DEF WritesOverall, Writes, setOverallStatus, setNumbers,
                    setCurrentNbOfEvents, setExpectedTotalNbOfEvents
<1>10. ASSUME NEW type \in EventType, NEW status \in ClientStatuses,
              WritesType(type, status)
       PROVE  Overwrites /\ referred' = referred
  BY <1>10, AccessAssumption DEF WritesType, Writes, setStatus, Overwrites
<1>11. ASSUME NEW type \in EventType, NEW status \in ClientStatuses,
              MergesType(type, status)
       PROVE  Merges /\ referred' = referred
  BY <1>11, AccessAssumption DEF MergesType, Writes, mergeStatus, Merges
<1>12. CASE UNCHANGED accessVars
  BY <1>1, <1>12 DEF accessVars, vars
<1>13. CASE \E type \in EventType, n \in ClientCounts : Announces(type, n) \/ Updates(type, n)
  BY <1>4, <1>5, <1>13
<1>14. CASE \E type \in EventType : LooksUp(type)
  BY <1>7, <1>14
<1>15. CASE \E status \in ClientStatuses : WritesOverall(status)
  BY <1>9, <1>15
<1>16. CASE \E type \in EventType, status \in ClientStatuses :
              WritesType(type, status) \/ MergesType(type, status)
  BY <1>10, <1>11, <1>16
<1>17. QED
  BY <1>2, <1>3, <1>6, <1>8, <1>12, <1>13, <1>14, <1>15, <1>16 DEF AccessNext

-----------------------------------------------------------------------------
(* The classes preserve the invariant.                                      *)

\* Where expected totals stay, so does what they are equal to.
LEMMA KeepsExpectedInv ==
  ASSUME AccessInv, KeepsExpected, announced' = announced
  PROVE  MapOK' /\ AnnouncementsAreKept'
BY DEF AccessInv, KeepsExpected, AnnouncementsAreKept

\* A status written by the client is noted by it; writing to a type without a
\* status changes nothing on either side.
LEMMA OverwritesInv ==
  ASSUME AccessInv, Overwrites
  PROVE  MapOK' /\ AnnouncementsAreKept' /\ DOMAIN progressStatusMap' = DOMAIN progressStatusMap
<1>1. PICK type \in EventType, status \in ProgressStatus :
        /\ progressStatusMap' = [progressStatusMap EXCEPT ![type] = status]
        /\ announced' = [announced EXCEPT ![type] = status.expected]
  BY DEF Overwrites
<1>2. MapOK' /\ DOMAIN progressStatusMap' = DOMAIN progressStatusMap
  BY <1>1 DEF AccessInv, MapOK
<1>3. AnnouncementsAreKept'
  BY <1>1, <1>2 DEF AccessInv, AnnouncementsAreKept, MapOK
<1>4. QED
  BY <1>2, <1>3

\* A total that grows, grows by what is announced, wrapping alike.
LEMMA MergesInv ==
  ASSUME AccessInv, Merges
  PROVE  /\ MapOK' /\ AnnouncementsAreKept'
         /\ DOMAIN progressStatusMap \subseteq DOMAIN progressStatusMap'
<1>1. PICK type \in EventType, status \in ProgressStatus :
        /\ progressStatusMap' = With(progressStatusMap, type, mergedStatus(type, status))
        /\ announced' = announcedAlso(type, status.expected)
  BY DEF Merges
<1> DEFINE new == mergedStatus(type, status)
           expected == IF hasProgressStatus(type)
                       THEN Plus(progressStatusMap[type].expected, status.expected)
                       ELSE status.expected
<1>2. new \in ProgressStatus /\ new.expected = expected
  BY mergedStatusType DEF AccessInv
<1>3. announced' = With(announced, type, expected)
  BY <1>1 DEF announcedAlso, AccessInv, AnnouncementsAreKept, hasProgressStatus
<1> HIDE DEF new, expected
<1>4. progressStatusMap' = With(progressStatusMap, type, new)
  BY <1>1 DEF new
<1>5. /\ DOMAIN progressStatusMap' = DOMAIN progressStatusMap \cup {type}
      /\ progressStatusMap'[type] = new
      /\ \A t \in DOMAIN progressStatusMap \ {type} : progressStatusMap'[t] = progressStatusMap[t]
      /\ MapOK'
  BY <1>2, <1>4 DEF With, AccessInv, MapOK
<1>6. AnnouncementsAreKept'
  BY <1>2, <1>3, <1>5 DEF With, AccessInv, AnnouncementsAreKept
<1>7. QED
  BY <1>5, <1>6

\* The invariant, step by step.
LEMMA AccessInvStep == AccessInv /\ [AccessNext]_accessVars => AccessInv'
<1> SUFFICES ASSUME AccessInv, [AccessNext]_accessVars PROVE AccessInv'
  OBVIOUS
<1>1. /\ RefersToKnown
      /\ (KeepsExpected /\ announced' = announced) \/ Overwrites \/ Merges
  BY AnyAccess DEF AccessInv
<1>2. /\ MapOK' /\ AnnouncementsAreKept'
      /\ DOMAIN progressStatusMap \subseteq DOMAIN progressStatusMap'
  BY <1>1, KeepsExpectedInv, OverwritesInv, MergesInv DEF KeepsExpected
<1>3. ReferencesStayValid'
  BY <1>1, <1>2 DEF RefersToKnown, AccessInv, ReferencesStayValid
<1>4. QED
  BY <1>2, <1>3 DEF AccessInv

\* A new queue knows no type, and the client refers to none.
LEMMA AccessInvInit == AccessInit => AccessInv
<1> SUFFICES ASSUME AccessInit PROVE AccessInv
  OBVIOUS
<1>1. progressStatusMap = EmptyMap /\ announced = EmptyMap /\ referred = {}
  BY DEF AccessInit, Init, QueueInit
<1>2. DOMAIN EmptyMap = {} /\ EmptyMap = [x \in {} |-> 0]
  BY DEF EmptyMap
<1>3. QED
  BY <1>1, <1>2 DEF AccessInv, MapOK, ReferencesStayValid, AnnouncementsAreKept

\* What a look-up by type has answered with, EventQueue never takes away.
THEOREM ReferencesStayValidHolds == AccessSpec => []ReferencesStayValid
<1>1. AccessInv => ReferencesStayValid
  BY DEF AccessInv
<1>2. QED
  BY <1>1, AccessInvInit, AccessInvStep, PTL DEF AccessSpec

\* The expected totals by type are what has been announced, whatever else the
\* client has called and whatever the casts of addStatus have yielded.
THEOREM AnnouncementsAreKeptHolds == AccessSpec => []AnnouncementsAreKept
<1>1. AccessInv => AnnouncementsAreKept
  BY DEF AccessInv
<1>2. QED
  BY <1>1, AccessInvInit, AccessInvStep, PTL DEF AccessSpec

-----------------------------------------------------------------------------
(* Lists.  The slots of a finite list are counted off in their order.       *)

\* The slots that come before one.
Before(S, key) == {k \in S : k < key}

\* The slots before one of n slots are fewer than n, and fewer than those before
\* a later one.
LEMMA BeforeCounts ==
  ASSUME NEW S \in SUBSET Int, IsFiniteSet(S), NEW key \in S
  PROVE  /\ IsFiniteSet(Before(S, key))
         /\ Cardinality(Before(S, key)) \in 0..(Cardinality(S) - 1)
         /\ \A k \in S : k < key => Cardinality(Before(S, k)) < Cardinality(Before(S, key))
<1>1. ASSUME NEW k \in S
      PROVE  /\ IsFiniteSet(Before(S, k)) /\ Cardinality(Before(S, k)) \in Nat
             /\ k \notin Before(S, k)
  BY FS_Subset, FS_CardinalityType DEF Before
<1>2. Cardinality(Before(S, key)) < Cardinality(S)
  <2>1. Before(S, key) \in SUBSET (S \ {key})
    BY DEF Before
  <2>2. IsFiniteSet(S \ {key}) /\ Cardinality(S \ {key}) = Cardinality(S) - 1
    BY FS_RemoveElement
  <2>3. Cardinality(Before(S, key)) <= Cardinality(S \ {key})
    BY <2>1, <2>2, FS_Subset
  <2>4. QED
    BY <1>1, <2>2, <2>3, FS_CardinalityType
<1>3. ASSUME NEW k \in S, k < key
      PROVE  Cardinality(Before(S, k)) < Cardinality(Before(S, key))
  <2>1. Before(S, k) \cup {k} \in SUBSET Before(S, key)
    <3>1. ASSUME NEW x \in S, x < k
          PROVE  x < key
      <4>1. x \in Int /\ k \in Int /\ key \in Int
        OBVIOUS
      <4>2. QED
        BY <1>3, <3>1, <4>1
    <3>2. QED
      BY <1>3, <3>1 DEF Before
  <2>2. Cardinality(Before(S, k) \cup {k}) = Cardinality(Before(S, k)) + 1
    BY <1>1, FS_AddElement
  <2>3. Cardinality(Before(S, k) \cup {k}) <= Cardinality(Before(S, key))
    BY <1>1, <2>1, FS_Subset
  <2>4. QED
    BY <1>1, <2>2, <2>3
<1>4. QED
  BY <1>1, <1>2, <1>3, FS_CardinalityType

\* Each number from 1 to n is the place of exactly one of n slots.
LEMMA slotAtPlace ==
  ASSUME NEW S \in SUBSET Int, IsFiniteSet(S), NEW i \in 1..Cardinality(S)
  PROVE  /\ slotAt(S, i) \in S
         /\ \A key \in S : Cardinality(Before(S, key)) = i - 1 <=> slotAt(S, i) = key
<1> DEFINE n == Cardinality(S)
           T == 0..(n - 1)
           f == [key \in S |-> Cardinality(Before(S, key))]
<1>1. n \in Nat
  BY FS_CardinalityType
<1>2. f \in [S -> T] /\ \A x, y \in S : f[x] = f[y] => x = y
  <2>1. \A key \in S : f[key] \in T
    BY BeforeCounts
  <2>2. ASSUME NEW x \in S, NEW y \in S, x < y
        PROVE  f[x] # f[y]
    BY <2>2, BeforeCounts
  <2>3. QED
    BY <2>1, <2>2
<1>3. IsFiniteSet(T) /\ Cardinality(T) = n
  <2>1. 0 \in Int /\ n - 1 \in Int
    BY <1>1
  <2> HIDE DEF n
  <2>2. IsFiniteSet(T)
    BY <2>1, FS_Interval
  <2>3. Cardinality(T) = IF 0 > n - 1 THEN 0 ELSE (n - 1) - 0 + 1
    BY <2>1, FS_Interval
  <2>4. QED
    BY <1>1, <2>2, <2>3
<1>4. f \in Injection(S, T)
  BY <1>2 DEF Injection, IsInjective
<1>5. f \in Surjection(S, T)
  BY <1>3, <1>4, FS_Injection
<1>6. i - 1 \in T
  BY <1>1
<1>7. PICK key \in S : f[key] = i - 1
  BY <1>5, <1>6 DEF Surjection
<1>8. slotAt(S, i) = CHOOSE k \in S : Cardinality(Before(S, k)) = i - 1
  BY DEF slotAt, Before
<1>9. slotAt(S, i) \in S /\ f[slotAt(S, i)] = i - 1
  BY <1>7, <1>8
<1>10. QED
  BY <1>2, <1>9

\* When the first slot goes, the second becomes the first, and so on.
LEMMA slotAtWithoutFirst ==
  ASSUME NEW S \in SUBSET Int, IsFiniteSet(S), NEW first \in S, \A k \in S : first <= k
  PROVE  /\ Cardinality(S) = Cardinality(S \ {first}) + 1
         /\ Cardinality(S \ {first}) \in Nat
         /\ slotAt(S, 1) = first
         /\ \A i \in 1..Cardinality(S \ {first}) :
              /\ slotAt(S \ {first}, i) \in S \ {first}
              /\ slotAt(S, i + 1) = slotAt(S \ {first}, i)
<1> DEFINE rest == S \ {first}
           n == Cardinality(rest)
<1>1. /\ IsFiniteSet(rest) /\ rest \in SUBSET Int
      /\ Cardinality(S) = n + 1 /\ n \in Nat
  <2>1. IsFiniteSet(rest) /\ Cardinality(rest) = Cardinality(S) - 1
    BY FS_RemoveElement
  <2>2. QED
    BY <2>1, FS_CardinalityType
<1>2. slotAt(S, 1) = first
  <2>1. Before(S, first) = {}
    <3>1. ASSUME NEW k \in S
          PROVE  ~ (k < first)
      <4>1. k \in Int /\ first \in Int /\ first <= k
        OBVIOUS
      <4>2. QED
        BY <4>1
    <3>2. QED
      BY <3>1 DEF Before
  <2>2. Cardinality(Before(S, first)) = 1 - 1
    BY <2>1, FS_EmptySet
  <2>3. 1 \in 1..Cardinality(S)
    BY <1>1
  <2>4. QED
    BY <2>2, <2>3, slotAtPlace
<1>3. ASSUME NEW i \in 1..n
      PROVE  slotAt(rest, i) \in rest /\ slotAt(S, i + 1) = slotAt(rest, i)
  <2> DEFINE key == slotAt(rest, i)
  <2>1. key \in rest /\ Cardinality(Before(rest, key)) = i - 1
    BY <1>1, slotAtPlace
  <2> HIDE DEF key
  <2>2. Before(S, key) = Before(rest, key) \cup {first} /\ first \notin Before(rest, key)
    BY <2>1 DEF Before
  <2>3. Cardinality(Before(S, key)) = i
    <3>1. IsFiniteSet(Before(rest, key))
      BY <1>1, <2>1, BeforeCounts
    <3>2. Cardinality(Before(rest, key) \cup {first}) = Cardinality(Before(rest, key)) + 1
      BY <2>2, <3>1, FS_AddElement
    <3>3. QED
      BY <2>1, <2>2, <3>2
  <2>4. i + 1 \in 1..Cardinality(S) /\ (i + 1) - 1 = i
    BY <1>1
  <2>5. slotAt(S, i + 1) = key
    BY <2>1, <2>3, <2>4, slotAtPlace
  <2>6. QED
    BY <2>1, <2>5 DEF key
<1>4. QED
  BY <1>1, <1>2, <1>3

\* A sequence is its first element and the others.
LEMMA FirstAndOthers ==
  ASSUME NEW E, NEW e \in E, NEW t \in Seq(E), NEW s \in Seq(E),
         Len(s) = Len(t) + 1, s[1] = e, \A i \in 1..Len(t) : s[i + 1] = t[i]
  PROVE  s = <<e>> \o t
<1> DEFINE u == <<e>> \o t
<1>1. Len(t) \in Nat
  OBVIOUS
<1>2. u \in Seq(E) /\ Len(u) = Len(t) + 1
  OBVIOUS
<1>3. ASSUME NEW i \in 1..(Len(t) + 1)
      PROVE  s[i] = u[i]
  <2>1. CASE i = 1
    BY <2>1
  <2>2. CASE i # 1
    <3>1. i - 1 \in 1..Len(t) /\ (i - 1) + 1 = i
      BY <1>1, <2>2
    <3>2. s[i] = t[i - 1]
      BY <3>1
    <3>3. u[i] = t[i - 1]
      BY <1>1, <2>2
    <3>4. QED
      BY <3>2, <3>3
  <2>3. QED
    BY <2>1, <2>2
<1> HIDE DEF u
<1>4. s = u
  <2>1. /\ s = [i \in 1..Len(s) |-> s[i]]
        /\ u = [i \in 1..Len(u) |-> u[i]]
    BY <1>2
  <2>2. Len(s) = Len(t) + 1 /\ Len(u) = Len(t) + 1
    BY <1>2
  <2>3. QED
    BY <1>3, <2>1, <2>2, Zenon
<1>5. QED
  BY <1>4 DEF u

\* Taking the first element to the end of the part before it.
LEMMA AppendFirst ==
  ASSUME NEW E, NEW s \in Seq(E), NEW e \in E, NEW t \in Seq(E)
  PROVE  s \o (<<e>> \o t) = Append(s, e) \o t
<1>1. Append(s, e) = s \o <<e>>
  OBVIOUS
<1>2. s \o (<<e>> \o t) = (s \o <<e>>) \o t
  BY <<e>> \in Seq(E)
<1>3. QED
  BY <1>1, <1>2, Zenon

\* A part that something follows is a prefix, and all there is if nothing does.
LEMMA ConcatPrefix ==
  ASSUME NEW E, NEW s \in Seq(E), NEW t \in Seq(E)
  PROVE  /\ s \o t \in Seq(E)
         /\ IsPrefix(s, s \o t)
         /\ t = <<>> => s \o t = s
BY DEF IsPrefix

\* The list of the events of some types in an event list, as eventsOf makes it.
SlotsIn(list, types) == {key \in DOMAIN list : list[key].type \in types}
EventsAt(list, slots) == [i \in 1..Cardinality(slots) |-> list[slotAt(slots, i)]]
ListOf(list, types) == EventsAt(list, SlotsIn(list, types))

IsEventList(list) ==
  /\ DOMAIN list \in SUBSET Int
  /\ IsFiniteSet(DOMAIN list)
  /\ list \in [DOMAIN list -> Event]

\* The client's list is that list.
LEMMA eventsOfIsListOf ==
  ASSUME NEW types
  PROVE  eventsOf(types) = ListOf(eventList, types)
BY DEF eventsOf, slotsOf, ListOf, EventsAt, SlotsIn

\* Some events in a list make a sequence of events.
LEMMA EventsAtType ==
  ASSUME NEW list, IsEventList(list), NEW slots \in SUBSET DOMAIN list
  PROVE  /\ slots \in SUBSET Int /\ IsFiniteSet(slots) /\ Cardinality(slots) \in Nat
         /\ \A i \in 1..Cardinality(slots) : slotAt(slots, i) \in slots
         /\ EventsAt(list, slots) \in Seq(Event)
         /\ Len(EventsAt(list, slots)) = Cardinality(slots)
<1>1. slots \in SUBSET Int /\ IsFiniteSet(slots) /\ Cardinality(slots) \in Nat
  BY FS_Subset, FS_CardinalityType DEF IsEventList
<1>2. \A i \in 1..Cardinality(slots) : slotAt(slots, i) \in slots
  BY <1>1, slotAtPlace
<1>3. \A i \in 1..Cardinality(slots) : list[slotAt(slots, i)] \in Event
  BY <1>2 DEF IsEventList
<1>4. /\ EventsAt(list, slots) \in Seq(Event)
      /\ Len(EventsAt(list, slots)) = Cardinality(slots)
  BY <1>1, <1>3 DEF EventsAt
<1>5. QED
  BY <1>1, <1>2, <1>4

\* So does the list, which is empty when the queue is.
LEMMA ListOfType ==
  ASSUME NEW list, IsEventList(list), NEW types
  PROVE  /\ ListOf(list, types) \in Seq(Event)
         /\ DOMAIN list = {} => ListOf(list, types) = <<>>
<1>1. SlotsIn(list, types) \in SUBSET DOMAIN list
  BY DEF SlotsIn
<1>2. /\ ListOf(list, types) \in Seq(Event)
      /\ Len(ListOf(list, types)) = Cardinality(SlotsIn(list, types))
  BY <1>1, EventsAtType DEF ListOf
<1>3. ASSUME DOMAIN list = {}
      PROVE  ListOf(list, types) = <<>>
  <2>1. SlotsIn(list, types) = {}
    BY <1>3 DEF SlotsIn
  <2>2. Cardinality(SlotsIn(list, types)) = 0
    BY <2>1, FS_EmptySet
  <2>3. QED
    BY <1>2, <2>2
<1>4. QED
  BY <1>2, <1>3

\* The list without its first event is a list.
LEMMA WithoutFirst ==
  ASSUME NEW list, IsEventList(list), NEW first \in DOMAIN list
  PROVE  /\ DOMAIN Without(list, first) = DOMAIN list \ {first}
         /\ \A k \in DOMAIN list \ {first} : Without(list, first)[k] = list[k]
         /\ IsEventList(Without(list, first))
<1>1. /\ DOMAIN Without(list, first) = DOMAIN list \ {first}
      /\ Without(list, first) \in [DOMAIN Without(list, first) -> Event]
      /\ \A k \in DOMAIN list \ {first} : Without(list, first)[k] = list[k]
  BY WithoutType DEF IsEventList
<1>2. IsFiniteSet(DOMAIN list \ {first})
  BY FS_RemoveElement DEF IsEventList
<1>3. QED
  BY <1>1, <1>2 DEF IsEventList

\* When the first event goes, it was the first of any list that it is in, and the
\* others move up; a list that it is not in stays.
LEMMA ListWithoutFirst ==
  ASSUME NEW list, IsEventList(list), NEW types, NEW first, IsFirstKey(list, first)
  PROVE  /\ list[first] \in Event
         /\ list[first].type \in types =>
              ListOf(list, types) = <<list[first]>> \o ListOf(Without(list, first), types)
         /\ list[first].type \notin types =>
              ListOf(list, types) = ListOf(Without(list, first), types)
<1> DEFINE rest == Without(list, first)
           S == SlotsIn(list, types)
           R == SlotsIn(rest, types)
<1>1. first \in DOMAIN list /\ \A k \in DOMAIN list : first <= k
  BY DEF IsFirstKey
<1>2. /\ DOMAIN rest = DOMAIN list \ {first}
      /\ \A k \in DOMAIN list \ {first} : rest[k] = list[k]
      /\ IsEventList(rest)
  BY <1>1, WithoutFirst
<1> HIDE DEF rest
<1>3. R = S \ {first} /\ S \in SUBSET DOMAIN list /\ R \in SUBSET DOMAIN rest
  BY <1>2 DEF SlotsIn
<1>4. /\ \A i \in 1..Cardinality(R) : slotAt(R, i) \in R
      /\ EventsAt(rest, R) \in Seq(Event)
      /\ Len(EventsAt(rest, R)) = Cardinality(R)
      /\ Cardinality(R) \in Nat
  BY <1>2, <1>3, EventsAtType
<1>5. ASSUME list[first].type \notin types
      PROVE  EventsAt(list, S) = EventsAt(rest, R)
  <2>1. R = S
    BY <1>3, <1>5 DEF SlotsIn
  <2>2. \A i \in 1..Cardinality(R) : list[slotAt(R, i)] = rest[slotAt(R, i)]
    BY <1>2, <1>3, <1>4
  <2> HIDE DEF S, R
  <2>3. QED
    BY <2>1, <2>2 DEF EventsAt
<1>6. ASSUME list[first].type \in types
      PROVE  EventsAt(list, S) = <<list[first]>> \o EventsAt(rest, R)
  <2>1. first \in S
    BY <1>1, <1>6 DEF SlotsIn
  <2>2. /\ S \in SUBSET Int /\ IsFiniteSet(S) /\ Cardinality(S) \in Nat
        /\ EventsAt(list, S) \in Seq(Event)
        /\ Len(EventsAt(list, S)) = Cardinality(S)
    BY <1>3, EventsAtType
  <2>3. \A k \in S : first <= k
    BY <1>1, <1>3
  <2> HIDE DEF S, R
  <2>4. /\ Cardinality(S) = Cardinality(R) + 1
        /\ slotAt(S, 1) = first
        /\ \A i \in 1..Cardinality(R) : slotAt(S, i + 1) = slotAt(R, i)
    <3>1. /\ Cardinality(S) = Cardinality(S \ {first}) + 1
          /\ slotAt(S, 1) = first
          /\ \A i \in 1..Cardinality(S \ {first}) :
               /\ slotAt(S \ {first}, i) \in S \ {first}
               /\ slotAt(S, i + 1) = slotAt(S \ {first}, i)
      BY <2>1, <2>2, <2>3, slotAtWithoutFirst
    <3>2. QED
      BY <1>3, <3>1
  <2> DEFINE s == EventsAt(list, S)
             t == EventsAt(rest, R)
  <2>5. s[1] = list[first]
    BY <1>4, <2>4 DEF EventsAt
  <2>6. ASSUME NEW i \in 1..Len(t)
        PROVE  s[i + 1] = t[i]
    <3>1. i \in 1..Cardinality(R) /\ i + 1 \in 1..Cardinality(S)
      BY <1>4, <2>4
    <3>2. s[i + 1] = list[slotAt(S, i + 1)] /\ t[i] = rest[slotAt(R, i)]
      BY <3>1 DEF EventsAt
    <3>3. list[slotAt(R, i)] = rest[slotAt(R, i)]
      BY <1>2, <1>3, <1>4, <3>1
    <3>4. QED
      BY <2>4, <3>1, <3>2, <3>3
  <2>7. list[first] \in Event
    BY <1>1 DEF IsEventList
  <2>8. t \in Seq(Event) /\ s \in Seq(Event) /\ Len(s) = Len(t) + 1
    BY <1>4, <2>2, <2>4
  <2> HIDE DEF s, t
  <2>9. s = <<list[first]>> \o t
    BY <2>5, <2>6, <2>7, <2>8, FirstAndOthers
  <2>10. QED
    BY <2>9 DEF s, t
<1>7. list[first] \in Event
  BY <1>1 DEF IsEventList
<1>8. ListOf(list, types) = EventsAt(list, S) /\ ListOf(rest, types) = EventsAt(rest, R)
  BY DEF ListOf
<1>9. QED
  BY <1>5, <1>6, <1>7, <1>8 DEF rest

\* What makes the list foretell the pops.  What has been popped
\* of the list and what is left of it in the queue are the list; while an event
\* is being added there is no list.
ListInv ==
  /\ IsFiniteSet(DOMAIN eventList)
  /\ popped \in Seq(Event)
  /\ pc = "addEvent" => listing = NoListing
  /\ listing # NoListing =>
       /\ listing.types \subseteq EventType
       /\ listing.events = popped \o eventsOf(listing.types)

-----------------------------------------------------------------------------
(* What a step can do to the list.                                          *)

\* The first event leaves the queue, and the list if it is in it.
Removes ==
  \E key \in DOMAIN eventList :
    LET event == eventList[key] IN
    /\ IsFirstKey(eventList, key)
    /\ eventList' = Without(eventList, key)
    /\ popped' = IF listing # NoListing /\ event.type \in listing.types
                 THEN Append(popped, event) ELSE popped
    /\ listing' = listing
    /\ pc' = "addEvent" => pc = "addEvent"

\* A new list is made.
Relists ==
  \E types \in SUBSET EventType :
    /\ eventList' = eventList
    /\ listing' = [types |-> types, events |-> eventsOf(types)]
    /\ popped' = <<>>
    /\ pc' # "addEvent"

\* The list is given up: an event is to be added, or the queue is reset.
GivesUp ==
  /\ eventList' = eventList \/ eventList' = EmptyMap
  /\ listing' = NoListing
  /\ popped' = <<>>

\* An event is added.
Inserts ==
  /\ pc = "addEvent"
  /\ \E event \in Event : insert(event)
  /\ UNCHANGED <<listing, popped>>

KeepsList ==
  /\ UNCHANGED <<eventList, listing, popped>>
  /\ pc' = "addEvent" => pc = "addEvent"

\* A list without one of its slots is another list.
LEMMA WithoutDiffers ==
  ASSUME QueueTypeOK, NEW key \in DOMAIN eventList
  PROVE  Without(eventList, key) # eventList
<1>1. DOMAIN Without(eventList, key) = DOMAIN eventList \ {key}
  BY WithoutType DEF QueueTypeOK
<1>2. QED
  BY <1>1

\* Every step is of one of these classes, as far as the list goes.
LEMMA AnyListStep ==
  ASSUME TypeOK, [AccessNext]_accessVars
  PROVE  Removes \/ Relists \/ GivesUp \/ Inserts \/ KeepsList
<1> USE DEF lookVars, queueVars
<1>1. CASE Pops
  <2>1. PopEvent \/ RunPops \/ SelectPops
    BY <1>1 DEF Pops
  <2>2. listing' = listing
    BY <1>1 DEF Pops
  <2>3. pc' = "addEvent" => pc = "addEvent"
    BY <2>1 DEF PopEvent, RunPops, SelectPops, Atomic, Leave
  <2>4. CASE \E key \in DOMAIN eventList : popEvent(key) /\ ioEvent' = eventList[key]
    <3>1. PICK key \in DOMAIN eventList : popEvent(key) /\ ioEvent' = eventList[key]
      BY <2>4
    <3>2. IsFirstKey(eventList, key) /\ eventList' = Without(eventList, key)
      BY <3>1 DEF popEvent
    <3>3. eventList' # eventList
      BY <3>2, WithoutDiffers DEF TypeOK
    <3>4. popped' = IF listing # NoListing /\ eventList[key].type \in listing.types
                    THEN Append(popped, eventList[key]) ELSE popped
      BY <1>1, <3>1, <3>3 DEF Pops
    <3>5. QED
      BY <2>2, <2>3, <3>2, <3>4 DEF Removes
  <2>5. CASE UNCHANGED eventList
    BY <1>1, <2>2, <2>3, <2>5 DEF Pops, KeepsList
  <2>6. QED
    BY <2>1, <2>4, <2>5 DEF PopEvent, RunPops, SelectPops
<1>2. CASE Refills
  <2>1. eventList' = eventList \/ eventList' = EmptyMap
    BY <1>2 DEF Refills, AddNewEvent, AddHeldEvent, AddEvent, Reset, reset
  <2>2. QED
    BY <1>2, <2>1 DEF Refills, GivesUp
<1>3. ASSUME Writes, UNCHANGED eventList
      PROVE  KeepsList
  BY <1>3 DEF Writes, Atomic, Leave, KeepsList
<1>4. ASSUME NEW type \in EventType, NEW n \in ClientCounts, Announces(type, n)
      PROVE  KeepsList
  BY <1>3, <1>4 DEF Announces, addStatusCast
<1>5. ASSUME NEW type \in EventType, NEW n \in ClientCounts, Updates(type, n)
      PROVE  KeepsList
  BY <1>3, <1>5 DEF Updates, updateStatus
<1>6. CASE OtherCalls
  <2>1. UNCHANGED <<listing, popped>>
    BY <1>6 DEF OtherCalls
  <2>2. CASE InsertSucceeds
    <3>1. pc = "addEvent" /\ insert(ioEvent) /\ ioEvent \in Event
      BY <2>2 DEF InsertSucceeds, TypeOK
    <3>2. QED
      BY <2>1, <3>1 DEF Inserts
  <2>3. CASE \/ InsertFails \/ Run \/ RunReturns
             \/ (\E dateTime \in DateTime : Select(dateTime)) \/ SelectReturns
             \/ Aborted
    <3>1. UNCHANGED eventList /\ (pc' = "addEvent" => pc = "addEvent")
      BY <2>3 DEF InsertFails, Run, RunReturns, Select, SelectReturns, Aborted, vars,
                  callVars, Enter, Atomic, Leave
    <3>2. QED
      BY <2>1, <3>1 DEF KeepsList
  <2>4. QED
    BY <1>6, <2>2, <2>3 DEF OtherCalls
<1>7. ASSUME NEW type \in EventType, LooksUp(type)
      PROVE  KeepsList
  <2>1. CASE HasProgressStatus(type)
    BY <2>1 DEF HasProgressStatus, Atomic, Leave, KeepsList
  <2>2. ASSUME NEW outcome, Refers(type, outcome)
        PROVE  KeepsList
    BY <2>2 DEF Refers, Answers, Leave, KeepsList
  <2>3. QED
    BY <1>7, <2>1, <2>2 DEF LooksUp, GetStatus, GetExpectedTotal, GetActualTotal,
                            GetCurrentNb, CalculateProgress
<1>8. ASSUME NEW types \in SUBSET EventType, Lists(types)
      PROVE  Relists
  BY <1>8 DEF Lists, Atomic, Leave, Relists
<1>9. ASSUME NEW types \in SUBSET EventType, JsonExports(types)
      PROVE  Relists \/ KeepsList
  <2>1. types \ Silent \in SUBSET EventType
    OBVIOUS
  <2>2. CASE Lists(types \ Silent)
    BY <1>8, <2>1, <2>2
  <2>3. CASE /\ Atomic("threw")
             /\ UNCHANGED <<queueVars, ioEvent, lookVars, writeVars>>
    BY <2>3 DEF Atomic, Leave, KeepsList
  <2>4. QED
    BY <1>9, <2>2, <2>3 DEF JsonExports
<1>10. EventType \in SUBSET EventType /\ \A type \in EventType : {type} \in SUBSET EventType
  OBVIOUS
<1>11. CASE List
  BY <1>8, <1>10, <1>11 DEF List
<1>12. CASE JsonHandler
  <2>1. CASE JsonExportEventQueue
    BY <1>9, <1>10, <2>1 DEF JsonExportEventQueue
  <2>2. CASE Atomic("void") /\ UNCHANGED <<queueVars, ioEvent, lookVars, writeVars>>
    BY <2>2 DEF Atomic, Leave, KeepsList
  <2>3. QED
    BY <1>12, <2>1, <2>2 DEF JsonHandler
<1>13. ASSUME NEW status \in ClientStatuses, WritesOverall(status)
       PROVE  KeepsList
  BY <1>3, <1>13 DEF WritesOverall, setOverallStatus, setNumbers, setCurrentNbOfEvents,
                     setExpectedTotalNbOfEvents
<1>14. ASSUME NEW type \in EventType, NEW status \in ClientStatuses,
              WritesType(type, status) \/ MergesType(type, status)
       PROVE  KeepsList
  BY <1>3, <1>14 DEF WritesType, MergesType, mergeStatus
<1>15. CASE UNCHANGED accessVars
  BY <1>15 DEF accessVars, vars, callVars, KeepsList
<1>16. QED
  BY <1>1, <1>2, <1>4, <1>5, <1>6, <1>7, <1>11, <1>12, <1>13, <1>14, <1>15 DEF AccessNext

-----------------------------------------------------------------------------
\* The list and what has been popped of it, step by step.
LEMMA ListInvStep == TypeOK /\ ListInv /\ [AccessNext]_accessVars => ListInv'
<1> SUFFICES ASSUME TypeOK, ListInv, [AccessNext]_accessVars PROVE ListInv'
  OBVIOUS
<1>1. Removes \/ Relists \/ GivesUp \/ Inserts \/ KeepsList
  BY AnyListStep
<1>2. IsEventList(eventList)
  BY DEF TypeOK, QueueTypeOK, ListInv, IsEventList
<1>3. \A types : eventsOf(types) = ListOf(eventList, types)
  BY eventsOfIsListOf
<1>4. (eventsOf(listing.types))' = ListOf(eventList', listing'.types)
  BY DEF eventsOf, slotsOf, ListOf, EventsAt, SlotsIn
<1>5. CASE Removes
  <2>1. PICK key \in DOMAIN eventList :
          /\ IsFirstKey(eventList, key)
          /\ eventList' = Without(eventList, key)
          /\ popped' = IF listing # NoListing /\ eventList[key].type \in listing.types
                       THEN Append(popped, eventList[key]) ELSE popped
          /\ listing' = listing
          /\ pc' = "addEvent" => pc = "addEvent"
    BY <1>5 DEF Removes
  <2>2. PICK event : event = eventList[key]
    OBVIOUS
  <2>3. IsEventList(eventList')
    BY <1>2, <2>1, WithoutFirst
  <2>4. event \in Event /\ popped \in Seq(Event) /\ popped' \in Seq(Event)
    <3>1. event \in Event
      BY <1>2, <2>1, <2>2, ListWithoutFirst
    <3>2. popped \in Seq(Event)
      BY DEF ListInv
    <3>3. QED
      BY <2>1, <2>2, <3>1, <3>2
  <2>5. ASSUME listing # NoListing
        PROVE  listing.events = popped' \o ListOf(eventList', listing.types)
    <3>1. listing.events = popped \o ListOf(eventList, listing.types)
      BY <1>3, <2>5 DEF ListInv
    <3>2. ListOf(eventList', listing.types) \in Seq(Event)
      BY <2>3, ListOfType
    <3>3. CASE event.type \in listing.types
      <4>1. ListOf(eventList, listing.types) = <<event>> \o ListOf(eventList', listing.types)
        BY <1>2, <2>1, <2>2, <3>3, ListWithoutFirst
      <4>2. popped' = Append(popped, event)
        BY <2>1, <2>2, <2>5, <3>3
      <4>3. popped \o (<<event>> \o ListOf(eventList', listing.types)) =
              Append(popped, event) \o ListOf(eventList', listing.types)
        BY <2>4, <3>2, AppendFirst
      <4>4. QED
        BY <3>1, <4>1, <4>2, <4>3, Zenon
    <3>4. CASE event.type \notin listing.types
      <4>1. ListOf(eventList, listing.types) = ListOf(eventList', listing.types)
        BY <1>2, <2>1, <2>2, <3>4, ListWithoutFirst
      <4>2. popped' = popped
        BY <2>1, <2>2, <3>4
      <4>3. QED
        BY <3>1, <4>1, <4>2
    <3>5. QED
      BY <3>3, <3>4
  <2>6. listing' # NoListing => listing'.events = popped' \o (eventsOf(listing.types))'
    BY <1>4, <2>1, <2>5
  <2>7. QED
    BY <2>1, <2>3, <2>4, <2>6 DEF ListInv, IsEventList
<1>6. CASE Relists
  <2>1. PICK types \in SUBSET EventType :
          /\ eventList' = eventList
          /\ listing' = [types |-> types, events |-> eventsOf(types)]
          /\ popped' = <<>>
          /\ pc' # "addEvent"
    BY <1>6 DEF Relists
  <2>2. eventsOf(types) = ListOf(eventList, types)
    BY <1>3
  <2>3. ListOf(eventList, types) = <<>> \o ListOf(eventList, types)
    BY <1>2, ListOfType
  <2>4. listing'.events = popped' \o ListOf(eventList', listing'.types)
    BY <2>1, <2>2, <2>3
  <2>5. ListOf(eventList', listing'.types) = (eventsOf(listing.types))'
    BY <1>4
  <2>6. <<>> \in Seq(Event)
    OBVIOUS
  <2>7. QED
    BY <2>1, <2>4, <2>5, <2>6 DEF ListInv
<1>7. CASE GivesUp
  <2>1. IsFiniteSet(DOMAIN eventList')
    <3>1. DOMAIN EmptyMap = {}
      BY DEF EmptyMap
    <3>2. QED
      BY <1>7, <3>1, FS_EmptySet DEF GivesUp, ListInv
  <2>2. <<>> \in Seq(Event)
    OBVIOUS
  <2>3. QED
    BY <1>7, <2>1, <2>2 DEF GivesUp, ListInv
<1>8. CASE Inserts
  <2>1. PICK event \in Event : insert(event)
    BY <1>8 DEF Inserts
  <2>2. DOMAIN eventList' = DOMAIN eventList \cup {event.stamp}
    BY <2>1 DEF insert, With
  <2>3. IsFiniteSet(DOMAIN eventList')
    BY <2>2, FS_AddElement DEF ListInv
  <2>4. listing' = NoListing /\ popped' \in Seq(Event)
    BY <1>8 DEF Inserts, ListInv
  <2>5. QED
    BY <2>3, <2>4 DEF ListInv
<1>9. CASE KeepsList
  <2>1. UNCHANGED <<eventList, listing, popped>> /\ (pc' = "addEvent" => pc = "addEvent")
    BY <1>9 DEF KeepsList
  <2>2. (eventsOf(listing.types))' = eventsOf(listing.types)
    BY <2>1 DEF eventsOf, slotsOf
  <2>3. QED
    BY <2>1, <2>2 DEF ListInv
<1>10. QED
  BY <1>1, <1>5, <1>6, <1>7, <1>8, <1>9

-----------------------------------------------------------------------------
(* Types.  The calls of EventQueueManager keep them (TypeCorrectStep); those*)
(* of this module come and go in one step.                                  *)

\* A call that leaves a typed queue and the client's struct keeps the types.
LEMMA FrameTypeOK ==
  ASSUME TypeOK, NEW to \in {"idle", "aborted"}, NEW answer \in Replies,
         Leave(to, answer), ioEvent' = ioEvent, QueueTypeOK'
  PROVE  TypeOK'
BY LeaveTypeOK DEF TypeOK

\* A call that writes a status comes and goes in one step, and is counted.
LEMMA WritesTypeOK ==
  ASSUME TypeOK, Writes, QueueTypeOK'
  PROVE  TypeOK' /\ writes' = writes + 1 /\ writes < MaxWrites
<1>1. "idle" \in {"idle", "aborted"} /\ "void" \in Replies
  BY DEF Replies
<1>2. Leave("idle", "void") /\ ioEvent' = ioEvent /\ writes' = writes + 1 /\ writes < MaxWrites
  BY DEF Writes, Atomic
<1>3. TypeOK'
  BY <1>1, <1>2, FrameTypeOK
<1>4. QED
  BY <1>2, <1>3

\* A merged status leaves a map of statuses.
LEMMA MergedMapType ==
  ASSUME QueueTypeOK, NEW type \in EventType, NEW status \in ProgressStatus,
         progressStatusMap' = With(progressStatusMap, type, mergedStatus(type, status))
  PROVE  /\ DOMAIN progressStatusMap' \subseteq EventType
         /\ progressStatusMap' \in [DOMAIN progressStatusMap' -> ProgressStatus]
<1> DEFINE new == mergedStatus(type, status)
           map == With(progressStatusMap, type, new)
<1>1. new \in ProgressStatus
  BY mergedStatusType DEF MapOK, QueueTypeOK
<1> HIDE DEF new
<1>2. /\ DOMAIN map = DOMAIN progressStatusMap \cup {type}
      /\ map \in [DOMAIN map -> ProgressStatus]
  BY <1>1 DEF With, QueueTypeOK
<1>3. QED
  BY <1>2 DEF new, QueueTypeOK

\* Whatever the cast of a sum gives is a count, where the sum is defined or not.
LEMMA addStatusCastTypeOK ==
  ASSUME QueueTypeOK, NEW type \in EventType, NEW n \in Count, addStatusCast(type, n)
  PROVE  QueueTypeOK'
<1>1. ASSUME NEW old \in Count
      PROVE  castOf(old + n) \subseteq Count
  BY <1>1, CountAssumption DEF castOf, Count
<1>2. PICK expected \in castOf(progressStatus.expected + n),
           actual \in castOf(progressStatus.actual + n) :
        progressStatus' = [progressStatus EXCEPT !.expected = expected,
                                                 !.actual = actual]
  BY DEF addStatusCast
<1>3. progressStatus \in ProgressStatus
  BY DEF QueueTypeOK
<1>4. expected \in Count /\ actual \in Count
  BY <1>1, <1>3 DEF ProgressStatus
<1>5. progressStatus' \in ProgressStatus
  BY <1>2, <1>3, <1>4 DEF ProgressStatus
<1>6. NewProgressStatus(n) \in ProgressStatus
  BY ProgressStatusType
<1>7. /\ DOMAIN progressStatusMap' \subseteq EventType
      /\ progressStatusMap' \in [DOMAIN progressStatusMap' -> ProgressStatus]
  BY <1>6, MergedMapType DEF addStatusCast
<1>8. QED
  BY <1>5, <1>7 DEF QueueTypeOK, addStatusCast

\* The setters of the overall status take a status, or numbers of one.
LEMMA settersTypeOK ==
  ASSUME QueueTypeOK, NEW status \in ProgressStatus,
         \/ setOverallStatus(status)
         \/ setNumbers(status.current, status.actual)
         \/ setCurrentNbOfEvents(status.current)
         \/ setExpectedTotalNbOfEvents(status.expected)
  PROVE  QueueTypeOK'
<1>1. progressStatus \in ProgressStatus
  BY DEF QueueTypeOK
<1>2. progressStatus' \in ProgressStatus
  BY <1>1 DEF setOverallStatus, setNumbers, setCurrentNbOfEvents,
              setExpectedTotalNbOfEvents, ProgressStatus
<1>3. UNCHANGED <<eventList, progressStatusMap>>
  BY DEF setOverallStatus, setNumbers, setCurrentNbOfEvents, setExpectedTotalNbOfEvents
<1>4. QED
  BY <1>2, <1>3 DEF QueueTypeOK

\* Every call of the client keeps the types of the queue and the bound on writes.
LEMMA AccessTypeStep ==
  ASSUME TypeOK, writes \in 0..MaxWrites, [AccessNext]_accessVars
  PROVE  TypeOK' /\ writes' \in 0..MaxWrites
<1> USE DEF writeVars
<1>1. ASSUME [Next]_vars
      PROVE  TypeOK'
  BY <1>1, TypeCorrectStep
<1>2. ASSUME Writes, QueueTypeOK'
      PROVE  TypeOK' /\ writes' \in 0..MaxWrites
  <2>1. TypeOK' /\ writes' = writes + 1 /\ writes < MaxWrites
    BY <1>2, WritesTypeOK
  <2>2. QED
    BY <2>1, AccessAssumption
<1>3. ASSUME NEW to \in {"idle", "aborted"}, NEW answer \in Replies,
             Leave(to, answer), UNCHANGED <<queueVars, ioEvent>>
      PROVE  TypeOK'
  <2>1. QueueTypeOK'
    BY <1>3 DEF TypeOK, QueueTypeOK, queueVars
  <2>2. QED
    BY <1>3, <2>1, FrameTypeOK
<1>4. /\ "idle" \in {"idle", "aborted"} /\ "aborted" \in {"idle", "aborted"}
      /\ \A answer \in {"none", "threw", "true", "false", "status", "void"} :
           answer \in Replies
  BY DEF Replies
<1>5. CASE Pops
  BY <1>1, <1>5 DEF Pops, Next, Call, Progress
<1>6. CASE Refills
  BY <1>1, <1>6 DEF Refills, Next, Call
<1>7. CASE OtherCalls
  BY <1>1, <1>7 DEF OtherCalls, Next, Call, Progress
<1>8. ASSUME NEW type \in EventType, NEW n \in ClientCounts, Announces(type, n)
      PROVE  TypeOK' /\ writes' \in 0..MaxWrites
  <2>1. QueueTypeOK'
    BY <1>8, ClientAssumption, addStatusCastTypeOK DEF Announces, TypeOK
  <2>2. QED
    BY <1>2, <1>8, <2>1 DEF Announces
<1>9. ASSUME NEW type \in EventType, NEW n \in ClientCounts, Updates(type, n)
      PROVE  TypeOK' /\ writes' \in 0..MaxWrites
  <2>1. QueueTypeOK'
    BY <1>9, ClientAssumption, updateStatusTypeOK DEF Updates, TypeOK
  <2>2. QED
    BY <1>2, <1>9, <2>1 DEF Updates
<1>10. ASSUME NEW type \in EventType, LooksUp(type)
       PROVE  TypeOK' /\ writes' = writes
  <2>1. CASE HasProgressStatus(type)
    BY <1>3, <1>4, <2>1 DEF HasProgressStatus, Atomic
  <2>2. ASSUME NEW outcome, Refers(type, outcome)
        PROVE  TypeOK' /\ writes' = writes
    BY <1>3, <1>4, <2>2 DEF Refers, Answers
  <2>3. QED
    BY <1>10, <2>1, <2>2 DEF LooksUp, GetStatus, GetExpectedTotal, GetActualTotal,
                            GetCurrentNb, CalculateProgress
<1>11. CASE List \/ JsonHandler
  <2>1. \E answer \in {"void", "threw"} : Atomic(answer)
    BY <1>11 DEF List, JsonHandler, JsonExportEventQueue, JsonExports, Lists
  <2>2. UNCHANGED <<queueVars, ioEvent, writes>>
    BY <1>11 DEF List, JsonHandler, JsonExportEventQueue, JsonExports, Lists
  <2>3. QED
    BY <1>3, <1>4, <2>1, <2>2 DEF Atomic
<1>12. ASSUME NEW status \in ClientStatuses, WritesOverall(status)
       PROVE  TypeOK' /\ writes' \in 0..MaxWrites
  <2>1. QueueTypeOK'
    BY <1>12, AccessAssumption, settersTypeOK DEF WritesOverall, TypeOK
  <2>2. QED
    BY <1>2, <1>12, <2>1 DEF WritesOverall
<1>13. ASSUME NEW type \in EventType, NEW status \in ClientStatuses,
              WritesType(type, status)
       PROVE  TypeOK' /\ writes' \in 0..MaxWrites
  <2>1. status \in ProgressStatus
    BY AccessAssumption
  <2>2. QueueTypeOK'
    BY <1>13, <2>1 DEF WritesType, setStatus, TypeOK, QueueTypeOK
  <2>3. QED
    BY <1>2, <1>13, <2>2 DEF WritesType
<1>14. ASSUME NEW type \in EventType, NEW status \in ClientStatuses,
              MergesType(type, status)
       PROVE  TypeOK' /\ writes' \in 0..MaxWrites
  <2>1. status \in ProgressStatus
    BY AccessAssumption
  <2>2. QueueTypeOK'
    BY <1>14, <2>1, MergedMapType DEF MergesType, mergeStatus, TypeOK, QueueTypeOK
  <2>3. QED
    BY <1>2, <1>14, <2>2 DEF MergesType
<1>15. CASE UNCHANGED accessVars
  BY <1>1, <1>15 DEF accessVars
<1>16. UNCHANGED writes => writes' \in 0..MaxWrites
  OBVIOUS
<1>17. CASE Pops \/ Refills \/ OtherCalls
  BY <1>5, <1>6, <1>7, <1>16, <1>17 DEF Pops, Refills, OtherCalls
<1>18. QED
  BY <1>8, <1>9, <1>10, <1>11, <1>12, <1>13, <1>14, <1>15, <1>16, <1>17
     DEF AccessNext, accessVars

\* What is proved of the types and of the list, together.
AccessListInv == TypeOK /\ AccessInv /\ ListInv /\ writes \in 0..MaxWrites

\* It holds of a new queue, and it is kept.
LEMMA AccessListInvInit == AccessInit => AccessListInv
<1> SUFFICES ASSUME AccessInit PROVE AccessListInv
  OBVIOUS
<1>1. TypeOK /\ AccessInv
  BY TypeCorrectInit, AccessInvInit DEF AccessInit
<1>2. DOMAIN eventList = {}
  BY DEF AccessInit, Init, QueueInit, EmptyMap
<1>3. ListInv
  <2>1. <<>> \in Seq(Event)
    OBVIOUS
  <2>2. QED
    BY <1>2, <2>1, FS_EmptySet DEF AccessInit, ListInv
<1>4. writes \in 0..MaxWrites
  BY AccessAssumption DEF AccessInit
<1>5. QED
  BY <1>1, <1>3, <1>4 DEF AccessListInv

\* The step of the invariant.
LEMMA AccessListInvStep == AccessListInv /\ [AccessNext]_accessVars => AccessListInv'
BY AccessInvStep, ListInvStep, AccessTypeStep DEF AccessListInv

\* The invariant says what each of the two properties needs.
LEMMA AccessListInvImplies == AccessListInv => AccessTypeOK /\ ListingForetellsThePops
<1> SUFFICES ASSUME AccessListInv PROVE AccessTypeOK /\ ListingForetellsThePops
  OBVIOUS
<1>1. IsEventList(eventList) /\ popped \in Seq(Event)
  BY DEF AccessListInv, TypeOK, QueueTypeOK, ListInv, IsEventList
<1>2. ASSUME NEW types
      PROVE  /\ eventsOf(types) \in Seq(Event)
             /\ isQueueDone => eventsOf(types) = <<>>
  BY <1>1, eventsOfIsListOf, ListOfType DEF isQueueDone
<1>3. ASSUME listing # NoListing
      PROVE  /\ listing.types \subseteq EventType
             /\ listing.events \in Seq(Event)
             /\ IsPrefix(popped, listing.events)
             /\ isQueueDone => popped = listing.events
  <2>1. listing.types \subseteq EventType /\ listing.events = popped \o eventsOf(listing.types)
    BY <1>3 DEF AccessListInv, ListInv
  <2>2. QED
    BY <1>1, <1>2, <2>1, ConcatPrefix
<1>4. /\ referred \subseteq EventType
      /\ DOMAIN announced \subseteq EventType
      /\ announced \in [DOMAIN announced -> Count]
  <2>1. DOMAIN progressStatusMap \subseteq EventType
    BY DEF AccessListInv, TypeOK, QueueTypeOK
  <2>2. /\ announced = [type \in DOMAIN progressStatusMap |-> progressStatusMap[type].expected]
        /\ referred \subseteq DOMAIN progressStatusMap
    BY DEF AccessListInv, AccessInv, AnnouncementsAreKept, ReferencesStayValid
  <2>3. \A type \in DOMAIN progressStatusMap : progressStatusMap[type].expected \in Count
    BY DEF AccessListInv, AccessInv, MapOK, ProgressStatus
  <2>4. QED
    BY <2>1, <2>2, <2>3
<1>5. AccessTypeOK
  BY <1>1, <1>3, <1>4 DEF AccessListInv, AccessTypeOK
<1>6. ListingForetellsThePops
  BY <1>3 DEF ListingForetellsThePops
<1>7. QED
  BY <1>5, <1>6

\* The types of the queue and of what its client keeps over the calls.
THEOREM AccessTypeOKHolds == AccessSpec => []AccessTypeOK
BY AccessListInvInit, AccessListInvStep, AccessListInvImplies, PTL DEF AccessSpec

\* A list of EventQueue::list or of the JSON export foretells what popEvent, run
\* and select take out: in its order, nothing else of its types, and all of it.
THEOREM ListingForetellsThePopsHolds == AccessSpec => []ListingForetellsThePops
BY AccessListInvInit, AccessListInvStep, AccessListInvImplies, PTL DEF AccessSpec
-----------------------------------------------------------------------------
(* What a client that writes the statuses itself can still rely on.         *)

\* The steps that EventQueueManager has no call for: between two calls, and with
\* the list and the client's struct left alone.
AsideStep ==
  /\ pc = "idle"
  /\ QuietStep

\* The outcome of a look-up, of a list or of a write is that of no loop.
LEMMA LeavesAside ==
  ASSUME pc = "idle", NEW to \in {"idle", "aborted"}, NEW answer, Leave(to, answer),
         UNCHANGED <<eventList, ioEvent>>
  PROVE  AsideStep
BY DEF Leave, AsideStep, QuietStep

\* Every step of the client is one of the manager's or one aside.
LEMMA ManagerStepOrAside ==
  ASSUME [AccessNext]_accessVars
  PROVE  [Next]_vars \/ AsideStep
<1>1. CASE Pops \/ Refills \/ OtherCalls
  BY <1>1 DEF Pops, Refills, OtherCalls, Next, Call, Progress
<1>2. ASSUME Writes, UNCHANGED eventList
      PROVE  AsideStep
  BY <1>2, LeavesAside DEF Writes, Atomic
<1>3. ASSUME NEW type, NEW n, Announces(type, n) \/ Updates(type, n)
      PROVE  AsideStep
  BY <1>2, <1>3 DEF Announces, Updates, addStatusCast, updateStatus
<1>4. ASSUME NEW type, LooksUp(type)
      PROVE  AsideStep
  <2>1. CASE HasProgressStatus(type)
    BY <2>1, LeavesAside DEF HasProgressStatus, Atomic, queueVars
  <2>2. ASSUME NEW outcome, Refers(type, outcome)
        PROVE  AsideStep
    BY <2>2, LeavesAside DEF Refers, Answers, queueVars
  <2>3. QED
    BY <1>4, <2>1, <2>2 DEF LooksUp, GetStatus, GetExpectedTotal, GetActualTotal,
                            GetCurrentNb, CalculateProgress
<1>5. CASE List \/ JsonHandler
  <2>1. /\ \E answer \in {"void", "threw"} : Atomic(answer)
        /\ UNCHANGED <<queueVars, ioEvent>>
    BY <1>5 DEF List, JsonHandler, JsonExportEventQueue, JsonExports, Lists
  <2>2. QED
    BY <2>1, LeavesAside DEF Atomic, queueVars
<1>6. ASSUME NEW status, WritesOverall(status)
      PROVE  AsideStep
  BY <1>2, <1>6 DEF WritesOverall, setOverallStatus, setNumbers, setCurrentNbOfEvents,
                    setExpectedTotalNbOfEvents
<1>7. ASSUME NEW type, NEW status, WritesType(type, status) \/ MergesType(type, status)
      PROVE  AsideStep
  BY <1>2, <1>7 DEF WritesType, MergesType, mergeStatus
<1>8. CASE UNCHANGED accessVars
  BY <1>8 DEF accessVars
<1>9. QED
  BY <1>1, <1>3, <1>4, <1>5, <1>6, <1>7, <1>8 DEF AccessNext

\* The invariant of the list and the call outlives all that the client writes, since
\* it says nothing of the statuses.
LEMMA AccessOrderStep ==
  AccessListInv /\ OrderInv /\ PlayedTypesKnown /\ [AccessNext]_accessVars =>
    OrderInv' /\ PlayedTypesKnown'
<1> SUFFICES ASSUME AccessListInv, OrderInv, PlayedTypesKnown, [AccessNext]_accessVars
             PROVE  OrderInv' /\ PlayedTypesKnown'
  OBVIOUS
<1>1. TypeOK'
  BY AccessListInvStep DEF AccessListInv
<1>2. CASE [Next]_vars
  <2>1. AnyStep
    BY <1>2, StepClasses, CountedIsAny DEF OrderInv
  <2>2. QED
    BY <1>1, <1>2, <2>1, OrderInvStep, PlayedTypesKnownStep
<1>3. CASE AsideStep
  <2>1. AnyStep
    BY <1>3 DEF AsideStep, AnyStep
  <2>2. pc' \in {"idle", "aborted"}
    BY <1>3 DEF AsideStep, QuietStep, callVars
  <2>3. QED
    BY <1>1, <2>1, <2>2, OrderInvStep DEF PlayedTypesKnown
<1>4. QED
  BY <1>2, <1>3, ManagerStepOrAside

\* What addEvent, run and select promise of a step that ends or goes on with a call.
CallPromises ==
  /\ AddReturnsFromFirstFreeSlot
  /\ RunReturnsAtFirstBreakPoint
  /\ SelectReturnsAtDateTime
  /\ LoopThrowsAtFirstUnknownType

\* Each of its calls keeps its promise, whatever the client wrote before.
LEMMA AccessPromisesStep ==
  OrderInv /\ PlayedTypesKnown /\ [AccessNext]_accessVars =>
    CallPromises /\ [IterationLeavesAnEventBehind]_vars
<1> SUFFICES ASSUME OrderInv, PlayedTypesKnown, [AccessNext]_accessVars
             PROVE  CallPromises /\ [IterationLeavesAnEventBehind]_vars
  OBVIOUS
<1>1. CASE [Next]_vars
  BY <1>1, AddReturnsStep, RunReturnsAtFirstBreakPointStep, SelectReturnsAtDateTimeStep,
     LoopThrowsStep, IterationStep DEF CallPromises
<1>2. CASE AsideStep
  <2>1. pc = "idle" /\ pc \notin Calls
    BY <1>2 DEF AsideStep, Calls
  <2>2. QED
    BY <2>1 DEF CallPromises, AddReturnsFromFirstFreeSlot, RunReturnsAtFirstBreakPoint,
                SelectReturnsAtDateTime, LoopThrowsAtFirstUnknownType,
                IterationLeavesAnEventBehind
<1>3. QED
  BY <1>1, <1>2, ManagerStepOrAside

\* A client that writes the statuses through the reference of getEventQueue can spoil
\* the counters, and nothing else: where events go, in which order they leave, where
\* run and select stop, what an exception loses and that the loops are bounded does
\* not depend on a status, but for the types that have one.  The bound PopsFitCounter
\* holds for this client, too: it adds no event while the current number is so large
\* that the counter could run over.
THEOREM OrderSurvivesTheSetters ==
  AccessSpec => /\ []KeysAreStamps /\ []LoopPlaysAPrefix /\ []AttemptsWithinQueue
                /\ AddTakesFirstFreeSlot /\ RunStopsAtFirstBreakPoint
                /\ SelectReachesDateTime /\ ThrowLosesOnlyOneEvent
                /\ IterationsAreBounded
<1> DEFINE Inv == AccessListInv /\ OrderInv /\ PlayedTypesKnown
<1>1. AccessInit => Inv
  <2>1. Init => OrderInv
    BY IInvInit DEF IInv
  <2>2. Init => PlayedTypesKnown
    BY DEF Init, PlayedTypesKnown
  <2>3. QED
    BY <2>1, <2>2, AccessListInvInit DEF AccessInit
<1>2. Inv /\ [AccessNext]_accessVars => Inv'
  BY AccessListInvStep, AccessOrderStep
<1>3. Inv => KeysAreStamps /\ LoopPlaysAPrefix /\ AttemptsWithinQueue
  BY AttemptsAreInvariant DEF OrderInv
<1>4. Inv /\ [AccessNext]_accessVars =>
        /\ [AddReturnsFromFirstFreeSlot]_vars
        /\ [RunReturnsAtFirstBreakPoint]_vars
        /\ [SelectReturnsAtDateTime]_vars
        /\ [LoopThrowsAtFirstUnknownType]_vars
        /\ [IterationLeavesAnEventBehind]_vars
  BY AccessPromisesStep DEF CallPromises
<1> HIDE DEF Inv
<1>5. QED
  BY <1>1, <1>2, <1>3, <1>4, PTL
     DEF AccessSpec, AddTakesFirstFreeSlot, RunStopsAtFirstBreakPoint,
         SelectReachesDateTime, ThrowLosesOnlyOneEvent, IterationsAreBounded
=============================================================================
