--------------------------- MODULE EventQueueProofs ---------------------------
(***************************************************************************)
(* Proofs of the properties of EventQueueCorrectness, for every set of     *)
(* event types and date-times, every resolution and every counter width.   *)
(***************************************************************************)
EXTENDS EventQueueCorrectness, FiniteSetTheorems, TLAPS

-----------------------------------------------------------------------------
(* Lemmas on the operators of StdAir.                                       *)

\* A date-time has an integer stamp, on both sides of the oldest date-time.
LEMMA TotalMillisecondsInt ==
  ASSUME NEW ticks \in Int
  PROVE  TotalMilliseconds(ticks) \in Int
<1>1. CASE ticks >= 0
  BY <1>1, DateTimeAssumption DEF TotalMilliseconds
<1>2. CASE ~ (ticks >= 0)
  <2>1. -ticks \in Nat
    BY <1>2
  <2>2. (-ticks) \div TicksPerMs \in Int
    BY <2>1, DateTimeAssumption
  <2>3. QED
    BY <1>2, <2>2 DEF TotalMilliseconds
<1>3. QED
  BY <1>1, <1>2

\* A new event is an event, under the stamp of its date-time.
LEMMA NewEventType ==
  ASSUME NEW type \in EventType, NEW time \in DateTime
  PROVE  /\ NewEvent(type, time) \in Event
         /\ NewEvent(type, time).type = type
         /\ NewEvent(type, time).time = time
         /\ NewEvent(type, time).stamp = TotalMilliseconds(time)
<1>1. time \in Int
  BY DateTimeAssumption
<1>2. TotalMilliseconds(time) \in Int
  BY <1>1, TotalMillisecondsInt
<1>3. QED
  BY <1>2 DEF NewEvent, Event

\* Moving the stamp keeps the type and the date-time.
LEMMA IncrementEventTimeStampType ==
  ASSUME NEW event \in Event
  PROVE  /\ IncrementEventTimeStamp(event) \in Event
         /\ IncrementEventTimeStamp(event).type = event.type
         /\ IncrementEventTimeStamp(event).time = event.time
         /\ IncrementEventTimeStamp(event).stamp = event.stamp + 1
BY DEF IncrementEventTimeStamp, Event

\* The unsigned sum and difference of two counts are counts.
LEMMA CountArithmetic ==
  ASSUME NEW a \in Count, NEW b \in Count
  PROVE  /\ Plus(a, b) \in Count
         /\ Minus(a, b) \in Count
         /\ Plus(a, 1) \in Count
BY CountAssumption DEF Count, Plus, Minus

\* The operations on a progress status give a progress status.
LEMMA ProgressStatusType ==
  /\ \A n \in Count : NewProgressStatus(n) \in ProgressStatus
  /\ \A status \in ProgressStatus : /\ Increment(status) \in ProgressStatus
                                    /\ ResetProgressStatus(status) \in ProgressStatus
<1>1. 0 \in Count
  BY CountAssumption DEF Count
<1>2. ASSUME NEW n \in Count
      PROVE  NewProgressStatus(n) \in ProgressStatus
  BY <1>1 DEF NewProgressStatus, ProgressStatus
<1>3. ASSUME NEW status \in ProgressStatus
      PROVE  Increment(status) \in ProgressStatus
  <2>1. Plus(status.current, 1) \in Count
    BY CountArithmetic DEF ProgressStatus
  <2>2. QED
    BY <2>1 DEF Increment, ProgressStatus
<1>4. ASSUME NEW status \in ProgressStatus
      PROVE  ResetProgressStatus(status) \in ProgressStatus
  BY <1>1, CountAssumption DEF ResetProgressStatus, ProgressStatus
<1>5. QED
  BY <1>2, <1>3, <1>4

\* Removing an entry from a map leaves the others.
LEMMA WithoutType ==
  ASSUME NEW V, NEW map, map \in [DOMAIN map -> V], NEW key
  PROVE  /\ DOMAIN Without(map, key) = DOMAIN map \ {key}
         /\ Without(map, key) \in [DOMAIN Without(map, key) -> V]
         /\ \A k \in DOMAIN map \ {key} : Without(map, key)[k] = map[k]
BY DEF Without, Restrict

\* The empty map is a map to anything.
LEMMA EmptyMapType ==
  ASSUME NEW V
  PROVE  /\ DOMAIN EmptyMap = {}
         /\ EmptyMap \in [DOMAIN EmptyMap -> V]
BY DEF EmptyMap

-----------------------------------------------------------------------------
(* Sums over the types.  What is said of a fold over a finite set is proved *)
(* by induction on its subsets, for a set of subsets, not for a predicate.  *)

\* A set of natural numbers has a least element.
LEMMA LeastNumber ==
  ASSUME NEW T \in SUBSET Nat, T # {}
  PROVE  \E n \in T : \A m \in T : n <= m
<1> DEFINE R == OpToRel(<, Nat)
<1>1. IsWellFoundedOn(R, Nat)
  BY NatLessThanWellFounded
<1>2. \A m, n \in Nat : m < n => <<m, n>> \in R
  BY DEF OpToRel
<1> HIDE DEF R
<1>3. PICK n \in T : \A m \in T : ~ (<<m, n>> \in R)
  BY <1>1, WFMin
<1>4. \A m \in T : ~ (m < n)
  BY <1>2, <1>3
<1>5. QED
  BY <1>4

\* Induction on the subsets of a finite set: a collection is all of them if a
\* subset belongs to it as soon as all that lack one of its elements do.
LEMMA SubsetInduction ==
  ASSUME NEW S, IsFiniteSet(S), NEW Good,
         \A s \in SUBSET S : (\A x \in s : s \ {x} \in Good) => s \in Good
  PROVE  \A s \in SUBSET S : s \in Good
<1> DEFINE Bad == (SUBSET S) \ Good
           Sizes == {Cardinality(s) : s \in Bad}
<1>1. ASSUME NEW s \in SUBSET S
      PROVE  /\ IsFiniteSet(s)
             /\ Cardinality(s) \in Nat
             /\ \A x \in s : s \ {x} \in SUBSET S /\ Cardinality(s \ {x}) = Cardinality(s) - 1
  <2>1. IsFiniteSet(s)
    BY FS_Subset
  <2>2. QED
    BY <2>1, FS_CardinalityType, FS_RemoveElement
<1>2. SUFFICES ASSUME Bad # {} PROVE FALSE
  OBVIOUS
<1>3. Sizes \in SUBSET Nat /\ Sizes # {}
  BY <1>1, <1>2
<1>4. PICK n \in Sizes : \A m \in Sizes : n <= m
  BY <1>3, LeastNumber
<1>5. PICK s \in Bad : n = Cardinality(s)
  BY <1>4
<1>6. ASSUME NEW x \in s
      PROVE  s \ {x} \in Good
  <2>1. s \ {x} \in SUBSET S /\ Cardinality(s \ {x}) = Cardinality(s) - 1
    BY <1>1
  <2>2. CASE s \ {x} \in Bad
    <3>1. Cardinality(s) <= Cardinality(s \ {x})
      BY <1>4, <1>5, <2>2
    <3>2. QED
      BY <1>1, <2>1, <3>1
  <2>3. QED
    BY <2>1, <2>2
<1>7. QED
  BY <1>5, <1>6

\* The sum of a field over some of the types of a map, as SumOverTypes folds it.
SumOf(field, map, S) ==
  FoldFunctionOnSet(LAMBDA status, sum : Plus(status[field], sum), 0, map, S)

\* One step of the fold, in terms of the function g that it recurs to.
FoldStep(field, map, g, s) ==
  IF s = {} THEN 0
  ELSE LET x == CHOOSE x \in s : TRUE
       IN  Plus(map[x][field], g[s \ {x}])

IsFold(field, map, g, S) == g = [s \in SUBSET S |-> FoldStep(field, map, g, s)]

\* The fold is well-defined on the subsets of a finite set.
LEMMA FoldExists ==
  ASSUME NEW field, NEW map, NEW S, IsFiniteSet(S)
  PROVE  \E g : IsFold(field, map, g, S)
<1> DEFINE Upto(n) == {s \in SUBSET S : Cardinality(s) <= n}
           Defined(n) == \E g : g = [s \in Upto(n) |-> FoldStep(field, map, g, s)]
           Bad == {n \in Nat : ~ Defined(n)}
<1>1. ASSUME NEW s \in SUBSET S
      PROVE  /\ Cardinality(s) \in Nat
             /\ Cardinality(s) <= Cardinality(S)
             /\ Cardinality(s) = 0 <=> s = {}
             /\ \A x \in s : s \ {x} \in SUBSET S /\ Cardinality(s \ {x}) = Cardinality(s) - 1
  BY FS_Subset, FS_CardinalityType, FS_RemoveElement, FS_EmptySet
<1>2. Defined(0)
  <2> DEFINE g == [s \in Upto(0) |-> 0]
  <2>1. \A s \in Upto(0) : s = {}
    BY <1>1
  <2>2. \A s \in Upto(0) : FoldStep(field, map, g, s) = 0
    BY <2>1 DEF FoldStep
  <2> HIDE DEF FoldStep
  <2>3. g = [s \in Upto(0) |-> FoldStep(field, map, g, s)]
    BY <2>2
  <2>4. QED
    BY <2>3
<1>3. ASSUME NEW n \in Nat, n # 0, Defined(n - 1)
      PROVE  Defined(n)
  <2>1. PICK g : g = [s \in Upto(n - 1) |-> FoldStep(field, map, g, s)]
    BY <1>3
  <2> DEFINE h == [s \in Upto(n) |-> FoldStep(field, map, g, s)]
  <2>2. \A s \in Upto(n - 1) : s \in Upto(n) /\ h[s] = g[s]
    BY <1>1, <2>1
  <2>3. ASSUME NEW s \in Upto(n)
        PROVE  FoldStep(field, map, h, s) = FoldStep(field, map, g, s)
    <3>1. \A x \in s : s \ {x} \in Upto(n - 1)
      BY <1>1
    <3>2. \A x \in s : h[s \ {x}] = g[s \ {x}]
      BY <2>2, <3>1
    <3> DEFINE y == CHOOSE x \in s : TRUE
    <3> HIDE DEF h
    <3>3. CASE s = {}
      BY <3>3 DEF FoldStep
    <3>4. CASE s # {}
      <4>1. y \in s
        BY <3>4
      <4>2. h[s \ {y}] = g[s \ {y}]
        BY <3>2, <4>1
      <4>3. /\ FoldStep(field, map, h, s) = Plus(map[y][field], h[s \ {y}])
            /\ FoldStep(field, map, g, s) = Plus(map[y][field], g[s \ {y}])
        BY <3>4 DEF FoldStep
      <4>4. QED
        BY <4>2, <4>3
    <3>5. QED
      BY <3>3, <3>4
  <2>4. h = [s \in Upto(n) |-> FoldStep(field, map, h, s)]
    BY <2>3
  <2>5. QED
    BY <2>4
<1> HIDE DEF Defined
<1>4. Bad = {}
  <2>1. SUFFICES ASSUME Bad # {} PROVE FALSE
    OBVIOUS
  <2>2. PICK n \in Bad : \A m \in Bad : n <= m
    BY <2>1, LeastNumber
  <2>3. n # 0
    BY <1>2, <2>2
  <2>4. n - 1 \in Nat /\ n - 1 \notin Bad
    BY <2>2, <2>3
  <2>5. QED
    BY <1>3, <2>2, <2>3, <2>4
<1>5. Defined(Cardinality(S)) /\ Upto(Cardinality(S)) = SUBSET S
  BY <1>1, <1>4, FS_CardinalityType
<1>6. QED
  BY <1>5 DEF Defined, IsFold

\* Two folds, over a set and over a part of it, agree on the part.
LEMMA FoldsAgree ==
  ASSUME NEW field, NEW map, NEW S, IsFiniteSet(S), NEW T \in SUBSET S,
         NEW g, IsFold(field, map, g, S),
         NEW h, IsFold(field, map, h, T)
  PROVE  \A s \in SUBSET T : g[s] = h[s]
<1> DEFINE Good == {s \in SUBSET T : g[s] = h[s]}
<1>1. ASSUME NEW s \in SUBSET T, \A x \in s : s \ {x} \in Good
      PROVE  s \in Good
  <2>1. /\ g[s] = FoldStep(field, map, g, s)
        /\ h[s] = FoldStep(field, map, h, s)
    BY DEF IsFold
  <2> DEFINE y == CHOOSE x \in s : TRUE
  <2>2. CASE s = {}
    BY <2>1, <2>2 DEF FoldStep
  <2>3. CASE s # {}
    <3>1. y \in s
      BY <2>3
    <3>2. h[s \ {y}] = g[s \ {y}]
      BY <1>1, <3>1
    <3>3. /\ FoldStep(field, map, h, s) = Plus(map[y][field], h[s \ {y}])
          /\ FoldStep(field, map, g, s) = Plus(map[y][field], g[s \ {y}])
      BY <2>3 DEF FoldStep
    <3>4. QED
      BY <2>1, <3>2, <3>3
  <2>4. QED
    BY <2>2, <2>3
<1>2. IsFiniteSet(T)
  BY FS_Subset
<1> HIDE DEF Good
<1>3. \A s \in SUBSET T : s \in Good
  BY <1>1, <1>2, SubsetInduction
<1>4. QED
  BY <1>3 DEF Good

\* The equation of the sum: it is 0 for no type, and otherwise the field of some
\* type plus the sum over the others.
LEMMA SumEquation ==
  ASSUME NEW field, NEW map, NEW S, IsFiniteSet(S)
  PROVE  /\ S = {} => SumOf(field, map, S) = 0
         /\ S # {} => \E x \in S :
              SumOf(field, map, S) = Plus(map[x][field], SumOf(field, map, S \ {x}))
<1>1. ASSUME NEW T, IsFiniteSet(T)
      PROVE  \E g : IsFold(field, map, g, T) /\ SumOf(field, map, T) = g[T]
  <2>1. \E g : IsFold(field, map, g, T)
    BY <1>1, FoldExists, Zenon
  <2> DEFINE h == CHOOSE g : g = [s \in SUBSET T |-> FoldStep(field, map, g, s)]
  <2>2. SumOf(field, map, T) = h[T]
    BY DEF SumOf, FoldFunctionOnSet, MapThenFoldSet, FoldStep
  <2>3. h = [s \in SUBSET T |-> FoldStep(field, map, h, s)]
    BY <2>1, Zenon DEF IsFold
  <2> HIDE DEF h
  <2>4. QED
    BY <2>2, <2>3 DEF IsFold
<1>2. PICK g : IsFold(field, map, g, S) /\ SumOf(field, map, S) = g[S]
  BY <1>1
<1>3. g[S] = FoldStep(field, map, g, S)
  BY <1>2 DEF IsFold
<1>4. CASE S = {}
  BY <1>2, <1>3, <1>4 DEF FoldStep
<1>5. CASE S # {}
  <2> DEFINE y == CHOOSE x \in S : TRUE
  <2>1. y \in S
    BY <1>5
  <2>2. g[S] = Plus(map[y][field], g[S \ {y}])
    BY <1>3, <1>5 DEF FoldStep
  <2> HIDE DEF y
  <2>3. IsFiniteSet(S \ {y})
    BY FS_RemoveElement
  <2>4. PICK h : IsFold(field, map, h, S \ {y}) /\ SumOf(field, map, S \ {y}) = h[S \ {y}]
    BY <1>1, <2>3
  <2>5. g[S \ {y}] = h[S \ {y}]
    BY <1>2, <2>4, FoldsAgree
  <2>6. QED
    BY <1>2, <1>5, <2>1, <2>2, <2>4, <2>5
<1>6. QED
  BY <1>4, <1>5

CountsIn(field, map, S) == \A x \in S : map[x][field] \in Count

\* Unsigned addition does not mind the order.
LEMMA PlusCommutes ==
  ASSUME NEW a \in Count, NEW b \in Count, NEW c \in Count
  PROVE  /\ Plus(a, Plus(b, c)) = Plus(b, Plus(a, c))
         /\ Plus(Plus(a, b), c) = Plus(Plus(a, c), b)
BY CountAssumption DEF Plus, Count

\* A sum of counts is a count.
LEMMA SumType ==
  ASSUME NEW field, NEW map, NEW S, IsFiniteSet(S), CountsIn(field, map, S)
  PROVE  SumOf(field, map, S) \in Count
<1> DEFINE Good == {s \in SUBSET S : SumOf(field, map, s) \in Count}
<1>1. ASSUME NEW s \in SUBSET S, \A x \in s : s \ {x} \in Good
      PROVE  s \in Good
  <2>1. IsFiniteSet(s)
    BY FS_Subset
  <2>2. CASE s = {}
    BY <2>1, <2>2, SumEquation, CountAssumption DEF Count
  <2>3. CASE s # {}
    <3>1. PICK x \in s :
            SumOf(field, map, s) = Plus(map[x][field], SumOf(field, map, s \ {x}))
      BY <2>1, <2>3, SumEquation
    <3>2. map[x][field] \in Count /\ SumOf(field, map, s \ {x}) \in Count
      BY <1>1 DEF CountsIn
    <3>3. QED
      BY <3>1, <3>2, CountArithmetic
  <2>4. QED
    BY <2>2, <2>3
<1> HIDE DEF Good
<1>2. \A s \in SUBSET S : s \in Good
  BY <1>1, SubsetInduction
<1>3. QED
  BY <1>2 DEF Good

\* Any type can be taken out of the sum first.
LEMMA SumTakesOut ==
  ASSUME NEW field, NEW map, NEW S, IsFiniteSet(S), CountsIn(field, map, S), NEW z \in S
  PROVE  SumOf(field, map, S) = Plus(map[z][field], SumOf(field, map, S \ {z}))
<1> DEFINE Sum(s) == SumOf(field, map, s)
           TakesOut(s) == \A x \in s : Sum(s) = Plus(map[x][field], Sum(s \ {x}))
           Good == {s \in SUBSET S : TakesOut(s)}
<1>1. ASSUME NEW s \in SUBSET S, \A x \in s : s \ {x} \in Good
      PROVE  s \in Good
  <2>1. \A t \in SUBSET S : IsFiniteSet(t) /\ CountsIn(field, map, t) /\ Sum(t) \in Count
    BY FS_Subset, SumType DEF CountsIn
  <2>2. SUFFICES ASSUME NEW x \in s
                 PROVE  Sum(s) = Plus(map[x][field], Sum(s \ {x}))
    OBVIOUS
  <2>3. PICK y \in s : Sum(s) = Plus(map[y][field], Sum(s \ {y}))
    BY <2>1, <2>2, SumEquation
  <2>4. CASE x = y
    BY <2>3, <2>4
  <2>5. CASE x # y
    <3> DEFINE rest == Sum((s \ {x}) \ {y})
    <3>1. /\ x \in s \ {y} /\ y \in s \ {x}
          /\ (s \ {y}) \ {x} = (s \ {x}) \ {y}
      BY <2>5
    <3>2. /\ Sum(s \ {y}) = Plus(map[x][field], Sum((s \ {y}) \ {x}))
          /\ Sum(s \ {x}) = Plus(map[y][field], rest)
      BY <1>1, <3>1
    <3>3. /\ map[x][field] \in Count /\ map[y][field] \in Count
          /\ rest \in Count
      BY <2>1 DEF CountsIn
    <3> HIDE DEF Sum, rest
    <3>4. Plus(map[y][field], Plus(map[x][field], rest)) =
            Plus(map[x][field], Plus(map[y][field], rest))
      BY <3>3, PlusCommutes
    <3>5. Sum(s \ {y}) = Plus(map[x][field], rest)
      BY <3>1, <3>2 DEF rest
    <3>6. QED
      BY <2>3, <3>2, <3>4, <3>5
  <2>6. QED
    BY <2>4, <2>5
<1> HIDE DEF Good
<1>2. S \in Good
  BY <1>1, SubsetInduction
<1>3. QED
  BY <1>2 DEF Good

\* The sum depends on the fields that it sums only.
LEMMA SumOfSame ==
  ASSUME NEW field, NEW map, NEW other, NEW S, IsFiniteSet(S), CountsIn(field, map, S),
         \A x \in S : other[x][field] = map[x][field]
  PROVE  SumOf(field, other, S) = SumOf(field, map, S)
<1> DEFINE Good == {s \in SUBSET S : SumOf(field, other, s) = SumOf(field, map, s)}
<1>1. ASSUME NEW s \in SUBSET S, \A x \in s : s \ {x} \in Good
      PROVE  s \in Good
  <2>1. IsFiniteSet(s)
    BY FS_Subset
  <2>2. CASE s = {}
    BY <2>1, <2>2, SumEquation
  <2>3. CASE s # {}
    <3>1. PICK x \in s :
            SumOf(field, map, s) = Plus(map[x][field], SumOf(field, map, s \ {x}))
      BY <2>1, <2>3, SumEquation
    <3>2. CountsIn(field, other, s)
      BY DEF CountsIn
    <3>3. SumOf(field, other, s) = Plus(other[x][field], SumOf(field, other, s \ {x}))
      BY <2>1, <3>2, SumTakesOut
    <3>4. QED
      BY <1>1, <3>1, <3>3
  <2>4. QED
    BY <2>2, <2>3
<1> HIDE DEF Good
<1>2. \A s \in SUBSET S : s \in Good
  BY <1>1, SubsetInduction
<1>3. QED
  BY <1>2 DEF Good

\* A sum of zeros is zero.
LEMMA SumOfZeros ==
  ASSUME NEW field, NEW map, NEW S, IsFiniteSet(S), \A x \in S : map[x][field] = 0
  PROVE  SumOf(field, map, S) = 0
<1> DEFINE Good == {s \in SUBSET S : SumOf(field, map, s) = 0}
<1>1. ASSUME NEW s \in SUBSET S, \A x \in s : s \ {x} \in Good
      PROVE  s \in Good
  <2>1. IsFiniteSet(s)
    BY FS_Subset
  <2>2. CASE s = {}
    BY <2>1, <2>2, SumEquation
  <2>3. CASE s # {}
    <3>1. PICK x \in s :
            SumOf(field, map, s) = Plus(map[x][field], SumOf(field, map, s \ {x}))
      BY <2>1, <2>3, SumEquation
    <3>2. Plus(0, 0) = 0
      BY CountAssumption DEF Plus
    <3>3. QED
      BY <1>1, <3>1, <3>2
  <2>4. QED
    BY <2>2, <2>3
<1> HIDE DEF Good
<1>2. \A s \in SUBSET S : s \in Good
  BY <1>1, SubsetInduction
<1>3. QED
  BY <1>2 DEF Good

\* After the field of one type has been written, the sum is that field plus the
\* sum over the other types.
LEMMA SumAfterWrite ==
  ASSUME NEW field, NEW map, NEW other, NEW S, NEW z \in S, IsFiniteSet(S),
         CountsIn(field, map, S \ {z}), other[z][field] \in Count,
         \A x \in S \ {z} : other[x][field] = map[x][field]
  PROVE  /\ SumOf(field, other, S) = Plus(other[z][field], SumOf(field, map, S \ {z}))
         /\ SumOf(field, map, S \ {z}) \in Count
<1>1. IsFiniteSet(S \ {z})
  BY FS_RemoveElement
<1>2. CountsIn(field, other, S)
  BY DEF CountsIn
<1>3. SumOf(field, other, S) = Plus(other[z][field], SumOf(field, other, S \ {z}))
  BY <1>2, SumTakesOut
<1>4. SumOf(field, other, S \ {z}) = SumOf(field, map, S \ {z})
  BY <1>1, SumOfSame
<1>5. QED
  BY <1>1, <1>3, <1>4, SumType

\* When the field of one type is counted up, the sum grows by one at most.
LEMMA SumCountedUp ==
  ASSUME NEW field, NEW map, NEW other, NEW S, NEW z \in S, IsFiniteSet(S),
         CountsIn(field, map, S), other[z][field] = Plus(map[z][field], 1),
         \A x \in S \ {z} : other[x][field] = map[x][field]
  PROVE  SumOf(field, other, S) <= SumOf(field, map, S) + 1
<1>1. /\ IsFiniteSet(S \ {z})
      /\ CountsIn(field, map, S \ {z})
      /\ map[z][field] \in Count
  BY FS_RemoveElement DEF CountsIn
<1>2. CountsIn(field, other, S)
  <2>1. other[z][field] \in Count
    BY <1>1, CountArithmetic
  <2>2. QED
    BY <2>1 DEF CountsIn
<1>3. SumOf(field, other, S) = Plus(other[z][field], SumOf(field, other, S \ {z}))
  BY <1>2, SumTakesOut
<1>4. SumOf(field, other, S \ {z}) = SumOf(field, map, S \ {z})
  BY <1>1, SumOfSame
<1>5. SumOf(field, map, S) = Plus(map[z][field], SumOf(field, map, S \ {z}))
  BY SumTakesOut
<1>6. SumOf(field, map, S \ {z}) \in Count
  BY <1>1, SumType
<1>7. ASSUME NEW v \in Count, NEW rest \in Count
      PROVE  Plus(Plus(v, 1), rest) <= Plus(v, rest) + 1
  BY CountAssumption DEF Plus, Count
<1>8. QED
  BY <1>1, <1>3, <1>4, <1>5, <1>6, <1>7

-----------------------------------------------------------------------------
(* Type correctness: first the methods of the queue, then the calls.        *)

\* std::map::insert of an event (EventQueue::addEvent) keeps the members' types.
LEMMA insertTypeOK ==
  ASSUME QueueTypeOK, NEW event \in Event, insert(event)
  PROVE  QueueTypeOK'
<1>1. eventList' = With(eventList, event.stamp, event)
  BY DEF insert
<1>2. event.stamp \in Int
  BY DEF Event
<1>3. eventList \in [DOMAIN eventList -> Event]
  BY DEF QueueTypeOK
<1>4. /\ DOMAIN eventList' = DOMAIN eventList \cup {event.stamp}
      /\ eventList' \in [DOMAIN eventList' -> Event]
  <2> DEFINE new == With(eventList, event.stamp, event)
  <2>1. /\ DOMAIN new = DOMAIN eventList \cup {event.stamp}
        /\ new \in [DOMAIN new -> Event]
    BY <1>3 DEF With
  <2>2. QED
    BY <1>1, <2>1
<1>5. QED
  BY <1>2, <1>4 DEF QueueTypeOK, insert

\* popEvent hands an event over and leaves a queue, exception or not.
LEMMA popEventTypeOK ==
  ASSUME QueueTypeOK, NEW key \in DOMAIN eventList, popEvent(key)
  PROVE  /\ QueueTypeOK'
         /\ eventList[key] \in Event
         /\ eventList[key].type \in EventType
         /\ eventList[key].time \in DateTime
<1> DEFINE type == eventList[key].type
<1>1. eventList[key] \in Event
  BY DEF QueueTypeOK
<1>2. type \in EventType /\ eventList[key].time \in DateTime
  BY <1>1 DEF Event
<1>3. /\ DOMAIN eventList' \subseteq Int
      /\ eventList' \in [DOMAIN eventList' -> Event]
  <2> DEFINE list == Without(eventList, key)
  <2>1. eventList \in [DOMAIN eventList -> Event] /\ DOMAIN eventList \subseteq Int
    BY DEF QueueTypeOK
  <2>2. DOMAIN list = DOMAIN eventList \ {key} /\ list \in [DOMAIN list -> Event]
    BY <2>1, WithoutType
  <2>3. eventList' = list
    BY DEF popEvent
  <2> HIDE DEF list
  <2>4. QED
    BY <2>1, <2>2, <2>3
<1>4. progressStatus' \in ProgressStatus
  BY ProgressStatusType DEF QueueTypeOK, popEvent
<1>5. /\ DOMAIN progressStatusMap' \subseteq EventType
      /\ progressStatusMap' \in [DOMAIN progressStatusMap' -> ProgressStatus]
  <2>1. CASE hasProgressStatus(type)
    <3>1. progressStatusMap' =
            [progressStatusMap EXCEPT ![type] = Increment(progressStatusMap[type])]
      BY <2>1 DEF popEvent, setStatus
    <3>2. Increment(progressStatusMap[type]) \in ProgressStatus
      BY <2>1, ProgressStatusType DEF QueueTypeOK, hasProgressStatus
    <3>3. QED
      BY <3>1, <3>2 DEF QueueTypeOK
  <2>2. CASE ~ hasProgressStatus(type)
    BY <2>2 DEF popEvent, QueueTypeOK
  <2>3. QED
    BY <2>1, <2>2
<1>6. QED
  BY <1>1, <1>2, <1>3, <1>4, <1>5 DEF QueueTypeOK

\* EventQueue::reset keeps the members' types, for both meanings of
\* ProgressStatus::reset.
LEMMA resetTypeOK ==
  ASSUME QueueTypeOK, reset
  PROVE  QueueTypeOK'
<1>1. /\ DOMAIN eventList' \subseteq Int
      /\ eventList' \in [DOMAIN eventList' -> Event]
  BY EmptyMapType DEF reset
<1>2. progressStatus' \in ProgressStatus
  BY ProgressStatusType DEF QueueTypeOK, reset
<1>3. /\ DOMAIN progressStatusMap' \subseteq EventType
      /\ progressStatusMap' \in [DOMAIN progressStatusMap' -> ProgressStatus]
  BY ProgressStatusType DEF QueueTypeOK, reset
<1>4. QED
  BY <1>1, <1>2, <1>3 DEF QueueTypeOK

\* The double sum of addStatus fits, so the cast gives a count.
LEMMA addStatusTypeOK ==
  ASSUME QueueTypeOK, NEW type \in EventType, NEW n \in Count,
         addStatusIsDefined(n), addStatus(type, n)
  PROVE  QueueTypeOK'
<1>1. progressStatus' \in ProgressStatus
  <2>1. progressStatus \in ProgressStatus
    BY DEF QueueTypeOK
  <2>2. /\ progressStatus.expected + n \in Count
        /\ progressStatus.actual + n \in Count
    BY <2>1, CountAssumption DEF addStatusIsDefined, ProgressStatus, Count
  <2>3. QED
    BY <2>1, <2>2 DEF addStatus, ProgressStatus
<1>2. mergedStatus(type, NewProgressStatus(n)) \in ProgressStatus
  <2>1. NewProgressStatus(n) \in ProgressStatus
    BY ProgressStatusType
  <2>2. CASE ~ hasProgressStatus(type)
    BY <2>1, <2>2 DEF mergedStatus
  <2>3. CASE hasProgressStatus(type)
    <3>1. progressStatusMap[type] \in ProgressStatus
      BY <2>3 DEF QueueTypeOK, hasProgressStatus
    <3> DEFINE old == progressStatusMap[type]
               new == NewProgressStatus(n)
    <3>2. /\ new.current \in Count
          /\ Plus(old.expected, new.expected) \in Count
          /\ Plus(old.actual, new.actual) \in Count
      BY <2>1, <3>1, CountArithmetic DEF ProgressStatus
    <3>3. QED
      BY <2>3, <3>2 DEF mergedStatus, ProgressStatus
  <2>4. QED
    BY <2>2, <2>3
<1>3. /\ DOMAIN progressStatusMap' \subseteq EventType
      /\ progressStatusMap' \in [DOMAIN progressStatusMap' -> ProgressStatus]
  <2> DEFINE new == mergedStatus(type, NewProgressStatus(n))
             map == With(progressStatusMap, type, new)
  <2>1. progressStatusMap' = With(progressStatusMap, type, new)
    BY DEF addStatus
  <2>2. progressStatusMap \in [DOMAIN progressStatusMap -> ProgressStatus]
    BY DEF QueueTypeOK
  <2>3. new \in ProgressStatus
    BY <1>2
  <2> HIDE DEF new
  <2>4. /\ DOMAIN map = DOMAIN progressStatusMap \cup {type}
        /\ map \in [DOMAIN map -> ProgressStatus]
    BY <2>2, <2>3 DEF With
  <2>5. QED
    BY <2>1, <2>4 DEF QueueTypeOK
<1>4. QED
  BY <1>1, <1>3 DEF QueueTypeOK, addStatus

\* The difference of updateStatus may wrap and still gives a count.
LEMMA updateStatusTypeOK ==
  ASSUME QueueTypeOK, NEW type \in EventType, NEW n \in Count,
         updateStatus(type, n)
  PROVE  QueueTypeOK'
<1>1. CASE hasProgressStatus(type)
  <2> DEFINE old == progressStatusMap[type]
             delta == Minus(n, old.actual)
             new == [old EXCEPT !.actual = n]
  <2>1. old \in ProgressStatus
    BY <1>1 DEF QueueTypeOK, hasProgressStatus
  <2>2. new \in ProgressStatus
    BY <2>1 DEF ProgressStatus
  <2>3. delta \in Count
    BY <2>1, CountArithmetic DEF ProgressStatus
  <2>4. Plus(progressStatus.actual, delta) \in Count
    BY <2>3, CountArithmetic DEF QueueTypeOK, ProgressStatus
  <2>5. progressStatus' = [progressStatus EXCEPT !.actual = Plus(@, delta)]
    BY <1>1 DEF updateStatus
  <2>6. progressStatus' \in ProgressStatus
    BY <2>4, <2>5 DEF QueueTypeOK, ProgressStatus
  <2>7. progressStatusMap' = [progressStatusMap EXCEPT ![type] = new]
    BY <1>1 DEF updateStatus, setStatus
  <2>8. QED
    BY <2>2, <2>6, <2>7 DEF QueueTypeOK, updateStatus
<1>2. CASE ~ hasProgressStatus(type)
  BY <1>2 DEF updateStatus, QueueTypeOK
<1>3. QED
  BY <1>1, <1>2

\* A call that returns puts its locals back to values of their types.
LEMMA LeaveTypeOK ==
  ASSUME NEW to \in {"idle", "aborted"}, NEW answer \in Replies, Leave(to, answer)
  PROVE  /\ pc' \in {"idle", "aborted"}
         /\ pc' # "addEvent"
         /\ reply' \in Replies
         /\ lEventType' \in EventType
         /\ lDateTime' \in DateTime
         /\ iDateTime' \in DateTime
BY EventTypeAssumption, DateTimeAssumption DEF Leave

\* A new queue, with no call made, has the types.
LEMMA TypeCorrectInit == Init => TypeOK
<1> SUFFICES ASSUME Init PROVE TypeOK
  OBVIOUS
<1>1. QueueTypeOK
  <2>1. 0 \in Count
    BY CountAssumption DEF Count
  <2>2. progressStatus \in ProgressStatus
    BY <2>1, ProgressStatusType DEF Init, QueueInit
  <2>3. QED
    BY <2>2, EmptyMapType DEF Init, QueueInit, QueueTypeOK
<1>2. QED
  BY <1>1, EventTypeAssumption, DateTimeAssumption
     DEF Init, TypeOK, Struct, Calls, Replies

\* Every call, and every iteration of a call, keeps the types.
LEMMA TypeCorrectStep == TypeOK /\ [Next]_vars => TypeOK'
<1> USE DEF Struct, Calls, Replies
<1> SUFFICES ASSUME TypeOK, [Next]_vars PROVE TypeOK'
  OBVIOUS
<1> USE DEF TypeOK
<1>1. ASSUME NEW event \in Event, AddEvent(event)
      PROVE  TypeOK'
  BY <1>1 DEF AddEvent, Enter, queueVars, QueueTypeOK
<1>2. CASE AddNewEvent
  BY <1>1, <1>2, NewEventType DEF AddNewEvent
<1>3. CASE AddHeldEvent
  BY <1>1, <1>3 DEF AddHeldEvent
<1>4. CASE InsertSucceeds
  BY <1>4, insertTypeOK, LeaveTypeOK DEF InsertSucceeds
<1>5. CASE InsertFails
  BY <1>5, IncrementEventTimeStampType
     DEF InsertFails, queueVars, callVars, QueueTypeOK
<1>6. CASE PopEvent
  <2>1. CASE isQueueDone /\ Atomic("caught") /\ UNCHANGED <<queueVars, ioEvent>>
    BY <2>1, LeaveTypeOK DEF Atomic, queueVars, QueueTypeOK
  <2>2. ASSUME NEW key \in DOMAIN eventList, popEvent(key),
               ioEvent' = eventList[key],
               Atomic(IF popEventThrows(key) THEN "caught" ELSE "status")
        PROVE  TypeOK'
    BY <2>2, popEventTypeOK, LeaveTypeOK DEF Atomic
  <2>3. QED
    BY <1>6, <2>1, <2>2 DEF PopEvent
<1>7. CASE Run
  BY <1>7 DEF Run, Enter, queueVars, QueueTypeOK
<1>8. CASE RunPops
  <2>1. PICK key \in DOMAIN eventList :
          /\ popEvent(key)
          /\ ioEvent' = eventList[key]
          /\ IF popEventThrows(key)
               THEN Leave("idle", "threw")
               ELSE /\ lEventType' = eventList[key].type
                    /\ UNCHANGED <<pc, reply, lDateTime, iDateTime, atCall>>
    BY <1>8 DEF RunPops
  <2>2. /\ QueueTypeOK'
        /\ ioEvent' \in Event
        /\ eventList[key].type \in EventType
    BY <2>1, popEventTypeOK
  <2>3. QED
    BY <2>1, <2>2, LeaveTypeOK
<1>9. CASE RunReturns
  BY <1>9, LeaveTypeOK DEF RunReturns, queueVars, QueueTypeOK
<1>10. ASSUME NEW dateTime \in DateTime, Select(dateTime)
       PROVE  TypeOK'
  <2>1. CASE Atomic("false") /\ UNCHANGED <<queueVars, ioEvent>>
    BY <2>1, LeaveTypeOK DEF Atomic, queueVars, QueueTypeOK
  <2>2. CASE /\ Enter("select", ioEvent)
             /\ iDateTime' = dateTime
             /\ UNCHANGED <<queueVars, ioEvent, lEventType, lDateTime>>
    BY <2>2 DEF Enter, queueVars, QueueTypeOK
  <2>3. QED
    BY <1>10, <2>1, <2>2 DEF Select
<1>11. CASE SelectPops
  <2>1. PICK key \in DOMAIN eventList :
          /\ popEvent(key)
          /\ ioEvent' = eventList[key]
          /\ IF popEventThrows(key)
               THEN Leave("idle", "threw")
               ELSE /\ lDateTime' = eventList[key].time
                    /\ UNCHANGED <<pc, reply, lEventType, iDateTime, atCall>>
    BY <1>11 DEF SelectPops
  <2>2. /\ QueueTypeOK'
        /\ ioEvent' \in Event
        /\ eventList[key].time \in DateTime
    BY <2>1, popEventTypeOK
  <2>3. QED
    BY <2>1, <2>2, LeaveTypeOK
<1>12. CASE SelectReturns
  BY <1>12, LeaveTypeOK DEF SelectReturns, queueVars, QueueTypeOK
<1>13. CASE Reset
  BY <1>13, resetTypeOK, LeaveTypeOK DEF Reset, Atomic
<1>14. ASSUME NEW type \in EventType, NEW n \in ClientCounts, AddStatus(type, n)
       PROVE  TypeOK'
  <2>1. n \in Count
    BY ClientAssumption
  <2>2. QED
    BY <1>14, <2>1, addStatusTypeOK, LeaveTypeOK DEF AddStatus, Atomic
<1>15. ASSUME NEW type \in EventType, NEW n \in ClientCounts, UpdateStatus(type, n)
       PROVE  TypeOK'
  <2>1. n \in Count
    BY ClientAssumption
  <2>2. QED
    BY <1>15, <2>1, updateStatusTypeOK, LeaveTypeOK DEF UpdateStatus, Atomic
<1>16. CASE Aborted \/ UNCHANGED vars
  BY <1>16 DEF Aborted, vars, queueVars, callVars, QueueTypeOK
<1>17. QED
  BY <1>2, <1>3, <1>4, <1>5, <1>6, <1>7, <1>8, <1>9, <1>10, <1>11, <1>12,
     <1>13, <1>14, <1>15, <1>16 DEF Next, Call, Progress

\* Type correctness of EventQueueManager.
THEOREM TypeCorrect == Spec => []TypeOK
BY TypeCorrectInit, TypeCorrectStep, PTL DEF Spec
=============================================================================
