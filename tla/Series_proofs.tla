----------------------------- MODULE Series_proofs -----------------------------
(***************************************************************************)
(* What a Q answers is made of what was asked: proofs for module Series,   *)
(* for any data, places and calls, one after another.                      *)
(*                                                                         *)
(* A call leaves the cursor where its last reading was, and the next one,  *)
(* or its own next element, goes on from there.  The inductive invariant   *)
(* says where the level of the cursor is at each step, and that everything *)
(* read so far for an element was read for it.                             *)
(***************************************************************************)
EXTENDS Series, SequenceTheorems, TLAPS

-------------------------------------------------------------------------------
(* One answer at a time.                                                   *)
AsAsked(a) ==
  \A s \in DOMAIN a.of :
    LET r == a.of[s]
    IN  IF request.par \in Independent
        THEN request.par = "Level" => r.level = LevelExpected(a.nth)
        ELSE r # Missing => /\ r.param = s
                            /\ r.level = LevelExpected(a.nth) \/ TurnedAtLevel
                            /\ r.time \in TimesExpected(a.time)
                            /\ r.place \in PointsExpected(a.place)

Excused(a) ==
  ~Special /\ Available(a) => request.par \in Wind /\ data.relative /\ AngleAt[a.place] = "none"

Good(a) == /\ a.as = "value" => AsAsked(a)
           /\ a.as = "nothing" => Excused(a)

LEMMA GoodAnswers == (\A a \in answers : Good(a)) <=> MadeAsAsked /\ AnsweredWhenAvailable
BY DEF Good, AsAsked, Excused, MadeAsAsked, AnsweredWhenAvailable

-------------------------------------------------------------------------------
(* The fields that the steps of a call go by.                              *)
StateType ==
  /\ data \in Dataset
  /\ DOMAIN step = {"pc", "k", "todo", "got", "calls"}
  /\ DOMAIN cursor = {"param", "level", "time"}
  /\ step.pc \in {"idle", "next", "reading"}
  /\ step.pc # "idle" => request \in Request /\ step.k \in 1 .. Outer * Inner

(* The level of the cursor is where the user left it, but for a sample,    *)
(* which has its own.                                                      *)
LevelKept ==
  /\ step.pc = "idle" \/ ~IsSample \/ ~CanSample => cursor.level = selected
  /\ step.pc = "reading" => cursor.level = LevelHere

(* What has been read for the element under way, and what is to be read.   *)
ReadSoFar ==
  /\ step.pc = "next" => step.got = << >>
  /\ step.pc = "reading" =>
       /\ IsComputed /\ request.do # "matrix" /\ (IsSample => CanSample) /\ ~SnowInData
       /\ request.par \in Formula => request.by # "level"
       /\ step.todo \in Seq(Range(Inputs(request.par)))
       /\ \A s \in DOMAIN step.got : /\ s \in Range(Inputs(request.par))
                                     /\ step.got[s] = ReadDirect(Found(s))

Inv ==
  /\ StateType /\ LevelKept /\ ReadSoFar
  /\ \A a \in answers : Good(a)

-------------------------------------------------------------------------------
(* Numbers of elements, and dates.                                         *)
LEMMA DivisionInRange ==
  ASSUME NEW n \in Nat \ {0}, NEW m \in Nat \ {0}, NEW k \in 1 .. m * n
  PROVE  /\ (k - 1) \div n + 1 \in 1 .. m
         /\ ((k - 1) % n) + 1 \in 1 .. n
<1> DEFINE q == (k - 1) \div n
<1>1. m * n \in Nat
  OBVIOUS
<1>2. k - 1 \in Nat /\ q \in Nat /\ (k - 1) % n \in 0 .. n - 1
  BY <1>1
<1>3. k - 1 = n * q + ((k - 1) % n)
  BY <1>1
<1>4. n * q <= k - 1
  BY <1>2, <1>3
<1> HIDE DEF q
<1>5. n * q < m * n
  BY <1>1, <1>2, <1>4
<1>6. ASSUME m <= q PROVE FALSE
  <2>1. n * m <= n * q
    BY <1>2, <1>6
  <2>2. QED
    BY <1>2, <1>5, <2>1
<1>7. QED
  BY <1>2, <1>6 DEF q

LEMMA DecimalDates ==
  ASSUME NEW y \in Nat, NEW d \in 0 .. 9
  PROVE  Year(10 * y + d) = y /\ Day(10 * y + d) = d
BY DEF Year, Day

(* The element under way has a place and a time.                           *)
LEMMA ElementFacts ==
  ASSUME StateType, step.pc # "idle"
  PROVE  PlaceOf(step.k) \in Place /\ TimeOf(step.k) \in Nat
<1>1. /\ request \in Request /\ IsRequest(request) /\ data \in Dataset /\ IsData(data)
      /\ step.k \in 1 .. Outer * Inner
  BY DataAssumption DEF StateType
<1>2. /\ request.places \in Seq(Place) /\ Len(request.places) \in Nat \ {0}
      /\ request.times \in Seq(Nat) /\ Len(request.times) \in Nat \ {0}
  BY <1>1 DEF IsRequest
<1>3. Len(data.levels) \in Nat \ {0}
  BY <1>1 DEF IsData
<1>4. Outer \in Nat \ {0} /\ Inner \in Nat \ {0}
  BY <1>2, <1>3 DEF Outer, Inner
<1>5. OuterOf(step.k) \in 1 .. Outer /\ InnerOf(step.k) \in 1 .. Inner
  BY <1>1, <1>4, DivisionInRange DEF OuterOf, InnerOf
<1>6. CASE IsSample
  BY <1>2, <1>5, <1>6 DEF PlaceOf, TimeOf, Inner
<1>7. CASE ~IsSample
  BY <1>2, <1>5, <1>7 DEF PlaceOf, TimeOf, Inner, Outer
<1>8. QED
  BY <1>6, <1>7

(* The date in the data is one at which the value may be read.             *)
LEMMA DateExpected ==
  ASSUME data \in Dataset, NEW t \in Nat
  PROVE  /\ ~IsComputed /\ request.do # "matrix" /\ request.by = "cursor" =>
              DateInData(t) \in TimesExpected(t)
         /\ ~data.climatology \/ IsComputed \/ request.do = "matrix" \/ request.by # "cursor" =>
              TimesExpected(t) = {t}
<1>1. ASSUME data.climatology
      PROVE  DateInData(t) \in
               LET year == Year(Min(Range(data.origin)))
                   same == 10 * year + Day(t)
                   before == IF Day(t) = 2 /\ (~Exists(same) \/ year % 400 = 0)
                             THEN {10 * year + 1} ELSE {}
               IN  {u \in {same} \cup before : Exists(u)}
  <2> DEFINE year == Year(Min(Range(data.origin)))
             same == 10 * year + Day(t)
             u == 10 * year + (IF Day(t) = 2 /\ ~IsLeapYear(year) THEN 1 ELSE Day(t))
  <2>1. Min(Range(data.origin)) \in Nat
    <3>1. PICK o \in Range(data.origin) : Range(data.origin) = {o} /\ o \in Nat
      BY <1>1, DataAssumption DEF IsData
    <3>2. Min({o}) = o
      BY <3>1 DEF Min
    <3>3. QED
      BY <3>1, <3>2
  <2>2. year \in Nat /\ Day(t) \in 0 .. 9
    BY <2>1 DEF Year, Day
  <2>3. DateInData(t) = u
    BY <1>1 DEF DateInData
  <2> HIDE DEF year
  <2>4. CASE Day(t) = 2 /\ ~IsLeapYear(year)
    <3>1. Year(u) = year /\ Day(u) = 1 /\ u = 10 * year + 1
      BY <2>2, <2>4, DecimalDates
    <3>2. Exists(u)
      BY <3>1 DEF Exists
    <3>3. Year(same) = year /\ Day(same) = 2
      BY <2>2, <2>4, DecimalDates
    <3>4. ~Exists(same) \/ year % 400 = 0
      BY <2>4, <3>3 DEF Exists, IsLeapYear
    <3>5. QED
      BY <2>3, <2>4, <3>1, <3>2, <3>4 DEF year
  <2>5. CASE ~(Day(t) = 2 /\ ~IsLeapYear(year))
    <3>1. Year(u) = year /\ Day(u) = Day(t) /\ u = same
      BY <2>2, <2>5, DecimalDates
    <3>2. Exists(u)
      BY <2>5, <3>1 DEF Exists, IsLeapYear
    <3>3. QED
      BY <2>3, <3>1, <3>2 DEF year
  <2>6. QED
    BY <2>4, <2>5
<1>2. CASE data.climatology
  BY <1>1, <1>2 DEF TimesExpected
<1>3. CASE ~data.climatology
  BY <1>3 DEF TimesExpected, DateInData
<1>4. QED
  BY <1>2, <1>3

-------------------------------------------------------------------------------
(* Readings.                                                               *)
LEMMA ReadingFacts ==
  ASSUME data \in Dataset, NEW p, NEW l, NEW t, NEW x, NEW gap
  PROVE  LET r == Reading(p, l, t, x, gap)
         IN  /\ r # Missing => /\ r.param = p /\ r.level = l /\ r.time = t /\ r.place = x
                               /\ p \in DOMAIN data.at
             /\ /\ p \in DOMAIN data.at /\ x \in data.at[p]
                /\ Surrounds(Range(data.levels), l) /\ Covers(DOMAIN data.origin, t, gap)
                => r # Missing
<1>1. NoParam \notin DOMAIN data.at
  BY DataAssumption DEF IsData
<1>2. QED
  BY <1>1 DEF Reading, Missing

LEMMA FoundFacts ==
  ASSUME data \in Dataset, NEW p
  PROVE  /\ p \in DOMAIN data.at => Found(p) = p
         /\ Found(p) \in DOMAIN data.at => Found(p) = p
BY DataAssumption DEF IsData, Found

LEMMA ReadNearestFacts ==
  ASSUME data \in Dataset, NEW p, NEW l, NEW t, NEW x
  PROVE  LET r == ReadNearest(Found(p), l, t, x)
         IN  /\ r # Missing => /\ r.param = p /\ r.level = l /\ r.time = t
                               /\ \/ r.place = x
                                  \/ request.nearest /\ r.place = NearestOf[x] /\ r.place # Nowhere
             /\ /\ p \in DOMAIN data.at /\ x \in data.at[p]
                /\ Surrounds(Range(data.levels), l) /\ Covers(DOMAIN data.origin, t, MaxGap)
                => r # Missing
<1> DEFINE here == Reading(Found(p), l, t, x, MaxGap)
           there == Reading(Found(p), l, t, NearestOf[x], MaxGap)
<1>1. /\ here # Missing => here.param = p /\ here.level = l /\ here.time = t /\ here.place = x
      /\ there # Missing => /\ there.param = p /\ there.level = l /\ there.time = t
                            /\ there.place = NearestOf[x]
      /\ /\ p \in DOMAIN data.at /\ x \in data.at[p]
         /\ Surrounds(Range(data.levels), l) /\ Covers(DOMAIN data.origin, t, MaxGap)
         => here # Missing
  BY ReadingFacts, FoundFacts
<1>2. ReadNearest(Found(p), l, t, x) =
        IF here = Missing /\ request.nearest /\ NearestOf[x] # Nowhere /\ ~IsSample
        THEN there ELSE here
  BY DEF ReadNearest
<1> HIDE DEF here, there
<1>3. QED
  BY <1>1, <1>2

-------------------------------------------------------------------------------
(* An answer stays good for as long as the question is the same.  In a     *)
(* sample the user's level may change at the end.                          *)
LEMMA SameQuestion ==
  ASSUME UNCHANGED <<data, request>>, IsSample \/ selected' = selected
  PROVE  \A a : Good(a) => Good(a)'
<1>1. \A k : LevelExpected(k)' = LevelExpected(k)
  BY DEF LevelExpected, IsSample, OuterOf, Inner
<1>2. /\ IsComputed' = IsComputed /\ TurnedAtLevel' = TurnedAtLevel /\ Special' = Special
      /\ Required' = Required
  BY DEF IsComputed, TurnedAtLevel, Special, SnowInData, HasLevels, Required
<1>3. \A t : TimesExpected(t)' = TimesExpected(t)
  BY <1>2 DEF TimesExpected
<1>4. \A x : PointsExpected(x)' = PointsExpected(x)
  BY <1>2 DEF PointsExpected
<1>5. \A a : Available(a)' = Available(a)
  BY <1>1, <1>2, <1>3 DEF Available
<1>6. \A a : AsAsked(a) => AsAsked(a)'
  BY <1>1, <1>2, <1>3, <1>4 DEF AsAsked
<1>7. \A a : Excused(a) => Excused(a)'
  BY <1>2, <1>5 DEF Excused
<1>8. QED
  BY <1>6, <1>7 DEF Good

(* One more good answer, from where the reading for it was.                *)
LEMMA Answering ==
  ASSUME StateType, LevelKept, \A b \in answers : Good(b),
         NEW a, Answer(a), step.pc # "idle", IsSample => CanSample,
         UNCHANGED <<data, request>>,
         DOMAIN cursor' = DOMAIN cursor, cursor'.level = LevelHere,
         Good(Answered(step.k, a))
  PROVE  StateType' /\ LevelKept' /\ ReadSoFar' /\ \A b \in answers' : Good(b)'
<1>1. \A b \in answers' : Good(b)'
  <2>1. IsSample \/ selected' = selected
    BY DEF Answer
  <2>2. \A b : Good(b) => Good(b)'
    BY <2>1, SameQuestion
  <2>3. QED
    BY <2>2 DEF Answer
<1>2. IsSample' = IsSample /\ Outer' = Outer /\ Inner' = Inner /\ CanSample' = CanSample
  BY DEF IsSample, Outer, Inner, CanSample
<1>3. Outer * Inner \in Nat
  <2>1. /\ request \in Request /\ IsRequest(request) /\ data \in Dataset /\ IsData(data)
    BY DataAssumption DEF StateType
  <2>2. /\ Len(request.places) \in Nat /\ Len(request.times) \in Nat /\ Len(data.levels) \in Nat
    BY <2>1 DEF IsRequest, IsData
  <2>3. Outer \in Nat /\ Inner \in Nat
    BY <2>2 DEF Outer, Inner
  <2>4. QED
    BY <2>3
<1>4. CASE IsLast(step.k)
  <2>1. step' = Idle(step.calls)
    BY <1>4 DEF Answer
  <2>2. /\ step'.pc = "idle" /\ DOMAIN step' = {"pc", "k", "todo", "got", "calls"}
    BY <2>1 DEF Idle
  <2>3. selected' = IF IsSample THEN LevelHere ELSE selected
    BY <1>4 DEF Answer
  <2>4. cursor'.level = selected'
    BY <2>3 DEF LevelKept, LevelHere
  <2>5. QED
    BY <1>1, <2>2, <2>4 DEF StateType, LevelKept, ReadSoFar
<1>5. CASE ~IsLast(step.k)
  <2>1. step' = [step EXCEPT !.pc = "next", !.k = step.k + 1, !.todo = <<>>, !.got = << >>]
    BY <1>5 DEF Answer
  <2>2. /\ step'.pc = "next" /\ step'.k = step.k + 1 /\ step'.got = << >>
        /\ DOMAIN step' = DOMAIN step
    BY <2>1 DEF StateType
  <2>3. step'.k \in 1 .. Outer * Inner
    BY <1>3, <1>5, <2>2 DEF StateType, IsLast
  <2>4. selected' = selected
    BY <1>5 DEF Answer
  <2>5. ~IsSample => cursor'.level = selected'
    BY <2>4 DEF LevelKept, LevelHere
  <2>6. QED
    BY <1>1, <1>2, <2>2, <2>3, <2>5 DEF StateType, LevelKept, ReadSoFar
<1>6. QED
  BY <1>4, <1>5

(* The same for what an answer of an element comes to.                     *)
LEMMA AnsweredFields ==
  ASSUME NEW k, NEW a
  PROVE  /\ Answered(k, a).nth = k /\ Answered(k, a).place = PlaceOf(k)
         /\ Answered(k, a).time = TimeOf(k)
         /\ Answered(k, a).as = a.as /\ Answered(k, a).of = a.of
BY DEF Answered

(* The level at which an element is read is the expected one.              *)
LEMMA LevelIsExpected ==
  ASSUME StateType, LevelKept, step.pc # "idle"
  PROVE  request.by # "level" => LevelExpected(step.k) = LevelHere
BY DEF LevelKept, LevelExpected, LevelHere, SampledLevel

(* Samples are of parameters of the data.                                  *)
LEMMA SamplesAreOfData ==
  ASSUME data \in Dataset, IsSample => CanSample
  PROVE  request.par \in Independent => ~IsSample
BY DataAssumption DEF IsData, CanSample

-------------------------------------------------------------------------------
LEMMA InvInit ==
  Init => Inv
<1> SUFFICES ASSUME Init PROVE Inv
  OBVIOUS
<1>1. /\ data \in Dataset /\ answers = {} /\ step = Idle(0)
      /\ selected = cursor.level
  BY DEF Init
<1>2. DOMAIN cursor = {"param", "level", "time"}
  BY DEF Init
<1>3. step.pc = "idle" /\ DOMAIN step = {"pc", "k", "todo", "got", "calls"}
  BY <1>1 DEF Idle
<1>4. StateType /\ LevelKept /\ ReadSoFar
  BY <1>1, <1>2, <1>3 DEF StateType, LevelKept, ReadSoFar
<1>5. QED
  BY <1>1, <1>4 DEF Inv

(* Between calls: the cursor is moved and nothing has been answered yet.   *)
Moved == /\ cursor'.level = selected' /\ DOMAIN cursor' = {"param", "level", "time"}
         /\ answers' = {} /\ UNCHANGED <<data, lastpoint, request, step>>

LEMMA MovedKeeps ==
  Inv /\ step.pc = "idle" /\ Moved => Inv'
BY DEF Inv, Moved, StateType, LevelKept, ReadSoFar

LEMMA UserKeeps ==
  ASSUME Inv,
         \/ \E p : SelectParam(p)
         \/ \E t : SelectTime(t)
         \/ \E l : SelectLevel(l)
         \/ MetaData
  PROVE  Inv'
<1>1. StateType /\ LevelKept
  BY DEF Inv
<1>2. ASSUME NEW p, SelectParam(p) PROVE step.pc = "idle" /\ Moved
  BY <1>1, <1>2 DEF SelectParam, Between, Moved, StateType, LevelKept
<1>3. ASSUME NEW t, SelectTime(t) PROVE step.pc = "idle" /\ Moved
  BY <1>1, <1>3 DEF SelectTime, Between, Moved, StateType, LevelKept
<1>4. ASSUME NEW l, SelectLevel(l) PROVE step.pc = "idle" /\ Moved
  BY <1>1, <1>4 DEF SelectLevel, Between, Moved, StateType, LevelKept
<1>5. ASSUME MetaData PROVE step.pc = "idle" /\ Moved
  BY <1>1, <1>5 DEF MetaData, Between, Moved, StateType, LevelKept
<1>6. QED
  BY <1>2, <1>3, <1>4, <1>5, MovedKeeps

LEMMA AskKeeps ==
  ASSUME Inv, NEW r \in Request, Ask(r)
  PROVE  Inv'
<1>1. StateType /\ LevelKept /\ step.pc = "idle"
  BY DEF Inv, Ask, Between
<1>2. /\ step'.pc = "next" /\ step'.k = 1 /\ step'.got = << >> /\ DOMAIN step' = {"pc", "k", "todo", "got", "calls"}
      /\ request' = r /\ answers' = {}
      /\ UNCHANGED <<data, cursor, lastpoint, selected>>
  BY DEF Ask, Idle
<1>3. cursor'.level = selected'
  BY <1>1, <1>2 DEF LevelKept
<1>4. 1 \in 1 .. (Outer * Inner)'
  <2>1. /\ Len(r.places) \in Nat \ {0} /\ Len(r.times) \in Nat \ {0}
        /\ Len(data.levels) \in Nat \ {0}
    BY <1>1, DataAssumption DEF IsRequest, IsData, StateType
  <2>2. Outer' \in Nat \ {0} /\ Inner' \in Nat \ {0}
    BY <1>2, <2>1 DEF Outer, Inner
  <2>3. \A m, n \in Nat \ {0} : 1 \in 1 .. m * n
    <3>1. SUFFICES ASSUME NEW m \in Nat \ {0}, NEW n \in Nat \ {0} PROVE 1 \in 1 .. m * n
      OBVIOUS
    <3>2. m * n \in Nat /\ m * n # 0
      OBVIOUS
    <3>3. QED
      BY <3>2
  <2>4. QED
    BY <2>2, <2>3
<1>5. StateType'
  BY <1>1, <1>2, <1>4 DEF StateType
<1>6. LevelKept' /\ ReadSoFar' /\ \A a \in answers' : Good(a)'
  BY <1>1, <1>2, <1>3 DEF LevelKept, ReadSoFar
<1>7. QED
  BY <1>5, <1>6 DEF Inv

(* A call that ends with an exception has no other answer.                 *)
LEMMA ThrowingKeeps ==
  ASSUME Inv, Throws, cursor'.level = selected, DOMAIN cursor' = DOMAIN cursor,
         UNCHANGED <<data, lastpoint, request, selected>>
  PROVE  Inv'
<1>1. StateType
  BY DEF Inv
<1>2. step'.pc = "idle" /\ DOMAIN step' = {"pc", "k", "todo", "got", "calls"}
  BY DEF Throws, Idle
<1>3. \A a \in answers' : a.as = "throws"
  BY DEF Throws
<1>4. QED
  BY <1>1, <1>2, <1>3 DEF Inv, StateType, LevelKept, ReadSoFar, Good

LEMMA SampleThrowsKeeps ==
  ASSUME Inv, SampleThrows
  PROVE  Inv'
<1>1. cursor'.level = selected /\ DOMAIN cursor' = DOMAIN cursor
  BY DEF Inv, SampleThrows, LevelKept, StateType
<1>2. QED
  BY <1>1, ThrowingKeeps DEF SampleThrows

LEMMA NoLevelThrowsKeeps ==
  ASSUME Inv, NoLevelThrows
  PROVE  Inv'
<1>1. ~IsSample
  BY SamplesAreOfData DEF Inv, StateType, NoLevelThrows, Independently, NextValue
<1>2. cursor'.level = selected /\ DOMAIN cursor' = DOMAIN cursor
  BY <1>1 DEF Inv, NoLevelThrows, LevelKept
<1>3. QED
  BY <1>2, ThrowingKeeps DEF NoLevelThrows

-------------------------------------------------------------------------------
(* A single reading, in the data or at the nearest valid point.            *)
ReadFor(x) == IF request.by = "level" THEN ValueAtLevel(x) ELSE DataValue(x)

LEMMA ReadForFacts ==
  ASSUME data \in Dataset, NEW x \in Place
  PROVE  LET r == ReadFor(x)
         IN  r # Missing => /\ r.param = request.par
                            /\ \/ r.place = x
                               \/ request.nearest /\ r.place = NearestOf[x] /\ r.place # Nowhere
BY ReadNearestFacts DEF ReadFor, ValueAtLevel, DataValue

LEMMA PlainIsGood ==
  ASSUME StateType, LevelKept, NextValue, ~IsComputed, request.par \notin Independent
  PROVE  Good(Answered(step.k, Plain(request.par, ReadFor(PlaceOf(step.k)))))
<1> DEFINE x == PlaceOf(step.k)
           t == TimeOf(step.k)
           r == ReadFor(x)
           a == Answered(step.k, Plain(request.par, r))
<1>1. /\ data \in Dataset /\ step.pc # "idle" /\ request.do # "matrix"
      /\ request.by \in {"cursor", "level"}
  BY DataAssumption DEF StateType, NextValue, IsRequest
<1>2. x \in Place /\ t \in Nat
  BY <1>1, ElementFacts
<1>3. request.by # "level" => LevelExpected(step.k) = LevelHere
  BY <1>1, LevelIsExpected
<1>4. request.by = "level" => LevelExpected(step.k) = request.level
  <2>1. request.by = "level" => request.do = "values"
    BY <1>1, DataAssumption DEF StateType, IsRequest
  <2>2. QED
    BY <2>1 DEF LevelExpected, IsSample
<1>5. /\ request.by = "cursor" => DateInData(t) \in TimesExpected(t)
      /\ request.by = "level" => TimesExpected(t) = {t}
  BY <1>1, <1>2, DateExpected
<1>6. ASSUME r # Missing
      PROVE  /\ r.param = request.par /\ r.level = LevelExpected(step.k)
             /\ r.time \in TimesExpected(t) /\ r.place \in PointsExpected(x)
  <2>1. r.place \in PointsExpected(x)
    BY <1>1, <1>2, <1>6, ReadForFacts DEF PointsExpected
  <2>2. CASE request.by = "level"
    <3>1. r = ReadNearest(Found(request.par), request.level, t, x)
      BY <1>6, <2>2 DEF ReadFor, ValueAtLevel
    <3>2. r.param = request.par /\ r.level = request.level /\ r.time = t
      BY <1>1, <1>6, <3>1, ReadNearestFacts
    <3>3. QED
      BY <1>4, <1>5, <2>1, <2>2, <3>2
  <2>3. CASE request.by = "cursor"
    <3>1. r = ReadNearest(Found(request.par), LevelHere, DateInData(t), x)
      BY <2>3 DEF ReadFor, DataValue
    <3>2. r.param = request.par /\ r.level = LevelHere /\ r.time = DateInData(t)
      BY <1>1, <1>6, <3>1, ReadNearestFacts
    <3>3. QED
      BY <1>3, <1>5, <2>1, <2>3, <3>2
  <2>4. QED
    BY <1>1, <2>2, <2>3
<1>7. ASSUME r = Missing, ~Special, Available(a) PROVE FALSE
  <2>1. Required = {request.par} /\ a.place = x /\ a.nth = step.k /\ a.time = t
    BY AnsweredFields DEF Required
  <2> HIDE DEF a
  <2>2. /\ request.par \in DOMAIN data.at /\ x \in data.at[request.par]
        /\ Surrounds(Range(data.levels), LevelExpected(step.k))
        /\ \A u \in TimesExpected(t) : Covers(DOMAIN data.origin, u, MaxGap)
    BY <1>7, <2>1 DEF Available
  <2>3. CASE request.by = "level"
    <3>1. r = ReadNearest(Found(request.par), request.level, t, x)
      BY <1>7, <2>3 DEF ReadFor, ValueAtLevel, Special
    <3>2. Surrounds(Range(data.levels), request.level) /\ Covers(DOMAIN data.origin, t, MaxGap)
      BY <1>4, <1>5, <2>2, <2>3
    <3>3. QED
      BY <1>1, <1>7, <2>2, <3>1, <3>2, ReadNearestFacts
  <2>4. CASE request.by = "cursor"
    <3>1. r = ReadNearest(Found(request.par), LevelHere, DateInData(t), x)
      BY <2>4 DEF ReadFor, DataValue
    <3>2. /\ Surrounds(Range(data.levels), LevelHere)
          /\ Covers(DOMAIN data.origin, DateInData(t), MaxGap)
      BY <1>3, <1>5, <2>2, <2>4
    <3>3. QED
      BY <1>1, <1>7, <2>2, <3>1, <3>2, ReadNearestFacts
  <2>5. QED
    BY <1>1, <2>3, <2>4
<1>8. CASE r # Missing
  <2>1. a.as = "value" /\ a.of = [q \in {request.par} |-> r]
    BY <1>8, AnsweredFields DEF Plain, Made
  <2>2. a.nth = step.k /\ a.place = x /\ a.time = t
    BY AnsweredFields
  <2> HIDE DEF a, r
  <2>3. AsAsked(a)
    BY <1>6, <1>8, <2>1, <2>2 DEF AsAsked
  <2>4. QED
    BY <2>1, <2>3 DEF Good, a, r
<1>9. CASE r = Missing
  <2>1. a.as = "nothing"
    BY <1>9, AnsweredFields DEF Plain, Nothing
  <2> HIDE DEF a, r
  <2>2. QED
    BY <1>7, <1>9, <2>1 DEF Good, Excused, a, r
<1>10. QED
  BY <1>8, <1>9

(* The actions that answer an element keep the invariant when the answer is*)
(* good and is read at the level of the element.                           *)
LEMMA AnsweringKeeps ==
  ASSUME Inv, NEW a, Answer(a), step.pc # "idle", IsSample => CanSample,
         UNCHANGED <<data, request>>,
         DOMAIN cursor' = DOMAIN cursor, cursor'.level = LevelHere,
         Good(Answered(step.k, a))
  PROVE  Inv'
<1>1. StateType /\ LevelKept /\ \A b \in answers : Good(b)
  BY DEF Inv
<1>2. StateType' /\ LevelKept' /\ ReadSoFar' /\ \A b \in answers' : Good(b)'
  BY <1>1, Answering
<1>3. QED
  BY <1>2 DEF Inv

LEMMA ValueKeeps ==
  ASSUME Inv, Value
  PROVE  Inv'
<1> DEFINE x == PlaceOf(step.k)
           r == ReadFor(x)
<1>1. /\ StateType /\ LevelKept /\ NextValue /\ step.pc # "idle"
      /\ (IsSample => CanSample) /\ UNCHANGED <<data, request>>
  BY DEF Inv, Value, NextValue
<1>2. ~IsComputed /\ request.par \notin Independent
  BY DEF Value, IsComputed
<1>3. Good(Answered(step.k, Plain(request.par, r)))
  BY <1>1, <1>2, PlainIsGood
<1>4. /\ Answer(Plain(request.par, r))
      /\ cursor' = [cursor EXCEPT !.param = Found(request.par), !.level = LevelHere]
  BY DEF Value, ReadFor
<1>5. DOMAIN cursor' = DOMAIN cursor /\ cursor'.level = LevelHere
  BY <1>1, <1>4 DEF StateType
<1>6. QED
  BY <1>1, <1>3, <1>4, <1>5, AnsweringKeeps

LEMMA WindAsIsKeeps ==
  ASSUME Inv, WindAsIs
  PROVE  Inv'
<1> DEFINE x == PlaceOf(step.k)
           r == ReadFor(x)
<1>1. /\ StateType /\ LevelKept /\ NextValue /\ step.pc # "idle"
      /\ (IsSample => CanSample) /\ UNCHANGED <<data, request>>
  BY DEF Inv, WindAsIs, NextValue
<1>2. request.par \in Wind /\ request.par \notin Formula \cup Independent
  BY DEF WindAsIs, Wind, Formula, Independent
<1>3. Good(Answered(step.k, Plain(request.par, r)))
  <2>1. CASE ~data.relative
    BY <1>1, <1>2, <2>1, PlainIsGood DEF IsComputed
  <2>2. CASE data.relative
    <3>1. request.by = "level" /\ (~HasLevels \/ request.par \notin DOMAIN data.at)
      BY <2>2 DEF WindAsIs, AsIs
    <3>2. TurnedAtLevel /\ Special
      BY <1>2, <2>2, <3>1 DEF TurnedAtLevel, Special
    <3>3. r = Missing
      <4>1. Found(request.par) \in DOMAIN data.at => request.par \in DOMAIN data.at
        BY <1>1, FoundFacts DEF StateType
      <4>2. \A y : request.par \notin DOMAIN data.at =>
                     ReadNearest(Found(request.par), request.level, TimeOf(step.k), y) = Missing
        BY <4>1 DEF ReadNearest, Reading
      <4>3. QED
        BY <3>1, <4>2 DEF ReadFor, ValueAtLevel
    <3>4. Answered(step.k, Plain(request.par, r)).as = "nothing"
      BY <3>3, AnsweredFields DEF Plain, Nothing
    <3> HIDE DEF r
    <3>5. QED
      BY <3>2, <3>4 DEF Good, Excused
  <2>3. QED
    BY <2>1, <2>2
<1>4. /\ Answer(Plain(request.par, r))
      /\ cursor' = [cursor EXCEPT !.param = Found(request.par), !.level = LevelHere]
  BY DEF WindAsIs, ReadFor
<1>5. DOMAIN cursor' = DOMAIN cursor /\ cursor'.level = LevelHere
  BY <1>1, <1>4 DEF StateType
<1>6. QED
  BY <1>1, <1>3, <1>4, <1>5, AnsweringKeeps

-------------------------------------------------------------------------------
(* Computed values.  Which they are made from, and that is all of them.    *)
LEMMA InputFacts ==
  ASSUME request.par \in Formula \cup Wind
  PROVE  /\ Inputs(request.par) \in Seq(Range(Inputs(request.par)))
         /\ request.par \notin Independent
         /\ request.par \in Wind <=> request.par \notin Formula
<1>1. PICK S : Inputs(request.par) \in Seq(S)
  <2> DEFINE S == {"WindSpeedMS", "Temperature", "Humidity", "RadiationGlobal", "Precipitation1h",
                   "WeatherSymbol3", "TotalCloudCover", "WindUMS", "WindVMS"}
  <2>1. \A p, q, u, v \in S : /\ <<p>> \in Seq(S) /\ <<p, q>> \in Seq(S)
                              /\ <<p, q, u>> \in Seq(S) /\ <<p, q, u, v>> \in Seq(S)
    <3> HIDE DEF S
    <3>1. QED
      OBVIOUS
  <2>2. Inputs(request.par) \in Seq(S)
    <3>1. CASE request.par \in {"Snow1hLower", "Snow1hUpper", "WeatherSymbol", "Cloudiness8th"}
      <4>1. Inputs(request.par) \in
              {<<"Precipitation1h">>, <<"WeatherSymbol3">>, <<"TotalCloudCover">>}
        BY <3>1 DEF Inputs
      <4>2. \E p \in S : Inputs(request.par) = <<p>>
        BY <4>1
      <4>3. QED
        <5> HIDE DEF S
        <5>1. QED
          BY <2>1, <4>2
    <3>2. CASE request.par \in {"WindChill", "SummerSimmerIndex"} \cup Wind
      <4>1. Inputs(request.par) \in
              {<<"WindSpeedMS", "Temperature">>, <<"Humidity", "Temperature">>,
               <<"WindUMS", "WindVMS">>, <<"WindVMS", "WindUMS">>}
        BY <3>2 DEF Inputs, Wind
      <4>2. \E p, q \in S : Inputs(request.par) = <<p, q>>
        BY <4>1
      <4>3. QED
        <5> HIDE DEF S
        <5>1. QED
          BY <2>1, <4>2
    <3>3. CASE request.par \in {"ApparentTemperature", "Snow1h"}
      <4>1. Inputs(request.par) \in
              {<<"Humidity", "WindSpeedMS", "Temperature">>,
               <<"Temperature", "WindSpeedMS", "Precipitation1h">>}
        BY <3>3 DEF Inputs
      <4>2. \E p, q, u \in S : Inputs(request.par) = <<p, q, u>>
        BY <4>1
      <4>3. QED
        <5> HIDE DEF S
        <5>1. QED
          BY <2>1, <4>2
    <3>4. CASE request.par = "FeelsLike"
      <4>1. Inputs(request.par) =
              <<"Humidity", "WindSpeedMS", "Temperature", "RadiationGlobal">>
        BY <3>4 DEF Inputs
      <4>2. \E p, q, u, v \in S : Inputs(request.par) = <<p, q, u, v>>
        BY <4>1
      <4>3. QED
        <5> HIDE DEF S
        <5>1. QED
          BY <2>1, <4>2
    <3>5. QED
      BY <3>1, <3>2, <3>3, <3>4 DEF Formula
  <2>3. QED
    BY <2>2
<1>2. Inputs(request.par) \in Seq(Range(Inputs(request.par)))
  BY <1>1 DEF Range
<1>3. /\ request.par \notin Independent
      /\ request.par \in Wind <=> request.par \notin Formula
  BY DEF Formula, Wind, Independent
<1>4. QED
  BY <1>1, <1>2, <1>3

(* An element that is not computed is refused for a reason.                *)
LEMMA BeginKeeps ==
  ASSUME Inv, Begin
  PROVE  Inv'
<1>1. /\ StateType /\ LevelKept /\ NextValue /\ step.pc # "idle"
      /\ (IsSample => CanSample) /\ UNCHANGED <<data, request>>
      /\ request.do # "matrix" /\ \A b \in answers : Good(b)
  BY DEF Inv, Begin, NextValue
<1>2. /\ request.par \in Formula \cup Wind
      /\ request.par \in Wind => ~AsIs
  BY DEF Begin, Formula, Wind
<1>3. IsComputed
  BY <1>2 DEF IsComputed, AsIs
<1>4. DOMAIN cursor' = DOMAIN cursor /\ cursor'.level = LevelHere
  BY <1>1 DEF Begin, StateType
<1>5. CASE Refused
  <2>1. Answer(Nothing)
    BY <1>5 DEF Begin
  <2> DEFINE a == Answered(step.k, Nothing)
  <2>2. a.as = "nothing" /\ a.place = PlaceOf(step.k)
    BY AnsweredFields DEF Nothing
  <2>3. Special \/ (request.par \in Wind /\ data.relative /\ AngleAt[a.place] = "none")
    BY <1>2, <1>5, <2>2 DEF Refused, Special, AsIs
  <2> HIDE DEF a
  <2>4. Good(a)
    BY <2>2, <2>3 DEF Good, Excused
  <2>5. QED
    BY <1>1, <1>4, <2>1, <2>4, AnsweringKeeps DEF a
<1>6. CASE ~Refused /\ SnowInData
  <2> DEFINE b == IF IsSample THEN Nothing ELSE [as |-> "true", of |-> << >>]
             a == Answered(step.k, b)
  <2>1. Answer(b)
    BY <1>6 DEF Begin
  <2>2. a.as \in {"nothing", "true"}
    BY AnsweredFields DEF Nothing
  <2>3. Special
    BY <1>6 DEF Special
  <2> HIDE DEF a
  <2>4. Good(a)
    BY <2>2, <2>3 DEF Good, Excused
  <2> HIDE DEF b
  <2>5. QED
    BY <1>1, <1>4, <2>1, <2>4, AnsweringKeeps DEF a
<1>7. CASE ~Refused /\ ~SnowInData
  <2>1. /\ step' = [step EXCEPT !.pc = "reading", !.todo = Inputs(request.par)]
        /\ UNCHANGED <<answers, selected>>
    BY <1>7 DEF Begin
  <2>2. /\ DOMAIN step' = DOMAIN step /\ step'.pc = "reading" /\ step'.k = step.k
        /\ step'.todo = Inputs(request.par) /\ step'.got = step.got
    BY <1>1, <2>1 DEF StateType
  <2>3. StateType'
    BY <1>1, <1>4, <2>2 DEF StateType, Outer, Inner, IsSample
  <2>4. LevelKept'
    BY <1>1, <1>4, <2>1, <2>2 DEF LevelKept, LevelHere, IsSample, CanSample, SampledLevel,
      OuterOf, Inner
  <2>5. request.par \in Formula => request.by # "level"
    BY <1>7 DEF Refused
  <2>6. step.got = << >>
    BY DEF Inv, ReadSoFar, Begin, NextValue
  <2>7. ReadSoFar'
    <3>1. IsComputed' /\ (IsSample => CanSample)' /\ ~SnowInData'
      BY <1>1, <1>3, <1>7 DEF IsComputed, IsSample, CanSample, SnowInData
    <3>2. step'.todo \in Seq(Range(Inputs(request'.par)))
      BY <1>1, <1>2, <2>2, InputFacts
    <3>3. DOMAIN step'.got = {}
      BY <2>2, <2>6
    <3>4. QED
      BY <1>1, <2>2, <2>5, <3>1, <3>2, <3>3 DEF ReadSoFar
  <2>8. IsSample \/ selected' = selected
    BY <2>1
  <2>9. \A a \in answers' : Good(a)'
    BY <1>1, <2>1, <2>8, SameQuestion
  <2>10. QED
    BY <2>3, <2>4, <2>7, <2>9 DEF Inv
<1>8. QED
  BY <1>5, <1>6, <1>7

(* While the inputs are read, the element and the level stay the same.     *)
LEMMA ReadDirectFacts ==
  ASSUME data \in Dataset, NEW s
  PROVE  LET r == ReadDirect(Found(s))
             x == PlaceOf(step.k)
             t == TimeOf(step.k)
         IN  /\ r # Missing => /\ r.param = s /\ r.time = t /\ r.place = x
                               /\ request.by # "level" => r.level = cursor.level
             /\ /\ request.by # "level" /\ s \in DOMAIN data.at /\ x \in data.at[s]
                /\ Surrounds(Range(data.levels), cursor.level) /\ Covers(DOMAIN data.origin, t, MaxGap)
                => r # Missing
BY ReadingFacts, FoundFacts DEF ReadDirect

LEMMA ReadInputKeeps ==
  ASSUME Inv, ReadInput
  PROVE  Inv'
<1> DEFINE s == Head(step.todo)
<1>1. /\ StateType /\ LevelKept /\ step.pc = "reading"
      /\ IsComputed /\ request.do # "matrix" /\ (IsSample => CanSample) /\ ~SnowInData
      /\ UNCHANGED <<data, request, lastpoint>>
      /\ \A b \in answers : Good(b)
  BY DEF Inv, ReadSoFar, ReadInput
<1>2. /\ request.par \in Formula => request.by # "level"
      /\ step.todo \in Seq(Range(Inputs(request.par))) /\ step.todo # <<>>
      /\ \A q \in DOMAIN step.got : /\ q \in Range(Inputs(request.par))
                                    /\ step.got[q] = ReadDirect(Found(q))
  BY <1>1 DEF Inv, ReadSoFar, ReadInput
<1>3. request.par \in Formula \cup Wind
  BY <1>1 DEF IsComputed, Formula, Wind
<1> DEFINE wanted == Range(Inputs(request.par))
<1>4. s \in wanted /\ Tail(step.todo) \in Seq(wanted) /\ << >> \in Seq(wanted)
  <2> HIDE DEF wanted
  <2>1. step.todo \in Seq(wanted) /\ step.todo # <<>>
    BY <1>2 DEF wanted
  <2>2. QED
    BY <2>1, HeadTailProperties, EmptySeq
<1>5. DOMAIN cursor' = DOMAIN cursor /\ cursor'.level = cursor.level /\ cursor.level = LevelHere
  BY <1>1 DEF ReadInput, StateType, LevelKept
<1>6. CASE s \in DOMAIN data.at \cup Optional
  <2>1. PICK rest \in {Tail(step.todo), <<>>} :
          /\ step' = [step EXCEPT !.todo = rest, !.got = GotToo(s, ReadDirect(InputSelected(s)))]
          /\ UNCHANGED <<answers, selected>>
    BY <1>6 DEF ReadInput
  <2>2. /\ DOMAIN step' = DOMAIN step /\ step'.pc = "reading" /\ step'.k = step.k
        /\ step'.todo = rest /\ step'.got = GotToo(s, ReadDirect(Found(s)))
    BY <1>1, <2>1 DEF StateType, InputSelected
  <2>3. StateType'
    BY <1>1, <1>5, <2>2 DEF StateType, Outer, Inner, IsSample
  <2>4. LevelHere' = LevelHere /\ IsSample' = IsSample /\ CanSample' = CanSample
    BY <1>1, <1>5, <2>2 DEF LevelHere, IsSample, CanSample, SampledLevel, OuterOf, Inner
  <2>5. LevelKept'
    BY <1>1, <1>5, <2>1, <2>2, <2>4 DEF LevelKept
  <2>6. \A q : ReadDirect(Found(q))' = ReadDirect(Found(q))
    BY <1>1, <1>5, <2>2 DEF ReadDirect, Reading, Found, PlaceOf, TimeOf, IsSample, InnerOf,
      OuterOf, Inner
  <2>7. \A q \in DOMAIN step'.got : /\ q \in Range(Inputs(request.par))
                                    /\ step'.got[q] = ReadDirect(Found(q))
    BY <1>2, <1>4, <2>2 DEF GotToo
  <2>8. ReadSoFar'
    <3>1. IsComputed' /\ (IsSample => CanSample)' /\ ~SnowInData'
      BY <1>1, <2>4 DEF IsComputed, SnowInData
    <3>2. rest \in Seq(Range(Inputs(request.par)))
      BY <1>4, <2>1
    <3>3. \A q \in DOMAIN step'.got : /\ q \in Range(Inputs(request'.par))
                                      /\ step'.got[q] = ReadDirect(Found(q))'
      BY <1>1, <2>6, <2>7
    <3>4. QED
      BY <1>1, <1>2, <2>2, <3>1, <3>2, <3>3 DEF ReadSoFar
  <2>9. \A a \in answers' : Good(a)'
    BY <1>1, <2>1, SameQuestion
  <2>10. QED
    BY <2>3, <2>5, <2>8, <2>9 DEF Inv
<1>7. CASE s \notin DOMAIN data.at \cup Optional
  <2> DEFINE a == Answered(step.k, Nothing)
  <2>1. Answer(Nothing)
    BY <1>7 DEF ReadInput
  <2>2. s \in Required
    BY <1>1, <1>4, <1>7 DEF Required
  <2>3. a.as = "nothing" /\ ~Available(a)
    BY <1>7, <2>2, AnsweredFields DEF Available, Nothing
  <2> HIDE DEF a
  <2>4. Good(a)
    BY <2>3 DEF Good, Excused
  <2>5. QED
    BY <1>1, <1>5, <2>1, <2>4, AnsweringKeeps DEF a
<1>8. QED
  BY <1>6, <1>7

LEMMA ComputeKeeps ==
  ASSUME Inv, Compute
  PROVE  Inv'
<1> DEFINE x == PlaceOf(step.k)
           t == TimeOf(step.k)
           b == IF Lacks(step.got) THEN Nothing ELSE Made(step.got)
           a == Answered(step.k, b)
<1>1. /\ StateType /\ LevelKept /\ step.pc = "reading"
      /\ IsComputed /\ request.do # "matrix" /\ (IsSample => CanSample)
      /\ UNCHANGED <<data, cursor, request, lastpoint>>
  BY DEF Inv, ReadSoFar, Compute
<1>2. /\ request.par \in Formula => request.by # "level"
      /\ \A q \in DOMAIN step.got : /\ q \in Range(Inputs(request.par))
                                    /\ step.got[q] = ReadDirect(Found(q))
  BY <1>1 DEF Inv, ReadSoFar
<1>3. /\ request.par \in Formula \cup Wind
      /\ request.par \notin Independent
  BY <1>1 DEF IsComputed, Formula, Wind, Independent
<1>4. data \in Dataset /\ x \in Place /\ t \in Nat
  BY <1>1, ElementFacts DEF StateType
<1>5. request.by # "level" => LevelExpected(step.k) = cursor.level
  BY <1>1, LevelIsExpected DEF LevelKept
<1>6. request.by = "level" => TurnedAtLevel
  BY <1>1, <1>2, <1>3 DEF TurnedAtLevel, IsComputed
<1>7. TimesExpected(t) = {t}
  BY <1>1, <1>4, DateExpected DEF StateType
<1>8. Answer(b) /\ DOMAIN cursor' = DOMAIN cursor /\ cursor'.level = LevelHere
  BY <1>1 DEF Compute, LevelKept
<1>9. /\ a.nth = step.k /\ a.place = x /\ a.time = t /\ a.as = b.as /\ a.of = b.of
  BY AnsweredFields
<1>10. CASE Lacks(step.got)
  <2>1. PICK s \in DOMAIN step.got \ Optional : step.got[s] = Missing
    BY <1>10 DEF Lacks, Needed
  <2>2. s \in Required /\ ReadDirect(Found(s)) = Missing
    BY <1>1, <1>2, <2>1 DEF Required
  <2>3. a.as = "nothing"
    BY <1>9, <1>10 DEF Nothing
  <2>4. Good(a)
    <3> HIDE DEF a, x, t
    <3>1. CASE request.by = "level"
      BY <1>6, <2>3, <3>1 DEF Good, Excused, Special
    <3>2. CASE request.by # "level"
      <4>1. ASSUME Available(a) PROVE FALSE
        <5>1. /\ s \in DOMAIN data.at /\ x \in data.at[s]
              /\ Surrounds(Range(data.levels), cursor.level)
              /\ Covers(DOMAIN data.origin, t, MaxGap)
          BY <1>5, <1>7, <1>9, <2>2, <3>2, <4>1 DEF Available
        <5>2. QED
          BY <1>4, <2>2, <3>2, <5>1, ReadDirectFacts DEF x, t
      <4>2. QED
        BY <2>3, <4>1 DEF Good, Excused
    <3>3. QED
      BY <3>1, <3>2
  <2>5. QED
    <3> HIDE DEF b
    <3>1. QED
      BY <1>1, <1>8, <2>4, AnsweringKeeps DEF a
<1>11. CASE ~Lacks(step.got)
  <2>1. a.as = "value" /\ a.of = step.got
    BY <1>9, <1>11 DEF Made
  <2> HIDE DEF a
  <2>2. ASSUME NEW s \in DOMAIN a.of, a.of[s] # Missing
        PROVE  /\ a.of[s].param = s /\ a.of[s].time \in TimesExpected(a.time)
               /\ a.of[s].level = LevelExpected(a.nth) \/ TurnedAtLevel
               /\ a.of[s].place \in PointsExpected(a.place)
    <3>1. a.of[s] = ReadDirect(Found(s))
      BY <1>2, <2>1
    <3>2. /\ a.of[s].param = s /\ a.of[s].time = t /\ a.of[s].place = x
          /\ request.by # "level" => a.of[s].level = cursor.level
      BY <1>4, <2>2, <3>1, ReadDirectFacts
    <3> HIDE DEF x, t
    <3>3. QED
      BY <1>1, <1>5, <1>6, <1>7, <1>9, <3>2 DEF PointsExpected
  <2>3. Good(a)
    BY <1>3, <2>1, <2>2 DEF Good, AsAsked
  <2>4. QED
    <3> HIDE DEF b
    <3>1. QED
      BY <1>1, <1>8, <2>3, AnsweringKeeps DEF a
<1>12. QED
  BY <1>10, <1>11

-------------------------------------------------------------------------------
(* What is answered without the data of a place.                           *)
LEMMA StatedFields ==
  ASSUME NEW x, NEW l, NEW t
  PROVE  LET b == Stated(x, l, t)
         IN  /\ b.as = "value" /\ DOMAIN b.of = {request.par}
             /\ b.of[request.par].place = x /\ b.of[request.par].level = l
BY DEF Stated, Made

LEMMA OfPlaceAndTimeKeeps ==
  ASSUME Inv, OfPlaceAndTime
  PROVE  Inv'
<1>1. /\ StateType /\ LevelKept /\ step.pc # "idle"
      /\ request.par \in Independent /\ (IsSample => CanSample)
      /\ UNCHANGED <<data, cursor, lastpoint, request>>
  BY DEF Inv, OfPlaceAndTime, Independently, NextValue
<1>2. ~IsSample /\ cursor.level = selected
  BY <1>1, SamplesAreOfData DEF StateType, LevelKept
<1>3. cursor'.level = LevelHere /\ LevelAsked = LevelExpected(step.k)
  BY <1>1, <1>2 DEF LevelHere, LevelAsked, LevelExpected
<1>4. PICK x, l, t : /\ Answer(Stated(x, l, t))
                     /\ request.par = "Level" => l = LevelAsked
  <2>1. CASE request.par = "NearLatLon"
    BY <2>1 DEF OfPlaceAndTime
  <2>2. CASE request.par = "Level"
    BY <2>2 DEF OfPlaceAndTime
  <2>3. CASE request.par \notin {"NearLatLon", "Level"}
    BY <2>3 DEF OfPlaceAndTime
  <2>4. QED
    BY <2>1, <2>2, <2>3
<1> DEFINE b == Stated(x, l, t)
           a == Answered(step.k, b)
<1>5. /\ a.nth = step.k /\ a.place = PlaceOf(step.k) /\ a.as = "value"
      /\ DOMAIN a.of = {request.par}
      /\ a.of[request.par].place = x /\ a.of[request.par].level = l
  BY AnsweredFields, StatedFields
<1> HIDE DEF b
<1>6. Good(a)
  <2> HIDE DEF a
  <2>1. QED
    BY <1>1, <1>3, <1>4, <1>5 DEF Good, AsAsked
<1>7. Answer(b) /\ DOMAIN cursor' = DOMAIN cursor
  BY <1>1, <1>4 DEF b
<1>8. QED
  BY <1>1, <1>3, <1>6, <1>7, AnsweringKeeps DEF a

LEMMA OriginTimeKeeps ==
  ASSUME Inv, OriginTime
  PROVE  Inv'
<1>1. /\ StateType /\ LevelKept /\ step.pc # "idle"
      /\ request.par = "OriginTime" /\ request.par \in Independent /\ (IsSample => CanSample)
      /\ UNCHANGED <<data, lastpoint, request>>
  BY DEF Inv, OriginTime, Independently, NextValue
<1>2. ~IsSample
  BY <1>1, SamplesAreOfData DEF StateType
<1>3. PICK t : cursor' = [cursor EXCEPT !.time = t]
  BY DEF OriginTime
<1>4. DOMAIN cursor' = DOMAIN cursor /\ cursor'.level = LevelHere
  BY <1>1, <1>2, <1>3 DEF StateType, LevelHere
<1>5. PICK b : Answer(b) /\ (b = Nothing \/ \E u : b = Stated(Nowhere, NoLevel, u))
  BY DEF OriginTime
<1> DEFINE a == Answered(step.k, b)
<1>6. /\ a.as \in {"nothing", "value"}
      /\ a.as = "value" => DOMAIN a.of = {request.par}
  BY <1>5, AnsweredFields, StatedFields DEF Nothing
<1>7. Special
  BY <1>1 DEF Special
<1> HIDE DEF a
<1>8. Good(a)
  BY <1>1, <1>6, <1>7 DEF Good, AsAsked, Excused
<1>9. QED
  BY <1>1, <1>4, <1>5, <1>8, AnsweringKeeps DEF a

-------------------------------------------------------------------------------
(* A grid: every cell is read at the level of the cursor and at its place. *)
LEMMA CellFacts ==
  ASSUME StateType, step.pc = "next", request.do = "matrix", NEW i \in 1 .. Outer
  PROVE  /\ PlaceOf((i - 1) * Inner + 1) = request.places[i] /\ request.places[i] \in Place
         /\ TimeOf((i - 1) * Inner + 1) = request.times[1] /\ request.times[1] \in Nat
<1>1. /\ request \in Request /\ IsRequest(request) /\ request.places \in Seq(Place)
      /\ request.times \in Seq(Nat) /\ Len(request.times) = 1
  BY DataAssumption DEF StateType, IsRequest
<1>2. ~IsSample /\ Inner = 1 /\ Outer = Len(request.places)
  BY <1>1 DEF IsSample, Inner, Outer
<1>3. (i - 1) * Inner + 1 = i
  BY <1>1, <1>2
<1>4. OuterOf(i) = i /\ InnerOf(i) = 1
  BY <1>1, <1>2 DEF OuterOf, InnerOf
<1>5. QED
  BY <1>1, <1>2, <1>3, <1>4 DEF PlaceOf, TimeOf

(* The parameters of a grid that is computed, by what they are read as.    *)
LEMMA MatrixReads ==
  ASSUME request.par \in InMatrix
  PROVE  /\ LastChecked(request.par) = "Temperature"
         /\ \A i \in DOMAIN Checks(request.par) :
              Checks(request.par)[i] \in Range(Inputs(request.par))
<1>1. CASE request.par = "WindChill"
  BY <1>1 DEF LastChecked, Checks, Inputs, Range, Optional, Last
<1>2. CASE request.par = "SummerSimmerIndex"
  BY <1>2 DEF LastChecked, Checks, Inputs, Range, Optional, Last
<1>3. CASE request.par = "ApparentTemperature"
  BY <1>3 DEF LastChecked, Checks, Inputs, Range, Optional, Last
<1>4. CASE request.par = "FeelsLike"
  <2> DEFINE all == <<"Humidity", "WindSpeedMS", "Temperature", "RadiationGlobal">>
  <2>1. Inputs(request.par) = all /\ Last(all) = "RadiationGlobal"
    BY <1>4 DEF Inputs, Last
  <2>2. Checks(request.par) = Front(all)
    BY <2>1 DEF Checks, Optional
  <2>3. all \in Seq(Range(all)) /\ Len(all) = 4
    BY DEF Range
  <2>4. Front(all) = SubSeq(all, 1, 3)
    BY <2>3 DEF Front
  <2>5. Len(Front(all)) = 3 /\ DOMAIN Front(all) = 1 .. 3 /\ \A i \in 1 .. 3 : Front(all)[i] = all[i]
    <3> HIDE DEF all
    <3>1. QED
      BY <2>3, <2>4, SubSeqProperties
  <2>6. LastChecked(request.par) = "Temperature"
    BY <2>2, <2>5 DEF LastChecked, Last
  <2>7. \A i \in 1 .. 3 : all[i] \in Range(all)
    BY DEF Range
  <2>8. QED
    BY <2>1, <2>2, <2>5, <2>6, <2>7
<1>5. QED
  BY <1>1, <1>2, <1>3, <1>4 DEF InMatrix

(* What a cell may hold: nothing, if a required parameter is not there, or *)
(* readings of the required parameters where it is.                        *)
GoodCell(b, x) ==
  /\ b.as \in {"nothing", "value"}
  /\ b.as = "value" => \A s \in DOMAIN b.of :
       b.of[s] # Missing => /\ b.of[s].param = s /\ b.of[s].level = cursor.level
                            /\ b.of[s].time = request.times[1] /\ b.of[s].place = x
  /\ b.as = "nothing" => \E s \in Required :
       ~ /\ s \in DOMAIN data.at /\ x \in data.at[s]
         /\ Surrounds(Range(data.levels), cursor.level)
         /\ Covers(DOMAIN data.origin, request.times[1], MaxGap)

LEMMA DataCell ==
  ASSUME data \in Dataset, request.par \notin Formula \cup Wind, NEW x
  PROVE  GoodCell(Plain(request.par, Reading(request.par, cursor.level, request.times[1], x, MaxGap)), x)
<1> DEFINE p == request.par
           r == Reading(p, cursor.level, request.times[1], x, MaxGap)
           b == Plain(p, r)
<1>1. /\ r # Missing => /\ r.param = p /\ r.level = cursor.level
                        /\ r.time = request.times[1] /\ r.place = x
      /\ /\ p \in DOMAIN data.at /\ x \in data.at[p]
         /\ Surrounds(Range(data.levels), cursor.level)
         /\ Covers(DOMAIN data.origin, request.times[1], MaxGap)
         => r # Missing
  BY ReadingFacts
<1>2. p \in Required
  BY DEF Required, IsComputed
<1> HIDE DEF r
<1>3. /\ r # Missing => b.as = "value" /\ b.of = [s \in {p} |-> r]
      /\ r = Missing => b.as = "nothing"
  BY DEF Plain, Made, Nothing
<1> HIDE DEF b, p
<1>4. GoodCell(b, x)
  BY <1>1, <1>2, <1>3 DEF GoodCell
<1>5. QED
  BY <1>4 DEF b, p, r

LEMMA ComputedCell ==
  ASSUME data \in Dataset, request.do = "matrix", request.par \in InMatrix, NEW x
  PROVE  GoodCell(IF /\ Failed(request.par) = {}
                     /\ Range(Inputs(request.par)) \subseteq DOMAIN data.at
                  THEN MatrixOf(request.par, x) ELSE Nothing, x)
<1> DEFINE wanted == Range(Inputs(request.par))
           got == [s \in wanted |-> Reading(s, cursor.level, request.times[1], x, MaxGap)]
<1>1. Required = wanted
  BY DEF Required, IsComputed, InMatrix, Formula
<1>2. Nothing.as = "nothing"
  BY DEF Nothing
<1>3. CASE Failed(request.par) # {}
  <2>1. PICK i \in DOMAIN Checks(request.par) : Checks(request.par)[i] \notin DOMAIN data.at
    BY <1>3 DEF Failed
  <2>2. Checks(request.par)[i] \in Required
    BY <1>1, <2>1, MatrixReads
  <2>3. QED
    BY <1>2, <1>3, <2>1, <2>2 DEF GoodCell
<1>4. CASE ~(wanted \subseteq DOMAIN data.at)
  BY <1>1, <1>2, <1>4 DEF GoodCell
<1>5. CASE Failed(request.par) = {} /\ wanted \subseteq DOMAIN data.at
  <2> DEFINE b == IF Lacks(got) THEN Nothing ELSE Made(got)
  <2>1. MatrixOf(request.par, x) = b
    BY MatrixReads DEF MatrixOf
  <2>2. \A s \in wanted :
          /\ got[s] # Missing => /\ got[s].param = s /\ got[s].level = cursor.level
                                 /\ got[s].time = request.times[1] /\ got[s].place = x
          /\ /\ s \in DOMAIN data.at /\ x \in data.at[s]
             /\ Surrounds(Range(data.levels), cursor.level)
             /\ Covers(DOMAIN data.origin, request.times[1], MaxGap)
             => got[s] # Missing
    BY ReadingFacts
  <2>3. DOMAIN got = wanted
    OBVIOUS
  <2> HIDE DEF got, wanted
  <2>4. CASE Lacks(got)
    <3>1. PICK s \in wanted : got[s] = Missing
      BY <2>3, <2>4 DEF Lacks, Needed
    <3>2. b = Nothing
      BY <2>4
    <3>3. GoodCell(Nothing, x)
      BY <1>1, <1>2, <2>2, <3>1 DEF GoodCell
    <3>4. QED
      BY <1>5, <2>1, <3>2, <3>3 DEF wanted
  <2>5. CASE ~Lacks(got)
    <3>1. b.as = "value" /\ b.of = got
      BY <2>5 DEF Made
    <3> HIDE DEF b
    <3>2. GoodCell(b, x)
      BY <2>2, <2>3, <3>1 DEF GoodCell
    <3>3. QED
      BY <1>5, <2>1, <3>2 DEF wanted
  <2>6. QED
    BY <2>4, <2>5
<1>6. QED
  BY <1>3, <1>4, <1>5

(* A grid of good cells is an answer of good elements.                     *)
LEMMA CellsAreGood ==
  ASSUME Inv, step.pc = "next", request.do = "matrix", request.par \notin Independent,
         NEW cell, CellsAnswered(cell), \A x \in Place : GoodCell(cell[x], x),
         UNCHANGED <<data, lastpoint, request, selected>>
  PROVE  \A a \in answers' : Good(a)'
<1>1. StateType /\ LevelKept /\ data \in Dataset /\ ~IsSample /\ request.by = "cursor"
  BY DataAssumption DEF Inv, StateType, IsRequest, IsSample
<1>2. \A k : LevelExpected(k) = cursor.level
  BY <1>1 DEF LevelExpected, LevelKept
<1> SUFFICES ASSUME NEW i \in 1 .. Outer
             PROVE  Good(Answered((i - 1) * Inner + 1, cell[request.places[i]]))
  <2>1. answers' = {Answered((i - 1) * Inner + 1, cell[request.places[i]]) : i \in 1 .. Outer}
    BY DEF CellsAnswered
  <2>2. \A a : Good(a) => Good(a)'
    BY SameQuestion
  <2>3. QED
    BY <2>1, <2>2
<1> DEFINE k == (i - 1) * Inner + 1
           x == request.places[i]
           t == request.times[1]
           b == cell[x]
           a == Answered(k, b)
<1>3. PlaceOf(k) = x /\ x \in Place /\ TimeOf(k) = t /\ t \in Nat
  BY <1>1, CellFacts
<1>4. TimesExpected(t) = {t} /\ x \in PointsExpected(x)
  BY <1>1, <1>3, DateExpected DEF PointsExpected
<1>5. GoodCell(b, x)
  BY <1>3
<1>6. a.nth = k /\ a.place = x /\ a.time = t /\ a.as = b.as /\ a.of = b.of
  BY <1>3, AnsweredFields
<1> HIDE DEF a, b, k, x
<1>7. ASSUME a.as = "value" PROVE AsAsked(a)
  <2>1. \A s \in DOMAIN a.of :
          a.of[s] # Missing => /\ a.of[s].param = s /\ a.of[s].level = cursor.level
                               /\ a.of[s].time = t /\ a.of[s].place = x
    BY <1>5, <1>6, <1>7 DEF GoodCell
  <2>2. QED
    BY <1>2, <1>4, <1>6, <2>1 DEF AsAsked
<1>8. ASSUME a.as = "nothing" PROVE ~Available(a)
  <2>1. PICK s \in Required : ~ /\ s \in DOMAIN data.at /\ x \in data.at[s]
                                /\ Surrounds(Range(data.levels), cursor.level)
                                /\ Covers(DOMAIN data.origin, t, MaxGap)
    BY <1>5, <1>6, <1>8 DEF GoodCell
  <2>2. QED
    BY <1>2, <1>4, <1>6, <2>1 DEF Available
<1>9. Good(a)
  BY <1>7, <1>8 DEF Good, Excused
<1>10. QED
  BY <1>9 DEF a, b, k, x

LEMMA MatrixKeeps ==
  ASSUME Inv, Matrix
  PROVE  Inv'
<1>1. /\ StateType /\ LevelKept /\ step.pc = "next" /\ request.do = "matrix"
      /\ data \in Dataset /\ ~IsSample
      /\ UNCHANGED <<data, lastpoint, request, selected>>
  BY DEF Inv, Matrix, StateType, IsSample
<1>2. cursor'.level = selected /\ DOMAIN cursor' = DOMAIN cursor
  <2>1. cursor.level = selected /\ DOMAIN cursor = {"param", "level", "time"}
    BY <1>1 DEF LevelKept, StateType
  <2>2. cursor' = cursor \/ \E p : cursor' = [cursor EXCEPT !.param = p]
    BY DEF Matrix, MatrixComputed, MatrixOfData
  <2>3. QED
    BY <2>1, <2>2
<1>3. ASSUME step' = Idle(step.calls), \A a \in answers' : Good(a)', request.par \notin Independent
      PROVE  Inv'
  <2>1. step'.pc = "idle" /\ DOMAIN step' = {"pc", "k", "todo", "got", "calls"}
    BY <1>3 DEF Idle
  <2>2. StateType' /\ LevelKept' /\ ReadSoFar'
    BY <1>1, <1>2, <1>3, <2>1
    DEF StateType, LevelKept, ReadSoFar
  <2>3. QED
    BY <1>3, <2>2 DEF Inv
<1>4. CASE request.par \in InMatrix
  <2>1. MatrixComputed /\ step' = Idle(step.calls) /\ request.par \notin Independent
    BY <1>4 DEF Matrix, InMatrix, Independent
  <2> DEFINE cell == [x \in Place |->
               IF /\ Failed(request.par) = {}
                  /\ Range(Inputs(request.par)) \subseteq DOMAIN data.at
               THEN MatrixOf(request.par, x) ELSE Nothing]
  <2>2. CellsAnswered(cell)
    BY <2>1 DEF MatrixComputed
  <2>3. \A x \in Place : GoodCell(cell[x], x)
    BY <1>1, <1>4, ComputedCell
  <2> HIDE DEF cell
  <2>4. \A a \in answers' : Good(a)'
    BY <1>1, <2>1, <2>2, <2>3, CellsAreGood
  <2>5. QED
    BY <1>3, <2>1, <2>4
<1>5. CASE /\ request.par \notin InMatrix
           /\ request.par \notin Formula \cup Wind \cup Independent /\ request.par \in DOMAIN data.at
  <2>1. MatrixOfData /\ step' = Idle(step.calls)
    BY <1>5 DEF Matrix
  <2> DEFINE cell == [x \in Place |->
               Plain(request.par, Reading(request.par, cursor.level, request.times[1], x, MaxGap))]
  <2>2. CellsAnswered(cell)
    BY <2>1 DEF MatrixOfData
  <2>3. \A x \in Place : GoodCell(cell[x], x)
    BY <1>1, <1>5, DataCell
  <2> HIDE DEF cell
  <2>4. \A a \in answers' : Good(a)'
    BY <1>1, <1>5, <2>2, <2>3, CellsAreGood
  <2>5. QED
    BY <1>3, <1>5, <2>1, <2>4
<1>6. CASE /\ request.par \notin InMatrix
           /\ ~(/\ request.par \notin Formula \cup Wind \cup Independent
                /\ request.par \in DOMAIN data.at)
  <2>1. Throws
    BY <1>6 DEF Matrix
  <2>2. QED
    BY <1>1, <1>2, <2>1, ThrowingKeeps
<1>7. QED
  BY <1>4, <1>5, <1>6

-------------------------------------------------------------------------------
LEMMA InvStep ==
  Inv /\ [Next]_vars => Inv'
<1> SUFFICES ASSUME Inv, [Next]_vars PROVE Inv'
  OBVIOUS
<1>1. CASE \E p \in DOMAIN data.at \cup {NoParam} : SelectParam(p)
  BY <1>1, UserKeeps
<1>2. CASE \E t \in DOMAIN data.origin \cup {NoTime} : SelectTime(t)
  BY <1>2, UserKeeps
<1>3. CASE \E l \in Range(data.levels) \cup {NoLevel} : SelectLevel(l)
  BY <1>3, UserKeeps
<1>4. CASE MetaData
  BY <1>4, UserKeeps
<1>5. CASE \E r \in Request : Ask(r)
  BY <1>5, AskKeeps
<1>6. CASE SampleThrows \/ NoLevelThrows
  BY <1>6, SampleThrowsKeeps, NoLevelThrowsKeeps
<1>7. CASE Value \/ WindAsIs
  BY <1>7, ValueKeeps, WindAsIsKeeps
<1>8. CASE Begin \/ ReadInput \/ Compute
  BY <1>8, BeginKeeps, ReadInputKeeps, ComputeKeeps
<1>9. CASE OfPlaceAndTime \/ OriginTime
  BY <1>9, OfPlaceAndTimeKeeps, OriginTimeKeeps
<1>10. CASE Matrix
  BY <1>10, MatrixKeeps
<1>11. CASE UNCHANGED vars
  <2>1. \A a : Good(a) => Good(a)'
    BY <1>11, SameQuestion DEF vars
  <2>2. \A a \in answers' : Good(a)'
    BY <1>11, <2>1 DEF Inv, vars
  <2>3. StateType' = StateType /\ LevelKept' = LevelKept
    BY <1>11 DEF vars, StateType, LevelKept, Outer, Inner, IsSample,
      CanSample, LevelHere, SampledLevel, OuterOf
  <2>4. ReadSoFar' = ReadSoFar
    BY <1>11 DEF vars, ReadSoFar, IsComputed, IsSample, CanSample, SnowInData, ReadDirect,
      Reading, Found, PlaceOf, TimeOf, InnerOf, OuterOf, Inner
  <2>5. QED
    BY <2>2, <2>3, <2>4 DEF Inv
<1>12. QED
  BY <1>1, <1>2, <1>3, <1>4, <1>5, <1>6, <1>7, <1>8, <1>9, <1>10, <1>11 DEF Next

LEMMA InvHolds ==
  Spec => []Inv
BY InvInit, InvStep, PTL DEF Spec

(* Whatever the calls and selections before it, a value is made from the   *)
(* parameters it claims to be made from, at the level, on the day and at   *)
(* the place that were asked for (or at the nearest valid point): for      *)
(* every data, every list of places and times and any number of calls.     *)
THEOREM ValuesAreMadeAsAsked ==
  Spec => []MadeAsAsked
<1>1. Inv => MadeAsAsked
  BY GoodAnswers DEF Inv
<1>2. QED
  BY <1>1, InvHolds, PTL

(* A call does not answer nothing where the data have what it takes: no    *)
(* reading is left out or made somewhere else because of what an earlier   *)
(* element or call left selected.                                          *)
THEOREM AvailableIsAnswered ==
  Spec => []AnsweredWhenAvailable
<1>1. Inv => AnsweredWhenAvailable
  BY GoodAnswers DEF Inv
<1>2. QED
  BY <1>1, InvHolds, PTL
===============================================================================
