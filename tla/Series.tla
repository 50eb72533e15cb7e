-------------------------------- MODULE Series --------------------------------
(***************************************************************************)
(* A Q as its user sees it (querydata/Q.cpp): positions that the user and  *)
(* the calls themselves move, and calls that answer for lists of places    *)
(* and times, for a grid, or for a sample, from many readings of the data. *)
(*                                                                         *)
(* A Q reads the data where its cursor, itsInfo, is: the parameter, level  *)
(* and time that were selected last.  A value is known here by what was    *)
(* read for it: the parameter, level, time and place of each reading; the  *)
(* interpolation itself is newbase's.                                      *)
(*                                                                         *)
(* Times are dates, numbered year by year with the end of February only:   *)
(* 10 * year + 1, 2 and 3 for the 28th, the 29th and the 1st of March.     *)
(* Values is about the search for the nearest valid point; here that point *)
(* is a constant.                                                          *)
(***************************************************************************)
EXTENDS Naturals, Sequences, FiniteSets, SequencesExt, FiniteSetsExt

CONSTANTS
  Dataset,     \* what a Q may be of
  Place,       \* locations, which are grid points too
  NearestOf,   \* Model::validPoint of a location, perhaps Nowhere
  AngleAt,     \* the direction of the grid's north at a location
  Request,     \* the calls that are made
  MaxCalls     \* bound: how many calls one after another

Nowhere == "nowhere"

NoParam == "no parameter"

NoLevel == 0

NoTime == 0

(* Gaps in time are in minutes; the dates are steps of StepMinutes.        *)
MaxGap == 360

StepMinutes == 180

(* The parameters by their types: those that are computed, those of places *)
(* and times alone, and the others, which are those of the data.           *)
Wind == {"WindUMS", "WindVMS"}

Formula == {"WindChill", "SummerSimmerIndex", "FeelsLike", "ApparentTemperature",
            "Snow1hLower", "Snow1hUpper", "Snow1h", "WeatherSymbol", "Cloudiness8th"}

Independent == {"NearLatLon", "Level", "OriginTime", "SunElevation"}

(* The data of a Q: parameters with the places that have them, times with  *)
(* the origin time of the model they are in, levels by their values.       *)
IsData(d) ==
  /\ \A p \in DOMAIN d.at : d.at[p] \subseteq Place
  /\ DOMAIN d.at \cap ({NoParam} \cup Independent) = {}
  /\ DOMAIN d.origin \subseteq Nat \ {NoTime} /\ Range(d.origin) \subseteq Nat
  /\ DOMAIN d.origin # {} /\ d.levels # <<>>
  /\ d.climatology => \E o \in Range(d.origin) : Range(d.origin) = {o}
  /\ d.levels \in Seq(Nat \ {NoLevel}) /\ IsInjective(d.levels)
  /\ {d.surface, d.climatology, d.relative} \subseteq BOOLEAN

(* A call is for some places and times.  A grid or a sample is of one time *)
(* and of the levels that the Q has.                                       *)
IsRequest(r) ==
  /\ r.do \in {"values", "matrix", "sample"} /\ r.by \in {"cursor", "level"}
  /\ r.places \in Seq(Place) /\ r.times \in Seq(Nat) /\ r.level \in Nat /\ r.nearest \in BOOLEAN
  /\ r.places # <<>> /\ r.times # <<>>
  /\ r.do # "values" => r.by = "cursor" /\ Len(r.times) = 1

ASSUME DataAssumption ==
  /\ Nowhere \notin Place
  /\ \A d \in Dataset : IsData(d)
  /\ NearestOf \in [Place -> Place \cup {Nowhere}]
  /\ AngleAt \in [Place -> {"none", "zero", "turned"}]
  /\ \A r \in Request : IsRequest(r)
  /\ MaxCalls \in Nat

VARIABLES
  data,        \* what the Q is of
  cursor,      \* itsInfo: the selected parameter, level and time
  lastpoint,   \* the caller's point that ParameterOptions::lastpoint refers to
  request,     \* the call
  step,        \* where it is
  answers,     \* what it has answered
  selected     \* history: the level that the user last moved to

vars == <<data, cursor, lastpoint, request, step, answers, selected>>

NotAsked ==
  [do |-> "none", par |-> NoParam, by |-> "cursor", places |-> <<>>, times |-> <<>>,
   level |-> NoLevel, nearest |-> FALSE]

Idle(calls) == [pc |-> "idle", k |-> 1, todo |-> <<>>, got |-> << >>, calls |-> calls]

TypeOK ==
  /\ data \in Dataset
  /\ cursor.param \in DOMAIN data.at \cup {NoParam}
  /\ cursor.level \in Range(data.levels) \cup {NoLevel}
  /\ cursor.time \in DOMAIN data.origin \cup {NoTime}
  /\ lastpoint \in Place \cup {Nowhere}
  /\ request \in Request \cup {NotAsked}
  /\ step.pc \in {"idle", "next", "reading"} /\ step.calls \in 0 .. MaxCalls
  /\ selected \in Range(data.levels) \cup {NoLevel}

(* A new Q is at the first parameter, level and time (see InfoPool).       *)
Init ==
  /\ data \in Dataset
  /\ \E p \in DOMAIN data.at :
       cursor = [param |-> p, level |-> data.levels[1], time |-> Min(DOMAIN data.origin)]
  /\ lastpoint = Nowhere
  /\ request = NotAsked
  /\ step = Idle(0)
  /\ answers = {}
  /\ selected = cursor.level

-------------------------------------------------------------------------------
(* The user, who has the answers, moves the cursor.  What is not there     *)
(* cannot be selected, and then nothing is: selectLevel has passed all     *)
(* levels.                                                                 *)
Found(p) == IF p \in DOMAIN data.at THEN p ELSE NoParam

Between == step.pc = "idle" /\ step.calls < MaxCalls

SelectParam(p) ==
  /\ Between
  /\ cursor' = [cursor EXCEPT !.param = Found(p)]
  /\ answers' = {}
  /\ UNCHANGED <<data, lastpoint, request, step, selected>>

SelectTime(t) ==
  /\ Between
  /\ cursor' = [cursor EXCEPT !.time = IF t \in DOMAIN data.origin THEN t ELSE NoTime]
  /\ answers' = {}
  /\ UNCHANGED <<data, lastpoint, request, step, selected>>

SelectLevel(l) ==
  /\ Between
  /\ selected' = IF l \in Range(data.levels) THEN l ELSE NoLevel
  /\ cursor' = [cursor EXCEPT !.level = selected']
  /\ answers' = {}
  /\ UNCHANGED <<data, lastpoint, request, step>>

(* metaData() passes all times, parameters and levels.                     *)
MetaData ==
  /\ Between
  /\ cursor' = [param |-> NoParam, level |-> NoLevel, time |-> NoTime]
  /\ selected' = NoLevel
  /\ answers' = {}
  /\ UNCHANGED <<data, lastpoint, request, step>>

-------------------------------------------------------------------------------
(* Readings.  Data have values at their times, and between two that are no *)
(* more than the gap apart; at their levels, and when a level is asked for *)
(* between them too.                                                       *)
Covers(set, n, gap) == \E a, b \in set : a <= n /\ n <= b /\ StepMinutes * (b - a) <= gap

Surrounds(set, n) == \E a, b \in set : a <= n /\ n <= b

Missing == [param |-> NoParam, level |-> NoLevel, time |-> NoTime, place |-> Nowhere]

Reading(p, l, t, x, gap) ==
  IF /\ p \in DOMAIN data.at /\ x \in data.at[p]
     /\ Surrounds(Range(data.levels), l) /\ Covers(DOMAIN data.origin, t, gap)
  THEN [param |-> p, level |-> l, time |-> t, place |-> x]
  ELSE Missing

(* A call begins; it answers for every place, and for every time of each;  *)
(* a sample, for every level and every place of each.                      *)
Ask(r) ==
  /\ Between
  /\ request' = r
  /\ answers' = {}
  /\ step' = [Idle(step.calls + 1) EXCEPT !.pc = "next"]
  /\ UNCHANGED <<data, cursor, lastpoint, selected>>

IsSample == request.do = "sample"

Inner == IF IsSample THEN Len(request.places) ELSE Len(request.times)

Outer == IF IsSample THEN Len(data.levels) ELSE Len(request.places)

OuterOf(k) == (k - 1) \div Inner + 1

InnerOf(k) == ((k - 1) % Inner) + 1

PlaceOf(k) == request.places[IF IsSample THEN InnerOf(k) ELSE OuterOf(k)]

TimeOf(k) == request.times[IF IsSample THEN 1 ELSE InnerOf(k)]

(* sample() moves the cursor to each level in turn.                        *)
SampledLevel == data.levels[OuterOf(step.k)]

LevelHere == IF IsSample THEN SampledLevel ELSE cursor.level

LevelAsked == IF request.by = "level" THEN request.level ELSE LevelHere

(* What is answered for an element: the readings it was made from, by the  *)
(* parameters they stand for.                                              *)
Nothing == [as |-> "nothing", of |-> << >>]

Made(got) == [as |-> "value", of |-> got]

Plain(p, r) == IF r = Missing THEN Nothing ELSE Made([s \in {p} |-> r])

Answered(k, a) == [nth |-> k, place |-> PlaceOf(k), time |-> TimeOf(k), as |-> a.as, of |-> a.of]

IsLast(k) == k = Outer * Inner

Answer(a) ==
  /\ answers' = answers \cup {Answered(step.k, a)}
  /\ step' = IF IsLast(step.k)
             THEN Idle(step.calls)
             ELSE [step EXCEPT !.pc = "next", !.k = step.k + 1, !.todo = <<>>, !.got = << >>]
  /\ selected' = IF IsSample /\ IsLast(step.k) THEN LevelHere ELSE selected

Throws ==
  /\ answers' = {[nth |-> 1, place |-> Nowhere, time |-> NoTime, as |-> "throws", of |-> << >>]}
  /\ step' = Idle(step.calls)

(* A sample is made of a parameter the data have and a time inside them.   *)
CanSample == request.par \in DOMAIN data.at /\ Surrounds(DOMAIN data.origin, request.times[1])

SampleThrows ==
  /\ step.pc = "next" /\ IsSample /\ ~CanSample
  /\ cursor' = [cursor EXCEPT !.param = Found(request.par)]
  /\ Throws
  /\ UNCHANGED <<data, lastpoint, request, selected>>

NextValue == step.pc = "next" /\ request.do # "matrix" /\ (IsSample => CanSample)

-------------------------------------------------------------------------------
(* Parameters of the data.  A climatology is asked about its own year,     *)
(* where the 29th of February may be the 28th.                             *)
Year(t) == t \div 10

Day(t) == t % 10

IsLeapYear(year) == year % 4 = 0 /\ year % 100 # 0

DateInData(t) ==
  LET year == Year(Min(Range(data.origin)))
  IN  IF ~data.climatology THEN t
      ELSE 10 * year + IF Day(t) = 2 /\ ~IsLeapYear(year) THEN 1 ELSE Day(t)

(* Interpolated at the location; or else at the nearest valid point.       *)
ReadNearest(p, l, t, x) ==
  LET here == Reading(p, l, t, x, MaxGap)
  IN  IF here = Missing /\ request.nearest /\ NearestOf[x] # Nowhere /\ ~IsSample
      THEN Reading(p, l, t, NearestOf[x], MaxGap)
      ELSE here

(* Levels are asked of data that have them; climatologies do not.          *)
HasLevels == ~data.surface /\ ~data.climatology

DataValue(x) == ReadNearest(Found(request.par), LevelHere, DateInData(TimeOf(step.k)), x)

ValueAtLevel(x) ==
  IF HasLevels THEN ReadNearest(Found(request.par), request.level, TimeOf(step.k), x)
  ELSE Missing

(* The point that all values of a caller share is the asked one until      *)
(* another one has the value.  A sample has a point of its own.            *)
Value ==
  /\ NextValue /\ request.par \notin Formula \cup Wind \cup Independent
  /\ cursor' = [cursor EXCEPT !.param = Found(request.par), !.level = LevelHere]
  /\ LET x == PlaceOf(step.k)
         r == IF request.by = "level" THEN ValueAtLevel(x) ELSE DataValue(x)
     IN  /\ Answer(Plain(request.par, r))
         /\ lastpoint' = IF IsSample THEN lastpoint
                         ELSE IF r.place \in {x, Nowhere} THEN x ELSE r.place
  /\ UNCHANGED <<data, request>>

(* Winds that need not be turned are read like parameters of the data, but *)
(* the caller's point stays that of an earlier value, unless another one   *)
(* had to be found here; at a level, it stays anyway.                      *)
AsIs ==
  data.relative => request.by = "level" /\ ~(HasLevels /\ request.par \in DOMAIN data.at)

WindAsIs ==
  /\ NextValue /\ request.par \in Wind /\ AsIs
  /\ cursor' = [cursor EXCEPT !.param = Found(request.par), !.level = LevelHere]
  /\ LET x == PlaceOf(step.k)
         r == IF request.by = "level" THEN ValueAtLevel(x) ELSE DataValue(x)
     IN  /\ Answer(Plain(request.par, r))
         /\ lastpoint' = IF r.place \in {x, Nowhere} \/ request.by = "level" \/ IsSample
                         THEN lastpoint ELSE r.place
  /\ UNCHANGED <<data, request>>

-------------------------------------------------------------------------------
(* Computed parameters: what each is computed from, in the order in which  *)
(* the parameters are selected and read.                                   *)
Inputs(par) ==
  CASE par = "WindChill" -> <<"WindSpeedMS", "Temperature">>
    [] par = "SummerSimmerIndex" -> <<"Humidity", "Temperature">>
    [] par = "FeelsLike" -> <<"Humidity", "WindSpeedMS", "Temperature", "RadiationGlobal">>
    [] par = "ApparentTemperature" -> <<"Humidity", "WindSpeedMS", "Temperature">>
    [] par \in {"Snow1hLower", "Snow1hUpper"} -> <<"Precipitation1h">>
    [] par = "Snow1h" -> <<"Temperature", "WindSpeedMS", "Precipitation1h">>
    [] par = "WeatherSymbol" -> <<"WeatherSymbol3">>
    [] par = "Cloudiness8th" -> <<"TotalCloudCover">>
    [] par = "WindUMS" -> <<"WindUMS", "WindVMS">>
    [] par = "WindVMS" -> <<"WindVMS", "WindUMS">>

Optional == {"RadiationGlobal"}

(* Formulas are not computed at levels that are asked for; winds are not   *)
(* turned where the direction of north is unknown; and the snow that the   *)
(* data have is answered by the truth that they have it, which is no       *)
(* number that a sample could store.                                       *)
SnowInData == request.par = "Snow1h" /\ request.par \in DOMAIN data.at

Refused ==
  \/ request.par \in Formula /\ request.by = "level"
  \/ request.par \in Wind /\ AngleAt[PlaceOf(step.k)] = "none"

Begin ==
  /\ NextValue /\ request.par \in Formula \cup Wind /\ (request.par \in Wind => ~AsIs)
  /\ cursor' = [cursor EXCEPT !.level = LevelHere,
                  !.param = IF \/ SnowInData /\ ~Refused
                               \/ request.par \in Wind /\ request.by = "level"
                               \/ IsSample
                            THEN request.par ELSE @]
  /\ IF Refused THEN Answer(Nothing)
     ELSE IF SnowInData
     THEN Answer(IF IsSample THEN Nothing ELSE [as |-> "true", of |-> << >>])
     ELSE /\ step' = [step EXCEPT !.pc = "reading", !.todo = Inputs(request.par)]
          /\ UNCHANGED <<answers, selected>>
  /\ UNCHANGED <<data, lastpoint, request>>

(* One parameter is selected and read at the asked time: no climatology's  *)
(* year here.  At a level, the level and the gap are taken for each other. *)
InputKept(s) == IF cursor.param = NoParam THEN Found(s) ELSE cursor.param

InputSelected(s) == Found(s)

ReadDirect(p) ==
  LET x == PlaceOf(step.k)
      t == TimeOf(step.k)
  IN  IF request.by = "level"
      THEN Reading(p, MaxGap, t, x, request.level)
      ELSE Reading(p, cursor.level, t, x, MaxGap)

GotToo(s, r) == [q \in DOMAIN step.got \cup {s} |-> IF q = s THEN r ELSE step.got[q]]

Incomplete == Missing \in Range(step.got)

ReadInput ==
  /\ step.pc = "reading" /\ step.todo # <<>>
  /\ LET s == Head(step.todo)
         p == InputSelected(s)
         turned == request.par \in Wind => AngleAt[PlaceOf(step.k)] = "turned"
     IN  /\ ~(Incomplete /\ s \in Optional)
         /\ cursor' = [cursor EXCEPT !.param = p]
         /\ IF s \in DOMAIN data.at \cup Optional
            THEN /\ step' = [step EXCEPT !.todo = IF turned THEN Tail(step.todo) ELSE <<>>,
                                         !.got = GotToo(s, ReadDirect(p))]
                 /\ UNCHANGED <<answers, selected>>
            ELSE Answer(Nothing)
  /\ UNCHANGED <<data, lastpoint, request>>

(* Computed, unless a parameter that must be there is missing; radiation   *)
(* need not.                                                               *)
NeededAll(got) == DOMAIN got

Needed(got) == DOMAIN got \ Optional

Lacks(got) == \E s \in Needed(got) : got[s] = Missing

Compute ==
  /\ step.pc = "reading"
  /\ step.todo # <<>> => Incomplete /\ Head(step.todo) \in Optional
  /\ Answer(IF Lacks(step.got) THEN Nothing ELSE Made(step.got))
  /\ UNCHANGED <<data, cursor, lastpoint, request>>

-------------------------------------------------------------------------------
(* Parameters that do not depend on the data of a place: the point that    *)
(* lastpoint is, the level, the origin time, and what only place and time  *)
(* determine (names, the sun, the moon, dates).  The level of the cursor   *)
(* is wanted for each of them, and there must be one.                      *)
Independently == NextValue /\ request.par \in Independent

NoLevelThrows ==
  /\ Independently /\ LevelAsked = NoLevel
  /\ Throws
  /\ UNCHANGED <<data, cursor, lastpoint, request, selected>>

Stated(place, level, time) ==
  LET said == [param |-> request.par, level |-> level, time |-> time, place |-> place]
  IN  Made([s \in {request.par} |-> said])

OfPlaceAndTime ==
  /\ Independently /\ LevelAsked # NoLevel /\ request.par # "OriginTime"
  /\ Answer(CASE request.par = "NearLatLon" -> Stated(lastpoint, NoLevel, NoTime)
              [] request.par = "Level" -> Stated(Nowhere, LevelAsked, NoTime)
              [] OTHER -> Stated(PlaceOf(step.k), NoLevel, TimeOf(step.k)))
  /\ UNCHANGED <<data, cursor, lastpoint, request>>

(* The origin time of the model that has the asked time or else of the one *)
(* that has the first time after it; the cursor moves there.               *)
TimesFrom(t) == {u \in DOMAIN data.origin : u >= t}

OriginTime ==
  /\ Independently /\ LevelAsked # NoLevel /\ request.par = "OriginTime"
  /\ LET later == TimesFrom(TimeOf(step.k))
     IN  IF later = {}
         THEN /\ cursor' = [cursor EXCEPT !.time = NoTime]
              /\ Answer(Nothing)
         ELSE /\ cursor' = [cursor EXCEPT !.time = Min(later)]
              /\ Answer(Stated(Nowhere, NoLevel, data.origin[Min(later)]))
  /\ UNCHANGED <<data, lastpoint, request>>

-------------------------------------------------------------------------------
(* Values at all grid points.  A computed parameter first checks that its  *)
(* parameters are there, in order up to one that is not.  The check leaves *)
(* the last of them selected, which is the first to be read, as            *)
(* temperature; the others are selected again.                             *)
InMatrix == {"WindChill", "SummerSimmerIndex", "FeelsLike", "ApparentTemperature"}

Checks(par) == IF Last(Inputs(par)) \in Optional THEN Front(Inputs(par)) ELSE Inputs(par)

Failed(par) == {i \in DOMAIN Checks(par) : Checks(par)[i] \notin DOMAIN data.at}

LastChecked(par) == Last(Checks(par))

MatrixOf(par, x) ==
  LET wanted == Range(Inputs(par))
      read(s) == IF s = "Temperature" THEN LastChecked(par) ELSE s
      got == [s \in wanted |-> Reading(read(s), cursor.level, request.times[1], x, MaxGap)]
  IN  IF Lacks(got) THEN Nothing ELSE Made(got)

CellsAnswered(cell) ==
  answers' = {Answered((i - 1) * Inner + 1, cell[request.places[i]]) : i \in 1 .. Outer}

MatrixComputed ==
  /\ CellsAnswered([x \in Place |->
       IF /\ Failed(request.par) = {}
          /\ Range(Inputs(request.par)) \subseteq DOMAIN data.at
       THEN MatrixOf(request.par, x) ELSE Nothing])
  /\ cursor' = [cursor EXCEPT !.param =
                  IF Failed(request.par) # {} THEN NoParam
                  ELSE IF request.par = "FeelsLike" THEN Found("RadiationGlobal")
                  ELSE Last(Front(Checks(request.par)))]

MatrixOfData ==
  /\ CellsAnswered([x \in Place |->
       Plain(request.par, Reading(request.par, cursor.level, request.times[1], x, MaxGap))])
  /\ cursor' = [cursor EXCEPT !.param = request.par]

Matrix ==
  /\ step.pc = "next" /\ request.do = "matrix"
  /\ IF request.par \in InMatrix
     THEN MatrixComputed /\ step' = Idle(step.calls)
     ELSE IF request.par \notin Formula \cup Wind \cup Independent /\ request.par \in DOMAIN data.at
     THEN MatrixOfData /\ step' = Idle(step.calls)
     ELSE /\ Throws
          /\ cursor' = IF request.par \in Formula \cup Wind \cup Independent
                       THEN cursor ELSE [cursor EXCEPT !.param = NoParam]
  /\ UNCHANGED <<data, lastpoint, request, selected>>

-------------------------------------------------------------------------------
Next ==
  \/ \E p \in DOMAIN data.at \cup {NoParam} : SelectParam(p)
  \/ \E t \in DOMAIN data.origin \cup {NoTime} : SelectTime(t)
  \/ \E l \in Range(data.levels) \cup {NoLevel} : SelectLevel(l)
  \/ MetaData
  \/ \E r \in Request : Ask(r)
  \/ SampleThrows \/ Value \/ WindAsIs
  \/ Begin \/ ReadInput \/ Compute
  \/ NoLevelThrows \/ OfPlaceAndTime \/ OriginTime
  \/ Matrix

Spec == Init /\ [][Next]_vars

-------------------------------------------------------------------------------
(* What the user may expect, from the request and the data alone.          *)
IsComputed == request.par \in Formula \/ (request.par \in Wind /\ data.relative)

TurnedAtLevel == request.par \in Wind /\ data.relative /\ request.by = "level"

LevelExpected(k) ==
  IF IsSample THEN data.levels[OuterOf(k)]
  ELSE IF request.by = "level" THEN request.level ELSE selected

Exists(t) == Day(t) = 2 => Year(t) % 4 = 0 /\ (Year(t) % 100 # 0 \/ Year(t) % 400 = 0)

(* The time at which a value may be read for an asked one: in climatology  *)
(* the same day of its year, or the day before when that year has no 29th  *)
(* of February.  Two things are not asked for that src/README.md:93        *)
(* promises ("the data can be queried for any year"): that formulas and    *)
(* matrices move to the year of the climatology, and that a year divisible *)
(* by 400 has its 29th.                                                    *)
TimesExpected(t) ==
  IF data.climatology /\ ~IsComputed /\ request.do # "matrix" /\ request.by = "cursor"
  THEN LET year == Year(Min(Range(data.origin)))
           same == 10 * year + Day(t)
           before == IF Day(t) = 2 /\ (~Exists(same) \/ year % 400 = 0)
                     THEN {10 * year + 1} ELSE {}
       IN  {u \in {same} \cup before : Exists(u)}
  ELSE {t}

PointsExpected(x) == IF request.nearest /\ ~IsComputed THEN {x, NearestOf[x]} ELSE {x}

(* A value is made from the parameters that it claims to be made from, all *)
(* read at the level, on the day and at the place that were asked for, or  *)
(* at the nearest valid point: whatever the calls before it, and the other *)
(* elements of this one, left selected.  (Winds that are turned at a level *)
(* are read at another one: WindsAtLevelAsked.)                            *)
MadeAsAsked ==
  \A a \in {b \in answers : b.as = "value"} : \A s \in DOMAIN a.of :
    LET r == a.of[s]
    IN  IF request.par \in Independent
        THEN request.par = "Level" => r.level = LevelExpected(a.nth)
        ELSE r # Missing => /\ r.param = s
                            /\ r.level = LevelExpected(a.nth) \/ TurnedAtLevel
                            /\ r.time \in TimesExpected(a.time)
                            /\ r.place \in PointsExpected(a.place)

(* There is an answer whenever the data have what it takes: every required *)
(* parameter, at the place and on the day, and at the level.  (Not covered *)
(* are parameters that the code computes at no level, winds at levels, and *)
(* the two that are treated specially: Snow1h that the data have, and      *)
(* FeelsLike as a matrix, which wants the radiation that a value does not.)*)
Required ==
  IF IsComputed
  THEN Range(Inputs(request.par)) \ (IF request.do = "matrix" THEN {} ELSE Optional)
  ELSE {request.par}

Available(a) ==
  \A s \in Required :
    /\ s \in DOMAIN data.at /\ a.place \in data.at[s]
    /\ Surrounds(Range(data.levels), LevelExpected(a.nth))
    /\ \A t \in TimesExpected(a.time) : Covers(DOMAIN data.origin, t, MaxGap)

Special ==
  \/ request.par \in Independent \/ SnowInData
  \/ request.by = "level" /\ (request.par \in Formula \/ TurnedAtLevel \/ ~HasLevels)

AnsweredWhenAvailable ==
  \A a \in {b \in answers : b.as = "nothing"} :
    ~Special /\ Available(a) => request.par \in Wind /\ data.relative /\ AngleAt[a.place] = "none"

(* Not true of the code: winds at a level are read at the asked level.     *)
WindsAtLevelAsked ==
  \A a \in {b \in answers : b.as = "value"} : TurnedAtLevel =>
    \A s \in DOMAIN a.of : a.of[s].level = request.level

(* Not true of the code: what NearLatLon tells for a location is the       *)
(* location, or the nearest valid point of it.  The last point is one for  *)
(* all locations of a list, and no wind or formula sets it.                *)
NearPointOfPlace ==
  \A a \in answers : a.as = "value" /\ request.par = "NearLatLon" =>
    a.of[request.par].place \in {a.place, NearestOf[a.place]}
===============================================================================
