-------------------------------- MODULE Values --------------------------------
(***************************************************************************)
(* What a Q answers to a request for one value: QImpl::value,              *)
(* valueAtPressure and valueAtHeight (querydata/Q.cpp), with the search    *)
(* for the nearest valid grid point (Model::validPoint, Model.cpp).        *)
(*                                                                         *)
(* The grid is a plane with Spacing units between neighbours, and distance *)
(* is Euclidean: squares of distances are compared.  Point <<0, 0>> is the *)
(* grid point that is nearest to the location; points outside the grid     *)
(* have no data, and are further away the further out they are.            *)
(***************************************************************************)
EXTENDS WeatherSymbols

CONSTANTS
  Spacing,       \* the distance of neighbouring grid points
  Offset,        \* where the location may be, from the nearest grid point
  Radius,        \* distances within which a valid point is searched
  Point,         \* grid points that may have data
  Valid,         \* bound: the sets of them that do, when not all
  Weather        \* what may be interpolated at the location, for derived parameters

ASSUME GridAssumption ==
  /\ Spacing \in Nat \ {0} /\ Radius \subseteq Nat
  /\ Valid \subseteq SUBSET Point
  /\ Point \subseteq Int \X Int /\ <<0, 0>> \in Point /\ Offset \subseteq Int \X Int
  /\ \A o \in Offset : \A k \in {1, 2} : -Spacing <= 2 * o[k] /\ 2 * o[k] <= Spacing

ASSUME WeatherAssumption == Weather \subseteq Interpolated

VARIABLES
  request,    \* what is asked, and the data there are for it
  search,     \* the loops of validPoint
  answer      \* the value, or how it is found; and opt.lastpoint

valueVars == <<request, search, answer>>

Square(n) == n * n

Distance(p) == Square(Spacing * p[1] - request.at[1]) + Square(Spacing * p[2] - request.at[2])

Nowhere == <<"nowhere">>

Here == <<"here">>

(* A request for a parameter of the data: the points with valid data of    *)
(* any parameter and of this one, whether it can be interpolated at the    *)
(* location, whether a nearest valid point is wanted, whether the model    *)
(* has a grid with a point near the location (grid), and all of it (full), *)
(* and a time near the asked one (timely), and whether a level is asked of *)
(* surface data.                                                           *)
SomePoints ==
  [kind : {"data"}, at : Offset, radius : Radius, any : Valid, own : {Point, {<<0, 0>>}},
   here : {FALSE}, nearest : {TRUE}, grid : {TRUE}, full : {FALSE}, timely : BOOLEAN,
   noLevel : {FALSE}]

AllPoints ==
  [kind : {"data"}, at : Offset, radius : Radius, any : {Point}, own : {Point},
   here : BOOLEAN, nearest : BOOLEAN, grid : BOOLEAN, full : BOOLEAN, timely : BOOLEAN,
   noLevel : BOOLEAN]

WeatherRequest == [kind : {"weather"}, data : Weather, dark : BOOLEAN]

CompassRequest == [kind : {"compass"}, direction : 0 .. 64, sectors : {8, 16, 32}]

Unsearched == [x |-> 1, y |-> 1, best |-> 0, point |-> Nowhere]

ValueTypeOK ==
  /\ \/ request \in SomePoints
     \/ request \in AllPoints
     \/ request \in WeatherRequest
     \/ request \in CompassRequest
  /\ search.x \in Nat /\ search.y \in Nat /\ search.best \in Nat
  /\ search.point \in Point \cup {Nowhere}
  /\ answer.pc \in {"asked", "find", "row", "column", "found", "answered"}
  /\ {answer.point, answer.last} \subseteq Point \cup {Nowhere, Here}
  /\ answer.number \in IF request.kind = "compass" THEN 0 .. request.sectors - 1 ELSE Nat

ValueInit ==
  /\ \/ request \in SomePoints
     \/ request \in AllPoints
     \/ request \in WeatherRequest
     \/ request \in CompassRequest
  /\ search = Unsearched
  /\ answer = [pc |-> "asked", point |-> Nowhere, last |-> Here, number |-> NoSymbol]

-------------------------------------------------------------------------------
(* Derived parameters.                                                     *)
Derive ==
  /\ answer.pc = "asked" /\ request.kind # "data"
  /\ answer' = [answer EXCEPT !.pc = "answered",
                  !.number = IF request.kind = "weather"
                             THEN SmartSymbolNumber(request.data, request.dark)
                             ELSE Compass(request.direction, request.sectors)]
  /\ UNCHANGED <<request, search>>

(* Parameters of the data: interpolated at the location; or else, when the *)
(* caller wants it, searched.  Surface data have no values at levels.      *)
Interpolate ==
  /\ answer.pc = "asked" /\ request.kind = "data"
  /\ answer' = IF request.here /\ ~request.noLevel
               THEN [answer EXCEPT !.pc = "answered", !.point = Here]
               ELSE [answer EXCEPT !.pc = IF request.nearest /\ ~request.noLevel
                                          THEN "find" ELSE "answered"]
  /\ UNCHANGED <<request, search>>

-------------------------------------------------------------------------------
(* Model::validPoint.  With a full grid the nearest point will do, when it *)
(* is near enough; otherwise two nested loops move away from it, rows in   *)
(* the outer one, to both sides in turns: 0, -1, 1, -2, 2, ...  A loop     *)
(* ends at the first point that is farther than the best so far.  Without  *)
(* a point near the location, or a time, nothing is found.                 *)
Zigzag(n) == (2 * (n % 2) - 1) * (n \div 2)

TooFar(p) == Distance(p) > search.best

Ringed == request.grid /\ ~request.full /\ request.timely

FindNearest ==
  /\ answer.pc = "find"
  /\ LET start == [Unsearched EXCEPT !.best = Square(request.radius)]
     IN  search' = IF request.grid /\ request.full /\ Distance(<<0, 0>>) <= start.best
                   THEN [start EXCEPT !.point = <<0, 0>>] ELSE start
  /\ answer' = [answer EXCEPT !.pc = IF Ringed THEN "row" ELSE "found"]
  /\ UNCHANGED request

Row ==
  /\ answer.pc = "row"
  /\ IF TooFar(<<0, Zigzag(search.y)>>)
     THEN answer' = [answer EXCEPT !.pc = "found"] /\ search' = search
     ELSE answer' = [answer EXCEPT !.pc = "column"] /\ search' = [search EXCEPT !.x = 1]
  /\ UNCHANGED request

FarthestSoFar(p) == [search EXCEPT !.x = @ + 1, !.point = p]

NearestSoFar(p) == [search EXCEPT !.x = @ + 1, !.point = p, !.best = Distance(p)]

Column ==
  /\ answer.pc = "column"
  /\ LET p == <<Zigzag(search.x), Zigzag(search.y)>>
     IN  IF TooFar(p)
         THEN answer' = [answer EXCEPT !.pc = "row"] /\ search' = [search EXCEPT !.y = @ + 1]
         ELSE /\ search' = IF p \in request.any THEN NearestSoFar(p)
                                                ELSE [search EXCEPT !.x = @ + 1]
              /\ answer' = answer
  /\ UNCHANGED request

(* The valid point has data of some parameter; the value is that of the    *)
(* requested one, and the point is remembered only when there is one.      *)
TakesAny(p) == p # Nowhere

Takes(p) == p \in request.own

Found ==
  /\ answer.pc = "found"
  /\ answer' = IF Takes(search.point)
               THEN [answer EXCEPT !.pc = "answered", !.point = search.point,
                                   !.last = search.point]
               ELSE [answer EXCEPT !.pc = "answered"]
  /\ UNCHANGED <<request, search>>

-------------------------------------------------------------------------------
ValueNext == Derive \/ Interpolate \/ FindNearest \/ Row \/ Column \/ Found

ValueSpec == ValueInit /\ [][ValueNext]_valueVars

-------------------------------------------------------------------------------
IsData == request.kind = "data" /\ answer.pc = "answered"

IsWeather == request.kind = "weather" /\ answer.pc = "answered"

InReach == {p \in request.any : Distance(p) <= Square(request.radius)}

Closest == {p \in InReach : \A q \in InReach : Distance(p) <= Distance(q)}

(* A value that is not of the location is of a point within the distance   *)
(* the caller allows, that has this parameter; and the caller is told the  *)
(* point if and only if the value is from there.                           *)
NearestIsValid ==
  IsData => /\ answer.point \notin {Here, Nowhere} =>
                 /\ answer.point \in request.own \cap InReach
                 /\ answer.last = answer.point
            /\ answer.point \in {Here, Nowhere} => answer.last = Here

(* The search finds the closest valid point, and one whenever there is one *)
(* in reach, for locations that are at a grid point.                       *)
ClosestFromGridPoint ==
  answer.pc = "found" /\ request.at = <<0, 0>> /\ Ringed =>
    IF InReach = {} THEN search.point = Nowhere ELSE search.point \in Closest

(* WeatherNumber is a basis for SmartSymbol: the symbol can be told from   *)
(* the digits of the number alone, when each parameter has a digit of its  *)
(* own: codes of more than one digit run into the next one, 9 says that    *)
(* there is none, and the fraction of a fog intensity is cut off.          *)
SymbolOfNumber(n) ==
  LET At(k) == (n \div k) % 10
      thunder == At(1000000)
      form == At(100000)
      cloud == At(10)
      rain == At(1000)
      sky == IF cloud < 6 THEN 1 ELSE IF cloud < 8 THEN 4 ELSE 7
      strength(limit) == IF rain < 3 THEN 0 ELSE IF rain < limit THEN 1 ELSE 2
  IN  IF cloud = 9 THEN NoSymbol
      ELSE IF thunder \in {1, 2} THEN 70 + sky
      ELSE IF rain = 9 THEN NoSymbol
      ELSE IF rain = 0
      THEN IF At(100) \notin {0, 9} THEN 9 ELSE <<1, 1, 2, 4, 4, 4, 6, 6, 7>>[cloud + 1]
      ELSE IF form = 9 THEN NoSymbol
      ELSE IF form \in {0, 4, 5, 7, 8} THEN <<11, 0, 0, 0, 14, 17, 0, 57, 57>>[form + 1]
      ELSE IF form = 1 /\ At(10000) = 2 THEN 20 + sky
      ELSE <<30 + strength(6), 40 + strength(4), 50 + strength(4), 0, 0, 60>>[form] + sky

HasDigits(d) ==
  /\ Either(d.potForm, d.form) <= 8 /\ Either(d.potType, d.type) <= 8
  /\ d.fog <= 17 /\ (d.fog > 0 => d.fog % 2 = 0)

NumberTellsSymbol ==
  IsWeather /\ HasDigits(request.data) =>
    SymbolOfNumber(WeatherNumber(request.data)) = SmartSymbol(request.data)

(* docs/smartsymbol.md: the table of the symbols, and what it says of data *)
(* with a form of precipitation that is none (lines 182-184 and 209-211:   *)
(* from 9 on, "10 * form + 21 + ..." gives symbols outside the table).     *)
DaySymbols ==
  {1, 2, 4, 6, 7, 9, 11, 14, 17, 21, 24, 27} \cup 31 .. 39 \cup 41 .. 49 \cup 51 .. 59
  \cup {61, 64, 67, 71, 74, 77}

DocumentedSymbols(d) ==
  LET form == Either(d.potForm, d.form)
  IN  IF form > 8 /\ d.rain > 0 /\ d.thunder < 1
      THEN 10 * form + 21 .. 10 * form + 29 ELSE DaySymbols

(* Every symbol is in the table, unless the form of precipitation decides  *)
(* it and is none; then it is as far outside as the document says.  "100   *)
(* is added" to all of them in the dark, and to nothing else.              *)
SymbolsDocumented ==
  IsWeather /\ answer.number # NoSymbol =>
    answer.number - (IF request.dark THEN 100 ELSE 0) \in DocumentedSymbols(request.data)

(* A direction is called by the nearest point of the compass, around the   *)
(* whole circle.                                                           *)
CompassNearest ==
  request.kind = "compass" /\ answer.pc = "answered" =>
    LET width == 64 \div request.sectors
        away == (request.direction - answer.number * width + 64) % 64
    IN  2 * away <= width \/ 2 * (64 - away) <= width

(* Model.cpp:343: "Find closest valid coordinate point within given        *)
(* radius".                                                                *)
ClosestFound ==
  answer.pc = "found" /\ Ringed =>
    IF InReach = {} THEN search.point = Nowhere ELSE search.point \in Closest
===============================================================================
