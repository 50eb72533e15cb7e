------------------------ MODULE RepositoryQueries_proofs ------------------------
(***************************************************************************)
(* What a client gets for one call or two: proofs for module               *)
(* RepositoryQueries, for any producers, files, names and periods.         *)
(*                                                                         *)
(* Nearly all is in one lemma about views: what get() makes of the models  *)
(* of a producer has one grid, the order of origin times and the newest    *)
(* model as its last.  The invariant adds what the first of two calls      *)
(* knows of the models that it has seen.                                   *)
(***************************************************************************)
EXTENDS RepositoryQueries, RepositoryFacts, SequenceTheorems

-------------------------------------------------------------------------------
(* The models of a producer, by their origin times.                        *)
IsCollection(models) ==
  /\ IsSharedModels(models) /\ IsFiniteSet(DOMAIN models)
  /\ \A o \in DOMAIN models : models[o].origin = o

(* What get() may make of them.                                            *)
IsView(view, models) ==
  /\ view \in Seq(Model)
  /\ view = <<>> <=> DOMAIN models = {}
  /\ \A i, j \in DOMAIN view : /\ GridOf(view[i]) = GridOf(view[j])
                               /\ i < j => view[i].origin < view[j].origin
  /\ \A i \in DOMAIN view : \E o \in DOMAIN models : view[i] = models[o]
  /\ view # <<>> => Last(view) = models[Newest(DOMAIN models)]

-------------------------------------------------------------------------------
(* Every rank up to the size of a set of times is that of one of them.     *)
Earlier(S, o) == {q \in S : q <= o}

LEMMA RanksGrow ==
  ASSUME NEW S \in SUBSET Nat, IsFiniteSet(S), NEW o \in S, NEW q \in S
  PROVE  /\ Cardinality(Earlier(S, o)) \in 1 .. Cardinality(S)
         /\ o < q => Cardinality(Earlier(S, o)) < Cardinality(Earlier(S, q))
<1>1. /\ IsFiniteSet(Earlier(S, o)) /\ Cardinality(Earlier(S, o)) \in Nat
      /\ Cardinality(Earlier(S, o)) <= Cardinality(S) /\ Cardinality(S) \in Nat
  BY FS_Subset, FS_CardinalityType, Earlier(S, o) \in SUBSET S DEF Earlier
<1>2. Cardinality(Earlier(S, o)) # 0
  <2>1. o \in Earlier(S, o)
    BY DEF Earlier
  <2>2. QED
    BY <1>1, <2>1, FS_EmptySet
<1>3. ASSUME o < q PROVE Cardinality(Earlier(S, o)) < Cardinality(Earlier(S, q))
  <2>1. IsFiniteSet(Earlier(S, q)) /\ Cardinality(Earlier(S, q)) \in Nat
    BY FS_Subset, FS_CardinalityType, Earlier(S, q) \in SUBSET S DEF Earlier
  <2>2. Earlier(S, o) \in SUBSET Earlier(S, q) /\ q \in Earlier(S, q) /\ q \notin Earlier(S, o)
    <3>1. \A x \in S : x \in Nat /\ (x <= o => x <= q)
      BY <1>3
    <3>2. o \in Nat /\ q \in Nat /\ q <= q /\ ~(q <= o)
      BY <1>3
    <3>3. QED
      BY <3>1, <3>2 DEF Earlier
  <2>3. QED
    BY <1>1, <2>1, <2>2, FS_Subset
<1>4. QED
  BY <1>1, <1>2, <1>3

LEMMA EveryRank ==
  ASSUME NEW S \in SUBSET Nat, IsFiniteSet(S), NEW i \in 1 .. Cardinality(S)
  PROVE  \E o \in S : Cardinality(Earlier(S, o)) = i
<1> DEFINE n == Cardinality(S)
           rank == [o \in S |-> Cardinality(Earlier(S, o))]
<1>1. n \in Nat
  BY FS_CardinalityType
<1>2. \A o \in S : Cardinality(Earlier(S, o)) \in 1 .. n
  BY RanksGrow
<1>3. \A o, q \in S : rank[o] = rank[q] => o = q
  <2>1. ASSUME NEW o \in S, NEW q \in S, rank[o] = rank[q] PROVE o = q
    <3>1. ~(o < q) /\ ~(q < o)
      BY <1>1, <1>2, <2>1, RanksGrow
    <3>2. QED
      BY <3>1
  <2>2. QED
    BY <2>1
<1>4. rank \in Injection(S, 1 .. n)
  BY <1>2, <1>3 DEF Injection, IsInjective
<1>5. IsFiniteSet(1 .. n) /\ Cardinality(1 .. n) = n
  BY <1>1, FS_Interval
<1>6. rank \in Surjection(S, 1 .. n)
  BY <1>4, <1>5, FS_Injection
<1>7. QED
  BY <1>6 DEF Surjection

LEMMA NewestIs ==
  ASSUME NEW S \in SUBSET Nat, IsFiniteSet(S), S # {}
  PROVE  Newest(S) \in S /\ \A q \in S : q <= Newest(S)
BY GreatestElement DEF Newest

(* The models in order.                                                    *)
LEMMA InOrderFacts ==
  ASSUME NEW models, IsCollection(models)
  PROVE  LET s == InOrder(models)
         IN  /\ s \in Seq(Model) /\ Len(s) = Cardinality(DOMAIN models)
             /\ s = <<>> <=> DOMAIN models = {}
             /\ \A i, j \in DOMAIN s : i < j => s[i].origin < s[j].origin
             /\ \A i \in DOMAIN s : \E o \in DOMAIN models : s[i] = models[o]
             /\ s # <<>> => s[Len(s)] = models[Newest(DOMAIN models)]
<1> DEFINE S == DOMAIN models
           n == Cardinality(S)
           time(i) == CHOOSE o \in S : Cardinality({q \in S : q <= o}) = i
           s == InOrder(models)
<1>1. /\ S \in SUBSET Nat /\ IsFiniteSet(S) /\ n \in Nat
      /\ \A o \in S : models[o] \in Model /\ models[o].origin = o
  BY FS_CardinalityType DEF IsCollection, IsSharedModels
<1>2. \A i \in 1 .. n : time(i) \in S /\ Cardinality(Earlier(S, time(i))) = i
  BY <1>1, EveryRank DEF Earlier
<1>3. s = [i \in 1 .. n |-> models[time(i)]]
  BY DEF InOrder
<1> HIDE DEF S, n, time, s
<1>4. s \in Seq(Model) /\ Len(s) = n /\ DOMAIN s = 1 .. n
  <2>1. \A i \in 1 .. n : models[time(i)] \in Model
    BY <1>1, <1>2
  <2>2. s \in [1 .. n -> Model]
    BY <1>3, <2>1
  <2>3. QED
    BY <1>1, <2>2
<1>5. s = <<>> <=> S = {}
  <2>1. n = 0 <=> S = {}
    BY <1>1, FS_EmptySet DEF n
  <2>2. s = <<>> <=> Len(s) = 0
    BY <1>4
  <2>3. QED
    BY <1>4, <2>1, <2>2
<1>6. ASSUME NEW i \in 1 .. n, NEW j \in 1 .. n, i < j PROVE s[i].origin < s[j].origin
  <2>1. /\ s[i].origin = time(i) /\ s[j].origin = time(j) /\ time(i) \in Nat /\ time(j) \in Nat
    BY <1>1, <1>2, <1>3
  <2>2. time(j) <= time(i) => j <= i
    <3>1. CASE time(j) = time(i)
      BY <1>1, <1>2, <3>1
    <3>2. ASSUME time(j) < time(i) PROVE j < i
      <4>1. Cardinality(Earlier(S, time(j))) < Cardinality(Earlier(S, time(i)))
        BY <1>1, <1>2, <3>2, RanksGrow
      <4>2. QED
        BY <1>2, <4>1
    <3>3. QED
      BY <2>1, <3>1, <3>2
  <2>3. QED
    BY <1>1, <1>6, <2>1, <2>2
<1>7. ASSUME n # 0 PROVE s[n] = models[Newest(S)]
  <2>1. n \in 1 .. n /\ S # {}
    BY <1>1, <1>7, FS_EmptySet DEF n
  <2>2. Earlier(S, time(n)) = S
    BY <1>1, <1>2, <2>1, FS_Subset, Earlier(S, time(n)) \in SUBSET S DEF Earlier, n
  <2>3. Newest(S) \in S /\ time(n) \in S /\ \A q \in S : q <= Newest(S) /\ q <= time(n)
    BY <1>1, <1>2, <2>1, <2>2, NewestIs DEF Earlier
  <2>4. Newest(S) = time(n)
    BY <1>1, <2>3
  <2>5. QED
    BY <1>3, <2>1, <2>4
<1>8. \A i \in 1 .. n : \E o \in S : s[i] = models[o]
  BY <1>2, <1>3
<1>9. s # <<>> => n # 0
  BY <1>4
<1>10. QED
  BY <1>4, <1>5, <1>6, <1>7, <1>8, <1>9 DEF s, S, n

(* The last run of models with one grid.                                   *)
LEMMA LastRunFacts ==
  ASSUME NEW s \in Seq(Model), s # <<>>
  PROVE  LET t == LastRun(s)
         IN  \E k \in 1 .. Len(s) :
               /\ t = SubSeq(s, k, Len(s))
               /\ \A j \in k .. Len(s) : GridOf(s[j]) = GridOf(Last(s))
<1> DEFINE Uniform(i) == \A j \in i .. Len(s) : GridOf(s[j]) = GridOf(Last(s))
           Starts(i) == Uniform(i) /\ (i > 1 => ~Uniform(i - 1))
           I == {i \in 1 .. Len(s) : Uniform(i)}
<1>1. Len(s) \in Nat /\ Len(s) # 0
  OBVIOUS
<1>2. Uniform(Len(s))
  BY <1>1 DEF Last
<1>3. I \in SUBSET Nat /\ Len(s) \in I
  BY <1>1, <1>2
<1> HIDE DEF Uniform
<1>4. PICK i \in I : \A j \in I : i <= j
  BY <1>3, LeastElement
<1>5. i \in 1 .. Len(s) /\ Starts(i)
  BY <1>1, <1>3, <1>4
<1> DEFINE start == CHOOSE k \in 1 .. Len(s) : Starts(k)
<1>6. start \in 1 .. Len(s) /\ Starts(start)
  BY <1>5
<1>7. LastRun(s) = SubSeq(s, start, Len(s))
  BY DEF LastRun, Uniform
<1>8. QED
  <2>1. \A j \in start .. Len(s) : GridOf(s[j]) = GridOf(Last(s))
    BY <1>6 DEF Uniform
  <2> HIDE DEF start
  <2>2. QED
    BY <1>6, <1>7, <2>1

LEMMA RunIsView ==
  ASSUME NEW models, IsCollection(models)
  PROVE  IsView(LastRun(InOrder(models)), models)
<1> DEFINE s == InOrder(models)
           t == LastRun(s)
<1>1. /\ s \in Seq(Model)
      /\ s = <<>> <=> DOMAIN models = {}
      /\ \A i, j \in DOMAIN s : i < j => s[i].origin < s[j].origin
      /\ \A i \in DOMAIN s : \E o \in DOMAIN models : s[i] = models[o]
      /\ s # <<>> => s[Len(s)] = models[Newest(DOMAIN models)]
  BY InOrderFacts
<1> HIDE DEF s
<1>2. CASE s = <<>>
  <2>1. t = <<>>
    BY <1>2 DEF LastRun
  <2>2. QED
    <3>1. IsView(t, models)
      BY <1>1, <1>2, <2>1 DEF IsView
    <3>2. QED
      BY <3>1 DEF s
<1>3. CASE s # <<>>
  <2>1. PICK k \in 1 .. Len(s) : /\ t = SubSeq(s, k, Len(s))
                                 /\ \A j \in k .. Len(s) : GridOf(s[j]) = GridOf(Last(s))
    BY <1>1, <1>3, LastRunFacts
  <2> DEFINE n == Len(s)
  <2>2. n \in Nat /\ n # 0 /\ k \in 1 .. n /\ DOMAIN s = 1 .. n
    BY <1>1, <1>3
  <2>3. /\ t \in Seq(Model) /\ Len(t) = n - k + 1 /\ DOMAIN t = 1 .. n - k + 1
        /\ \A i \in 1 .. n - k + 1 : t[i] = s[k + i - 1]
    <3>1. k \in Nat /\ n - k + 1 \in Nat /\ n - k + 1 > 0 /\ \A i \in 1 .. n - k + 1 : k + i - 1 \in 1 .. n
      BY <2>2
    <3>2. t = SubSeq(s, k, n)
      BY <2>1
    <3>3. \A i \in k .. n : s[i] \in Model
      BY <1>1, <2>2
    <3> HIDE DEF t, n
    <3>4. t \in Seq(Model) /\ Len(t) = n - k + 1
      BY <2>2, <3>1, <3>2, <3>3, SubSeqProperties, <1>1
    <3>5. \A i \in 1 .. n - k + 1 : t[i] = s[k + i - 1]
      BY <2>2, <3>1, <3>2, SubSeqProperties, <1>1
    <3>6. QED
      BY <3>1, <3>4, <3>5
  <2>4. \A i \in DOMAIN t : k + i - 1 \in k .. n /\ k + i - 1 \in DOMAIN s
    BY <2>2, <2>3
  <2>5. t # <<>> /\ Last(t) = s[n]
    BY <2>2, <2>3 DEF Last
  <2> HIDE DEF t, n
  <2>6. ASSUME NEW i \in DOMAIN t, NEW j \in DOMAIN t
        PROVE  /\ GridOf(t[i]) = GridOf(t[j])
               /\ i < j => t[i].origin < t[j].origin
    <3>1. t[i] = s[k + i - 1] /\ t[j] = s[k + j - 1]
      BY <2>3
    <3>2. GridOf(t[i]) = GridOf(Last(s)) /\ GridOf(t[j]) = GridOf(Last(s))
      BY <2>1, <2>4, <3>1 DEF n
    <3>3. i < j => k + i - 1 < k + j - 1
      BY <2>2, <2>3
    <3>4. QED
      BY <1>1, <2>4, <3>1, <3>2, <3>3
  <2>7. \A i \in DOMAIN t : \E o \in DOMAIN models : t[i] = models[o]
    BY <1>1, <2>3, <2>4
  <2>8. IsView(t, models)
    BY <1>1, <1>3, <2>3, <2>5, <2>6, <2>7 DEF IsView, n
  <2>9. QED
    BY <2>8 DEF t, s
<1>4. QED
  BY <1>2, <1>3

-------------------------------------------------------------------------------
(* The collections there can be: of files that are loaded for producers.   *)
IsLoaded(models) ==
  /\ IsCollection(models)
  /\ \A o \in DOMAIN models :
       LET about == About[models[o].path]
       IN  about.first \in Nat /\ about.last \in Nat /\ about.first <= about.last

StateType ==
  /\ DOMAIN producers \subseteq DOMAIN Config
  /\ \A p \in DOMAIN producers : IsLoaded(producers[p])
  /\ now \in Nat
  /\ DOMAIN call = DOMAIN Idle

LEMMA NoneLoaded == IsLoaded(NoModels) /\ DOMAIN NoModels = {}
BY FS_EmptySet DEF NoModels, IsLoaded, IsCollection, IsSharedModels

LEMMA NoModelsIs ==
  ASSUME NEW models, IsLoaded(models)
  PROVE  models = NoModels <=> DOMAIN models = {}
BY DEF IsLoaded, IsCollection, IsSharedModels, NoModels

LEMMA ModelsOfLoaded ==
  ASSUME StateType, NEW p
  PROVE  IsLoaded(ModelsOf(p))
BY NoneLoaded DEF StateType, ModelsOf, Has

LEMMA FindProducerLoaded ==
  ASSUME StateType, NEW name
  PROVE  IsLoaded(FindProducer(name))
<1>1. CASE Has(name)
  BY <1>1 DEF StateType, FindProducer, Has
<1>2. CASE ~Has(name)
  <2>1. FindProducer(name) = NoModels \/ \E q : FindProducer(name) = ModelsOf(q)
    BY <1>2 DEF FindProducer
  <2>2. QED
    BY <2>1, NoneLoaded, ModelsOfLoaded
<1>3. QED
  BY <1>1, <1>2

LEMMA LatestIsView ==
  ASSUME StateType, NEW name
  PROVE  IsView(Latest(name), FindProducer(name))
<1> DEFINE models == FindProducer(name)
           last == models[Newest(DOMAIN models)]
<1>1. IsLoaded(models)
  BY FindProducerLoaded
<1>2. Latest(name) = IF models = NoModels THEN <<>> ELSE <<last>>
  BY DEF Latest
<1> HIDE DEF models
<1>3. CASE models = NoModels
  BY <1>2, <1>3, NoneLoaded DEF IsView, models
<1>4. CASE models # NoModels
  <2>1. DOMAIN models # {} /\ DOMAIN models \in SUBSET Nat /\ IsFiniteSet(DOMAIN models)
        /\ models \in [DOMAIN models -> Model]
    BY <1>1, <1>4, NoModelsIs DEF IsLoaded, IsCollection, IsSharedModels
  <2>2. Newest(DOMAIN models) \in DOMAIN models
    BY <2>1, NewestIs
  <2>3. last \in Model
    BY <2>1, <2>2
  <2> DEFINE v == <<last>>
  <2>4. v \in Seq(Model) /\ v # <<>> /\ DOMAIN v = {1} /\ v[1] = last /\ Last(v) = last
    BY <2>3 DEF Last
  <2> HIDE DEF v
  <2>5. \A i, j \in DOMAIN v : i = 1 /\ j = 1 /\ ~(i < j)
    BY <2>4
  <2>6. \A i \in DOMAIN v : \E o \in DOMAIN models : v[i] = models[o]
    BY <2>2, <2>4
  <2>7. IsView(v, models)
    BY <2>1, <2>4, <2>5, <2>6 DEF IsView
  <2>8. QED
    BY <1>2, <1>4, <2>7 DEF v, models
<1>5. QED
  BY <1>3, <1>4

LEMMA GetIsView ==
  ASSUME StateType, NEW name
  PROVE  /\ IsView(GetAll(name), FindProducer(name))
         /\ IsView(Get(name), FindProducer(name))
<1>1. IsView(GetAll(name), FindProducer(name))
  BY FindProducerLoaded, RunIsView DEF IsLoaded, GetAll
<1>2. QED
  BY <1>1, LatestIsView DEF Get

(* The models of a period, or all if there are none.                       *)
LEMMA OverlappingFacts ==
  ASSUME NEW models, IsLoaded(models), NEW period
  PROVE  LET over == Overlapping(models, period)
         IN  /\ IsCollection(over)
             /\ DOMAIN over = {o \in DOMAIN models : Overlaps(models[o], period)}
             /\ \A o \in DOMAIN over : over[o] = models[o]
<1> DEFINE T == {o \in DOMAIN models : Overlaps(models[o], period)}
<1>1. T \in SUBSET DOMAIN models /\ Overlapping(models, period) = Restrict(models, T)
  BY DEF Overlapping
<1>2. QED
  BY <1>1, RestrictFacts DEF IsLoaded, IsCollection

LEMMA GetPeriodIsView ==
  ASSUME StateType, NEW name, NEW period
  PROVE  LET models == FindProducer(name)
             over == Overlapping(models, period)
         IN  IF IgnoresPeriod(name) \/ DOMAIN over = {}
             THEN IsView(GetPeriod(name, period), models)
             ELSE IsView(GetPeriod(name, period), over)
<1> DEFINE over == Overlapping(FindProducer(name), period)
           ok == LastRun(InOrder(over))
<1>1. IsView(ok, over)
  BY FindProducerLoaded, OverlappingFacts, RunIsView
<1>2. GetPeriod(name, period) =
        IF IgnoresPeriod(name) THEN Get(name) ELSE IF ok = <<>> THEN GetAll(name) ELSE ok
  BY DEF GetPeriod
<1>3. ok = <<>> <=> DOMAIN over = {}
  BY <1>1 DEF IsView
<1>4. QED
  BY <1>1, <1>2, <1>3, GetIsView

-------------------------------------------------------------------------------
(* What find() has found has the point, and what originTimes() has listed  *)
(* is there.                                                               *)
FoundSuits ==
  call.pc = "found" => ContainsPoint(call.seen, call.level) /\ call.name = call.found

TimesSeen == call.pc = "times" => call.origin \in DOMAIN call.seen

Inv == StateType /\ OneGrid /\ FoundSuits /\ TimesSeen

LEMMA IdleFields ==
  DOMAIN Idle = {"pc", "name", "period", "level", "found", "origin", "seen", "models", "options",
                 "listed"}
BY DEF Idle

LEMMA FindSuits ==
  ASSUME NEW N, NEW list \in Seq(N), NEW checkAge, NEW wanted,
         Find(list, checkAge, wanted) # NoProducer
  PROVE  Suits(Find(list, checkAge, wanted), checkAge, wanted)
<1> DEFINE own == SelectInSeq(list, LAMBDA p : Suits(p, checkAge, wanted))
           byAlias == SelectInSeq(InFileOrder,
                                  LAMBDA p : /\ \E name \in ToSet(list) : HasAlias(p, name)
                                             /\ Suits(p, checkAge, wanted))
           I == {j \in 1 .. Len(list) : Suits(list[j], checkAge, wanted)}
           J == {j \in 1 .. Len(InFileOrder) :
                   /\ \E name \in ToSet(list) : HasAlias(InFileOrder[j], name)
                   /\ Suits(InFileOrder[j], checkAge, wanted)}
<1>1. ASSUME NEW T \in SUBSET Nat, T # {} PROVE Min(T) \in T
  <2>1. PICK k \in T : \A j \in T : k <= j
    BY <1>1, LeastElement
  <2>2. QED
    BY <2>1 DEF Min
<1>2. InFileOrder \in Seq(DOMAIN Config)
  BY OrderAssumption
<1>3. I \in SUBSET Nat /\ J \in SUBSET Nat
  BY <1>2
<1>4. own = (IF I # {} THEN Min(I) ELSE 0) /\ byAlias = (IF J # {} THEN Min(J) ELSE 0)
  BY DEF SelectInSeq
<1>5. /\ I # {} => Min(I) \in I
      /\ J # {} => Min(J) \in J
  BY <1>1, <1>3
<1>6. Find(list, checkAge, wanted) =
        IF own # 0 THEN list[own] ELSE IF byAlias # 0 THEN InFileOrder[byAlias] ELSE NoProducer
  BY DEF Find
<1> HIDE DEF own, byAlias
<1>7. /\ own # 0 => Suits(list[own], checkAge, wanted)
      /\ byAlias # 0 => Suits(InFileOrder[byAlias], checkAge, wanted)
  BY <1>4, <1>5
<1>8. QED
  BY <1>6, <1>7

-------------------------------------------------------------------------------
LEMMA InvInit == Init => Inv
BY IdleFields DEF Init, Inv, StateType, OneGrid, FoundSuits, TimesSeen, Idle

(* Steps of the models.                                                    *)
LEMMA ReplaceKeeps ==
  ASSUME Inv, NEW p \in DOMAIN Config, NEW models, IsLoaded(models), Replace(p, models)
  PROVE  Inv'
<1>1. StateType'
  BY DEF Inv, StateType, Replace
<1>2. OneGrid' /\ FoundSuits' /\ TimesSeen'
  BY DEF Inv, Replace, OneGrid, FoundSuits, TimesSeen
<1>3. QED
  BY <1>1, <1>2 DEF Inv

LEMMA PublishKeeps ==
  ASSUME Inv, NEW p \in DOMAIN Config, Publish(p)
  PROVE  Inv'
<1>1. PICK f \in FileOf[p] :
        Replace(p, Resize(Add(ModelsOf(p), [f EXCEPT !.modtime = now]), Config[p].keep))
  BY DEF Publish
<1> DEFINE m == [f EXCEPT !.modtime = now]
           models == ModelsOf(p)
           added == Add(models, m)
           left == Resize(added, Config[p].keep)
<1>2. /\ m \in Model /\ m.path = f.path /\ m.origin = f.origin
      /\ About[f.path].first \in Nat /\ About[f.path].last \in Nat
      /\ About[f.path].first <= About[f.path].last /\ Config[p].keep \in Nat
  BY FileAssumption, ConfigAssumption DEF Inv, StateType, Model
<1> HIDE DEF m
<1>3. IsLoaded(models)
  BY ModelsOfLoaded DEF Inv
<1> HIDE DEF models
<1>4. IsLoaded(added)
  <2>1. /\ IsSharedModels(added) /\ DOMAIN added = DOMAIN models \cup {m.origin}
        /\ \A o \in DOMAIN added : (o \in DOMAIN models /\ added[o] = models[o])
                                    \/ (o = m.origin /\ added[o] = m)
    <3>1. IsSharedModels(models)
      BY <1>3 DEF IsLoaded, IsCollection
    <3>2. m \in Model
      BY <1>2
    <3>3. /\ IsSharedModels(added) /\ DOMAIN added = DOMAIN models \cup {m.origin}
          /\ \A o \in DOMAIN added :
               \/ o \in DOMAIN models /\ added[o] = models[o]
               \/ /\ o = m.origin /\ added[o] = m
                  /\ o \in DOMAIN models => m.modtime > models[o].modtime
      BY <3>1, <3>2, AddFacts
    <3> HIDE DEF added
    <3>4. QED
      BY <3>3
  <2>2. IsFiniteSet(DOMAIN added)
    BY <1>3, <2>1, FS_AddElement DEF IsLoaded, IsCollection
  <2>3. QED
    BY <1>2, <1>3, <2>1, <2>2 DEF IsLoaded, IsCollection
<1> HIDE DEF added
<1>5. IsLoaded(left)
  <2>1. /\ IsSharedModels(left) /\ DOMAIN left \subseteq DOMAIN added
        /\ \A o \in DOMAIN left : left[o] = added[o]
        /\ IsFiniteSet(DOMAIN left)
    BY <1>2, <1>4, ResizeFacts DEF IsLoaded, IsCollection
  <2>2. QED
    BY <1>4, <2>1 DEF IsLoaded, IsCollection
<1>6. QED
  BY <1>1, <1>5, ReplaceKeeps DEF left, added, models, m

LEMMA WithdrawKeeps ==
  ASSUME Inv, NEW p \in DOMAIN Config, Withdraw(p)
  PROVE  Inv'
<1>1. PICK o \in DOMAIN ModelsOf(p) :
        Replace(p, RemoveAll(producers[p], {producers[p][o].path}))
  BY DEF Withdraw
<1> DEFINE left == RemoveAll(producers[p], {producers[p][o].path})
<1>2. IsLoaded(producers[p])
  BY NoneLoaded DEF Inv, StateType, ModelsOf, Has
<1>3. /\ IsSharedModels(left) /\ DOMAIN left \subseteq DOMAIN producers[p]
      /\ \A q \in DOMAIN left : left[q] = producers[p][q]
      /\ IsFiniteSet(DOMAIN left)
  BY <1>2, RemoveAllFacts DEF IsLoaded, IsCollection
<1> HIDE DEF left
<1>4. IsLoaded(left)
  BY <1>2, <1>3 DEF IsLoaded, IsCollection
<1>5. QED
  BY <1>1, <1>4, ReplaceKeeps DEF left

(* Steps of the client: what it is left with.                              *)
LEMMA CallKeeps ==
  ASSUME Inv, UNCHANGED <<producers, now>>, DOMAIN call' = DOMAIN Idle,
         \/ call'.models = call.models
         \/ \E models : IsView(call'.models, models)
         \/ \E m : call'.models = <<m>>
         \/ call'.models = <<>>,
         FoundSuits', TimesSeen'
  PROVE  Inv'
<1>1. StateType'
  BY DEF Inv, StateType
<1>2. OneGrid'
  <2>1. CASE call'.models = call.models
    BY <2>1 DEF Inv, OneGrid
  <2>2. CASE \E models : IsView(call'.models, models)
    BY <2>2 DEF IsView, OneGrid
  <2>3. CASE call'.models = <<>> \/ \E m : call'.models = <<m>>
    <3>1. \A i, j \in DOMAIN call'.models : i = 1 /\ j = 1
      BY <2>3
    <3>2. QED
      BY <3>1 DEF OneGrid
  <2>4. QED
    BY <2>1, <2>2, <2>3
<1>3. QED
  BY <1>1, <1>2 DEF Inv

LEMMA AskProducerKeeps ==
  ASSUME Inv, AskProducer
  PROVE  Inv'
<1>1. PICK wanted, p :
        /\ p \in {Find(InFileOrder, TRUE, wanted)} \cup {Find(list, FALSE, wanted) : list \in Lists}
        /\ call' = [call EXCEPT !.pc = IF p = NoProducer THEN "missing" ELSE "found",
                                !.name = p, !.found = p, !.level = wanted, !.seen = ModelsOf(p)]
  BY DEF AskProducer
<1>2. p # NoProducer => Has(p) /\ ContainsPoint(producers[p], wanted)
  <2>1. CASE p = Find(InFileOrder, TRUE, wanted)
    BY <2>1, OrderAssumption, FindSuits DEF Suits
  <2>2. ASSUME NEW list \in Lists, p = Find(list, FALSE, wanted), p # NoProducer
        PROVE  Has(p) /\ ContainsPoint(producers[p], wanted)
    BY <2>2, OrderAssumption, FindSuits DEF Suits
  <2>3. QED
    BY <1>1, <2>1, <2>2
<1>3. /\ call'.pc = (IF p = NoProducer THEN "missing" ELSE "found") /\ call'.level = wanted
      /\ call'.name = p /\ call'.found = p /\ call'.seen = ModelsOf(p) /\ call'.models = call.models /\ DOMAIN call' = DOMAIN Idle
  BY <1>1, IdleFields DEF Inv, StateType
<1>4. FoundSuits' /\ TimesSeen'
  BY <1>2, <1>3 DEF FoundSuits, TimesSeen, ModelsOf, ContainsPoint, CoversIn, LevelOK
<1>5. QED
  BY <1>3, <1>4, CallKeeps DEF AskProducer

LEMMA GetsKeep ==
  ASSUME Inv, NEW name, GetFound \/ GetOfTime \/ GetKnown \/ GetByName(name)
  PROVE  Inv'
<1>1. /\ DOMAIN call' = DOMAIN Idle /\ call'.pc \notin {"found", "times"}
      /\ UNCHANGED <<producers, now>>
      /\ \/ \E n : call'.models = Get(n) \/ call'.models = Latest(n)
         \/ \E n, t : call'.models = GetPeriod(n, t) \/ call'.models = GetOrigin(n, t)
         \/ \E m : call'.models = <<m>>
  <2>1. "pc" \in DOMAIN call /\ "models" \in DOMAIN call /\ DOMAIN call = DOMAIN Idle
    BY IdleFields DEF Inv, StateType
  <2>2. CASE GetFound
    BY <2>1, <2>2 DEF GetFound, Ends
  <2>3. CASE GetOfTime
    BY <2>1, <2>3 DEF GetOfTime, Ends
  <2>4. CASE GetKnown
    BY <2>1, <2>4 DEF GetKnown
  <2>5. CASE GetByName(name)
    <3>1. PICK pc, models :
            /\ pc \notin {"found", "times"}
            /\ DOMAIN call' = DOMAIN call /\ call'.pc = pc /\ call'.models = models
            /\ \/ models = Get(name)
               \/ models \in GetInfinite(name)
               \/ \E period \in Period : models = GetPeriod(name, period)
      BY <2>1, <2>5, ZenonT(60) DEF GetByName
    <3>2. QED
      BY <2>1, <2>5, <3>1 DEF GetByName, GetInfinite
  <2>6. QED
    BY <2>2, <2>3, <2>4, <2>5
<1>2. \/ \E models : IsView(call'.models, models)
      \/ \E m : call'.models = <<m>>
      \/ call'.models = <<>>
  <2>1. ASSUME NEW n PROVE IsView(Get(n), FindProducer(n)) /\ IsView(Latest(n), FindProducer(n))
    BY GetIsView, LatestIsView DEF Inv
  <2>2. ASSUME NEW n, NEW t
        PROVE  /\ \E models : IsView(GetPeriod(n, t), models)
               /\ GetOrigin(n, t) = <<>> \/ \E m : GetOrigin(n, t) = <<m>>
    BY GetPeriodIsView DEF Inv, GetOrigin
  <2>3. QED
    BY <1>1, <2>1, <2>2
<1>3. FoundSuits' /\ TimesSeen'
  BY <1>1 DEF FoundSuits, TimesSeen
<1>4. QED
  BY <1>1, <1>2, <1>3, CallKeeps

LEMMA AsksKeep ==
  ASSUME Inv, NEW name, NEW options,
         AskTimes(name) \/ AskKnown(name) \/ AskMetadata(options) \/ Forget
  PROVE  Inv'
<1>1. /\ DOMAIN call' = DOMAIN Idle /\ call'.pc # "found" /\ UNCHANGED <<producers, now>>
      /\ call'.models = call.models \/ call'.models = <<>>
  <2>1. "pc" \in DOMAIN call /\ "models" \in DOMAIN call /\ DOMAIN call = DOMAIN Idle
    BY IdleFields DEF Inv, StateType
  <2>2. CASE AskTimes(name)
    BY <2>1, <2>2 DEF AskTimes
  <2>3. CASE AskKnown(name)
    BY <2>1, <2>3 DEF AskKnown
  <2>4. CASE AskMetadata(options)
    BY <2>1, <2>4 DEF AskMetadata
  <2>5. CASE Forget
    BY <2>5 DEF Forget, Idle
  <2>6. QED
    BY <2>2, <2>3, <2>4, <2>5
<1>2. TimesSeen'
  <2>1. CASE AskTimes(name)
    <3>1. PICK o \in OriginTimes(name) :
            call' = [call EXCEPT !.pc = "times", !.name = name, !.origin = o,
                                 !.seen = FindProducer(name)]
      BY <2>1 DEF AskTimes
    <3>2. call'.origin = o /\ call'.seen = FindProducer(name)
      BY <3>1, IdleFields DEF Inv, StateType
    <3>3. FindProducer(name) = ModelsOf(name)
      BY NoneLoaded DEF OriginTimes, ModelsOf, FindProducer
    <3>4. QED
      BY <3>2, <3>3 DEF TimesSeen, OriginTimes
  <2>2. CASE AskKnown(name) \/ AskMetadata(options) \/ Forget
    <3>1. call'.pc # "times"
      <4>1. "pc" \in DOMAIN call
        BY IdleFields DEF Inv, StateType
      <4>2. QED
        <5>1. CASE AskKnown(name)
          BY <4>1, <5>1 DEF AskKnown
        <5>2. CASE AskMetadata(options)
          BY <4>1, <5>2 DEF AskMetadata
        <5>3. CASE Forget
          BY <5>3 DEF Forget, Idle
        <5>4. QED
          BY <2>2, <5>1, <5>2, <5>3
    <3>2. QED
      BY <3>1 DEF TimesSeen
  <2>3. QED
    BY <2>1, <2>2
<1>3. QED
  BY <1>1, <1>2, CallKeeps DEF FoundSuits

LEMMA InvStep == Inv /\ [Next]_vars => Inv'
<1> SUFFICES ASSUME Inv, [Next]_vars PROVE Inv'
  OBVIOUS
<1>1. CASE UNCHANGED vars
  BY <1>1 DEF vars, Inv, StateType, OneGrid, FoundSuits, TimesSeen
<1>2. ASSUME NEW p \in DOMAIN Config, Publish(p) \/ Withdraw(p) PROVE Inv'
  BY <1>2, PublishKeeps, WithdrawKeeps
<1>3. CASE Tick
  BY <1>3 DEF Tick, Inv, StateType, OneGrid, FoundSuits, TimesSeen
<1>4. CASE AskProducer
  BY <1>4, AskProducerKeeps
<1>5. ASSUME NEW options, Forget \/ AskMetadata(options) PROVE Inv'
  BY <1>5, AsksKeep
<1>6. ASSUME NEW name \in Name, AskTimes(name) \/ AskKnown(name) PROVE Inv'
  BY <1>6, AsksKeep
<1>7. ASSUME NEW name, GetFound \/ GetOfTime \/ GetKnown \/ GetByName(name) PROVE Inv'
  BY <1>7, GetsKeep
<1>8. QED
  BY <1>1, <1>2, <1>3, <1>4, <1>5, <1>6, <1>7 DEF Next

LEMMA AlwaysInv == Spec => []Inv
BY InvInit, InvStep, PTL DEF Spec

-------------------------------------------------------------------------------
(* A view over several models never mixes grids, and has the models in the *)
(* order of their origin times: whichever models a query found, and        *)
(* whatever it was asked for.                                              *)
THEOREM ViewsHaveOneGrid == Spec => []OneGrid
<1>1. Inv => OneGrid
  BY DEF Inv
<1>2. QED
  BY <1>1, AlwaysInv, PTL

(* How a view ends that was made of the models of a producer.              *)
LEMMA LastOfView ==
  ASSUME NEW models, IsLoaded(models), NEW view, IsView(view, models), view # <<>>
  PROVE  /\ Newest(DOMAIN models) \in DOMAIN models
         /\ Last(view) = models[Newest(DOMAIN models)]
         /\ Last(view).origin = Newest(DOMAIN models)
         /\ \A o \in DOMAIN models : o <= Last(view).origin
<1>1. /\ DOMAIN models \in SUBSET Nat /\ IsFiniteSet(DOMAIN models) /\ DOMAIN models # {}
      /\ \A o \in DOMAIN models : models[o].origin = o
  BY DEF IsView, IsLoaded, IsCollection, IsSharedModels
<1>2. Newest(DOMAIN models) \in DOMAIN models /\ \A o \in DOMAIN models : o <= Newest(DOMAIN models)
  BY <1>1, NewestIs
<1>3. Last(view) = models[Newest(DOMAIN models)]
  BY DEF IsView
<1>4. QED
  BY <1>1, <1>2, <1>3

(* The steps that end with an answer to a query by name.                   *)
LEMMA LatestStep ==
  ASSUME Inv, [Next]_vars, call.pc # "latest", call'.pc = "latest"
  PROVE  call'.models # <<>> /\ IsView(call'.models, FindProducer(call'.name))
<1>1. /\ "pc" \in DOMAIN call /\ "models" \in DOMAIN call /\ "name" \in DOMAIN call
  BY IdleFields DEF Inv, StateType
<1>2. CASE GetFound
  <2>1. /\ call'.models = Get(call.found) /\ call'.models # <<>> /\ call'.name = call.name
        /\ call.name = call.found
    BY <1>1, <1>2 DEF GetFound, Ends, Inv, FoundSuits
  <2>2. QED
    BY <2>1, GetIsView DEF Inv
<1>3. CASE GetKnown
  <2>1. call'.models = Get(call.name) /\ call'.models # <<>> /\ call'.name = call.name
    BY <1>1, <1>3 DEF GetKnown
  <2>2. QED
    BY <2>1, GetIsView DEF Inv
<1>4. ASSUME NEW name, GetByName(name)
      PROVE  call'.models # <<>> /\ IsView(call'.models, FindProducer(call'.name))
  <2>1. call'.models = Get(name) /\ call'.models # <<>> /\ call'.name = name
    BY <1>1, <1>4 DEF GetByName
  <2>2. QED
    BY <2>1, GetIsView DEF Inv
<1>5. ASSUME NEW name, NEW options,
             \/ UNCHANGED vars \/ Tick \/ AskProducer \/ GetOfTime \/ Forget
             \/ AskTimes(name) \/ AskKnown(name) \/ AskMetadata(options)
             \/ \E p : Publish(p) \/ Withdraw(p)
      PROVE  FALSE
  <2>1. CASE UNCHANGED vars \/ Tick \/ \E p : Publish(p) \/ Withdraw(p)
    BY <2>1 DEF vars, Tick, Publish, Withdraw, Replace
  <2>2. CASE AskProducer \/ AskTimes(name) \/ AskKnown(name)
    BY <1>1, <2>2 DEF AskProducer, AskTimes, AskKnown
  <2>3. CASE GetOfTime
    BY <1>1, <2>3 DEF GetOfTime, Ends
  <2>4. CASE Forget
    BY <2>4 DEF Forget, Idle
  <2>5. CASE AskMetadata(options)
    BY <1>1, <2>5 DEF AskMetadata
  <2>6. QED
    BY <1>5, <2>1, <2>2, <2>3, <2>4, <2>5
<1>6. QED
  BY <1>2, <1>3, <1>4, <1>5 DEF Next

(* A query by name alone answers with the newest model of the producer,    *)
(* alone or with older ones.                                               *)
THEOREM NewestIsAnswered == Spec => NewestAnswered
<1>1. ASSUME Inv, [Next]_vars, call.pc # "latest", call'.pc = "latest"
      PROVE  \A o \in DOMAIN FindProducer(call'.name) : o <= Last(call'.models).origin
  <2>1. IsLoaded(FindProducer(call'.name))
    BY <1>1, FindProducerLoaded DEF Inv
  <2>2. QED
    BY <1>1, <2>1, LatestStep, LastOfView
<1>2. Inv /\ [Next]_vars =>
        [call.pc # "latest" /\ call'.pc = "latest" =>
           \A o \in DOMAIN FindProducer(call'.name) : o <= Last(call'.models).origin]_vars
  BY <1>1
<1>3. QED
  BY <1>2, AlwaysInv, PTL DEF Spec, NewestAnswered

-------------------------------------------------------------------------------
(* A model overlaps a period if a valid time may be in both.               *)
LEMMA OverlapIsTime ==
  ASSUME NEW models, IsLoaded(models), NEW o \in DOMAIN models, NEW period \in Nat \X Nat
  PROVE  /\ HasTimeIn(models[o], period) => Overlaps(models[o], period)
         /\ Overlaps(models[o], period) /\ period[1] <= period[2] => HasTimeIn(models[o], period)
         /\ HasTimeIn(models[o], period) => period[1] <= period[2]
<1> DEFINE first == About[models[o].path].first
           last == About[models[o].path].last
<1>1. first \in Nat /\ last \in Nat /\ first <= last
  BY DEF IsLoaded
<1>2. period[1] \in Nat /\ period[2] \in Nat
  OBVIOUS
<1>3. /\ Overlaps(models[o], period) <=> ~(period[1] > last \/ first > period[2])
      /\ HasTimeIn(models[o], period) <=> \E t \in period[1] .. period[2] : first <= t /\ t <= last
  BY DEF Overlaps, HasTimeIn
<1> HIDE DEF first, last
<1>4. ASSUME NEW t \in period[1] .. period[2], first <= t, t <= last
      PROVE  ~(period[1] > last \/ first > period[2]) /\ period[1] <= period[2]
  BY <1>1, <1>2, <1>4
<1>5. ASSUME ~(period[1] > last \/ first > period[2]), period[1] <= period[2]
      PROVE  \E t \in period[1] .. period[2] : first <= t /\ t <= last
  <2>1. CASE period[1] <= first
    BY <1>1, <1>2, <1>5, <2>1
  <2>2. CASE ~(period[1] <= first)
    BY <1>1, <1>2, <1>5, <2>2
  <2>3. QED
    BY <2>1, <2>2
<1>6. QED
  BY <1>3, <1>4, <1>5

(* A view for a period has, of the models that have any valid time in it,  *)
(* the newest, and only such models; unless the producer has none, or is   *)
(* not a multifile.                                                        *)
THEOREM PeriodIsAnswered == Spec => PeriodAnswered
<1>1. ASSUME Inv, [Next]_vars, call.pc = "idle", call'.pc = "ofPeriod",
             ~IgnoresPeriod(call'.name)
      PROVE  LET ok == {m \in Range(FindProducer(call'.name)) : HasTimeIn(m, call'.period)}
             IN  ok # {} => /\ ToSet(call'.models) \subseteq ok
                            /\ \A m \in ok : m.origin <= Last(call'.models).origin
  <2> DEFINE Asked(n, t) ==
               /\ t \in Period /\ call'.name = n /\ call'.period = t
               /\ call'.models = GetPeriod(n, t)
  <2>1. \E name, period : Asked(name, period)
    <3>1. /\ "pc" \in DOMAIN call /\ "models" \in DOMAIN call /\ "name" \in DOMAIN call
          /\ "period" \in DOMAIN call
      BY <1>1, IdleFields DEF Inv, StateType
    <3>2. ASSUME NEW name, GetByName(name) PROVE \E period : Asked(name, period)
      BY <1>1, <3>1, <3>2 DEF GetByName
    <3>3. ASSUME NEW name, NEW options,
                 AskProducer \/ AskTimes(name) \/ AskKnown(name) \/ AskMetadata(options)
          PROVE  FALSE
      BY <1>1, <3>1, <3>3 DEF AskProducer, AskTimes, AskKnown, AskMetadata
    <3>4. ASSUME NEW p, UNCHANGED vars \/ Tick \/ Publish(p) \/ Withdraw(p) PROVE FALSE
      BY <1>1, <3>4 DEF vars, Tick, Publish, Withdraw, Replace
    <3>5. ASSUME GetFound \/ GetOfTime \/ GetKnown \/ Forget PROVE FALSE
      BY <1>1, <3>5 DEF GetFound, GetOfTime, GetKnown, Forget
    <3>6. QED
      BY <1>1, <3>2, <3>3, <3>4, <3>5 DEF Next
  <2>2. PICK name, period : Asked(name, period)
    BY <2>1
  <2> DEFINE models == FindProducer(name)
             over == Overlapping(models, period)
             ok == {m \in Range(models) : HasTimeIn(m, period)}
             view == GetPeriod(name, period)
  <2>3. IsLoaded(models) /\ period \in Nat \X Nat
    BY <1>1, <2>2, FindProducerLoaded, FileAssumption DEF Inv
  <2>4. SUFFICES ASSUME ok # {}
                 PROVE  ToSet(view) \subseteq ok /\ \A m \in ok : m.origin <= Last(view).origin
    BY <2>2
  <2>5. /\ IsCollection(over) /\ DOMAIN over = {o \in DOMAIN models : Overlaps(models[o], period)}
        /\ \A o \in DOMAIN over : over[o] = models[o]
    BY <2>3, OverlappingFacts
  <2>6. IF DOMAIN over = {} THEN TRUE ELSE IsView(view, over)
    BY <1>1, <2>2, GetPeriodIsView DEF Inv
  <2> HIDE DEF models, over, view
  <2>7. \A m \in ok : \E o \in DOMAIN over : m = over[o] /\ m = models[o] /\ m.origin = o
    BY <2>3, <2>5, OverlapIsTime DEF Range, IsLoaded, IsCollection
  <2>8. period[1] <= period[2] /\ DOMAIN over # {}
    BY <2>3, <2>4, <2>7, OverlapIsTime DEF Range
  <2>9. IsView(view, over) /\ view # <<>>
    BY <2>6, <2>8 DEF IsView
  <2>10. IsLoaded(over)
    BY <2>3, <2>5 DEF IsLoaded
  <2>11. \A m \in ok : m.origin <= Last(view).origin
    BY <2>7, <2>9, <2>10, LastOfView
  <2>12. ASSUME NEW i \in DOMAIN view PROVE view[i] \in ok
    BY <2>3, <2>5, <2>8, <2>9, OverlapIsTime DEF IsView, Range
  <2>13. QED
    BY <2>11, <2>12 DEF ToSet
<1>2. Inv /\ [Next]_vars =>
        [call.pc = "idle" /\ call'.pc = "ofPeriod" /\ ~IgnoresPeriod(call'.name) =>
           LET ok == {m \in Range(FindProducer(call'.name)) : HasTimeIn(m, call'.period)}
           IN  ok # {} => /\ ToSet(call'.models) \subseteq ok
                          /\ \A m \in ok : m.origin <= Last(call'.models).origin]_vars
  BY <1>1
<1>3. QED
  BY <1>2, AlwaysInv, PTL DEF Spec, PeriodAnswered

-------------------------------------------------------------------------------
(* The shortcuts by producer and origin time find what a search of all     *)
(* metadata would find.                                                    *)
LEMMA ShortcutsLoseNothing ==
  ASSUME Inv, NEW options, options.producer \subseteq AsWritten
  PROVE  RepoMetadata(producers, options) = {meta \in Everything : Passes(meta, options)}
<1>1. ASSUME NEW meta
      PROVE  meta \in Everything <=>
               \E p \in DOMAIN producers : \E o \in DOMAIN producers[p] :
                  meta = MetaData(p, producers[p][o])
  BY DEF Everything, Range
<1> DEFINE Asked == IF options.producer = {} THEN DOMAIN producers ELSE options.producer
           times(p) == IF options.producer # {} /\ options.origin # {}
                       THEN options.origin ELSE TimesOf(producers, p)
<1>2. ASSUME NEW meta
      PROVE  meta \in Candidates(producers, options) <=>
               \E p \in Asked : p \in DOMAIN producers /\
                  \E o \in times(p) \cap DOMAIN producers[p] : meta = MetaData(p, producers[p][o])
  BY DEF Candidates, MetadataOf
<1>3. ASSUME NEW p \in DOMAIN producers, NEW o \in DOMAIN producers[p],
             Passes(MetaData(p, producers[p][o]), options)
      PROVE  p \in Asked /\ o \in times(p)
  <2>1. /\ \A name \in options.producer : Lower(name) = Lower(p)
        /\ options.origin \subseteq {producers[p][o].origin}
    BY <1>3 DEF Passes, FilterProducer, FilterTimes, MetaData
  <2>2. producers[p][o].origin = o /\ p \in DOMAIN Config
    BY DEF Inv, StateType, IsLoaded, IsCollection
  <2>3. \A name \in options.producer : name = p
    BY <2>1, <2>2 DEF AsWritten
  <2>4. p \in Asked
    BY <2>3
  <2>5. o \in times(p)
    BY <2>1, <2>2 DEF TimesOf
  <2>6. QED
    BY <2>4, <2>5
<1> HIDE DEF Asked, times
<1>4. ASSUME NEW meta, Passes(meta, options)
      PROVE  meta \in Candidates(producers, options) <=> meta \in Everything
  BY <1>1, <1>2, <1>3, <1>4
<1>5. QED
  <2>1. ASSUME NEW meta, meta \in Candidates(producers, options) PROVE meta \in Everything
    BY <1>1, <1>2, <2>1
  <2>2. QED
    BY <1>4, <2>1 DEF RepoMetadata

THEOREM ShortcutsAgree == Spec => MetadataAgrees
<1>1. ASSUME Inv, [Next]_vars, call.pc = "idle", call'.pc = "listed",
             call'.options.producer \subseteq AsWritten
      PROVE  call'.listed = {meta \in Everything : Passes(meta, call'.options)}
  <2>1. \E options : /\ call'.options = options
                    /\ call'.listed = RepoMetadata(producers, options)
    <3>1. /\ "pc" \in DOMAIN call /\ "options" \in DOMAIN call /\ "listed" \in DOMAIN call
          /\ "models" \in DOMAIN call
      BY <1>1, IdleFields DEF Inv, StateType
    <3>2. ASSUME NEW options, AskMetadata(options)
          PROVE  call'.options = options /\ call'.listed = RepoMetadata(producers, options)
      BY <3>1, <3>2 DEF AskMetadata
    <3>3. ASSUME NEW name, AskProducer \/ AskTimes(name) \/ AskKnown(name) \/ GetByName(name)
          PROVE  FALSE
      BY <1>1, <3>1, <3>3 DEF AskProducer, AskTimes, AskKnown, GetByName
    <3>4. ASSUME NEW p, UNCHANGED vars \/ Tick \/ Publish(p) \/ Withdraw(p) PROVE FALSE
      BY <1>1, <3>4 DEF vars, Tick, Publish, Withdraw, Replace
    <3>5. ASSUME GetFound \/ GetOfTime \/ GetKnown \/ Forget PROVE FALSE
      BY <1>1, <3>5 DEF GetFound, GetOfTime, GetKnown, Forget
    <3>6. QED
      BY <1>1, <3>2, <3>3, <3>4, <3>5 DEF Next
  <2>2. QED
    BY <1>1, <2>1, ShortcutsLoseNothing
<1>2. Inv /\ [Next]_vars =>
        [call.pc = "idle" /\ call'.pc = "listed" /\ call'.options.producer \subseteq AsWritten =>
           call'.listed = {meta \in Everything : Passes(meta, call'.options)}]_vars
  BY <1>1
<1>3. QED
  BY <1>2, AlwaysInv, PTL DEF Spec, MetadataAgrees

-------------------------------------------------------------------------------
(* What the first call of a client promised, its second call keeps, unless *)
(* the models of that producer have changed in between.                    *)
THEOREM PromisesAreKept == Spec => FollowUpsAgree
<1>1. ASSUME Inv, [Next]_vars, call.pc = "found", call'.pc # "found",
             ModelsOf(call.found) = call.seen
      PROVE  call'.pc = "latest" /\ CoversIn(Last(call'.models), call.level)
  <2>1. ContainsPoint(call.seen, call.level)
    BY <1>1 DEF Inv, FoundSuits
  <2>2. FindProducer(call.found) = call.seen
    BY <1>1, <2>1 DEF ContainsPoint, ModelsOf, FindProducer
  <2> DEFINE models == FindProducer(call.found)
             view == Get(call.found)
  <2>3. IsLoaded(models) /\ IsView(view, models)
    BY <1>1, FindProducerLoaded, GetIsView DEF Inv
  <2>4. models # NoModels /\ CoversIn(models[Newest(DOMAIN models)], call.level)
    BY <2>1, <2>2 DEF ContainsPoint
  <2>5. view # <<>> /\ CoversIn(Last(view), call.level)
    BY <2>3, <2>4, NoModelsIs DEF IsView
  <2>6. GetFound
    <3>1. "pc" \in DOMAIN call
      BY <1>1, IdleFields DEF Inv, StateType
    <3>2. ASSUME NEW name, NEW options,
                 \/ AskProducer \/ AskTimes(name) \/ AskKnown(name) \/ GetByName(name)
                 \/ AskMetadata(options) \/ GetOfTime \/ GetKnown \/ Forget
          PROVE  FALSE
      BY <1>1, <3>2 DEF AskProducer, AskTimes, AskKnown, GetByName, AskMetadata, GetOfTime,
                        GetKnown, Forget
    <3>3. ASSUME NEW p, UNCHANGED vars \/ Tick \/ Publish(p) \/ Withdraw(p) PROVE FALSE
      BY <1>1, <3>3 DEF vars, Tick, Publish, Withdraw, Replace
    <3>4. QED
      BY <1>1, <3>2, <3>3 DEF Next
  <2>7. call' = [call EXCEPT !.pc = "latest", !.models = view]
    BY <2>5, <2>6 DEF GetFound, Ends
  <2>8. call'.pc = "latest" /\ call'.models = view
    BY <1>1, <2>7, IdleFields DEF Inv, StateType
  <2>9. QED
    BY <2>5, <2>8
<1>2. ASSUME Inv, [Next]_vars, call.pc = "times", call'.pc # "times",
             FindProducer(call.name) = call.seen
      PROVE  call'.pc = "ofOrigin"
  <2>1. GetOrigin(call.name, call.origin) # <<>>
    BY <1>2 DEF Inv, TimesSeen, GetOrigin
  <2>2. GetOfTime
    <3>1. ASSUME NEW name, NEW options,
                 \/ AskProducer \/ AskTimes(name) \/ AskKnown(name) \/ GetByName(name)
                 \/ AskMetadata(options) \/ GetFound \/ GetKnown \/ Forget
          PROVE  FALSE
      BY <1>2, <3>1 DEF AskProducer, AskTimes, AskKnown, GetByName, AskMetadata, GetFound,
                        GetKnown, Forget
    <3>2. ASSUME NEW p, UNCHANGED vars \/ Tick \/ Publish(p) \/ Withdraw(p) PROVE FALSE
      BY <1>2, <3>2 DEF vars, Tick, Publish, Withdraw, Replace
    <3>3. QED
      BY <1>2, <3>1, <3>2 DEF Next
  <2>3. QED
    BY <1>2, <2>1, <2>2, IdleFields DEF GetOfTime, Ends, Inv, StateType
<1>3. Inv /\ [Next]_vars =>
        [/\ call.pc = "found" /\ call'.pc # "found" /\ ModelsOf(call.found) = call.seen
           => call'.pc = "latest" /\ CoversIn(Last(call'.models), call.level)
         /\ call.pc = "times" /\ call'.pc # "times" /\ FindProducer(call.name) = call.seen
           => call'.pc = "ofOrigin"]_vars
  BY <1>1, <1>2
<1>4. QED
  BY <1>3, AlwaysInv, PTL DEF Spec, FollowUpsAgree
===============================================================================
