--------------------------- MODULE RepositoryQueries ---------------------------
(***************************************************************************)
(* What querydata/Repository.cpp answers to the calls of EngineImpl, while *)
(* models come and go between two calls of one client.                     *)
(*                                                                         *)
(* Every call holds the read lock of the manager, so that a query of the   *)
(* repository is one step; a client that first asks for a producer, or for *)
(* its origin times, and then for the data takes two, and so does          *)
(* getProducerTimePeriod.                                                  *)
(*                                                                         *)
(* What is in a file does not change with its versions here: its grid, its *)
(* valid times, its level type and whether the point the client asks about *)
(* is inside it are given by About.                                        *)
(***************************************************************************)
EXTENDS MetadataQueries

CONSTANTS
  Name,          \* the names clients use: producers, aliases and unknown ones
  Config,        \* itsProducerConfigs: the settings of each producer
  ByName,        \* the producers in the order of the map itsProducerConfigs
  InFileOrder,   \* itsProducerList: the producers in the order of the settings
  Lists,         \* lists of names that clients search
  FileOf,        \* the models that may be loaded for each producer
  LevelTypes,    \* level types clients ask for
  Period,        \* valid times clients ask for
  Options,       \* metadata clients ask for
  MaxTime        \* bound: the last second

NoProducer == ""

AnyLevel == ""

ASSUME ConfigAssumption ==
  /\ NoProducer \notin Name
  /\ DOMAIN Config \subseteq Name
  /\ \A p \in DOMAIN Config :
       /\ Config[p].aliases \subseteq Name
       /\ Config[p].multifile \in BOOLEAN
       /\ \A q \in DOMAIN Config : Lower(p) = Lower(q) => p = q
       /\ Config[p].keep \in Nat \ {0} /\ Config[p].maxLatestAge \in Nat

(* A file's first valid time is not after its last.                        *)
ASSUME FileAssumption ==
  /\ \A p \in DOMAIN Config : FileOf[p] \subseteq Model
  /\ \A p \in DOMAIN Config : \A m \in FileOf[p] :
       /\ About[m.path].first \in Nat /\ About[m.path].last \in Nat
       /\ About[m.path].first <= About[m.path].last
  /\ Period \subseteq Nat \X Nat /\ MaxTime \in Nat

ASSUME OrderAssumption ==
  /\ {ByName, InFileOrder} \subseteq Seq(DOMAIN Config)
  /\ ToSet(ByName) = DOMAIN Config /\ ToSet(InFileOrder) = DOMAIN Config
  /\ Lists \subseteq Seq(Name)

VARIABLES
  producers,   \* itsProducers: producers that have had a model
  now,         \* the clock
  call         \* the call a client has under way, and how it was answered

vars == <<producers, now, call>>

(* A call: what it asks for, the producer its first step found, with the   *)
(* models that had then (history), and the models of its answer.           *)
Idle == [pc |-> "idle", name |-> NoProducer, period |-> <<0, 0>>, level |-> AnyLevel,
         found |-> NoProducer, origin |-> 0, seen |-> NoModels, models |-> <<>>,
         options |-> AllMetadata, listed |-> {}]

TypeOK ==
  /\ DOMAIN producers \subseteq DOMAIN Config
  /\ \A p \in DOMAIN producers : /\ IsSharedModels(producers[p])
                                 /\ Cardinality(DOMAIN producers[p]) <= Config[p].keep
  /\ now \in 0 .. MaxTime
  /\ DOMAIN call = DOMAIN Idle
  /\ call.pc \in {"idle", "found", "times", "known",
                 "missing", "thrown", "latest", "ofOrigin", "ofPeriod", "listed"}
  /\ call.name \in Name \cup {NoProducer}
  /\ call.found \in DOMAIN Config \cup {NoProducer}
  /\ IsSharedModels(call.seen)
  /\ \A i \in DOMAIN call.models : call.models[i] \in Model
  /\ \A meta \in call.listed : meta.producer \in DOMAIN Config /\ meta.model \in Model

Init ==
  /\ producers = [p \in {} |-> NoModels]
  /\ now = 0
  /\ call = Idle

-------------------------------------------------------------------------------
(* The collections, as RepoManager changes them.                           *)
Has(p) == p \in DOMAIN producers

ModelsOf(p) == IF Has(p) THEN producers[p] ELSE NoModels

Replace(p, models) ==
  /\ producers' = [x \in DOMAIN producers \cup {p} |-> IF x = p THEN models ELSE producers[x]]
  /\ UNCHANGED <<now, call>>

Publish(p) ==
  \E m \in FileOf[p] :
    Replace(p, Resize(Add(ModelsOf(p), [m EXCEPT !.modtime = now]), Config[p].keep))

Withdraw(p) ==
  \E o \in DOMAIN ModelsOf(p) : Replace(p, RemoveAll(producers[p], {producers[p][o].path}))

Tick ==
  /\ now < MaxTime
  /\ now' = now + 1
  /\ UNCHANGED <<producers, call>>

-------------------------------------------------------------------------------
(* Names and aliases.                                                      *)
HasAlias(p, name) == name \in Config[p].aliases

HasProducer(name) == name \in DOMAIN Config \/ \E p \in DOMAIN Config : HasAlias(p, name)

(* findProducer: the collection of that name, or of the first producer, in *)
(* the order of the map, that has the alias.                               *)
FindProducer(name) ==
  IF Has(name) THEN producers[name]
  ELSE LET i == SelectInSeq(ByName, LAMBDA p : HasAlias(p, name))
       IN  IF i = 0 THEN NoModels ELSE ModelsOf(ByName[i])

(* originTimes knows no aliases.                                           *)
OriginTimesOfAlias(name) ==
  LET i == SelectInSeq(InFileOrder, LAMBDA p : p = name \/ HasAlias(p, name))
  IN  IF i = 0 THEN {} ELSE DOMAIN ModelsOf(InFileOrder[i])

OriginTimes(name) == DOMAIN ModelsOf(name)

-------------------------------------------------------------------------------
(* find: the point must be inside the newest model, which must have the    *)
(* level type; some model must be young enough, when the caller wants that.*)
LevelOK(type, wanted) == wanted \in {AnyLevel, type}

CoversIn(m, wanted) == About[m.path].inside /\ LevelOK(About[m.path].level, wanted)

ContainsInOldest(models, wanted) ==
  models # NoModels /\
    \E o \in DOMAIN models : CoversIn(models[o], wanted) /\ \A q \in DOMAIN models : o <= q

ContainsPoint(models, wanted) ==
  models # NoModels /\ CoversIn(models[Newest(DOMAIN models)], wanted)

YoungEnough(p) ==
  Config[p].maxLatestAge = 0 \/
    \E o \in DOMAIN producers[p] : producers[p][o].modtime + Config[p].maxLatestAge >= now

Suits(p, checkAge, wanted) ==
  Has(p) /\ (checkAge => YoungEnough(p)) /\ ContainsPoint(producers[p], wanted)

(* Producers under their own names come first, in the order of the list;   *)
(* then those with an alias on the list, in the order of the settings.     *)
Find(list, checkAge, wanted) ==
  LET own == SelectInSeq(list, LAMBDA p : Suits(p, checkAge, wanted))
      byAlias == SelectInSeq(InFileOrder,
                             LAMBDA p : /\ \E name \in ToSet(list) : HasAlias(p, name)
                                        /\ Suits(p, checkAge, wanted))
  IN  IF own # 0 THEN list[own] ELSE IF byAlias # 0 THEN InFileOrder[byAlias] ELSE NoProducer

-------------------------------------------------------------------------------
(* Models in the order of their origin times.                              *)
InOrder(models) ==
  [i \in 1 .. Cardinality(DOMAIN models) |->
     models[CHOOSE o \in DOMAIN models : Cardinality({q \in DOMAIN models : q <= o}) = i]]

(* A view starts again whenever the grid changes: what is left is the last *)
(* run of models that have one grid.                                       *)
GridOf(m) == About[m.path].grid

AllRuns(models) == models

FirstRun(models) ==
  SelectSeq(models, LAMBDA m : GridOf(m) = GridOf(models[1]))

LastRun(models) ==
  LET Uniform(i) == \A j \in i .. Len(models) : GridOf(models[j]) = GridOf(Last(models))
      start == CHOOSE i \in 1 .. Len(models) : Uniform(i) /\ (i > 1 => ~Uniform(i - 1))
  IN  IF models = <<>> THEN <<>> ELSE SubSeq(models, start, Len(models))

(* Both ends of a period belong to it.                                     *)
OverlapsInside(m, period) ==
  ~(period[1] >= About[m.path].last \/ About[m.path].first >= period[2])

Overlaps(m, period) ==
  ~(period[1] > About[m.path].last \/ About[m.path].first > period[2])

GetAll(name) == LastRun(InOrder(FindProducer(name)))

(* get(producer): all of a multifile, only when asked for by its own name, *)
(* or the latest model.                                                    *)
Latest(name) ==
  LET models == FindProducer(name)
  IN  IF models = NoModels THEN <<>> ELSE <<models[Newest(DOMAIN models)]>>

IsMultifile(name) == name \in DOMAIN Config /\ Config[name].multifile

Get(name) == IF IsMultifile(name) THEN GetAll(name) ELSE Latest(name)

(* get(producer, origintime): infinite times are the newest and the oldest.*)
Oldest(name) ==
  LET models == FindProducer(name)
  IN  {models[o] : o \in {o \in DOMAIN models : \A q \in DOMAIN models : o <= q}}

GetInfinite(name) == {Latest(name)} \cup {<<m>> : m \in Oldest(name)}

GetOrigin(name, origin) ==
  LET models == FindProducer(name)
  IN  IF origin \in DOMAIN models THEN <<models[origin]>> ELSE <<>>

(* get(producer, period): a producer of single files ignores the period,   *)
(* again only when asked for by its own name; without any model of the     *)
(* period, all models are used.                                            *)
IgnoresPeriod(name) == name \in DOMAIN Config /\ ~Config[name].multifile

Overlapping(models, period) ==
  Restrict(models, {o \in DOMAIN models : Overlaps(models[o], period)})

GetPeriod(name, period) ==
  LET ok == LastRun(InOrder(Overlapping(FindProducer(name), period)))
  IN  IF IgnoresPeriod(name) THEN Get(name) ELSE IF ok = <<>> THEN GetAll(name) ELSE ok

-------------------------------------------------------------------------------
(* The calls of a client.  A query that finds no models throws.            *)
Ends(models, how) ==
  call' = [call EXCEPT !.pc = IF models = <<>> THEN "thrown" ELSE how, !.models = models]

(* EngineImpl::find, for all producers or for a list, and then get.        *)
AskProducer ==
  /\ call.pc = "idle"
  /\ \E wanted \in LevelTypes \cup {AnyLevel} :
     \E p \in {Find(InFileOrder, TRUE, wanted)} \cup {Find(list, FALSE, wanted) : list \in Lists} :
       call' = [call EXCEPT !.pc = IF p = NoProducer THEN "missing" ELSE "found",
                            !.name = p, !.found = p, !.level = wanted, !.seen = ModelsOf(p)]
  /\ UNCHANGED <<producers, now>>

GetFound ==
  /\ call.pc = "found"
  /\ Ends(Get(call.found), "latest")
  /\ UNCHANGED <<producers, now>>

(* EngineImpl::origintimes, and then get of one of them.                   *)
AskTimes(name) ==
  /\ call.pc = "idle" /\ OriginTimes(name) # {}
  /\ \E o \in OriginTimes(name) :
       call' = [call EXCEPT !.pc = "times", !.name = name, !.origin = o,
                            !.seen = FindProducer(name)]
  /\ UNCHANGED <<producers, now>>

GetOfTime ==
  /\ call.pc = "times"
  /\ Ends(GetOrigin(call.name, call.origin), "ofOrigin")
  /\ UNCHANGED <<producers, now>>

(* EngineImpl::getProducerTimePeriod: hasProducer, and then get; there is  *)
(* no period when either fails.                                            *)
AskKnown(name) ==
  /\ call.pc = "idle"
  /\ call' = [call EXCEPT !.pc = IF HasProducer(name) THEN "known" ELSE "missing",
                          !.name = name]
  /\ UNCHANGED <<producers, now>>

GetKnown ==
  /\ call.pc = "known"
  /\ call' = [call EXCEPT !.pc = IF Get(call.name) = <<>> THEN "missing" ELSE "latest",
                          !.models = Get(call.name)]
  /\ UNCHANGED <<producers, now>>

(* EngineImpl::get, with a name only, an infinite time, or a period.       *)
GetByName(name) ==
  /\ call.pc = "idle"
  /\ \/ call' = [call EXCEPT !.pc = IF Get(name) = <<>> THEN "thrown" ELSE "latest",
                             !.name = name, !.models = Get(name)]
     \/ \E models \in GetInfinite(name) :
          call' = [call EXCEPT !.pc = IF models = <<>> THEN "thrown" ELSE "ofOrigin",
                               !.name = name, !.models = models]
     \/ \E period \in Period :
          LET models == GetPeriod(name, period)
          IN  call' = [call EXCEPT !.pc = IF models = <<>> THEN "thrown" ELSE "ofPeriod",
                                   !.name = name, !.period = period, !.models = models]
  /\ UNCHANGED <<producers, now>>

(* EngineImpl::getEngineMetadataBasic and WithOptions.                     *)
AskMetadata(options) ==
  /\ call.pc = "idle"
  /\ call' = [call EXCEPT !.pc = "listed", !.options = options,
                          !.listed = RepoMetadata(producers, options)]
  /\ UNCHANGED <<producers, now>>

Forget ==
  /\ call.pc \in {"missing", "thrown", "latest", "ofOrigin", "ofPeriod", "listed"}
  /\ call' = Idle
  /\ UNCHANGED <<producers, now>>

-------------------------------------------------------------------------------
Next ==
  \/ \E p \in DOMAIN Config : Publish(p) \/ Withdraw(p)
  \/ Tick
  \/ AskProducer \/ GetFound \/ GetOfTime \/ GetKnown \/ Forget
  \/ \E name \in Name : AskTimes(name) \/ AskKnown(name) \/ GetByName(name)
  \/ \E options \in Options \cup {AllMetadata} : AskMetadata(options)

Spec == Init /\ [][Next]_vars

-------------------------------------------------------------------------------
(* A view over several models never mixes grids, and has the models in the *)
(* order of their origin times.                                            *)
OneGrid ==
  \A i, j \in DOMAIN call.models :
    /\ GridOf(call.models[i]) = GridOf(call.models[j])
    /\ i < j => call.models[i].origin < call.models[j].origin

(* A query by name alone answers with the newest model of the producer,    *)
(* alone or with older ones.                                               *)
NewestAnswered ==
  [][call.pc # "latest" /\ call'.pc = "latest" =>
       \A o \in DOMAIN FindProducer(call'.name) : o <= Last(call'.models).origin]_vars

(* A view for a period has, of the models that have any valid time in it,  *)
(* the newest, and only such models; unless the producer has none, or is   *)
(* not a multifile.                                                        *)
HasTimeIn(m, period) ==
  \E t \in period[1] .. period[2] : About[m.path].first <= t /\ t <= About[m.path].last

PeriodAnswered ==
  [][call.pc = "idle" /\ call'.pc = "ofPeriod" /\ ~IgnoresPeriod(call'.name) =>
       LET ok == {m \in Range(FindProducer(call'.name)) : HasTimeIn(m, call'.period)}
       IN  ok # {} => /\ ToSet(call'.models) \subseteq ok
                      /\ \A m \in ok : m.origin <= Last(call'.models).origin]_vars

(* Metadata of a producer, given by its name as it is written, or of one   *)
(* of its origin times, are looked for in that collection only: nothing is *)
(* lost that a search of all metadata would find.                          *)
AsWritten == {name \in Name : \A p \in DOMAIN Config : Lower(p) = Lower(name) => p = name}

Everything == UNION {{MetaData(p, m) : m \in Range(producers[p])} : p \in DOMAIN producers}

MetadataAgrees ==
  [][call.pc = "idle" /\ call'.pc = "listed" /\ call'.options.producer \subseteq AsWritten =>
       call'.listed = {meta \in Everything : Passes(meta, call'.options)}]_vars

(* What the first call of a client promised, its second call keeps, unless *)
(* the models of that producer have changed in between: there are data for *)
(* a producer that was found, and they have the point and the level type;  *)
(* there are data for an origin time that was listed.                      *)
FollowUpsAgree ==
  [][/\ call.pc = "found" /\ call'.pc # "found" /\ ModelsOf(call.found) = call.seen
       => call'.pc = "latest" /\ CoversIn(Last(call'.models), call.level)
     /\ call.pc = "times" /\ call'.pc # "times" /\ FindProducer(call.name) = call.seen
       => call'.pc = "ofOrigin"]_vars
===============================================================================
