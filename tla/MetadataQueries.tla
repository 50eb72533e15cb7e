---------------------------- MODULE MetadataQueries ----------------------------
(***************************************************************************)
(* Repository::getRepoMetadata with MetaQueryOptions, and the filters of   *)
(* querydata/MetaQueryFilters.cpp.                                         *)
(*                                                                         *)
(* An option that is not set is an empty set; one that has one value is a  *)
(* singleton.  A bounding box is the set of cells of the map it covers.    *)
(* Names of parameters and level types are compared without regard to case *)
(* and are given in lower case here.                                       *)
(***************************************************************************)
EXTENDS Repository, Sequences, SequencesExt

CONSTANTS
  About,          \* what is in each file
  Lower(_)        \* the name of a producer in lower case

AllMetadata ==
  [producer |-> {}, origin |-> {}, first |-> {}, last |-> {},
   params |-> {}, levels |-> {}, values |-> {}, box |-> {}]

(* The metadata of one model of producer p.                                *)
MetaData(p, m) == [producer |-> p, model |-> m]

FilterProducer(meta, options) ==
  \A name \in options.producer : Lower(name) = Lower(meta.producer)

FilterTimes(meta, options) ==
  /\ options.origin \subseteq {meta.model.origin}
  /\ options.first \subseteq {About[meta.model.path].first}
  /\ options.last \subseteq {About[meta.model.path].last}

FilterParameters(meta, options) == options.params \subseteq About[meta.model.path].params

(* Types and values of levels are looked for one by one, not as pairs.     *)
FilterLevels(meta, options) ==
  /\ options.levels \subseteq {l[1] : l \in About[meta.model.path].levels}
  /\ options.values \subseteq {l[2] : l \in About[meta.model.path].levels}

(* The given box must be inside that of the model.                         *)
FilterBoundingBox(meta, options) == options.box \subseteq About[meta.model.path].box

Passes(meta, options) ==
  /\ FilterProducer(meta, options)
  /\ FilterTimes(meta, options)
  /\ FilterParameters(meta, options)
  /\ FilterLevels(meta, options)
  /\ FilterBoundingBox(meta, options)

(* What the filters are given: the models of one producer, found by its    *)
(* exact name, or the one with the origin time; else all there are.        *)
MetadataOf(producers, p, times) ==
  IF p \notin DOMAIN producers THEN {}
  ELSE {MetaData(p, producers[p][o]) : o \in times \cap DOMAIN producers[p]}

TimesOf(producers, p) == IF p \in DOMAIN producers THEN DOMAIN producers[p] ELSE {}

CandidatesNewest(producers, options) ==
  UNION {MetadataOf(producers, p,
           IF options.producer # {} /\ options.origin # {} /\ TimesOf(producers, p) # {}
           THEN {Newest(TimesOf(producers, p))} ELSE TimesOf(producers, p)) :
         p \in IF options.producer = {} THEN DOMAIN producers ELSE options.producer}

Candidates(producers, options) ==
  UNION {MetadataOf(producers, p,
           IF options.producer # {} /\ options.origin # {}
           THEN options.origin ELSE TimesOf(producers, p)) :
         p \in IF options.producer = {} THEN DOMAIN producers ELSE options.producer}

(* getRepoMetadata(options): the candidates that pass all filters.         *)
RepoMetadata(producers, options) ==
  {meta \in Candidates(producers, options) : Passes(meta, options)}
===============================================================================
