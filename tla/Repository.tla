------------------------------ MODULE Repository ------------------------------
(***************************************************************************)
(* The collection of models one producer has in memory, and the operations *)
(* querydata/Repository.cpp performs on it.                                *)
(*                                                                         *)
(* SharedModels is a std::map from origin time to model: here a function   *)
(* whose domain is the set of origin times it holds.  A model is a record  *)
(* with the path of its file, the origin time read from the file and the   *)
(* modification time of the file.  Times are naturals, and so are paths:   *)
(* the code compares file names only to sort them, so a path stands for    *)
(* its rank in the order of the names.                                     *)
(*                                                                         *)
(* The map of a producer that never got a model is absent in the code and  *)
(* empty here: remove() throws for both, expire() ignores both, getModel() *)
(* and getAllModels() find nothing in both.                                *)
(***************************************************************************)
EXTENDS Integers, FiniteSets, Functions

Model == [path : Nat, origin : Nat, modtime : Nat]

IsSharedModels(models) ==
  /\ DOMAIN models \subseteq Nat
  /\ models \in [DOMAIN models -> Model]

NoModels == [o \in {} |-> o]

(* The newest origin time, the last key of the map.                        *)
Newest(times) == CHOOSE o \in times : \A q \in times : q <= o

-------------------------------------------------------------------------------
(* Repository::add: a model with a new origin time is inserted; one whose  *)
(* origin time is taken replaces the old model only when its file is       *)
(* strictly newer.                                                         *)
AddAlways(models, m) ==
  [o \in DOMAIN models \cup {m.origin} |-> IF o = m.origin THEN m ELSE models[o]]

Add(models, m) ==
  IF m.origin \in DOMAIN models /\ m.modtime <= models[m.origin].modtime
  THEN models
  ELSE AddAlways(models, m)

(* Repository::resize: erase the oldest origin time while there are more   *)
(* than `limit' of them, which leaves the `limit' newest.                  *)
ResizeOneTooMany(models, limit) ==
  Restrict(models, {o \in DOMAIN models :
                      Cardinality({q \in DOMAIN models : q >= o}) <= limit + 1})

ResizeWrongEnd(models, limit) ==
  Restrict(models, {o \in DOMAIN models :
                      Cardinality({q \in DOMAIN models : q <= o}) <= limit})

Resize(models, limit) ==
  Restrict(models, {o \in DOMAIN models :
                      Cardinality({q \in DOMAIN models : q >= o}) <= limit})

(* Repository::expire: keep the models whose file is not older than the    *)
(* limit.                                                                  *)
Expire(models, timeLimit) ==
  Restrict(models, {o \in DOMAIN models : models[o].modtime >= timeLimit})

(* Repository::remove erases the first model, in origin time order, whose  *)
(* file has the given name.                                                *)
FirstWithPath(models, f) ==
  {o \in DOMAIN models : /\ models[o].path = f
                         /\ \A q \in DOMAIN models : models[q].path = f => o <= q}

(* RepoManager::update removes several files under one lock, in name       *)
(* order.  remove() throws when it finds nothing loaded for the producer,  *)
(* which ends the loop.  Different names erase different models, so what   *)
(* is left does not depend on the order, nor on a throw (then nothing is   *)
(* left).  The loop throws when it starts with no models, or when the last *)
(* model is erased before the last file has been handled.                  *)
RemoveAll(models, files) ==
  Restrict(models, DOMAIN models \ UNION {FirstWithPath(models, f) : f \in files})

RemoveAllThrows(models, files) ==
  \/ models = NoModels /\ files # {}
  \/ /\ DOMAIN RemoveAll(models, files) = {}
     /\ \E f \in files : \A o \in DOMAIN models : models[o].path < f

(* Repository::getModel: the models it may return for a file, at most one. *)
GetModel(models, f) == {models[o] : o \in FirstWithPath(models, f)}
===============================================================================
