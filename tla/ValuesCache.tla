----------------------------- MODULE ValuesCache -----------------------------
(***************************************************************************)
(* The caches of values and of coordinates in EngineImpl, with the models  *)
(* whose hashes are their keys.                                            *)
(*                                                                         *)
(* A call that finds no future under its key starts one, which computes    *)
(* from the call's own Q, inserts it, and waits for it; a call that finds  *)
(* one waits for that.  Two calls may find nothing at once.  The key of a  *)
(* Q comes from the name and the modification time of the file of its      *)
(* model.  The constructor of a model reads the file first and its         *)
(* modification time afterwards.                                           *)
(*                                                                         *)
(* One file, one parameter and one time are modelled: keys of others never *)
(* meet.  The file is replaced as a whole, every version in a second of    *)
(* its own, so that a version number stands for both its data and its time.*)
(***************************************************************************)
EXTENDS Naturals, FiniteSets, Functions

CONSTANTS
  Call,        \* identities for calls
  FutureId,    \* identities for futures; a freed one may be used again
  MaxVersion,  \* bound: the last version of the file
  MaxEntries   \* the size of the cache

ASSUME CacheAssumption == MaxVersion \in Nat /\ MaxEntries \in Nat \ {0}

Nobody == "nobody"

Nothing == "nothing"

ASSUME NobodyAssumption == Nobody \notin Call /\ Nothing \notin FutureId

VARIABLES
  file,        \* the version of the file
  noticed,     \* the version the directory monitor has seen last
  loading,     \* the version whose data a task has read: at most one
  published,   \* the model in the repository
  cache,       \* itsValuesCache
  future,      \* the futures
  call         \* the calls

vars == <<file, noticed, loading, published, cache, future, call>>

Version == 0 .. MaxVersion

(* A model, and what makes its hash.                                       *)
Model == [data : Version, modtime : Version]

KeyOfPath(model) == 0

Key(model) == model.modtime

FirstModel == [data |-> 0, modtime |-> 0]

(* A future: the call whose Q it computes from, and the model of that Q;   *)
(* it is free when neither the cache nor a call has it.                    *)
Future == [pc : {"free", "running", "done", "failed"}, for : Call \cup {Nobody},
           model : Model]

FreeFuture == [pc |-> "free", for |-> Nobody, model |-> FirstModel]

CallState == [pc : {"idle", "find", "miss", "insert", "wait", "answered", "thrown"},
              model : Model, future : FutureId \cup {Nothing}, got : Model]

IdleCall == [pc |-> "idle", model |-> FirstModel, future |-> Nothing, got |-> FirstModel]

(* Types; and the futures that the cache and the calls have are there.     *)
TypeOK ==
  /\ file \in Version /\ noticed \in Version
  /\ loading \subseteq Version /\ Cardinality(loading) <= 1
  /\ published \in Model
  /\ DOMAIN cache \subseteq Version /\ Range(cache) \subseteq FutureId
  /\ Cardinality(DOMAIN cache) <= MaxEntries
  /\ future \in [FutureId -> Future]
  /\ call \in [Call -> CallState]
  /\ \A f \in Range(cache) : future[f].pc # "free"
  /\ \A c \in Call : call[c].pc \in {"insert", "wait"} => future[call[c].future].pc # "free"

Init ==
  /\ file = 0 /\ noticed = 0 /\ loading = {}
  /\ published = FirstModel
  /\ cache = [k \in {} |-> Nothing]
  /\ future = [f \in FutureId |-> FreeFuture]
  /\ call = [c \in Call |-> IdleCall]

-------------------------------------------------------------------------------
(* The file is replaced; the monitor notices; a task, which may find a     *)
(* later version by then, makes a model of it.                             *)
WriteFile ==
  /\ file < MaxVersion
  /\ file' = file + 1
  /\ UNCHANGED <<noticed, loading, published, cache, future, call>>

LoadData ==
  /\ loading = {}
  /\ \E v \in noticed + 1 .. file : noticed' = v
  /\ loading' = {file}
  /\ UNCHANGED <<file, published, cache, future, call>>

LoadTime ==
  /\ \E v \in loading : published' = [data |-> v, modtime |-> file]
  /\ loading' = {}
  /\ UNCHANGED <<file, noticed, cache, future, call>>

-------------------------------------------------------------------------------
(* Futures that nobody has any more are gone.                              *)
HadByCache(c, q) == Range(c)

Had(c, q) == Range(c) \cup {q[x].future : x \in Call}

Collected(fs, c, q) == [f \in FutureId |-> IF f \in Had(c, q) THEN fs[f] ELSE FreeFuture]

(* A call has a Q of the model that is published when it begins.           *)
Begin(c) ==
  /\ call[c].pc = "idle"
  /\ call' = [call EXCEPT ![c].pc = "find", ![c].model = published]
  /\ UNCHANGED <<file, noticed, loading, published, cache, future>>

Find(c) ==
  /\ call[c].pc = "find"
  /\ LET key == Key(call[c].model)
     IN  call' = IF key \in DOMAIN cache
                 THEN [call EXCEPT ![c].pc = "wait", ![c].future = cache[key]]
                 ELSE [call EXCEPT ![c].pc = "miss"]
  /\ UNCHANGED <<file, noticed, loading, published, cache, future>>

Start(c) ==
  /\ call[c].pc = "miss"
  /\ \E f \in FutureId :
       /\ future[f].pc = "free"
       /\ future' = [future EXCEPT ![f] = [pc |-> "running", for |-> c,
                                           model |-> call[c].model]]
       /\ call' = [call EXCEPT ![c].pc = "insert", ![c].future = f]
  /\ UNCHANGED <<file, noticed, loading, published, cache>>

(* Fmi::Cache (external): another future may be there by now, and is kept  *)
(* or replaced; others are dropped when there are too many.                *)
With(key, f) == [k \in DOMAIN cache \cup {key} |-> IF k = key THEN f ELSE cache[k]]

Inserted(key, f) ==
  {Restrict(full, keys) :
     full \in {With(key, f)} \cup (IF key \in DOMAIN cache THEN {cache} ELSE {}),
     keys \in {ks \in SUBSET (DOMAIN cache \cup {key}) :
                 key \in ks /\ Cardinality(ks) <= MaxEntries}}

(* The call waits for its own future, whatever the cache has.              *)
Insert(c) ==
  /\ call[c].pc = "insert"
  /\ \E entries \in Inserted(Key(call[c].model), call[c].future) :
       /\ cache' = entries
       /\ call' = [call EXCEPT ![c].pc = "wait"]
  /\ future' = Collected(future, cache', call')
  /\ UNCHANGED <<file, noticed, loading, published>>

(* The computation ends with values or with an exception, and both stay in *)
(* the future.                                                             *)
Compute(f) ==
  /\ future[f].pc = "running"
  /\ \E end \in {"done", "failed"} : future' = [future EXCEPT ![f].pc = end]
  /\ UNCHANGED <<file, noticed, loading, published, cache, call>>

(* There is no limit to how long a call waits.                             *)
ReadyOrGivenUp(f) == future[f].pc # "free"

Ready(f) == future[f].pc \in {"done", "failed"}

Answer(c) ==
  /\ call[c].pc = "wait"
  /\ LET f == call[c].future
     IN  /\ Ready(f)
         /\ call' = IF future[f].pc = "done"
                    THEN [call EXCEPT ![c].pc = "answered", ![c].future = Nothing,
                                      ![c].got = future[f].model]
                    ELSE [call EXCEPT ![c].pc = "thrown", ![c].future = Nothing]
  /\ future' = Collected(future, cache, call')
  /\ UNCHANGED <<file, noticed, loading, published, cache>>

End(c) ==
  /\ call[c].pc \in {"answered", "thrown"}
  /\ call' = [call EXCEPT ![c] = IdleCall]
  /\ UNCHANGED <<file, noticed, loading, published, cache, future>>

-------------------------------------------------------------------------------
Next ==
  \/ WriteFile \/ LoadData \/ LoadTime
  \/ \E c \in Call : Begin(c) \/ Find(c) \/ Start(c) \/ Insert(c) \/ Answer(c) \/ End(c)
  \/ \E f \in FutureId : Compute(f)

Spec == Init /\ [][Next]_vars

(* Threads run: those that call, and those that compute.                   *)
FairSpec ==
  /\ Spec
  /\ \A c \in Call : WF_vars(Find(c) \/ Start(c) \/ Insert(c) \/ Answer(c))
  /\ \A f \in FutureId : WF_vars(Compute(f))

-------------------------------------------------------------------------------
Torn(model) == model.data # model.modtime

(* A call gets values computed from the data of its own model, though they *)
(* may come from a future that another call started for another model of   *)
(* the same file; unless one of the two models has the data of one version *)
(* of the file and the time of another.                                    *)
AnswersOwnDataUnlessTorn ==
  \A c \in Call : call[c].pc = "answered" =>
    call[c].got.data = call[c].model.data \/ Torn(call[c].model) \/ Torn(call[c].got)

(* While a future computes, the call whose Q it uses has not gone on: a Q  *)
(* is not thread-safe, and the computation captures it by reference.       *)
OwnerWaits ==
  \A f \in FutureId : future[f].pc = "running" =>
    LET c == future[f].for
    IN  call[c].pc \in {"insert", "wait"} /\ call[c].future = f

(* Every call ends, with values or with an exception.                      *)
CallsEnd == \A c \in Call : call[c].pc = "find" ~> call[c].pc \in {"answered", "thrown"}

(* Model.cpp:73: "Unique hash value for this model".  Values found under   *)
(* the key of a model were computed from the data of that model.  The code *)
(* does not keep this: see the observations in the README.                 *)
AnswersOwnData ==
  \A c \in Call : call[c].pc = "answered" => call[c].got.data = call[c].model.data
===============================================================================
