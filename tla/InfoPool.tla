------------------------------- MODULE InfoPool -------------------------------
(***************************************************************************)
(* The cursors (NFmiFastQueryInfo) of the models, and who has them.        *)
(*                                                                         *)
(* A cursor reads the data of the model it was made from through a plain   *)
(* pointer, keeps a position, and is not thread-safe.  A model pools the   *)
(* cursors that are given back to it; info() and release() are the two     *)
(* sections under itsQueryInfoPoolMutex.  The pool is a list in the code   *)
(* and a set here: which pooled cursor is taken makes no difference.       *)
(*                                                                         *)
(* A user is a Q or one of the functions that take a cursor for a moment.  *)
(* It owns its models (shared pointers), takes its cursors one by one,     *)
(* moves them, and gives some of them back: a Q those of itsInfos, in the  *)
(* order of itsModels.  Cursors nobody owns any more are freed, and so is  *)
(* a model, with its pool, when neither the repository nor a user has it.  *)
(***************************************************************************)
EXTENDS Naturals, Sequences, FiniteSets, Functions

CONSTANTS
  Model,       \* identities for models; a freed one may be used again
  InfoId,      \* identities for the cursors of a model; a freed one may be used again
  User,        \* identities for users
  MaxInfos     \* bound: the number of models of one Q

ASSUME InfoPoolAssumption == MaxInfos \in Nat /\ IsFiniteSet(User)

VARIABLES
  loaded,      \* the models in the repository
  pool,        \* itsQueryInfoPool, by model
  moved,       \* the cursors that are not at the first position
  user,        \* the users
  peak         \* history: the most cursors of a model in use at once

vars == <<loaded, pool, moved, user, peak>>

(* A cursor, with the model whose data it reads.                           *)
Info == [of : Model, id : InfoId]

(* A user: its models, the models it still has to take a cursor of, the    *)
(* cursors it has taken, how many of them it gives back at the end, and    *)
(* how many it has given back.                                             *)
NoUser == [pc |-> "none", models |-> <<>>, wants |-> <<>>, infos |-> <<>>,
           returns |-> 0, released |-> 0]

UserState == [pc : {"none", "taking", "open", "moving", "closing"},
              models : Seq(Model), wants : Seq(Model), infos : Seq(Info),
              returns : Nat, released : Nat]

(* The cursors user u has, by the order in which it took them; the model   *)
(* whose data cursor k of a user must read.                                *)
Has(u) == {k \in DOMAIN user[u].infos : k > user[u].released}

ModelOf(u, k) == user[u].models[IF k \in DOMAIN user[u].models THEN k ELSE 1]

InUse(m) ==
  {x \in User \X (1 .. MaxInfos + 1) : x[2] \in Has(x[1]) /\ ModelOf(x[1], x[2]) = m}

Hand(u) == {user[u].infos[k] : k \in Has(u)}

Held == UNION {Hand(u) : u \in User}

Free(m) == {i \in Info : i.of = m} \ (Held \cup UNION {pool[n] : n \in Model})

Alive == loaded \cup UNION {Range(user[u].models) : u \in User}

TypeOK ==
  /\ loaded \subseteq Model
  /\ pool \in [Model -> SUBSET Info]
  /\ moved \subseteq Info
  /\ user \in [User -> UserState]
  /\ peak \in [Model -> Nat]

Init ==
  /\ loaded = {}
  /\ pool = [m \in Model |-> {}]
  /\ moved = {}
  /\ user = [u \in User |-> NoUser]
  /\ peak = [m \in Model |-> 0]

-------------------------------------------------------------------------------
(* A model is read from a file: the constructor makes one cursor, moves it *)
(* over the times, and pools it.                                           *)
LoadModel(m) ==
  /\ m \notin Alive
  /\ \E i \in Free(m) :
       /\ pool' = [pool EXCEPT ![m] = {i}]
       /\ moved' = moved \cup {i}
  /\ loaded' = loaded \cup {m}
  /\ peak' = [peak EXCEPT ![m] = 1]
  /\ UNCHANGED user

(* Models that nobody has any more are freed with their pools.             *)
FreeModels == pool' = [m \in Model |-> IF m \in Alive' THEN pool[m] ELSE {}]

(* The repository lets go of a model; without users it is freed.           *)
UnloadModel(m) ==
  /\ m \in loaded
  /\ loaded' = loaded \ {m}
  /\ UNCHANGED <<user, peak>>
  /\ FreeModels
  /\ moved' = {i \in moved : i.of \in Alive'}

(* A user begins: models, the cursors to take, how many to give back.      *)
Begin(u, models, wants, returns) ==
  /\ user[u].pc = "none"
  /\ user' = [user EXCEPT ![u] = [pc |-> "taking", models |-> models, wants |-> wants,
                                  infos |-> <<>>, returns |-> returns, released |-> 0]]

(* Q of one model takes two cursors and gives one back.                    *)
SingleQ(u, m) ==
  /\ m \in loaded
  /\ Begin(u, <<m>>, <<m, m>>, 1)
  /\ UNCHANGED <<loaded, pool, moved, peak>>

(* Q of several models takes one cursor of each and gives all back.        *)
MultiQ(u, models) ==
  /\ models # <<>> /\ Range(models) \subseteq loaded
  /\ IsInjective(models)
  /\ Begin(u, models, models, Len(models))
  /\ UNCHANGED <<loaded, pool, moved, peak>>

(* Repository::contains takes one cursor of a model and gives it back.     *)
Contains(u, m) ==
  /\ m \in loaded
  /\ Begin(u, <<m>>, <<m>>, 1)
  /\ UNCHANGED <<loaded, pool, moved, peak>>

(* QImpl::metaData (of its first model) and Repository::getRepoContents    *)
(* take one cursor of a model and keep it until it is freed.               *)
Describe(u, m) ==
  /\ m \in Alive
  /\ Begin(u, <<m>>, <<m>>, 0)
  /\ UNCHANGED <<loaded, pool, moved, peak>>

(* QImpl::sample makes a model from another one, with an empty pool, and a *)
(* Q of it; the repository never has the model.                            *)
Sample(u, m) ==
  /\ m \notin Alive
  /\ \E v \in User : user[v].pc \in {"open", "moving"}
  /\ Begin(u, <<m>>, <<m, m>>, 1)
  /\ peak' = [peak EXCEPT ![m] = 0]
  /\ UNCHANGED <<loaded, pool, moved>>

(* Model::info: a pooled cursor if there is one, otherwise a new one; and  *)
(* in both cases it is moved to the first position.                        *)
TakeableNew(m) == Free(m)

Takeable(m) == IF pool[m] = {} THEN Free(m) ELSE pool[m]

AfterFirstOfNew(m, i) == IF pool[m] = {} THEN moved \ {i} ELSE moved

AfterFirst(m, i) == moved \ {i}

LeftInPool(m, i) == pool[m]

OutOfPool(m, i) == pool[m] \ {i}

Take(u) ==
  /\ user[u].pc = "taking"
  /\ LET m == Head(user[u].wants)
     IN  /\ \E i \in Takeable(m) :
              /\ pool' = [pool EXCEPT ![m] = OutOfPool(m, i)]
              /\ moved' = AfterFirst(m, i)
              /\ user' = [user EXCEPT ![u].infos = Append(@, i),
                                      ![u].wants = Tail(@),
                                      ![u].pc = IF Len(user[u].wants) = 1 THEN "open" ELSE @]
         /\ peak' = [peak EXCEPT ![m] = IF @ <= Cardinality(InUse(m))
                                        THEN Cardinality(InUse(m)) + 1 ELSE @]
  /\ UNCHANGED loaded

(* The user reads data, which moves its cursors.                           *)
Move(u) ==
  /\ user[u].pc \in {"open", "moving"}
  /\ user' = [user EXCEPT ![u].pc = "moving"]
  /\ moved' = moved \cup Hand(u)
  /\ UNCHANGED <<loaded, pool, peak>>

(* The end of a user: ~QImpl and the like call Model::release for the      *)
(* cursors to be given back, in order.                                     *)
ReleaseTargetFirst(u, k) == user[u].models[1]

ReleaseTarget(u, k) == user[u].models[k]

Release(u) ==
  /\ user[u].pc \in {"open", "moving", "closing"}
  /\ user[u].released < user[u].returns
  /\ LET k == user[u].released + 1
     IN  pool' = [pool EXCEPT ![ReleaseTarget(u, k)] = @ \cup {user[u].infos[k]}]
  /\ user' = [user EXCEPT ![u].pc = "closing", ![u].released = @ + 1]
  /\ UNCHANGED <<loaded, moved, peak>>

(* The cursors that are left, and then the models, are let go of; so they  *)
(* are when a constructor throws after it has taken some cursors.          *)
End(u) ==
  /\ \/ user[u].pc = "taking"
     \/ user[u].pc \in {"open", "moving", "closing"} /\ user[u].released = user[u].returns
  /\ user' = [user EXCEPT ![u] = NoUser]
  /\ UNCHANGED <<loaded, peak>>
  /\ FreeModels
  /\ moved' = {i \in moved : i.of \in Alive' /\ i \notin Hand(u)}

-------------------------------------------------------------------------------
ModelLists == UNION {[1 .. n -> Model] : n \in 1 .. MaxInfos}

UserStep(u) ==
  \/ \E m \in Model : SingleQ(u, m) \/ Contains(u, m) \/ Describe(u, m) \/ Sample(u, m)
  \/ \E models \in ModelLists : MultiQ(u, models)
  \/ Take(u) \/ Move(u) \/ Release(u) \/ End(u)

Next ==
  \/ \E m \in Model : LoadModel(m) \/ UnloadModel(m)
  \/ \E u \in User : UserStep(u)

Spec == Init /\ [][Next]_vars

-------------------------------------------------------------------------------
(* No cursor is ever in two hands: two users, one user twice, a user and a *)
(* pool, or two pools.  Cursors are not thread-safe, and queries run       *)
(* concurrently; info() and release() are all that keeps them apart.       *)
Exclusive ==
  /\ \A u, v \in User : \A k \in Has(u), l \in Has(v) :
        user[u].infos[k] = user[v].infos[l] => u = v /\ k = l
  /\ \A u \in User, m \in Model : Hand(u) \cap pool[m] = {}
  /\ \A m, n \in Model : pool[m] \cap pool[n] # {} => m = n

(* Every cursor that may be used reads the data of the model it stands     *)
(* for, and that data has not been freed: the repository may drop a model, *)
(* and a reload may free it, while queries still have its cursors.         *)
ReadsLiveData ==
  /\ \A u \in User : \A k \in Has(u) :
        /\ user[u].infos[k].of = ModelOf(u, k)
        /\ ModelOf(u, k) \in Alive
  /\ \A m \in Model : \A i \in pool[m] : i.of = m /\ m \in Alive

(* A user finds all its cursors at the first position, wherever the        *)
(* previous user left them, and although others move theirs meanwhile.     *)
StartsAtFirst ==
  \A u \in User : user[u].pc = "open" => Hand(u) \cap moved = {}

(* Pooling creates no more cursors than were ever needed at once: a pool   *)
(* does not grow with the number of queries.                               *)
PoolBounded ==
  \A m \in Alive : Cardinality(pool[m]) + Cardinality(InUse(m)) <= peak[m]

(* Model.h:136-139: "we pool the used infos" and "returns the info back to *)
(* the pool"; Q.cpp:1124: "The destructor releases the NFmiFastQueryInfo   *)
(* back into a pool".  A Q that ends has given back all its cursors.  The  *)
(* code does not keep this: see the observations in the README.            *)
InfosReturned ==
  [][\A u \in User : user[u].returns > 0 /\ user[u].pc \in {"open", "moving", "closing"}
                     /\ user'[u].pc = "none"
                     => Has(u) = {}]_user
===============================================================================
