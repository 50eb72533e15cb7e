----------------------------- MODULE Values_proofs -----------------------------
(***************************************************************************)
(* Values, one request at a time (module Values) and out of a cache        *)
(* (module ValuesCache): proofs for any grid, radius, valid points and     *)
(* weather, and for any calls, futures, versions of the file and size of   *)
(* the cache.                                                              *)
(***************************************************************************)
EXTENDS ValuesCache, Values, FiniteSetTheorems, TLAPS

-------------------------------------------------------------------------------
(***************************************************************************)
(* The cache.  A future may be reached from the cache and from calls that  *)
(* did not start it, and an identity is used again when it has been        *)
(* collected.  The inductive invariant says that whoever reaches a future  *)
(* reaches one of the same key, and that it is there.                      *)
(***************************************************************************)
StateType ==
  /\ file \in Version /\ noticed \in Version
  /\ loading \subseteq Version /\ Cardinality(loading) <= 1
  /\ published \in Model
  /\ future \in [FutureId -> Future]
  /\ call \in [Call -> CallState]

(* What is in the cache is there, and was put there under its own key.     *)
CacheType ==
  /\ DOMAIN cache \subseteq Version /\ Cardinality(DOMAIN cache) <= MaxEntries
  /\ \A k \in DOMAIN cache : cache[k] \in FutureId

CacheKeyed ==
  \A k \in DOMAIN cache : future[cache[k]].pc # "free" /\ Key(future[cache[k]].model) = k

(* So is what a call waits for.                                            *)
Awaits(c, f) ==
  f \in FutureId /\ future[f].pc # "free" /\ Key(future[f].model) = Key(call[c].model)

CallsAwait == \A c \in Call : call[c].pc \in {"insert", "wait"} => Awaits(c, call[c].future)

Owned(f) == future[f].for \in Call

RunningOwned == \A f \in FutureId : future[f].pc = "running" => Owned(f)

GotKeyed == \A c \in Call : call[c].pc = "answered" => Key(call[c].got) = Key(call[c].model)

Inv ==
  /\ StateType /\ CacheType /\ CacheKeyed /\ CallsAwait /\ RunningOwned /\ OwnerWaits
  /\ GotKeyed

-------------------------------------------------------------------------------
LEMMA VersionFacts == Version \subseteq Nat /\ 0 \in Version /\ FirstModel \in Model
BY CacheAssumption DEF Version, FirstModel, Model

LEMMA InvInit == Init => Inv
<1> SUFFICES ASSUME Init PROVE Inv
  OBVIOUS
<1>1. /\ FreeFuture \in Future /\ FreeFuture.pc = "free"
      /\ IdleCall \in CallState /\ IdleCall.pc = "idle"
  BY VersionFacts DEF FreeFuture, Future, IdleCall, CallState
<1>2. Cardinality({}) = 0 /\ DOMAIN cache = {}
  BY FS_EmptySet DEF Init
<1>3. StateType
  BY <1>1, <1>2, VersionFacts DEF Init, StateType
<1>4. CacheType
  BY <1>2, CacheAssumption DEF CacheType
<1>5. CacheKeyed /\ CallsAwait /\ RunningOwned /\ OwnerWaits /\ GotKeyed
  BY <1>1, <1>2 DEF Init, CacheKeyed, CallsAwait, RunningOwned, OwnerWaits, GotKeyed
<1>6. QED
  BY <1>3, <1>4, <1>5 DEF Inv

-------------------------------------------------------------------------------
(* What the operators on futures and on the cache return.                  *)
LEMMA CollectedFacts ==
  ASSUME NEW c, NEW q, future \in [FutureId -> Future]
  PROVE  /\ Collected(future, c, q) \in [FutureId -> Future]
         /\ \A f \in FutureId : f \in Had(c, q) => Collected(future, c, q)[f] = future[f]
         /\ \A f \in FutureId : \/ Collected(future, c, q)[f] = future[f]
                                \/ Collected(future, c, q)[f].pc = "free"
<1>1. FreeFuture \in Future /\ FreeFuture.pc = "free"
  BY VersionFacts DEF FreeFuture, Future
<1>2. QED
  BY <1>1 DEF Collected

LEMMA InsertedFacts ==
  ASSUME NEW key, NEW f, NEW entries \in Inserted(key, f)
  PROVE  /\ DOMAIN entries \subseteq DOMAIN cache \cup {key}
         /\ Cardinality(DOMAIN entries) <= MaxEntries
         /\ \A k \in DOMAIN entries :
              \/ k = key /\ entries[k] = f
              \/ k \in DOMAIN cache /\ entries[k] = cache[k]
<1>1. PICK full \in {With(key, f)} \cup (IF key \in DOMAIN cache THEN {cache} ELSE {}),
           keys \in SUBSET (DOMAIN cache \cup {key}) :
             entries = Restrict(full, keys) /\ Cardinality(keys) <= MaxEntries
  BY DEF Inserted
<1>2. /\ DOMAIN entries = keys
      /\ \A k \in keys : entries[k] = full[k]
  BY <1>1 DEF Restrict
<1>3. \A k \in keys : \/ k = key /\ full[k] = f
                      \/ k \in DOMAIN cache /\ full[k] = cache[k]
  BY <1>1 DEF With
<1>4. QED
  BY <1>1, <1>2, <1>3

-------------------------------------------------------------------------------
(* Steps of the repository, and of calls that touch no future.             *)
LEMMA LoadStep ==
  ASSUME Inv, WriteFile \/ LoadData \/ LoadTime
  PROVE  Inv'
<1>1. UNCHANGED <<cache, future, call>>
  BY DEF WriteFile, LoadData, LoadTime
<1>2. StateType'
  <2>1. Cardinality({}) = 0 /\ \A v : Cardinality({v}) = 1
    BY FS_EmptySet, FS_Singleton
  <2>2. CASE WriteFile
    BY <2>2, CacheAssumption DEF Inv, StateType, WriteFile, Version
  <2>3. CASE LoadData
    <3>1. noticed' \in Version
      BY <2>3, CacheAssumption DEF Inv, StateType, LoadData, Version
    <3>2. loading' \subseteq Version /\ Cardinality(loading') <= 1
      <4>1. loading' = {file} /\ file \in Version
        BY <2>3 DEF Inv, StateType, LoadData
      <4>2. Cardinality({file}) = 1
        BY <2>1
      <4>3. QED
        BY <4>1, <4>2
    <3>3. QED
      BY <2>3, <3>1, <3>2 DEF Inv, StateType, LoadData
  <2>4. CASE LoadTime
    BY <2>1, <2>4 DEF Inv, StateType, LoadTime, Model
  <2>5. QED
    BY <2>2, <2>3, <2>4
<1>3. CacheType' /\ CacheKeyed' /\ CallsAwait'
  BY <1>1 DEF Inv, CacheType, CacheKeyed, CallsAwait, Awaits
<1>4. RunningOwned' /\ OwnerWaits' /\ GotKeyed'
  BY <1>1 DEF Inv, RunningOwned, Owned, OwnerWaits, GotKeyed
<1>5. QED
  BY <1>2, <1>3, <1>4 DEF Inv

LEMMA CallStep ==
  ASSUME Inv, NEW c \in Call, Begin(c) \/ Find(c) \/ End(c)
  PROVE  Inv'
<1>1. UNCHANGED <<file, noticed, loading, published, cache, future>>
  BY DEF Begin, Find, End
<1>2. /\ call[c].pc \in {"idle", "find", "answered", "thrown"}
      /\ \A x \in Call \ {c} : call'[x] = call[x]
  BY DEF Inv, StateType, Begin, Find, End
<1>3. call' \in [Call -> CallState]
  <2>1. CASE Begin(c)
    BY <2>1, ZenonT(60) DEF Inv, StateType, Begin, CallState
  <2>2. CASE Find(c)
    BY <2>2, ZenonT(60) DEF Inv, StateType, CacheType, Find, CallState
  <2>3. CASE End(c)
    BY <2>3, VersionFacts DEF Inv, StateType, End, CallState, IdleCall
  <2>4. QED
    BY <2>1, <2>2, <2>3
<1>4. /\ call'[c].pc \in {"find", "miss", "wait", "idle"}
      /\ call'[c].pc = "wait" => Awaits(c, call[c].future)'
  <2>1. CASE Begin(c)
    BY <2>1 DEF Inv, StateType, Begin, CallState
  <2>2. CASE Find(c)
    <3>1. CASE Key(call[c].model) \in DOMAIN cache
      <4>1. /\ call'[c].pc = "wait" /\ call'[c].model = call[c].model
            /\ call'[c].future = cache[Key(call[c].model)]
        BY <2>2, <3>1 DEF Inv, StateType, Find, CallState
      <4>2. QED
        BY <1>1, <3>1, <4>1 DEF Inv, CacheType, CacheKeyed, Awaits
    <3>2. CASE Key(call[c].model) \notin DOMAIN cache
      BY <2>2, <3>2 DEF Inv, StateType, Find, CallState
    <3>3. QED
      BY <3>1, <3>2
  <2>3. CASE End(c)
    BY <2>3 DEF Inv, StateType, End, IdleCall
  <2>4. QED
    BY <2>1, <2>2, <2>3
<1>5. StateType' /\ CacheType' /\ CacheKeyed' /\ RunningOwned'
  BY <1>1, <1>3 DEF Inv, StateType, CacheType, CacheKeyed, RunningOwned, Owned
<1>6. CallsAwait'
  <2> SUFFICES ASSUME NEW x \in Call, call'[x].pc \in {"insert", "wait"}
               PROVE  Awaits(x, call[x].future)'
    BY DEF CallsAwait
  <2>1. CASE x = c
    BY <1>4, <2>1
  <2>2. CASE x # c
    BY <1>1, <1>2, <2>2 DEF Inv, CallsAwait, Awaits
  <2>3. QED
    BY <2>1, <2>2
<1>7. OwnerWaits'
  BY <1>1, <1>2 DEF Inv, OwnerWaits, RunningOwned, Owned
<1>8. GotKeyed'
  BY <1>2, <1>4 DEF Inv, GotKeyed
<1>9. QED
  BY <1>5, <1>6, <1>7, <1>8 DEF Inv

(* A future starts.                                                        *)
LEMMA StartStep ==
  ASSUME Inv, NEW c \in Call, Start(c)
  PROVE  Inv'
<1>1. call[c].pc = "miss" /\ UNCHANGED <<file, noticed, loading, published, cache>>
  BY DEF Start
<1>2. PICK f \in FutureId :
        /\ future[f].pc = "free"
        /\ future' = [future EXCEPT ![f] = [pc |-> "running", for |-> c, model |-> call[c].model]]
        /\ call' = [call EXCEPT ![c].pc = "insert", ![c].future = f]
  BY DEF Start
<1>3. /\ future'[f].pc = "running" /\ future'[f].for = c /\ future'[f].model = call[c].model
      /\ \A g \in FutureId \ {f} : future'[g] = future[g]
  BY <1>2 DEF Inv, StateType
<1>4. /\ call'[c].pc = "insert" /\ call'[c].future = f /\ call'[c].model = call[c].model
      /\ \A x \in Call \ {c} : call'[x] = call[x]
  BY <1>2 DEF Inv, StateType, CallState
<1>5. StateType'
  <2>1. call[c].model \in Model
    BY DEF Inv, StateType, CallState
  <2>2. future' \in [FutureId -> Future]
    BY <1>2, <2>1 DEF Inv, StateType, Future
  <2>3. call' \in [Call -> CallState]
    BY <1>2, ZenonT(60) DEF Inv, StateType, CallState
  <2>4. QED
    BY <1>1, <2>2, <2>3 DEF Inv, StateType
<1>6. CacheType' /\ CacheKeyed'
  BY <1>1, <1>2, <1>3 DEF Inv, CacheType, CacheKeyed
<1>7. CallsAwait'
  <2> SUFFICES ASSUME NEW x \in Call, call'[x].pc \in {"insert", "wait"}
               PROVE  Awaits(x, call[x].future)'
    BY DEF CallsAwait
  <2>1. CASE x = c
    BY <1>3, <1>4, <2>1 DEF Awaits
  <2>2. CASE x # c
    <3>1. Awaits(x, call[x].future) /\ call'[x] = call[x]
      BY <1>4, <2>2 DEF Inv, CallsAwait
    <3>2. call[x].future # f
      BY <1>2, <3>1 DEF Awaits
    <3>3. QED
      BY <1>3, <3>1, <3>2 DEF Awaits
  <2>3. QED
    BY <2>1, <2>2
<1>8. RunningOwned'
  BY <1>3 DEF Inv, RunningOwned, Owned
<1>9. OwnerWaits'
  <2> SUFFICES ASSUME NEW g \in FutureId, future'[g].pc = "running"
               PROVE  LET x == future'[g].for
                      IN  call'[x].pc \in {"insert", "wait"} /\ call'[x].future = g
    BY DEF OwnerWaits
  <2>1. CASE g = f
    BY <1>3, <1>4, <2>1
  <2>2. CASE g # f
    <3>1. /\ future'[g] = future[g] /\ future[g].for \in Call
          /\ call[future[g].for].pc \in {"insert", "wait"} /\ call[future[g].for].future = g
      BY <1>3, <2>2 DEF Inv, OwnerWaits, RunningOwned, Owned
    <3>2. future[g].for # c
      BY <1>1, <3>1
    <3>3. QED
      BY <1>4, <3>1, <3>2
  <2>3. QED
    BY <2>1, <2>2
<1>10. GotKeyed'
  BY <1>4 DEF Inv, GotKeyed
<1>11. QED
  BY <1>5, <1>6, <1>7, <1>8, <1>9, <1>10 DEF Inv

(* A future ends.                                                          *)
LEMMA ComputeStep ==
  ASSUME Inv, NEW f \in FutureId, Compute(f)
  PROVE  Inv'
<1>1. UNCHANGED <<file, noticed, loading, published, cache, call>>
  BY DEF Compute
<1>2. PICK end \in {"done", "failed"} : future' = [future EXCEPT ![f].pc = end]
  BY DEF Compute
<1>3. /\ future'[f].pc = end /\ future'[f].model = future[f].model
      /\ \A g \in FutureId \ {f} : future'[g] = future[g]
  BY <1>2 DEF Inv, StateType, Future
<1>4. StateType'
  <2>1. future' \in [FutureId -> Future]
    BY <1>2 DEF Inv, StateType, Future
  <2>2. QED
    BY <1>1, <2>1 DEF Inv, StateType
<1>5. CacheType' /\ CacheKeyed'
  BY <1>1, <1>3 DEF Inv, CacheType, CacheKeyed
<1>6. CallsAwait'
  <2> SUFFICES ASSUME NEW x \in Call, call'[x].pc \in {"insert", "wait"}
               PROVE  Awaits(x, call[x].future)'
    BY DEF CallsAwait
  <2>1. Awaits(x, call[x].future)
    BY <1>1 DEF Inv, CallsAwait
  <2>2. QED
    BY <1>1, <1>3, <2>1 DEF Awaits
<1>7. RunningOwned' /\ OwnerWaits'
  BY <1>1, <1>3 DEF Inv, RunningOwned, Owned, OwnerWaits
<1>8. GotKeyed'
  BY <1>1 DEF Inv, GotKeyed
<1>9. QED
  BY <1>4, <1>5, <1>6, <1>7, <1>8 DEF Inv

(* Futures are collected.                                                  *)
LEMMA InsertStep ==
  ASSUME Inv, NEW c \in Call, Insert(c)
  PROVE  Inv'
<1> DEFINE f == call[c].future
           key == Key(call[c].model)
<1>1. /\ call[c].pc = "insert" /\ UNCHANGED <<file, noticed, loading, published>>
      /\ cache' \in Inserted(key, f) /\ call' = [call EXCEPT ![c].pc = "wait"]
      /\ future' = Collected(future, cache', call')
  BY DEF Insert
<1>2. Awaits(c, f)
  BY <1>1 DEF Inv, CallsAwait
<1>3. key \in Version
  BY DEF Inv, StateType, CallState, Model, Key
<1>4. /\ DOMAIN cache' \subseteq DOMAIN cache \cup {key}
      /\ Cardinality(DOMAIN cache') <= MaxEntries
      /\ \A k \in DOMAIN cache' : \/ k = key /\ cache'[k] = f
                                  \/ k \in DOMAIN cache /\ cache'[k] = cache[k]
  BY <1>1, InsertedFacts
<1>5. /\ call'[c].pc = "wait" /\ call'[c].future = f /\ call'[c].model = call[c].model
      /\ \A x \in Call \ {c} : call'[x] = call[x]
      /\ call' \in [Call -> CallState]
  BY <1>1 DEF Inv, StateType, CallState
<1> HIDE DEF f, key
<1>6. /\ future' \in [FutureId -> Future]
      /\ \A g \in FutureId : g \in Had(cache', call') => future'[g] = future[g]
      /\ \A g \in FutureId : future'[g] = future[g] \/ future'[g].pc = "free"
  BY <1>1, CollectedFacts DEF Inv, StateType
<1>7. /\ \A k \in DOMAIN cache' : cache'[k] \in Had(cache', call')
      /\ \A x \in Call : call'[x].future \in Had(cache', call')
  BY DEF Had, Range
<1>8. StateType'
  BY <1>1, <1>5, <1>6 DEF Inv, StateType
<1>9. CacheType'
  BY <1>2, <1>3, <1>4 DEF Inv, CacheType, Awaits
<1>10. CacheKeyed'
  <2> SUFFICES ASSUME NEW k \in DOMAIN cache'
               PROVE  future'[cache'[k]].pc # "free" /\ Key(future'[cache'[k]].model) = k
    BY DEF CacheKeyed, Key
  <2>1. future'[cache'[k]] = future[cache'[k]]
    BY <1>6, <1>7, <1>9 DEF CacheType
  <2>2. future[cache'[k]].pc # "free" /\ Key(future[cache'[k]].model) = k
    BY <1>2, <1>4 DEF Inv, CacheKeyed, Awaits, key
  <2>3. QED
    BY <2>1, <2>2
<1>11. CallsAwait'
  <2> SUFFICES ASSUME NEW x \in Call, call'[x].pc \in {"insert", "wait"}
               PROVE  Awaits(x, call[x].future)'
    BY DEF CallsAwait
  <2>1. Awaits(x, call[x].future) /\ call'[x].future = call[x].future
        /\ call'[x].model = call[x].model
    BY <1>2, <1>5 DEF Inv, CallsAwait, f
  <2>2. QED
    BY <1>6, <1>7, <2>1 DEF Awaits
<1>12. RunningOwned'
  BY <1>6 DEF Inv, RunningOwned, Owned
<1>13. OwnerWaits'
  <2> SUFFICES ASSUME NEW g \in FutureId, future'[g].pc = "running"
               PROVE  LET x == future'[g].for
                      IN  call'[x].pc \in {"insert", "wait"} /\ call'[x].future = g
    BY DEF OwnerWaits
  <2>1. /\ future'[g] = future[g] /\ future[g].for \in Call
        /\ call[future[g].for].pc \in {"insert", "wait"} /\ call[future[g].for].future = g
    BY <1>6 DEF Inv, OwnerWaits, RunningOwned, Owned
  <2>2. QED
    BY <1>5, <2>1 DEF f
<1>14. GotKeyed'
  BY <1>5 DEF Inv, GotKeyed
<1>15. QED
  BY <1>8, <1>9, <1>10, <1>11, <1>12, <1>13, <1>14 DEF Inv

LEMMA AnswerStep ==
  ASSUME Inv, NEW c \in Call, Answer(c)
  PROVE  Inv'
<1> DEFINE f == call[c].future
<1>1. /\ call[c].pc = "wait" /\ UNCHANGED <<file, noticed, loading, published, cache>>
      /\ future[f].pc \in {"done", "failed"}
      /\ call' = IF future[f].pc = "done"
                 THEN [call EXCEPT ![c].pc = "answered", ![c].future = Nothing,
                                   ![c].got = future[f].model]
                 ELSE [call EXCEPT ![c].pc = "thrown", ![c].future = Nothing]
      /\ future' = Collected(future, cache', call')
  BY DEF Answer, Ready
<1>2. Awaits(c, f)
  BY <1>1 DEF Inv, CallsAwait
<1>3. future[f].model \in Model
  BY <1>2 DEF Inv, StateType, Future, Awaits
<1>4. /\ call'[c].pc \in {"answered", "thrown"}
      /\ call'[c].model = call[c].model
      /\ call'[c].pc = "answered" => call'[c].got = future[f].model
      /\ \A x \in Call \ {c} : call'[x] = call[x]
  BY <1>1 DEF Inv, StateType, CallState
<1>5. call' \in [Call -> CallState]
  <2>1. CASE future[f].pc = "done"
    <3> DEFINE y == [call[c] EXCEPT !.pc = "answered", !.future = Nothing, !.got = future[f].model]
    <3>1. y \in CallState
      BY <1>3 DEF Inv, StateType, CallState
    <3>2. call' = [call EXCEPT ![c] = y]
      BY <1>1, <2>1
    <3> HIDE DEF y
    <3>3. QED
      BY <3>1, <3>2 DEF Inv, StateType
  <2>2. CASE future[f].pc # "done"
    BY <1>1, <2>2 DEF Inv, StateType, CallState
  <2>3. QED
    BY <2>1, <2>2
<1> HIDE DEF f
<1>6. /\ future' \in [FutureId -> Future]
      /\ \A g \in FutureId : g \in Had(cache', call') => future'[g] = future[g]
      /\ \A g \in FutureId : future'[g] = future[g] \/ future'[g].pc = "free"
  BY <1>1, CollectedFacts DEF Inv, StateType
<1>7. /\ \A k \in DOMAIN cache' : cache'[k] \in Had(cache', call')
      /\ \A x \in Call : call'[x].future \in Had(cache', call')
  BY DEF Had, Range
<1>8. StateType' /\ CacheType'
  BY <1>1, <1>5, <1>6 DEF Inv, StateType, CacheType
<1>9. CacheKeyed'
  <2> SUFFICES ASSUME NEW k \in DOMAIN cache'
               PROVE  future'[cache'[k]].pc # "free" /\ Key(future'[cache'[k]].model) = k
    BY DEF CacheKeyed, Key
  <2>1. future'[cache'[k]] = future[cache'[k]]
    BY <1>6, <1>7, <1>8 DEF CacheType
  <2>2. QED
    BY <1>1, <2>1 DEF Inv, CacheKeyed
<1>10. CallsAwait'
  <2> SUFFICES ASSUME NEW x \in Call, call'[x].pc \in {"insert", "wait"}
               PROVE  Awaits(x, call[x].future)'
    BY DEF CallsAwait
  <2>1. Awaits(x, call[x].future) /\ call'[x] = call[x]
    BY <1>4 DEF Inv, CallsAwait
  <2>2. QED
    BY <1>6, <1>7, <2>1 DEF Awaits
<1>11. RunningOwned'
  BY <1>6 DEF Inv, RunningOwned, Owned
<1>12. OwnerWaits'
  <2> SUFFICES ASSUME NEW g \in FutureId, future'[g].pc = "running"
               PROVE  LET x == future'[g].for
                      IN  call'[x].pc \in {"insert", "wait"} /\ call'[x].future = g
    BY DEF OwnerWaits
  <2>1. /\ future'[g] = future[g] /\ future[g].for \in Call
        /\ call[future[g].for].pc \in {"insert", "wait"} /\ call[future[g].for].future = g
    BY <1>6 DEF Inv, OwnerWaits, RunningOwned, Owned
  <2>2. future[g].for # c
    BY <1>1, <2>1 DEF f
  <2>3. QED
    BY <1>4, <2>1, <2>2
<1>13. GotKeyed'
  BY <1>2, <1>4 DEF Inv, GotKeyed, Awaits
<1>14. QED
  BY <1>8, <1>9, <1>10, <1>11, <1>12, <1>13 DEF Inv

-------------------------------------------------------------------------------
(* The invariant, and what it says of the values.                          *)
LEMMA InvStep == Inv /\ [Next]_vars => Inv'
<1> SUFFICES ASSUME Inv, [Next]_vars PROVE Inv'
  OBVIOUS
<1>1. CASE UNCHANGED vars
  <2>1. StateType' /\ CacheType' /\ CacheKeyed' /\ GotKeyed'
    BY <1>1 DEF vars, Inv, StateType, CacheType, CacheKeyed, GotKeyed
  <2>2. CallsAwait' /\ RunningOwned' /\ OwnerWaits'
    BY <1>1 DEF vars, Inv, CallsAwait, Awaits, RunningOwned, Owned, OwnerWaits
  <2>3. QED
    BY <2>1, <2>2 DEF Inv
<1>2. CASE Next
  BY <1>2, LoadStep, CallStep, StartStep, InsertStep, AnswerStep, ComputeStep DEF Next
<1>3. QED
  BY <1>1, <1>2

LEMMA AlwaysInv == Spec => []Inv
BY InvInit, InvStep, PTL DEF Spec

(* Every value has its type, the cache never has more entries than its     *)
(* size, and no future is collected that the cache or a call can reach.    *)
THEOREM FuturesAreThere == Spec => []TypeOK
<1>1. Inv => TypeOK
  <2> SUFFICES ASSUME Inv PROVE TypeOK
    OBVIOUS
  <2>1. Range(cache) \subseteq FutureId /\ \A f \in Range(cache) : future[f].pc # "free"
    BY DEF Range, Inv, CacheType, CacheKeyed
  <2>2. \A c \in Call : call[c].pc \in {"insert", "wait"} => future[call[c].future].pc # "free"
    BY DEF Inv, CallsAwait, Awaits
  <2>3. QED
    BY <2>1, <2>2 DEF Inv, StateType, CacheType, TypeOK
<1>2. QED
  BY <1>1, AlwaysInv, PTL

(* The call whose Q a future computes from waits while it computes, though *)
(* the cache may have dropped the future or have another under its key.    *)
THEOREM ComputesWhileOwnerWaits == Spec => []OwnerWaits
<1>1. Inv => OwnerWaits
  BY DEF Inv
<1>2. QED
  BY <1>1, AlwaysInv, PTL

(* Values found in the cache are those of the data of the call's model,    *)
(* unless a model has the data of one version and the time of another.     *)
THEOREM AnswersFromOwnData == Spec => []AnswersOwnDataUnlessTorn
<1>1. Inv => AnswersOwnDataUnlessTorn
  BY DEF Inv, GotKeyed, AnswersOwnDataUnlessTorn, Torn, Key
<1>2. QED
  BY <1>1, AlwaysInv, PTL

-------------------------------------------------------------------------------
(***************************************************************************)
(* One request.  The search for the nearest valid point is proved correct  *)
(* by what its loops have passed; the symbols by cases, from the digits of *)
(* the number.                                                             *)
(***************************************************************************)

(* The eight digits of a weather number, the first and the last fixed.     *)
Decimal(h, f, t, r, g, c) ==
  10000000 + 1000000 * h + 100000 * f + 10000 * t + 1000 * r + 100 * g + 10 * c

(* SymbolOfNumber of the number that has these digits.                     *)
SkyOf(c) == IF c < 6 THEN 1 ELSE IF c < 8 THEN 4 ELSE 7

StrengthOf(r, limit) == IF r < 3 THEN 0 ELSE IF r < limit THEN 1 ELSE 2

SymbolOfDigits(h, f, t, r, g, c) ==
  IF c = 9 THEN NoSymbol
  ELSE IF h \in {1, 2} THEN 70 + SkyOf(c)
  ELSE IF r = 9 THEN NoSymbol
  ELSE IF r = 0
  THEN IF g \notin {0, 9} THEN 9 ELSE <<1, 1, 2, 4, 4, 4, 6, 6, 7>>[c + 1]
  ELSE IF f = 9 THEN NoSymbol
  ELSE IF f \in {0, 4, 5, 7, 8} THEN <<11, 0, 0, 0, 14, 17, 0, 57, 57>>[f + 1]
  ELSE IF f = 1 /\ t = 2 THEN 20 + SkyOf(c)
  ELSE <<30 + StrengthOf(r, 6), 40 + StrengthOf(r, 4), 50 + StrengthOf(r, 4), 0, 0, 60>>[f]
       + SkyOf(c)

LEMMA NumberTells ==
  ASSUME NEW d \in Interpolated, HasDigits(d)
  PROVE  SymbolOfNumber(WeatherNumber(d)) = SmartSymbol(d)
<1> USE DEF Absent
<1> DEFINE form == Either(d.potForm, d.form)
           type == Either(d.potType, d.type)
           h == Digit(d.thunder)
           f == Digit(form)
           t == Digit(type)
           r == Digit(d.rain)
           g == IF d.fog < 0 THEN 9 ELSE d.fog \div 2
           c == Digit(d.cloud)
<1>1. /\ d.thunder \in -2 .. 2 /\ d.rain \in -2 .. 7 /\ d.fog \in -2 .. 17 /\ d.cloud \in -2 .. 8
      /\ form \in -2 .. 8 /\ type \in -2 .. 8 /\ (d.fog > 0 => d.fog % 2 = 0)
  BY DEF Interpolated, Code, Missing, Either, HasDigits
<1>2. /\ h \in 0 .. 9 /\ f \in 0 .. 9 /\ t \in 0 .. 9
      /\ r \in 0 .. 9 /\ g \in 0 .. 9 /\ c \in 0 .. 9
  BY <1>1 DEF Digit
<1>3. WeatherNumber(d) = Decimal(h, f, t, r, g, c)
  BY SMT DEF Decimal, WeatherNumber, DigitOfEither
<1>4. SymbolOfNumber(WeatherNumber(d)) = SymbolOfDigits(h, f, t, r, g, c)
  <2> DEFINE n == WeatherNumber(d)
  <2>1. n = Decimal(h, f, t, r, g, c)
    BY <1>3
  <2> HIDE DEF n, h, f, t, r, g, c, form, type
  <2>2. n \div 1000000 = 10 + h
    BY <1>2, <2>1, SMT DEF Decimal
  <2>3. n \div 100000 = 100 + 10 * h + f
    BY <1>2, <2>1, SMT DEF Decimal
  <2>4. n \div 10000 = 1000 + 100 * h + 10 * f + t
    BY <1>2, <2>1, SMT DEF Decimal
  <2>5. n \div 1000 = 10000 + 1000 * h + 100 * f + 10 * t + r
    BY <1>2, <2>1, SMT DEF Decimal
  <2>6. n \div 100 = 100000 + 10000 * h + 1000 * f + 100 * t + 10 * r + g
    BY <1>2, <2>1, SMT DEF Decimal
  <2>7. n \div 10 = 1000000 + 100000 * h + 10000 * f + 1000 * t + 100 * r + 10 * g + c
    BY <1>2, <2>1, SMT DEF Decimal
  <2>8. (n \div 1000000) % 10 = h
    BY <1>2, <2>2, SMT
  <2>9. (n \div 100000) % 10 = f
    BY <1>2, <2>3, SMT
  <2>10. (n \div 1000) % 10 = r
    BY <1>2, <2>5, SMT
  <2>11. (n \div 10000) % 10 = t
    BY <1>2, <2>4, SMT
  <2>12. (n \div 100) % 10 = g
    BY <1>2, <2>6, SMT
  <2>13. (n \div 10) % 10 = c
    BY <1>2, <2>7, SMT
  <2> QED
    BY <1>2, <2>8, <2>9, <2>10, <2>11, <2>12, <2>13, SMT
       DEF SymbolOfNumber, SymbolOfDigits, SkyOf, StrengthOf, n
<1>5. SymbolOfDigits(h, f, t, r, g, c) = SmartSymbol(d)
  <2>1. /\ c = 9 <=> d.cloud < 0
        /\ h \in {1, 2} <=> d.thunder >= 1
        /\ r = 9 <=> d.rain < 0
        /\ r = 0 <=> d.rain = 0
        /\ f = 9 <=> form < 0
        /\ t = 2 <=> type = 2
        /\ g \notin {0, 9} <=> d.fog > 0
    BY <1>1 DEF Digit
  <2>2. /\ d.cloud >= 0 => c = d.cloud
        /\ d.rain >= 0 => r = d.rain
        /\ form >= 0 => f = form
    BY <1>1 DEF Digit
  <2>3. d.cloud >= 0 => CloudGroup(d.cloud) \in Int /\ SkyOf(c) = 1 + 3 * CloudGroup(d.cloud)
    BY <1>1, <2>2 DEF SkyOf, CloudGroup
  <2>4. d.rain >= 0 => \A limit \in {4, 6} : StrengthOf(r, limit) = RainGroup(d.rain, limit)
    BY <1>1, <2>2 DEF StrengthOf, RainGroup
  <2> HIDE DEF h, f, t, r, g, c, form, type
  <2> USE DEF NoSymbol
  <2>5. CASE d.cloud < 0
    BY <2>5, <2>1 DEF SymbolOfDigits, SmartSymbol
  <2>6. CASE d.cloud >= 0 /\ d.thunder >= 1
    BY <2>6, <2>1, <2>3, <1>1 DEF SymbolOfDigits, SmartSymbol
  <2> DEFINE Calm == d.cloud >= 0 /\ ~(d.thunder >= 1)
  <2>7. CASE Calm /\ d.rain < 0
    BY <2>7, <2>1, <1>1 DEF SymbolOfDigits, SmartSymbol
  <2>8. CASE Calm /\ d.rain = 0
    <3>1. SymbolOfDigits(h, f, t, r, g, c) =
            IF d.fog > 0 THEN 9 ELSE <<1, 1, 2, 4, 4, 4, 6, 6, 7>>[d.cloud + 1]
      BY <2>8, <2>1, <2>2, <1>1 DEF SymbolOfDigits
    <3>2. SmartSymbol(d) = DrySymbol(d)
      BY <2>8, <1>1 DEF SmartSymbol
    <3>3. d.cloud \in {0, 1, 2, 3, 4, 5, 6, 7, 8}
      BY <2>8, <1>1
    <3> QED
      BY <3>1, <3>2, <3>3, <1>1 DEF DrySymbol
  <2>9. CASE Calm /\ d.rain > 0
    <3>1. SmartSymbol(d) = WetSymbol(d)
      BY <2>9, <1>1 DEF SmartSymbol
    <3> DEFINE wet == IF f = 9 THEN 0
                      ELSE IF f \in {0, 4, 5, 7, 8} THEN <<11, 0, 0, 0, 14, 17, 0, 57, 57>>[f + 1]
                      ELSE IF f = 1 /\ t = 2 THEN 20 + SkyOf(c)
                      ELSE <<30 + StrengthOf(r, 6), 40 + StrengthOf(r, 4),
                             50 + StrengthOf(r, 4), 0, 0, 60>>[f] + SkyOf(c)
    <3>2. SymbolOfDigits(h, f, t, r, g, c) = wet
      BY <2>9, <2>1, <1>1 DEF SymbolOfDigits
    <3>3. form = Either(d.potForm, d.form) /\ type = Either(d.potType, d.type)
      BY DEF form, type
    <3>4. /\ CloudGroup(d.cloud) \in Int /\ SkyOf(c) = 1 + 3 * CloudGroup(d.cloud)
          /\ RainGroup(d.rain, 6) \in Int /\ StrengthOf(r, 6) = RainGroup(d.rain, 6)
          /\ RainGroup(d.rain, 4) \in Int /\ StrengthOf(r, 4) = RainGroup(d.rain, 4)
      BY <2>9, <2>3, <2>4, <1>1 DEF CloudGroup, RainGroup
    <3>5. CASE form < 0
      <4>1. WetSymbol(d) = 0
        BY <3>5, <3>3 DEF WetSymbol
      <4> QED
        BY <4>1, <3>5, <3>1, <3>2, <2>1
    <3>6. CASE form \in {0, 4, 5, 7, 8}
      <4>1. DOMAIN FixedSymbol = {0, 4, 5, 7, 8}
        BY DEF FixedSymbol
      <4>2. WetSymbol(d) = FixedSymbol[form]
        BY <4>1, <3>6, <3>3 DEF WetSymbol
      <4>3. f = form
        BY <2>2, <3>6
      <4>4. wet = <<11, 0, 0, 0, 14, 17, 0, 57, 57>>[form + 1]
        BY <4>3, <3>6
      <4>5. FixedSymbol[form] = CASE form = 0 -> 11 [] form = 4 -> 14 [] form = 5 -> 17 [] OTHER -> 57
        BY <3>6 DEF FixedSymbol
      <4> QED
        BY <4>2, <4>4, <4>5, <3>6, <3>1, <3>2
    <3>7. CASE form = 6
      <4>1. WetSymbol(d) = 61 + 3 * CloudGroup(d.cloud)
        BY <3>7, <3>3 DEF WetSymbol, FixedSymbol
      <4>2. wet = 60 + SkyOf(c)
        BY <3>7, <2>2
      <4> QED
        BY <4>1, <4>2, <3>4, <3>1, <3>2
    <3>8. CASE form = 1
      <4>1. WetSymbol(d) = RainSymbol(d)
        BY <3>8, <3>3 DEF WetSymbol, FixedSymbol
      <4>2. RainSymbol(d) = IF type = 2 THEN 21 + 3 * CloudGroup(d.cloud)
                              ELSE 31 + 3 * CloudGroup(d.cloud) + RainGroup(d.rain, 6)
        BY <3>3 DEF RainSymbol, Shower
      <4>3. wet = IF t = 2 THEN 20 + SkyOf(c) ELSE 30 + StrengthOf(r, 6) + SkyOf(c)
        BY <3>8, <2>2
      <4> QED
        BY <4>1, <4>2, <4>3, <3>4, <3>1, <3>2, <2>1
    <3>9. CASE form \in {2, 3}
      <4>1. WetSymbol(d) = 10 * form + 21 + 3 * CloudGroup(d.cloud) + RainGroup(d.rain, 4)
        BY <3>9, <3>3 DEF WetSymbol, FixedSymbol
      <4>2. wet = 10 * form + 20 + StrengthOf(r, 4) + SkyOf(c)
        BY <3>9, <2>2, <3>4
      <4> QED
        BY <4>1, <4>2, <3>4, <3>9, <3>1, <3>2
    <3> QED
      BY <3>5, <3>6, <3>7, <3>8, <3>9, <1>1
  <2> QED
    BY <2>5, <2>6, <2>7, <2>8, <2>9, <1>1
<1> QED
  BY <1>4, <1>5

(* Every symbol is a documented one: the tables of calc_smart_symbol, and  *)
(* what they give for a form that is none.                                 *)
LEMMA DocumentedSymbol ==
  ASSUME NEW d \in Interpolated
  PROVE  SmartSymbol(d) \in DocumentedSymbols(d) \cup {NoSymbol}
<1> USE DEF Absent, NoSymbol
<1> DEFINE form == Either(d.potForm, d.form)
           group == CloudGroup(d.cloud)
<1>1. /\ d.thunder \in -2 .. 2 /\ d.rain \in -2 .. 7 /\ d.cloud \in -2 .. 8
      /\ form \in {-2, -1} \cup Nat
  BY DEF Interpolated, Code, Missing, Either
<1>2. group \in {0, 1, 2}
  BY DEF CloudGroup
<1>3. \A limit \in {4, 6} : RainGroup(d.rain, limit) \in {0, 1, 2}
  BY DEF RainGroup
<1>4. DrySymbol(d) \in DaySymbols
  BY DEF DrySymbol, DaySymbols
<1>5. RainSymbol(d) \in DaySymbols
  <2>1. CASE Either(d.potType, d.type) = 2
    BY <2>1, <1>2 DEF RainSymbol, Shower, DaySymbols
  <2>2. CASE Either(d.potType, d.type) # 2
    BY <2>2, <1>2, <1>3 DEF RainSymbol, DaySymbols
  <2> QED
    BY <2>1, <2>2
<1>6. form <= 8 => WetSymbol(d) \in DaySymbols \cup {0}
  <2> HAVE form <= 8
  <2>1. CASE form < 0
    BY <2>1 DEF WetSymbol
  <2>2. CASE form \in {0, 4, 5, 7, 8}
    <3>1. FixedSymbol[form] \in {11, 14, 17, 57}
      BY <2>2 DEF FixedSymbol
    <3>2. WetSymbol(d) = FixedSymbol[form]
      BY <2>2 DEF WetSymbol, FixedSymbol
    <3> QED
      BY <3>1, <3>2 DEF DaySymbols
  <2>3. CASE form = 6
    <3>1. WetSymbol(d) = 61 + 3 * group
      BY <2>3 DEF WetSymbol, FixedSymbol
    <3> QED
      BY <3>1, <1>2 DEF DaySymbols
  <2>4. CASE form = 1
    BY <2>4, <1>5 DEF WetSymbol, FixedSymbol
  <2>5. CASE form \in {2, 3}
    <3>1. WetSymbol(d) = 10 * form + 21 + 3 * group + RainGroup(d.rain, 4)
      BY <2>5 DEF WetSymbol, FixedSymbol
    <3>2. WetSymbol(d) \in 41 .. 49 \cup 51 .. 59
      BY <3>1, <2>5, <1>2, <1>3
    <3> QED
      BY <3>2 DEF DaySymbols
  <2> QED
    BY <2>1, <2>2, <2>3, <2>4, <2>5, <1>1
<1>7. form > 8 => WetSymbol(d) \in 10 * form + 21 .. 10 * form + 29
  <2> HAVE form > 8
  <2>1. WetSymbol(d) = 10 * form + 21 + 3 * group + RainGroup(d.rain, 4)
    BY <1>1 DEF WetSymbol, FixedSymbol
  <2> QED
    BY <2>1, <1>1, <1>2, <1>3
<1> HIDE DEF form, group
<1>8. DocumentedSymbols(d) = IF form > 8 /\ d.rain > 0 /\ d.thunder < 1
                             THEN 10 * form + 21 .. 10 * form + 29 ELSE DaySymbols
  BY DEF DocumentedSymbols, form
<1>9. CASE d.cloud < 0
  BY <1>9 DEF SmartSymbol
<1>10. CASE d.cloud >= 0 /\ d.thunder >= 1
  <2>1. SmartSymbol(d) = 71 + 3 * group
    BY <1>10, <1>1 DEF SmartSymbol, group
  <2>2. DocumentedSymbols(d) = DaySymbols
    BY <1>8, <1>10, <1>1
  <2> QED
    BY <2>1, <2>2, <1>2 DEF DaySymbols
<1>11. CASE d.cloud >= 0 /\ ~(d.thunder >= 1) /\ d.rain <= 0
  <2>1. SmartSymbol(d) \in {NoSymbol, DrySymbol(d)}
    BY <1>11, <1>1 DEF SmartSymbol
  <2>2. DocumentedSymbols(d) = DaySymbols
    BY <1>8, <1>11, <1>1
  <2> QED
    BY <2>1, <2>2, <1>4
<1>12. CASE d.cloud >= 0 /\ ~(d.thunder >= 1) /\ d.rain > 0
  <2>1. SmartSymbol(d) = WetSymbol(d)
    BY <1>12, <1>1 DEF SmartSymbol
  <2>2. CASE form > 8
    BY <2>1, <2>2, <1>1, <1>7, <1>8, <1>12
  <2>3. CASE form <= 8
    BY <2>1, <2>3, <1>1, <1>6, <1>8, <1>12
  <2> QED
    BY <2>2, <2>3, <1>1
<1> QED
  BY <1>1, <1>9, <1>10, <1>11, <1>12

LEMMA SymbolIsNat ==
  ASSUME NEW d \in Interpolated
  PROVE  SmartSymbol(d) \in Nat
<1>1. Either(d.potForm, d.form) \in {-2, -1} \cup Nat
  BY DEF Interpolated, Code, Missing, Absent, Either
<1>2. DaySymbols \subseteq Nat
  BY DEF DaySymbols
<1>3. DocumentedSymbols(d) \subseteq Nat
  <2> DEFINE form == Either(d.potForm, d.form)
  <2>1. form > 8 => (10 * form + 21 .. 10 * form + 29) \subseteq Nat
    BY <1>1
  <2> HIDE DEF form
  <2>2. DocumentedSymbols(d) = IF form > 8 /\ d.rain > 0 /\ d.thunder < 1
                               THEN 10 * form + 21 .. 10 * form + 29 ELSE DaySymbols
    BY DEF DocumentedSymbols, form
  <2> QED
    BY <2>1, <2>2, <1>2
<1> QED
  BY <1>3, DocumentedSymbol DEF NoSymbol

LEMMA NumberOfNight ==
  ASSUME NEW d \in Interpolated, NEW dark \in BOOLEAN,
         SmartSymbolNumber(d, dark) # NoSymbol
  PROVE  SmartSymbolNumber(d, dark) - (IF dark THEN 100 ELSE 0) \in DocumentedSymbols(d)
<1>1. SmartSymbol(d) # NoSymbol
  BY DEF SmartSymbolNumber
<1>2. SmartSymbol(d) \in DocumentedSymbols(d) /\ SmartSymbol(d) \in Int
  <2>1. SmartSymbol(d) \in DocumentedSymbols(d)
    BY <1>1, DocumentedSymbol
  <2> QED
    BY <2>1, SymbolIsNat
<1>3. (100 + SmartSymbol(d)) - 100 = SmartSymbol(d)
  <2>1. \A n \in Int : (100 + n) - 100 = n
    OBVIOUS
  <2> QED
    BY <1>2, <2>1
<1>4. CASE dark
  <2>1. SmartSymbolNumber(d, dark) = 100 + SmartSymbol(d)
    BY <1>1, <1>4 DEF SmartSymbolNumber
  <2> QED
    BY <2>1, <1>2, <1>3, <1>4
<1>5. CASE ~dark
  <2>1. SmartSymbolNumber(d, dark) = SmartSymbol(d)
    BY <1>5 DEF SmartSymbolNumber
  <2>2. \A n \in Int : n - 0 = n
    OBVIOUS
  <2> QED
    BY <2>1, <2>2, <1>2, <1>5
<1> QED
  BY <1>4, <1>5

(* A direction is at most half a sector away from the middle of its own.   *)
LEMMA SectorIsNearest ==
  ASSUME NEW d \in 0 .. 64, NEW s \in {8, 16, 32}
  PROVE  LET width == 64 \div s
             away == (d - Compass(d, s) * width + 64) % 64
         IN  2 * away <= width \/ 2 * (64 - away) <= width
<1>1. CASE s = 8
  BY <1>1 DEF Compass
<1>2. CASE s = 16
  BY <1>2 DEF Compass
<1>3. CASE s = 32
  BY <1>3 DEF Compass
<1> QED
  BY <1>1, <1>2, <1>3

-------------------------------------------------------------------------------
(* A request for data, by what the search needs to know of it.             *)
LEMMA DataRequested ==
  ASSUME request \in SomePoints \cup AllPoints
  PROVE  /\ request.kind = "data" /\ request.at \in Offset
         /\ request.at[1] \in Int /\ request.at[2] \in Int
         /\ request.radius \in Nat /\ Square(request.radius) \in Nat
         /\ request.any \subseteq Point /\ request.own \subseteq Point
         /\ request.full => request.any = Point
<1>1. request.kind = "data" /\ request.at \in Offset /\ request.radius \in Radius
  BY DEF SomePoints, AllPoints
<1>2. request.any \in Valid \cup {Point} /\ request.own \in {Point, {<<0, 0>>}}
  BY DEF SomePoints, AllPoints
<1>3. request.full => request.any = Point
  BY DEF SomePoints, AllPoints
<1>4. request.at \in Int \X Int /\ request.radius \in Nat
  BY <1>1, GridAssumption
<1>5. Square(request.radius) \in Nat
  BY <1>4 DEF Square
<1>6. request.any \subseteq Point /\ request.own \subseteq Point
  BY <1>2, GridAssumption
<1> QED
  BY <1>1, <1>3, <1>4, <1>5, <1>6

LEMMA DistanceIsNat ==
  ASSUME request \in SomePoints \cup AllPoints, NEW p \in Int \X Int
  PROVE  Distance(p) \in Nat
<1>1. \A n \in Int : Square(n) \in Nat
  BY DEF Square
<1>2. Spacing * p[1] - request.at[1] \in Int /\ Spacing * p[2] - request.at[2] \in Int
  BY DataRequested, GridAssumption
<1> QED
  BY <1>1, <1>2 DEF Distance

LEMMA NoPointIsNowhere ==
  Nowhere \notin Point /\ Here \notin Point /\ Here # Nowhere
<1>1. \A p \in Int \X Int : p # <<"nowhere">> /\ p # <<"here">>
  OBVIOUS
<1> QED
  BY <1>1, GridAssumption DEF Nowhere, Here

(* The loops reach every row and column once, and go away from the middle. *)
TurnOf(i) == IF i > 0 THEN 2 * i + 1 ELSE IF i < 0 THEN -2 * i ELSE 1

LEMMA ZigzagTurns ==
  ASSUME NEW n \in Nat \ {0}
  PROVE  /\ Zigzag(n) \in Int
         /\ \A i \in Int : /\ TurnOf(i) \in Nat \ {0}
                           /\ TurnOf(i) = n <=> i = Zigzag(n)
<1> DEFINE k == n \div 2
<1>1. k \in Nat /\ ((n % 2 = 0 /\ n = 2 * k) \/ (n % 2 = 1 /\ n = 2 * k + 1))
  OBVIOUS
<1>2. Zigzag(n) = IF n % 2 = 1 THEN k ELSE -k
  BY <1>1 DEF Zigzag
<1> HIDE DEF k
<1> QED
  BY <1>1, <1>2 DEF TurnOf

LEMMA SquaresGrow ==
  ASSUME NEW a \in Int, NEW b \in Nat, -b <= a, a <= b
  PROVE  a * a <= b * b
OBVIOUS

LEMMA LaterIsFarther ==
  ASSUME NEW n \in Nat \ {0}, NEW i \in Int, TurnOf(i) >= n, NEW s \in Nat
  PROVE  Square(s * Zigzag(n)) <= Square(s * i)
<1> DEFINE k == n \div 2
           z == Zigzag(n)
           j == IF i < 0 THEN -i ELSE i
<1>1. k \in Nat /\ ((n % 2 = 0 /\ n = 2 * k) \/ (n % 2 = 1 /\ n = 2 * k + 1))
  OBVIOUS
<1>2. z = IF n % 2 = 1 THEN k ELSE -k
  BY <1>1 DEF Zigzag
<1>3. k <= j /\ j \in Nat
  BY <1>1 DEF TurnOf
<1>4. z \in Int /\ -j <= z /\ z <= j
  BY <1>1, <1>2, <1>3
<1> HIDE DEF k, z
<1>5. z * z <= j * j /\ j * j = i * i
  BY <1>4, SquaresGrow
<1>6. s * s \in Nat /\ z * z \in Int /\ i * i \in Int /\ z * z <= i * i
  BY <1>4, <1>5
<1>7. \A a \in Nat : \A b, c \in Int : b <= c => a * b <= a * c
  OBVIOUS
<1>8. (s * s) * (z * z) <= (s * s) * (i * i)
  BY <1>6, <1>7
<1>9. Square(s * z) = (s * s) * (z * z) /\ Square(s * i) = (s * s) * (i * i)
  BY <1>4 DEF Square
<1> QED
  BY <1>8, <1>9 DEF z

-------------------------------------------------------------------------------
Searching == answer.pc \in {"row", "column"}

IsDataRequest == request \in SomePoints \cup AllPoints

(* The types, and which requests and fields each phase is of.              *)
SearchType ==
  /\ IsDataRequest \/ request \in WeatherRequest \/ request \in CompassRequest
  /\ DOMAIN search = {"x", "y", "best", "point"}
  /\ DOMAIN answer = {"pc", "point", "last", "number"}
  /\ search.x \in Nat \ {0} /\ search.y \in Nat \ {0} /\ search.best \in Nat
  /\ answer.pc \in {"asked", "find", "row", "column", "found", "answered"}
  /\ answer.pc \notin {"asked", "answered"} => IsDataRequest
  /\ Searching => Ringed
  /\ answer.pc # "answered" => answer.point = Nowhere /\ answer.last = Here
  /\ answer.pc # "answered" \/ request.kind = "data" => answer.number = NoSymbol
  /\ {answer.point, answer.last} \subseteq Point \cup {Nowhere, Here}

(* The point found so far is valid and in reach, and the loops look for    *)
(* something that is not farther than it.                                  *)
PointSoFar ==
  /\ answer.pc = "asked" => search = Unsearched
  /\ answer.pc = "find" => search.point = Nowhere
  /\ search.point # Nowhere => IsDataRequest /\ search.point \in InReach
  /\ Searching \/ (answer.pc = "found" /\ Ringed) =>
       search.best = IF search.point = Nowhere THEN Square(request.radius)
                                                 ELSE Distance(search.point)

(* From a grid point, no point that the loops have passed is nearer than   *)
(* the one they have found.                                                *)
Passed(q) ==
  CASE answer.pc = "row" -> TurnOf(q[2]) < search.y
    [] answer.pc = "column" -> \/ TurnOf(q[2]) < search.y
                               \/ TurnOf(q[2]) = search.y /\ TurnOf(q[1]) < search.x
    [] OTHER -> TRUE

NotNearer(q) ==
  IF search.point = Nowhere THEN Distance(q) > search.best
                              ELSE Distance(q) >= search.best

ClosestSoFar ==
  request.at = <<0, 0>> /\ (Searching \/ (answer.pc = "found" /\ Ringed)) =>
    \A q \in request.any : Passed(q) => NotNearer(q)

(* What is answered, and where from.                                       *)
AnsweredFrom ==
  answer.pc = "answered" =>
    /\ request.kind = "weather" => answer.number = SmartSymbolNumber(request.data, request.dark)
    /\ request.kind = "compass" => answer.number = Compass(request.direction, request.sectors)
    /\ request.kind = "data" => NearestIsValid

SearchInv == SearchType /\ PointSoFar /\ ClosestSoFar /\ AnsweredFrom

LEMMA SearchInvInit ==
  ASSUME ValueInit
  PROVE  SearchInv
<1>1. /\ search = [x |-> 1, y |-> 1, best |-> 0, point |-> Nowhere]
      /\ answer = [pc |-> "asked", point |-> Nowhere, last |-> Here, number |-> NoSymbol]
      /\ IsDataRequest \/ request \in WeatherRequest \/ request \in CompassRequest
  BY DEF ValueInit, Unsearched, IsDataRequest
<1> QED
  BY <1>1 DEF SearchInv, SearchType, PointSoFar, ClosestSoFar, AnsweredFrom, Searching, Unsearched

LEMMA KindTells ==
  ASSUME SearchType
  PROVE  /\ IsDataRequest <=> request.kind = "data"
         /\ request.kind = "weather" => request \in WeatherRequest
         /\ request.kind = "compass" => request \in CompassRequest
BY DEF SearchType, IsDataRequest, SomePoints, AllPoints, WeatherRequest, CompassRequest

LEMMA DeriveStep ==
  ASSUME SearchInv, Derive
  PROVE  SearchInv'
<1> USE DEF SearchInv
<1>1. answer.pc = "asked" /\ request.kind # "data" /\ request' = request /\ search' = search
  BY DEF Derive
<1>2. /\ answer'.pc = "answered"
      /\ answer'.number = IF request.kind = "weather"
                          THEN SmartSymbolNumber(request.data, request.dark)
                          ELSE Compass(request.direction, request.sectors)
      /\ answer'.point = answer.point /\ answer'.last = answer.last
      /\ DOMAIN answer' = DOMAIN answer
  <2>1. "pc" \in DOMAIN answer /\ "number" \in DOMAIN answer
    BY DEF SearchType
  <2> QED
    BY <2>1 DEF Derive
<1>3. SearchType'
  BY <1>1, <1>2, KindTells DEF SearchType, Searching, IsDataRequest
<1>4. PointSoFar' /\ ClosestSoFar'
  BY <1>1, <1>2, <1>3 DEF PointSoFar, ClosestSoFar, Searching, Unsearched, IsDataRequest
<1>5. AnsweredFrom'
  BY <1>1, <1>2 DEF AnsweredFrom
<1> QED
  BY <1>3, <1>4, <1>5

LEMMA InterpolateStep ==
  ASSUME SearchInv, Interpolate
  PROVE  SearchInv'
<1> USE DEF SearchInv
<1>1. /\ answer.pc = "asked" /\ request.kind = "data" /\ request' = request /\ search' = search
      /\ answer.point = Nowhere /\ answer.last = Here /\ IsDataRequest
  BY KindTells DEF Interpolate, SearchType
<1>2. /\ answer'.pc \in {"find", "answered"}
      /\ answer'.point \in {Here, Nowhere} /\ answer'.last = Here
      /\ answer'.pc = "find" => answer'.point = Nowhere
      /\ answer'.number = answer.number
      /\ DOMAIN answer' = DOMAIN answer
  <2>1. "pc" \in DOMAIN answer /\ "point" \in DOMAIN answer /\ "last" \in DOMAIN answer
    BY DEF SearchType
  <2>2. CASE request.here /\ ~request.noLevel
    <3>1. answer' = [answer EXCEPT !.pc = "answered", !.point = Here]
      BY <2>2 DEF Interpolate
    <3> QED
      BY <3>1, <2>1, <1>1
  <2>3. CASE ~(request.here /\ ~request.noLevel)
    <3>1. answer' = [answer EXCEPT !.pc = IF request.nearest /\ ~request.noLevel
                                          THEN "find" ELSE "answered"]
      BY <2>3 DEF Interpolate
    <3> QED
      BY <3>1, <2>1, <1>1
  <2> QED
    BY <2>2, <2>3
<1>3. SearchType'
  BY <1>1, <1>2 DEF SearchType, Searching, IsDataRequest
<1>4. PointSoFar' /\ ClosestSoFar'
  BY <1>1, <1>2 DEF PointSoFar, ClosestSoFar, Searching, Unsearched
<1>5. AnsweredFrom'
  BY <1>1, <1>2 DEF AnsweredFrom, NearestIsValid, IsData
<1> QED
  BY <1>3, <1>4, <1>5

LEMMA FindNearestStep ==
  ASSUME SearchInv, FindNearest
  PROVE  SearchInv'
<1> USE DEF SearchInv
<1> DEFINE reach == Square(request.radius)
<1>1. /\ answer.pc = "find" /\ request' = request /\ IsDataRequest
      /\ answer.point = Nowhere /\ answer.last = Here /\ reach \in Nat
  BY DataRequested DEF FindNearest, SearchType, IsDataRequest
<1>2. /\ search'.x = 1 /\ search'.y = 1 /\ search'.best = reach
      /\ DOMAIN search' = {"x", "y", "best", "point"}
      /\ search'.point \in {<<0, 0>>, Nowhere}
      /\ search'.point = <<0, 0>> => request.full /\ Distance(<<0, 0>>) <= reach
  <2>1. [Unsearched EXCEPT !.best = reach] =
          [x |-> 1, y |-> 1, best |-> reach, point |-> Nowhere]
    BY DEF Unsearched
  <2>2. CASE request.grid /\ request.full /\ Distance(<<0, 0>>) <= reach
    <3>1. search' = [x |-> 1, y |-> 1, best |-> reach, point |-> <<0, 0>>]
      BY <2>1, <2>2 DEF FindNearest
    <3> QED
      BY <3>1, <2>2
  <2>3. CASE ~(request.grid /\ request.full /\ Distance(<<0, 0>>) <= reach)
    <3>1. search' = [x |-> 1, y |-> 1, best |-> reach, point |-> Nowhere]
      BY <2>1, <2>3 DEF FindNearest
    <3>2. Nowhere # <<0, 0>>
      BY NoPointIsNowhere, GridAssumption
    <3> QED
      BY <3>1, <3>2
  <2> QED
    BY <2>2, <2>3
<1>3. /\ answer'.pc = (IF Ringed THEN "row" ELSE "found")
      /\ answer'.point = Nowhere /\ answer'.last = Here /\ DOMAIN answer' = DOMAIN answer
      /\ answer'.number = answer.number
  <2>1. "pc" \in DOMAIN answer
    BY DEF SearchType
  <2> QED
    BY <2>1, <1>1 DEF FindNearest
<1>4. SearchType'
  BY <1>1, <1>2, <1>3 DEF SearchType, Searching, Ringed, IsDataRequest
<1>5. PointSoFar'
  <2>1. search'.point # Nowhere => search'.point \in InReach
    BY <1>1, <1>2, DataRequested, GridAssumption DEF InReach, IsDataRequest
  <2>2. InReach' = InReach /\ reach' = reach
    BY <1>1 DEF InReach, Distance
  <2>3. Searching' \/ (answer'.pc = "found" /\ Ringed') =>
          search'.point = Nowhere
    BY <1>1, <1>2, <1>3 DEF Searching, Ringed
  <2> QED
    BY <2>1, <2>2, <2>3, <1>1, <1>2, <1>3 DEF PointSoFar, Searching, Ringed, IsDataRequest
<1>6. ClosestSoFar'
  <2>1. CASE answer'.pc = "found"
    BY <2>1, <1>1, <1>3 DEF ClosestSoFar, Searching, Ringed
  <2>2. CASE answer'.pc = "row"
    <3>1. \A q \in request'.any : TurnOf(q[2]) \in Nat \ {0}
      BY <1>1, DataRequested, GridAssumption DEF IsDataRequest, TurnOf
    <3>2. \A q \in request'.any : ~(Passed(q)')
      BY <3>1, <2>2, <1>2 DEF Passed
    <3> QED
      BY <3>2 DEF ClosestSoFar
  <2> QED
    BY <2>1, <2>2, <1>3
<1>7. AnsweredFrom'
  BY <1>3 DEF AnsweredFrom
<1> QED
  BY <1>4, <1>5, <1>6, <1>7

(* From a grid point, the points of a row are farther the later their turn *)
(* is, and so are the rows.                                                *)
LEMMA LaterColumn ==
  ASSUME request.at = <<0, 0>>,
         NEW x \in Nat \ {0}, NEW y \in Nat \ {0}, NEW q \in Int \X Int,
         TurnOf(q[2]) = y, TurnOf(q[1]) >= x
  PROVE  Distance(<<Zigzag(x), Zigzag(y)>>) <= Distance(q)
<1>1. Spacing \in Nat /\ q[1] \in Int /\ q[2] \in Int
  BY GridAssumption
<1>2. q[2] = Zigzag(y) /\ Zigzag(x) \in Int /\ Zigzag(y) \in Int
  BY <1>1, ZigzagTurns
<1>3. Square(Spacing * Zigzag(x)) <= Square(Spacing * q[1])
  BY <1>1, LaterIsFarther
<1>4. \A a, b \in Int : Distance(<<a, b>>) = Square(Spacing * a) + Square(Spacing * b)
  BY <1>1 DEF Distance
<1>5. Distance(q) = Square(Spacing * q[1]) + Square(Spacing * q[2])
  BY <1>1 DEF Distance
<1>6. \A n \in Int : Square(Spacing * n) \in Int
  BY <1>1 DEF Square
<1>7. Distance(<<Zigzag(x), Zigzag(y)>>)
        = Square(Spacing * Zigzag(x)) + Square(Spacing * q[2])
  BY <1>2, <1>4
<1>8. /\ Square(Spacing * Zigzag(x)) \in Int
      /\ Square(Spacing * q[1]) \in Int /\ Square(Spacing * q[2]) \in Int
  BY <1>1, <1>2, <1>6
<1> QED
  BY <1>3, <1>5, <1>7, <1>8

LEMMA LaterRow ==
  ASSUME request.at = <<0, 0>>,
         NEW y \in Nat \ {0}, NEW q \in Int \X Int, TurnOf(q[2]) >= y
  PROVE  Distance(<<0, Zigzag(y)>>) <= Distance(q)
<1>1. Spacing \in Nat /\ q[1] \in Int /\ q[2] \in Int
  BY GridAssumption
<1>2. Zigzag(y) \in Int
  BY ZigzagTurns
<1>3. Square(Spacing * Zigzag(y)) <= Square(Spacing * q[2])
  BY <1>1, LaterIsFarther
<1>4. Distance(<<0, Zigzag(y)>>) = Square(Spacing * Zigzag(y))
  BY <1>1, <1>2 DEF Distance, Square
<1>5. Distance(q) = Square(Spacing * q[1]) + Square(Spacing * q[2])
  BY <1>1 DEF Distance
<1>6. \A n \in Int : Square(Spacing * n) \in Nat
  BY <1>1 DEF Square
<1> QED
  BY <1>1, <1>2, <1>3, <1>4, <1>5, <1>6

LEMMA RowStep ==
  ASSUME SearchInv, Row
  PROVE  SearchInv'
<1> USE DEF SearchInv
<1>1. /\ answer.pc = "row" /\ request' = request /\ IsDataRequest /\ Searching
      /\ search'.y = search.y /\ search'.best = search.best /\ search'.point = search.point
      /\ DOMAIN search' = DOMAIN search /\ search'.x \in Nat \ {0}
      /\ answer'.pc \in {"column", "found"} /\ DOMAIN answer' = DOMAIN answer
      /\ answer'.point = answer.point /\ answer'.last = answer.last
      /\ answer'.number = answer.number
  <2>1. "pc" \in DOMAIN answer /\ "x" \in DOMAIN search
    BY DEF SearchType
  <2>2. answer.pc = "row" /\ request' = request /\ IsDataRequest /\ Searching
    BY DEF Row, SearchType, Searching
  <2>3. CASE TooFar(<<0, Zigzag(search.y)>>)
    <3>1. answer' = [answer EXCEPT !.pc = "found"] /\ search' = search
      BY <2>3 DEF Row
    <3> QED
      BY <3>1, <2>1, <2>2 DEF SearchType
  <2>4. CASE ~TooFar(<<0, Zigzag(search.y)>>)
    <3>1. answer' = [answer EXCEPT !.pc = "column"] /\ search' = [search EXCEPT !.x = 1]
      BY <2>4 DEF Row
    <3> QED
      BY <3>1, <2>1, <2>2
  <2> QED
    BY <2>3, <2>4
<1>2. SearchType'
  BY <1>1 DEF SearchType, Searching, Ringed, IsDataRequest
<1>3. PointSoFar'
  <2>1. InReach' = InReach /\ Square(request.radius)' = Square(request.radius)
        /\ Distance(search.point)' = Distance(search.point)
    BY <1>1 DEF InReach, Distance
  <2> QED
    BY <1>1, <2>1 DEF PointSoFar, Searching, Ringed, IsDataRequest
<1>4. ClosestSoFar'
  <2> SUFFICES ASSUME request.at = <<0, 0>>, NEW q \in request.any, Passed(q)'
               PROVE  NotNearer(q)'
    BY <1>1 DEF ClosestSoFar
  <2>1. q \in Int \X Int /\ q[1] \in Int /\ q[2] \in Int /\ Distance(q) \in Nat
    BY <1>1, DataRequested, DistanceIsNat, GridAssumption DEF IsDataRequest
  <2>2. search.best \in Nat /\ search.y \in Nat \ {0}
    BY DEF SearchType
  <2>3. TurnOf(q[2]) < search.y => NotNearer(q)
    BY <1>1 DEF ClosestSoFar, Passed
  <2>4. NotNearer(q)' <=> NotNearer(q)
    BY <1>1 DEF NotNearer, Distance
  <2>5. TurnOf(q[1]) \in Nat \ {0} /\ TurnOf(q[2]) \in Nat \ {0}
    BY <2>1 DEF TurnOf
  <2>6. CASE TooFar(<<0, Zigzag(search.y)>>)
    <3>1. Distance(<<0, Zigzag(search.y)>>) \in Nat
      BY <1>1, <2>2, ZigzagTurns, DistanceIsNat DEF IsDataRequest
    <3>2. CASE TurnOf(q[2]) >= search.y
      <4>1. Distance(<<0, Zigzag(search.y)>>) <= Distance(q)
        BY <3>2, <2>1, <2>2, LaterRow
      <4> QED
        BY <4>1, <3>1, <2>1, <2>2, <2>4, <2>6 DEF NotNearer, TooFar
    <3> QED
      BY <3>2, <2>2, <2>3, <2>4, <2>5
  <2>7. CASE ~TooFar(<<0, Zigzag(search.y)>>)
    <3>1. answer'.pc = "column" /\ search'.x = 1
      <4>1. "pc" \in DOMAIN answer /\ "x" \in DOMAIN search
        BY DEF SearchType
      <4> QED
        BY <4>1, <2>7 DEF Row
    <3>2. TurnOf(q[2]) < search.y
      BY <3>1, <2>2, <2>5, <1>1 DEF Passed
    <3> QED
      BY <3>2, <2>3, <2>4
  <2> QED
    BY <2>6, <2>7
<1>5. AnsweredFrom'
  BY <1>1 DEF AnsweredFrom
<1> QED
  BY <1>2, <1>3, <1>4, <1>5

LEMMA ColumnStep ==
  ASSUME SearchInv, Column
  PROVE  SearchInv'
<1> USE DEF SearchInv
<1> DEFINE p == <<Zigzag(search.x), Zigzag(search.y)>>
           here == ~TooFar(p) /\ p \in request.any
<1>1. /\ answer.pc = "column" /\ request' = request /\ IsDataRequest /\ Searching
      /\ request.any \subseteq Int \X Int /\ Square(request.radius) \in Nat
      /\ search.x \in Nat \ {0} /\ search.y \in Nat \ {0} /\ search.best \in Nat
      /\ {"x", "y", "best", "point"} = DOMAIN search /\ "pc" \in DOMAIN answer
  BY DataRequested, GridAssumption DEF Column, SearchType, Searching, IsDataRequest
<1>2. p \in Int \X Int /\ Distance(p) \in Nat
  BY <1>1, ZigzagTurns, DistanceIsNat DEF IsDataRequest
<1>3. TooFar(p) <=> Distance(p) > search.best
  BY DEF TooFar
<1>4. /\ DOMAIN search' = DOMAIN search /\ DOMAIN answer' = DOMAIN answer
      /\ answer'.pc = (IF TooFar(p) THEN "row" ELSE "column")
      /\ answer'.point = answer.point /\ answer'.last = answer.last
      /\ answer'.number = answer.number
      /\ search'.x = (IF TooFar(p) THEN search.x ELSE search.x + 1)
      /\ search'.y = (IF TooFar(p) THEN search.y + 1 ELSE search.y)
      /\ search'.best = (IF here THEN Distance(p) ELSE search.best)
      /\ search'.point = (IF here THEN p ELSE search.point)
  <2>1. CASE TooFar(p)
    <3>1. answer' = [answer EXCEPT !.pc = "row"] /\ search' = [search EXCEPT !.y = @ + 1]
      BY <2>1 DEF Column
    <3> QED
      BY <3>1, <2>1, <1>1
  <2>2. CASE ~TooFar(p) /\ p \in request.any
    <3>1. answer' = answer /\ search' = [search EXCEPT !.x = @ + 1, !.point = p, !.best = Distance(p)]
      BY <2>2 DEF Column, NearestSoFar
    <3> QED
      BY <3>1, <2>2, <1>1
  <2>3. CASE ~TooFar(p) /\ p \notin request.any
    <3>1. answer' = answer /\ search' = [search EXCEPT !.x = @ + 1]
      BY <2>3 DEF Column
    <3> QED
      BY <3>1, <2>3, <1>1
  <2> QED
    BY <2>1, <2>2, <2>3
<1>5. InReach' = InReach /\ Square(request.radius)' = Square(request.radius)
  BY <1>1 DEF InReach, Distance
<1>6. \A q : Distance(q)' = Distance(q)
  BY <1>1 DEF Distance
<1> HIDE DEF p
<1>7. SearchType'
  BY <1>1, <1>2, <1>4 DEF SearchType, Searching, Ringed, IsDataRequest
<1>8. search.best <= Square(request.radius)
  <2>1. CASE search.point = Nowhere
    BY <2>1, <1>1 DEF PointSoFar
  <2>2. CASE search.point # Nowhere
    BY <2>2, <1>1 DEF PointSoFar, InReach
  <2> QED
    BY <2>1, <2>2
<1>9. PointSoFar'
  <2>1. CASE here
    <3>1. p \in InReach
      BY <2>1, <1>1, <1>2, <1>3, <1>8 DEF InReach
    <3>2. p # Nowhere
      BY <2>1, <1>1, DataRequested, NoPointIsNowhere DEF IsDataRequest
    <3>3. /\ search'.point = p /\ answer'.pc = "column"
          /\ search'.best = Distance(search.point)'
      BY <2>1, <1>1, <1>4 DEF Distance
    <3> QED
      BY <3>1, <3>2, <3>3, <1>1, <1>5 DEF PointSoFar, Searching, Ringed, IsDataRequest
  <2>2. CASE ~here
    <3>1. search'.point = search.point /\ search'.best = search.best /\ answer'.pc \in {"row", "column"}
      BY <2>2, <1>4
    <3>2. Distance(search.point)' = Distance(search.point)
      BY <3>1, <1>1 DEF Distance
    <3> QED
      BY <3>1, <3>2, <1>1, <1>5 DEF PointSoFar, Searching, Ringed, IsDataRequest
  <2> QED
    BY <2>1, <2>2
<1>10. ClosestSoFar'
  <2> SUFFICES ASSUME request.at = <<0, 0>>, NEW q \in request.any, Passed(q)'
               PROVE  NotNearer(q)'
    BY <1>1 DEF ClosestSoFar
  <2>1. q \in Int \X Int /\ q[1] \in Int /\ q[2] \in Int /\ Distance(q) \in Nat
    BY <1>1, DistanceIsNat DEF IsDataRequest
  <2>2. TurnOf(q[1]) \in Nat \ {0} /\ TurnOf(q[2]) \in Nat \ {0}
    BY <2>1 DEF TurnOf
  <2>3. (TurnOf(q[2]) < search.y \/ (TurnOf(q[2]) = search.y /\ TurnOf(q[1]) < search.x))
          => NotNearer(q)
    BY <1>1 DEF ClosestSoFar, Passed
  <2>4. CASE TooFar(p)
    <3>1. TurnOf(q[2]) < search.y \/ TurnOf(q[2]) = search.y
      BY <2>4, <2>2, <1>1, <1>4 DEF Passed
    <3>2. NotNearer(q)' <=> NotNearer(q)
      BY <2>4, <1>4, <1>6 DEF NotNearer
    <3>3. CASE TurnOf(q[2]) = search.y /\ TurnOf(q[1]) >= search.x
      <4>1. Distance(p) <= Distance(q)
        BY <3>3, <2>1, <1>1, LaterColumn DEF p
      <4> QED
        BY <4>1, <3>2, <2>1, <2>4, <1>1, <1>2, <1>3 DEF NotNearer
    <3> QED
      BY <3>1, <3>2, <3>3, <2>2, <2>3, <1>1
  <2>5. CASE ~TooFar(p)
    <3>1. \/ TurnOf(q[2]) < search.y
          \/ TurnOf(q[2]) = search.y /\ TurnOf(q[1]) < search.x
          \/ TurnOf(q[2]) = search.y /\ TurnOf(q[1]) = search.x
      BY <2>5, <2>2, <1>1, <1>4 DEF Passed
    <3>2. CASE TurnOf(q[2]) = search.y /\ TurnOf(q[1]) = search.x
      <4>1. q = p
        BY <3>2, <2>1, <1>1, ZigzagTurns DEF p
      <4>2. search'.point = p /\ search'.best = Distance(p)
        BY <4>1, <2>5, <1>4
      <4> QED
        BY <4>1, <4>2, <2>1, <1>1, <1>6, DataRequested, NoPointIsNowhere
           DEF NotNearer, IsDataRequest
    <3>3. CASE NotNearer(q)
      <4>1. CASE here
        <5>1. search'.point = p /\ search'.best = Distance(p) /\ p # Nowhere
          BY <4>1, <1>1, <1>4, DataRequested, NoPointIsNowhere DEF IsDataRequest
        <5> QED
          BY <5>1, <4>1, <3>3, <2>1, <1>1, <1>2, <1>3, <1>6 DEF NotNearer
      <4>2. CASE ~here
        BY <4>2, <3>3, <1>4, <1>6 DEF NotNearer
      <4> QED
        BY <4>1, <4>2
    <3> QED
      BY <3>1, <3>2, <3>3, <2>3
  <2> QED
    BY <2>4, <2>5
<1>11. AnsweredFrom'
  BY <1>4 DEF AnsweredFrom
<1> QED
  BY <1>7, <1>9, <1>10, <1>11

LEMMA FoundStep ==
  ASSUME SearchInv, Found
  PROVE  SearchInv'
<1> USE DEF SearchInv
<1>1. /\ answer.pc = "found" /\ request' = request /\ search' = search /\ IsDataRequest
      /\ answer.point = Nowhere /\ answer.last = Here /\ request.kind = "data"
      /\ request.own \subseteq Point
  BY KindTells, DataRequested DEF Found, SearchType, IsDataRequest
<1>2. /\ answer'.pc = "answered" /\ DOMAIN answer' = DOMAIN answer
      /\ answer'.number = answer.number
      /\ IF search.point \in request.own
         THEN answer'.point = search.point /\ answer'.last = search.point
         ELSE answer'.point = Nowhere /\ answer'.last = Here
  <2>1. "pc" \in DOMAIN answer /\ "point" \in DOMAIN answer /\ "last" \in DOMAIN answer
    BY DEF SearchType
  <2>2. CASE search.point \in request.own
    <3>1. answer' = [answer EXCEPT !.pc = "answered", !.point = search.point, !.last = search.point]
      BY <2>2 DEF Found, Takes
    <3> QED
      BY <3>1, <2>1, <2>2
  <2>3. CASE search.point \notin request.own
    <3>1. answer' = [answer EXCEPT !.pc = "answered"]
      BY <2>3 DEF Found, Takes
    <3> QED
      BY <3>1, <2>1, <2>3, <1>1
  <2> QED
    BY <2>2, <2>3
<1>3. SearchType'
  BY <1>1, <1>2 DEF SearchType, Searching, Ringed, IsDataRequest
<1>4. InReach' = InReach
  BY <1>1 DEF InReach, Distance
<1>5. PointSoFar' /\ ClosestSoFar'
  BY <1>1, <1>2, <1>4 DEF PointSoFar, ClosestSoFar, Searching, IsDataRequest
<1>6. NearestIsValid'
  <2>1. CASE search.point \in request.own
    <3>1. search.point \notin {Here, Nowhere}
      BY <2>1, <1>1, NoPointIsNowhere
    <3>2. search.point \in InReach
      BY <3>1 DEF PointSoFar
    <3> QED
      BY <3>1, <3>2, <2>1, <1>1, <1>2, <1>4 DEF NearestIsValid
  <2>2. CASE search.point \notin request.own
    BY <2>2, <1>2 DEF NearestIsValid
  <2> QED
    BY <2>1, <2>2
<1>7. AnsweredFrom'
  BY <1>1, <1>2, <1>6 DEF AnsweredFrom
<1> QED
  BY <1>3, <1>5, <1>7

(* Nothing else changes what the search says.                              *)
LEMMA SearchInvariant == ValueSpec => []SearchInv
<1>1. ValueInit => SearchInv
  BY SearchInvInit
<1>2. SearchInv /\ [ValueNext]_valueVars => SearchInv'
  <2> SUFFICES ASSUME SearchInv, [ValueNext]_valueVars
               PROVE  SearchInv'
    OBVIOUS
  <2>1. CASE Derive
    BY <2>1, DeriveStep
  <2>2. CASE Interpolate
    BY <2>2, InterpolateStep
  <2>3. CASE FindNearest
    BY <2>3, FindNearestStep
  <2>4. CASE Row
    BY <2>4, RowStep
  <2>5. CASE Column
    BY <2>5, ColumnStep
  <2>6. CASE Found
    BY <2>6, FoundStep
  <2>7. CASE UNCHANGED valueVars
    BY <2>7 DEF valueVars, SearchInv, SearchType, PointSoFar, ClosestSoFar, AnsweredFrom, Searching,
       Ringed, IsDataRequest, Passed, NotNearer, InReach, Distance, NearestIsValid, IsData
  <2> QED
    BY <2>1, <2>2, <2>3, <2>4, <2>5, <2>6, <2>7 DEF ValueNext
<1> QED
  BY <1>1, <1>2, PTL DEF ValueSpec

LEMMA WeatherRequested ==
  ASSUME request \in WeatherRequest
  PROVE  request.data \in Interpolated /\ request.dark \in BOOLEAN /\ request.kind = "weather"
BY WeatherAssumption DEF WeatherRequest

-------------------------------------------------------------------------------
(* The request, the loops of Model::validPoint and what QImpl::value       *)
(* answers have their types.                                               *)
THEOREM ValueTypes == ValueSpec => []ValueTypeOK
<1>1. SearchInv => ValueTypeOK
  <2> SUFFICES ASSUME SearchInv
               PROVE  ValueTypeOK
    OBVIOUS
  <2> USE DEF SearchInv
  <2>1. search.point \in Point \cup {Nowhere}
    BY DataRequested DEF PointSoFar, InReach, IsDataRequest
  <2>2. answer.number \in IF request.kind = "compass" THEN 0 .. request.sectors - 1 ELSE Nat
    <3>1. CASE request.kind = "compass"
      <4>1. request.direction \in 0 .. 64 /\ request.sectors \in {8, 16, 32}
        BY <3>1, KindTells DEF CompassRequest
      <4>2. \A s \in {8, 16, 32} : \A d \in 0 .. 64 : Compass(d, s) \in 0 .. s - 1
        BY DEF Compass
      <4>3. answer.number \in {NoSymbol, Compass(request.direction, request.sectors)}
        BY <3>1 DEF SearchType, AnsweredFrom
      <4>4. Compass(request.direction, request.sectors) \in 0 .. request.sectors - 1
        BY <4>1, <4>2
      <4>5. NoSymbol \in 0 .. request.sectors - 1
        BY <4>1 DEF NoSymbol
      <4> QED
        BY <4>3, <4>4, <4>5, <3>1
    <3>2. CASE request.kind = "weather"
      <4>1. request.data \in Interpolated /\ request.dark \in BOOLEAN
        BY <3>2, KindTells, WeatherRequested
      <4>2. SmartSymbol(request.data) \in Nat
        BY <4>1, SymbolIsNat
      <4>3. SmartSymbolNumber(request.data, request.dark) \in Nat
        BY <4>2 DEF SmartSymbolNumber
      <4>4. answer.number \in {NoSymbol, SmartSymbolNumber(request.data, request.dark)}
        BY <3>2 DEF SearchType, AnsweredFrom
      <4> QED
        BY <4>3, <4>4, <3>2 DEF NoSymbol
    <3>3. CASE request.kind \notin {"compass", "weather"}
      BY <3>3, KindTells DEF SearchType, IsDataRequest, WeatherRequest, CompassRequest, NoSymbol
    <3> QED
      BY <3>1, <3>2, <3>3
  <2> QED
    BY <2>1, <2>2 DEF ValueTypeOK, SearchType, IsDataRequest
<1> QED
  BY <1>1, SearchInvariant, PTL

(* A value that is not of the location itself is of a valid point within   *)
(* the radius that has the parameter, and the caller is told which         *)
(* (QImpl::value with Model::validPoint).                                  *)
THEOREM ValuesComeFromValidPoints == ValueSpec => []NearestIsValid
<1>1. SearchInv => NearestIsValid
  BY DEF SearchInv, AnsweredFrom, NearestIsValid, IsData
<1> QED
  BY <1>1, SearchInvariant, PTL

(* From a location that is a grid point, the loops of Model::validPoint    *)
(* end with a closest valid point within the radius, and with none only    *)
(* when there is none.                                                     *)
THEOREM SearchFindsClosest == ValueSpec => []ClosestFromGridPoint
<1>1. SearchInv => ClosestFromGridPoint
  <2> SUFFICES ASSUME SearchInv, answer.pc = "found", request.at = <<0, 0>>, Ringed
               PROVE  IF InReach = {} THEN search.point = Nowhere
                                        ELSE search.point \in Closest
    BY DEF ClosestFromGridPoint
  <2> USE DEF SearchInv
  <2>1. \A q \in request.any : NotNearer(q) /\ Distance(q) \in Nat
    <3>1. IsDataRequest
      BY DEF SearchType
    <3> QED
      BY <3>1, DataRequested, DistanceIsNat, GridAssumption
         DEF ClosestSoFar, Passed, Searching, IsDataRequest
  <2>2. CASE search.point = Nowhere
    <3>1. search.best = Square(request.radius)
      BY <2>2 DEF PointSoFar
    <3>2. InReach = {}
      <4> SUFFICES ASSUME NEW q \in InReach
                   PROVE  FALSE
        OBVIOUS
      <4>1. Distance(q) > search.best /\ Distance(q) <= search.best /\ Distance(q) \in Nat
        BY <2>1, <2>2, <3>1 DEF NotNearer, InReach
      <4> QED
        BY <4>1 DEF SearchType
    <3> QED
      BY <3>2, <2>2
  <2>3. CASE search.point # Nowhere
    <3>1. search.point \in InReach /\ search.best = Distance(search.point)
      BY <2>3 DEF PointSoFar
    <3>2. \A q \in InReach : Distance(search.point) <= Distance(q)
      BY <2>1, <2>3, <3>1 DEF NotNearer, InReach
    <3> QED
      BY <3>1, <3>2 DEF Closest
  <2> QED
    BY <2>2, <2>3
<1> QED
  BY <1>1, SearchInvariant, PTL

(* WeatherNumber is a basis for SmartSymbol: calc_smart_symbol and         *)
(* calc_weather_number agree whenever each code and intensity has a digit  *)
(* of its own.                                                             *)
THEOREM NumberIsABasis == ValueSpec => []NumberTellsSymbol
<1>1. SearchInv => NumberTellsSymbol
  BY KindTells, WeatherRequested, NumberTells
     DEF SearchInv, NumberTellsSymbol, IsWeather
<1> QED
  BY <1>1, SearchInvariant, PTL

(* Every symbol is one of the table in docs/smartsymbol.md, by day and by  *)
(* night; for a form of precipitation that is none it is where the         *)
(* document says that it is, outside the table.                            *)
THEOREM OnlyDocumentedSymbols == ValueSpec => []SymbolsDocumented
<1>1. SearchInv => SymbolsDocumented
  BY KindTells, WeatherRequested, NumberOfNight
     DEF SearchInv, AnsweredFrom, SymbolsDocumented, IsWeather
<1> QED
  BY <1>1, SearchInvariant, PTL

(* WindCompass8, 16 and 32 name the sector whose middle is nearest to the  *)
(* direction, around the whole circle.                                     *)
THEOREM CompassIsNearest == ValueSpec => []CompassNearest
<1>1. SearchInv => CompassNearest
  <2> SUFFICES ASSUME SearchInv, request.kind = "compass", answer.pc = "answered"
               PROVE  LET width == 64 \div request.sectors
                          away == (request.direction - answer.number * width + 64) % 64
                      IN  2 * away <= width \/ 2 * (64 - away) <= width
    BY DEF CompassNearest
  <2>1. request.direction \in 0 .. 64 /\ request.sectors \in {8, 16, 32}
    BY KindTells DEF SearchInv, CompassRequest
  <2>2. answer.number = Compass(request.direction, request.sectors)
    BY DEF SearchInv, AnsweredFrom
  <2> QED
    BY <2>1, <2>2, SectorIsNearest
<1> QED
  BY <1>1, SearchInvariant, PTL
===============================================================================
