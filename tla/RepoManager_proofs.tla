-------------------------- MODULE RepoManager_proofs --------------------------
(***************************************************************************)
(* What holds of RepoManager for every set of producers, files and tasks   *)
(* and every value of the settings, in three parts: what is promised of    *)
(* the models in memory, the races between deletions and loads, and what   *)
(* is in memory once everything has been loaded.                           *)
(***************************************************************************)
EXTENDS RepoManager, RepositoryFacts, FunctionTheorems, TLAPS

USE DEF Corrupt, NotADateTime

(* The producer of an idle task.                                           *)
LEMMA NoProducerType == NoProducer \in Producer
BY ProducerAssumption DEF NoProducer

(* The record of an idle task is a task.                                   *)
LEMMA IdleTaskType == IdleTask \in Task
BY NoProducerType DEF IdleTask, Task, NoModel, Model

-------------------------------------------------------------------------------
(* Types, and the bound on the models in memory.  The two go together: the *)
(* admin table is told the number of models, which is a number because the *)
(* bound makes the collection finite.                                      *)
TypeAndBound == TypeOK /\ KeepBound

(* At first nothing is loaded.                                             *)
LEMMA TypeAndBoundInit == Init => TypeAndBound
<1> SUFFICES ASSUME Init PROVE TypeAndBound
  OBVIOUS
<1>1. TypeOK
  <2>1. DOMAIN disk \subseteq Path /\ disk \in [DOMAIN disk -> Version]
    BY FileAssumption DEF Init, Version
  <2>2. \A p \in Producer : IsSharedModels(itsProducers[p])
    BY DEF Init, NoModels, IsSharedModels
  <2>3. /\ DOMAIN seen \subseteq Path /\ seen \in [DOMAIN seen -> Nat]
        /\ DOMAIN status \subseteq Path /\ status \in [DOMAIN status -> Change]
    BY DEF Init
  <2>4. itsProducerStatus \in [Producer -> ProducerStatus]
    BY DEF Init, ProducerStatus
  <2>5. task \in [TaskId -> Task] /\ watched \in Producer
    BY NoProducerType, IdleTaskType DEF Init
  <2>6. itsProducers = [p \in Producer |-> itsProducers[p]]
    BY DEF Init
  <2>7. /\ now \in Nat /\ changes \in Nat /\ itsThreadCount \in Int
        /\ scanned \subseteq Producer /\ raced \subseteq Path
        /\ monitor = "idle" /\ expiration = "running" /\ owner = "wait"
    BY DEF Init
  <2>8. itsOldRepoManager \in BOOLEAN /\ crashed \in BOOLEAN /\ shuttingDown \in BOOLEAN
    BY BoundAssumption DEF Init
  <2>9. QED
    BY <2>1, <2>2, <2>3, <2>4, <2>5, <2>6, <2>7, <2>8 DEF TypeOK
<1>2. KeepBound
  <2>1. \A p \in Producer : DOMAIN itsProducers[p] = {}
    BY DEF Init, NoModels
  <2>2. \A p \in Producer : Cardinality(DOMAIN itsProducers[p]) <= NumberToKeep[p]
    <3>1. Cardinality({}) = 0
      BY FS_EmptySet
    <3>2. \A p \in Producer : NumberToKeep[p] \in Nat
      BY ProducerAssumption
    <3>3. QED
      BY <2>1, <3>1, <3>2
  <2>3. QED
    BY <2>1, <2>2, FS_EmptySet DEF KeepBound
<1>3. QED
  BY <1>1, <1>2 DEF TypeAndBound

(* Every step preserves types and the bound on models in memory.           *)
LEMMA TypeAndBoundStep == TypeAndBound /\ [Next]_vars => TypeAndBound'
<1> SUFFICES ASSUME TypeOK, KeepBound, [Next]_vars PROVE TypeOK' /\ KeepBound'
  BY DEF TypeAndBound
<1> USE DEF fileVars, monitorVars, repoVars, taskVars, ownerVars
<1>1. ASSUME NEW f \in Path, NEW o \in OriginsOf[f], WriteFile(f, o)
      PROVE  TypeOK' /\ KeepBound'
  <2>1. o \in Nat \cup {Corrupt}
    BY FileAssumption
  <2>2. DOMAIN disk' \subseteq Path /\ disk' \in [DOMAIN disk' -> Version]
    BY <1>1, <2>1 DEF WriteFile, TypeOK, Version
  <2>3. QED
    BY <1>1, <2>2 DEF WriteFile, TypeOK, KeepBound
<1>2. ASSUME NEW f \in Path, DeleteFile(f) PROVE TypeOK' /\ KeepBound'
  <2>1. DOMAIN disk' \subseteq Path /\ disk' \in [DOMAIN disk' -> Version]
    BY <1>2 DEF DeleteFile, TypeOK
  <2>2. QED
    BY <1>2, <2>1 DEF DeleteFile, TypeOK, KeepBound
<1>3. CASE Tick
  BY <1>3 DEF Tick, TypeOK, KeepBound
<1>4. ASSUME NEW p \in Producer, Scan(p) PROVE TypeOK' /\ KeepBound'
  <2>1. DOMAIN seen' \subseteq Path /\ seen' \in [DOMAIN seen' -> Nat]
    BY <1>4 DEF Scan, TypeOK, Version, FilesOf
  <2>2. DOMAIN status' \subseteq Path /\ status' \in [DOMAIN status' -> Change]
    BY <1>4 DEF Scan, Differences, TypeOK, Change, FilesOf
  <2>3. QED
    BY <1>4, <2>1, <2>2 DEF Scan, TypeOK, KeepBound
<1>5. CASE UpdateStatus
  <2>1. itsProducerStatus' \in [Producer -> ProducerStatus]
    BY <1>5 DEF UpdateStatus, TypeOK, ProducerStatus
  <2>2. QED
    BY <1>5, <2>1, NoProducerType DEF UpdateStatus, CallbackEnds, TypeOK, KeepBound
<1>6. CASE UpdateRemove
  <2>1. watched \in Producer /\ IsSharedModels(itsProducers[watched])
    BY DEF TypeOK
  <2>2. IsSharedModels(RemoveAll(itsProducers[watched], Removals))
    BY <2>1, RemoveAllFacts
  <2>3. /\ IsFiniteSet(DOMAIN RemoveAll(itsProducers[watched], Removals))
        /\ Cardinality(DOMAIN RemoveAll(itsProducers[watched], Removals))
             <= NumberToKeep[watched]
    <3>1. /\ IsFiniteSet(DOMAIN itsProducers[watched])
          /\ Cardinality(DOMAIN itsProducers[watched]) <= NumberToKeep[watched]
      BY <2>1 DEF KeepBound
    <3>2. NumberToKeep[watched] \in Nat
      BY <2>1, ProducerAssumption
    <3>3. QED
      BY <2>1, <3>1, <3>2, RemoveAllFacts, FS_CardinalityType
  <2>4. itsProducers' = [itsProducers EXCEPT
                           ![watched] = RemoveAll(itsProducers[watched], Removals)]
    BY <1>6 DEF UpdateRemove
  <2>5. KeepBound'
    BY <2>3, <2>4 DEF KeepBound, TypeOK
  <2>6. /\ itsProducers' = [p \in Producer |-> itsProducers'[p]]
        /\ \A p \in Producer : IsSharedModels(itsProducers'[p])
    BY <2>2, <2>4 DEF TypeOK
  <2>7. raced' \subseteq Path
    BY <1>6 DEF UpdateRemove, TypeOK, InFlight
  <2>8. QED
    BY <1>6, <2>5, <2>6, <2>7, NoProducerType DEF UpdateRemove, CallbackEnds, TypeOK
<1>7. CASE UpdateSchedule
  <2>1. task' \in [TaskId -> Task]
    <3>1. CASE Additions = {} \/ shuttingDown
      BY <1>7, <3>1 DEF UpdateSchedule, TypeOK
    <3>2. CASE ~(Additions = {} \/ shuttingDown)
      <4> DEFINE started == [IdleTask EXCEPT !.pc = "start",
                                             !.producer = watched,
                                             !.files = Additions,
                                             !.initial = watched \notin scanned]
      <4>1. PICK t \in TaskId : task' = [task EXCEPT ![t] = started]
        BY <1>7, <3>2 DEF UpdateSchedule
      <4>2. watched \in Producer /\ Additions \in SUBSET Path
        BY DEF TypeOK, Additions
      <4>3. started \in Task
        BY <4>2, IdleTaskType DEF Task
      <4> HIDE DEF started
      <4>4. QED
        BY <4>1, <4>3 DEF TypeOK
    <3>3. QED
      BY <3>1, <3>2
  <2>2. QED
    BY <1>7, <2>1, NoProducerType DEF UpdateSchedule, CallbackEnds, TypeOK, KeepBound
<1>8. CASE MonitorExit
  BY <1>8 DEF MonitorExit, TypeOK, KeepBound
<1>9. ASSUME NEW t \in TaskId, LoadStep(t) PROVE TypeOK' /\ KeepBound'
  <2>1. CASE LoadStart(t)
    <3>1. task' \in [TaskId -> Task]
      BY <2>1, IdleTaskType DEF LoadStart, TaskEnds, TypeOK, Task
    <3>2. QED
      BY <2>1, <3>1 DEF LoadStart, TaskEnds, TypeOK, KeepBound
  <2>2. CASE LoadLoopEnds(t)
    <3>1. task' \in [TaskId -> Task]
      BY <2>2 DEF LoadLoopEnds, TypeOK, Task
    <3>2. QED
      BY <2>2, <3>1 DEF LoadLoopEnds, TypeOK, KeepBound
  <2>3. CASE LoadDereferencesNull(t)
    BY <2>3 DEF LoadDereferencesNull, TypeOK, KeepBound
  <2>4. CASE LoadReuse(t)
    <3>1. PICK f \in task[t].files : \E m \in GetModel(OldModels[task[t].producer], f) :
            task' = [task EXCEPT ![t].pc = "add", ![t].model = m, ![t].files = @ \ {f}]
      BY <2>4 DEF LoadReuse
    <3>2. PICK m \in GetModel(OldModels[task[t].producer], f) :
            task' = [task EXCEPT ![t].pc = "add", ![t].model = m, ![t].files = @ \ {f}]
      BY <3>1
    <3>3. m \in Model
      <4>1. task[t].producer \in Producer
        BY DEF TypeOK, Task
      <4>2. IsSharedModels(OldModels[task[t].producer])
        BY <4>1, ProducerAssumption
      <4>3. QED
        BY <4>2 DEF GetModel, FirstWithPath, IsSharedModels
    <3>4. task' \in [TaskId -> Task]
      BY <3>2, <3>3 DEF TypeOK, Task
    <3>5. QED
      BY <2>4, <3>4 DEF LoadReuse, TypeOK, KeepBound
  <2>5. CASE LoadRead(t)
    <3>1. PICK f \in task[t].files :
            /\ Loadable(f)
            /\ task' = [task EXCEPT ![t].pc = "add",
                                    ![t].model = [path |-> f, origin |-> disk[f].origin,
                                                  modtime |-> disk[f].modtime],
                                    ![t].files = @ \ {f},
                                    ![t].data_load_time = now]
      BY <2>5 DEF LoadRead
    <3>2. [path |-> f, origin |-> disk[f].origin, modtime |-> disk[f].modtime] \in Model
      BY <3>1, FileAssumption DEF Loadable, TypeOK, Task, Version, Model
    <3>3. task' \in [TaskId -> Task]
      BY <3>1, <3>2 DEF TypeOK, Task
    <3>4. QED
      BY <2>5, <3>3 DEF LoadRead, TypeOK, KeepBound
  <2>6. CASE LoadFails(t)
    <3>1. task' \in [TaskId -> Task]
      BY <2>6 DEF LoadFails, TypeOK, Task
    <3>2. QED
      BY <2>6, <3>1 DEF LoadFails, TypeOK, KeepBound
  <2>7. CASE LoadAdd(t)
    <3> DEFINE p == task[t].producer
               added == Add(itsProducers[p], task[t].model)
    <3>1. p \in Producer /\ task[t].model \in Model /\ NumberToKeep[p] \in Nat
      BY ProducerAssumption DEF TypeOK, Task
    <3>2. IsSharedModels(added) /\ IsFiniteSet(DOMAIN added)
      BY <3>1, AddFacts DEF TypeOK, KeepBound
    <3>3. /\ IsSharedModels(Resize(added, NumberToKeep[p]))
          /\ IsFiniteSet(DOMAIN Resize(added, NumberToKeep[p]))
          /\ Cardinality(DOMAIN Resize(added, NumberToKeep[p])) <= NumberToKeep[p]
      BY <3>1, <3>2, ResizeFacts
    <3>4. itsProducers' = [itsProducers EXCEPT ![p] = Resize(added, NumberToKeep[p])]
      BY <2>7 DEF LoadAdd
    <3> HIDE DEF added
    <3>5. KeepBound'
      BY <3>1, <3>3, <3>4 DEF KeepBound, TypeOK
    <3>6. /\ itsProducers' = [q \in Producer |-> itsProducers'[q]]
          /\ \A q \in Producer : IsSharedModels(itsProducers'[q])
      BY <3>1, <3>3, <3>4 DEF TypeOK
    <3>7. task' \in [TaskId -> Task]
      BY <2>7 DEF LoadAdd, TypeOK, Task, NoModel, Model
    <3>8. QED
      BY <2>7, <3>5, <3>6, <3>7 DEF LoadAdd, TypeOK
  <2>8. CASE LoadFinish(t)
    <3>1. itsProducerStatus' \in [Producer -> ProducerStatus]
      <4>1. task[t].producer \in Producer
        BY DEF TypeOK, Task
      <4>2. Cardinality(DOMAIN itsProducers[task[t].producer]) \in Nat
        BY <4>1, FS_CardinalityType DEF KeepBound
      <4>3. LoadedStatus(t) \in ProducerStatus
        <5>1. /\ itsProducerStatus[task[t].producer] \in ProducerStatus
              /\ task[t].data_load_time \in Nat \cup {NotADateTime}
          BY <4>1 DEF TypeOK, Task
        <5>2. QED
          BY <4>2, <5>1 DEF LoadedStatus, ProducerStatus
      <4>4. QED
        BY <2>8, <4>1, <4>3 DEF LoadFinish, TypeOK
    <3>2. task' \in [TaskId -> Task]
      BY <2>8, IdleTaskType DEF LoadFinish, TypeOK, Task, IdleTask
    <3>3. QED
      BY <2>8, <3>1, <3>2 DEF LoadFinish, TypeOK, KeepBound
  <2>9. CASE LoadExit(t)
    <3>1. task' \in [TaskId -> Task]
      BY <2>9, IdleTaskType DEF LoadExit, TaskEnds, TypeOK
    <3>2. QED
      BY <2>9, <3>1 DEF LoadExit, TaskEnds, TypeOK, KeepBound
  <2>10. QED
    BY <1>9, <2>1, <2>2, <2>3, <2>4, <2>5, <2>6, <2>7, <2>8, <2>9 DEF LoadStep
<1>10. ASSUME NEW p \in Producer, ExpireProducer(p) PROVE TypeOK' /\ KeepBound'
  <2> DEFINE left == Expire(itsProducers[p], now - MaxAge[p])
  <2>1. itsProducers' = [itsProducers EXCEPT ![p] = left]
    BY <1>10 DEF ExpireProducer
  <2>2. IsSharedModels(itsProducers[p]) /\ NumberToKeep[p] \in Nat
    BY ProducerAssumption DEF TypeOK
  <2>3. /\ IsFiniteSet(DOMAIN itsProducers[p])
        /\ Cardinality(DOMAIN itsProducers[p]) <= NumberToKeep[p]
    BY DEF KeepBound
  <2>4. /\ IsSharedModels(left)
        /\ IsFiniteSet(DOMAIN left)
        /\ Cardinality(DOMAIN left) <= NumberToKeep[p]
    BY <2>2, <2>3, ExpireFacts, FS_CardinalityType
  <2> HIDE DEF left
  <2>5. QED
    BY <1>10, <2>1, <2>4 DEF ExpireProducer, TypeOK, KeepBound
<1>11. CASE ExpirationExit
  BY <1>11 DEF ExpirationExit, TypeOK, KeepBound
<1>12. CASE OwnerStep
  BY <1>12 DEF OwnerStep, ReadyCount, ReadyMonitor, ReadyAbandoned, RemoveOldManager,
               ShutdownStop, ShutdownJoin, TypeOK, KeepBound
<1>13. CASE RequestShutdown
  BY <1>13 DEF RequestShutdown, TypeOK, KeepBound
<1>14. CASE UNCHANGED vars
  BY <1>14 DEF vars, TypeOK, KeepBound
<1>15. QED
  BY <1>1, <1>2, <1>3, <1>4, <1>5, <1>6, <1>7, <1>8, <1>9, <1>10, <1>11, <1>12, <1>13, <1>14
  DEF Next, FileStep, MonitorStep, Callback, ExpirationStep

(* Types and bound hold in every reachable state.                          *)
LEMMA TypeAndBoundInvariant == Spec => []TypeAndBound
BY TypeAndBoundInit, TypeAndBoundStep, PTL DEF Spec

(* Every variable keeps its type in every reachable state.                 *)
THEOREM TypeCorrect == Spec => []TypeOK
BY TypeAndBoundInvariant, PTL DEF TypeAndBound

(* No reader ever finds more than number_to_keep models of a producer.     *)
THEOREM KeepBoundHolds == Spec => []KeepBound
BY TypeAndBoundInvariant, PTL DEF TypeAndBound

-------------------------------------------------------------------------------
(* The counter of tasks.  ThreadCountExact is inductive: update() is the   *)
(* only place that increments, a task decrements when it returns, and      *)
(* there is one monitor thread, so nothing comes between its test of the   *)
(* limit and its increment but decrements.                                 *)
LEMMA ThreadCountInit == Init => ThreadCountExact
<1> SUFFICES ASSUME Init PROVE ThreadCountExact
  OBVIOUS
<1>1. Running = {}
  BY DEF Running, Init, IdleTask
<1>2. IsFiniteSet(Running) /\ Cardinality(Running) = 0
  BY <1>1, FS_EmptySet
<1>3. itsThreadCount = 0 /\ MaxThreadCount \in Nat
  BY ProducerAssumption DEF Init
<1>4. QED
  BY <1>2, <1>3 DEF ThreadCountExact

(* A task comes to its end.                                                *)
LEMMA TaskEndsCounts ==
  ASSUME TypeOK, ThreadCountExact, NEW t \in Running, TaskEnds(t)
  PROVE  ThreadCountExact'
<1>1. Running' = Running \ {t}
  BY DEF TaskEnds, Running, TypeOK, IdleTask
<1>2. /\ IsFiniteSet(Running \ {t})
      /\ Cardinality(Running \ {t}) = Cardinality(Running) - 1
  BY FS_RemoveElement DEF ThreadCountExact
<1>3. itsThreadCount' = itsThreadCount - 1
  BY DEF TaskEnds
<1>4. MaxThreadCount \in Nat /\ itsThreadCount \in Int
  BY ProducerAssumption DEF TypeOK
<1>5. itsThreadCount = Cardinality(Running) /\ itsThreadCount <= MaxThreadCount + 1
  BY DEF ThreadCountExact
<1>6. IsFiniteSet(Running') /\ itsThreadCount' = Cardinality(Running')
  BY <1>1, <1>2, <1>3, <1>5
<1>7. itsThreadCount' <= MaxThreadCount + 1
  BY <1>3, <1>4, <1>5
<1>8. QED
  BY <1>6, <1>7 DEF ThreadCountExact

(* The counter changes with the set of tasks that run, and only then.      *)
LEMMA ThreadCountStep == TypeOK /\ ThreadCountExact /\ [Next]_vars => ThreadCountExact'
<1> SUFFICES ASSUME TypeOK, ThreadCountExact, [Next]_vars PROVE ThreadCountExact'
  OBVIOUS
<1> USE DEF fileVars, monitorVars, repoVars, taskVars, ownerVars
<1>1. ASSUME itsThreadCount' = itsThreadCount, Running' = Running
      PROVE  ThreadCountExact'
  BY <1>1 DEF ThreadCountExact
<1>2. ASSUME UNCHANGED <<itsThreadCount, task>> PROVE ThreadCountExact'
  BY <1>1, <1>2 DEF Running
<1>3. CASE UpdateSchedule
  <2>1. CASE Additions = {} \/ shuttingDown
    BY <1>2, <1>3, <2>1 DEF UpdateSchedule
  <2>2. CASE ~(Additions = {} \/ shuttingDown)
    <3>1. /\ itsThreadCount <= MaxThreadCount
          /\ itsThreadCount' = itsThreadCount + 1
      BY <1>3, <2>2 DEF UpdateSchedule, ThreadAvailable
    <3>2. PICK t \in TaskId :
            /\ task[t].pc = "idle"
            /\ task' = [task EXCEPT ![t] = [IdleTask EXCEPT !.pc = "start",
                                                            !.producer = watched,
                                                            !.files = Additions,
                                                            !.initial = watched \notin scanned]]
      BY <1>3, <2>2 DEF UpdateSchedule
    <3>3. task'[t].pc = "start" /\ \A u \in TaskId \ {t} : task'[u] = task[u]
      BY <3>2 DEF TypeOK, IdleTask
    <3>4. Running' = Running \cup {t} /\ t \notin Running
      BY <3>2, <3>3 DEF Running
    <3>5. /\ IsFiniteSet(Running \cup {t})
          /\ Cardinality(Running \cup {t}) = Cardinality(Running) + 1
      BY <3>4, FS_AddElement DEF ThreadCountExact
    <3>6. IsFiniteSet(Running') /\ itsThreadCount' = Cardinality(Running')
      BY <3>1, <3>4, <3>5 DEF ThreadCountExact
    <3>7. itsThreadCount' <= MaxThreadCount + 1
      BY <3>1, ProducerAssumption DEF TypeOK
    <3>8. QED
      BY <3>6, <3>7 DEF ThreadCountExact
  <2>3. QED
    BY <2>1, <2>2
<1>4. ASSUME NEW t \in TaskId, LoadStep(t) PROVE ThreadCountExact'
  <2>1. CASE LoadStart(t)
    <3>1. CASE shuttingDown
      <4>1. TaskEnds(t) /\ t \in Running
        BY <2>1, <3>1 DEF LoadStart, Running
      <4>2. QED
        BY <4>1, TaskEndsCounts
    <3>2. CASE ~shuttingDown
      <4>1. PICK x : task' = [task EXCEPT ![t].pc = "next", ![t].try_old_repo = x]
        BY <2>1, <3>2, Zenon DEF LoadStart
      <4>2. Running' = Running /\ itsThreadCount' = itsThreadCount
        BY <2>1, <3>2, <4>1 DEF LoadStart, Running, TypeOK, Task
      <4>3. QED
        BY <1>1, <4>2
    <3>3. QED
      BY <3>1, <3>2
  <2>2. CASE LoadLoopEnds(t)
    <3>1. Running' = Running /\ itsThreadCount' = itsThreadCount
      BY <2>2 DEF LoadLoopEnds, Running, TypeOK, Task
    <3>2. QED
      BY <1>1, <3>1
  <2>3. CASE LoadDereferencesNull(t)
    BY <1>2, <2>3 DEF LoadDereferencesNull
  <2>4. CASE LoadReuse(t)
    <3>1. PICK f, m : task' = [task EXCEPT ![t].pc = "add", ![t].model = m,
                                           ![t].files = @ \ {f}]
      BY <2>4 DEF LoadReuse
    <3>2. Running' = Running /\ itsThreadCount' = itsThreadCount
      BY <2>4, <3>1 DEF LoadReuse, LoadContinues, Running, TypeOK, Task
    <3>3. QED
      BY <1>1, <3>2
  <2>5. CASE LoadRead(t)
    <3>1. Running' = Running /\ itsThreadCount' = itsThreadCount
      BY <2>5 DEF LoadRead, LoadContinues, Running, TypeOK, Task
    <3>2. QED
      BY <1>1, <3>1
  <2>6. CASE LoadFails(t)
    <3>1. Running' = Running /\ itsThreadCount' = itsThreadCount
      BY <2>6 DEF LoadFails, Running, TypeOK, Task
    <3>2. QED
      BY <1>1, <3>1
  <2>7. CASE LoadAdd(t)
    <3>1. Running' = Running /\ itsThreadCount' = itsThreadCount
      BY <2>7 DEF LoadAdd, Running, TypeOK, Task
    <3>2. QED
      BY <1>1, <3>1
  <2>8. CASE LoadFinish(t)
    <3>1. Running' = Running /\ itsThreadCount' = itsThreadCount
      BY <2>8 DEF LoadFinish, Running, TypeOK, Task, IdleTask
    <3>2. QED
      BY <1>1, <3>1
  <2>9. CASE LoadExit(t)
    <3>1. TaskEnds(t) /\ t \in Running
      BY <2>9 DEF LoadExit, Running
    <3>2. QED
      BY <3>1, TaskEndsCounts
  <2>10. QED
    BY <1>4, <2>1, <2>2, <2>3, <2>4, <2>5, <2>6, <2>7, <2>8, <2>9 DEF LoadStep
<1>5. CASE FileStep
  BY <1>2, <1>5 DEF FileStep, WriteFile, DeleteFile, Tick
<1>6. CASE (\E p \in Producer : Scan(p)) \/ UpdateStatus \/ UpdateRemove \/ MonitorExit
  BY <1>2, <1>6 DEF Scan, UpdateStatus, UpdateRemove, MonitorExit
<1>7. CASE ExpirationStep
  BY <1>2, <1>7 DEF ExpirationStep, ExpireProducer, ExpirationExit
<1>8. CASE OwnerStep
  BY <1>2, <1>8 DEF OwnerStep, ReadyCount, ReadyMonitor, ReadyAbandoned, RemoveOldManager,
                    ShutdownStop, ShutdownJoin
<1>9. CASE RequestShutdown
  BY <1>2, <1>9 DEF RequestShutdown
<1>10. CASE UNCHANGED vars
  BY <1>2, <1>10 DEF vars
<1>11. QED
  BY <1>3, <1>4, <1>5, <1>6, <1>7, <1>8, <1>9, <1>10 DEF Next, MonitorStep, Callback

(* The task counter is exact, and the limit is exceeded by one at most.    *)
THEOREM ThreadCountHolds == Spec => []ThreadCountExact
BY TypeCorrect, ThreadCountInit, ThreadCountStep, PTL DEF Spec

-------------------------------------------------------------------------------
(* The promise to the readers.  Only three actions change the models, each *)
(* of one producer: update() removes some, a task publishes one, and the   *)
(* expiration thread removes some.                                         *)
LEMMA StoreCardinality ==
  ASSUME NEW S
  PROVE  Store!Cardinality(S) = Cardinality(S)
BY Zenon DEF Store!Cardinality, Cardinality

(* An add followed by a resize is one publication of the abstract store.   *)
LEMMA AddAndResizePublishes ==
  ASSUME NEW old, IsSharedModels(old), IsFiniteSet(DOMAIN old),
         NEW m \in Model, NEW limit \in Nat
  PROVE  Store!Publishes(old, Resize(Add(old, m), limit), limit)
<1> DEFINE added == Add(old, m)
           new   == Resize(added, limit)
<1>1. /\ IsSharedModels(added) /\ IsFiniteSet(DOMAIN added)
      /\ DOMAIN added = DOMAIN old \cup {m.origin}
      /\ \A o \in DOMAIN added :
           \/ o \in DOMAIN old /\ added[o] = old[o]
           \/ /\ o = m.origin /\ added[o] = m
              /\ o \in DOMAIN old => m.modtime > old[o].modtime
  BY AddFacts
<1> HIDE DEF added
<1>2. /\ DOMAIN new \subseteq DOMAIN added
      /\ \A o \in DOMAIN new : new[o] = added[o]
      /\ IsFiniteSet(DOMAIN new)
      /\ Cardinality(DOMAIN new) <= limit
      /\ \A o \in DOMAIN added \ DOMAIN new : \A q \in DOMAIN new : o < q
      /\ DOMAIN added \ DOMAIN new # {} => Cardinality(DOMAIN new) = limit
  BY <1>1, ResizeFacts
<1> HIDE DEF new
<1>3. Store!Changed(old, new) \subseteq {m.origin}
  BY <1>1, <1>2 DEF Store!Changed
<1>4. Cardinality(Store!Changed(old, new)) <= 1
  <2>1. IsFiniteSet({m.origin}) /\ Cardinality({m.origin}) = 1
    BY FS_Singleton
  <2>2. QED
    BY <1>3, <2>1, FS_Subset, FS_CardinalityType
<1>5. \A o \in Store!Changed(old, new) \cap DOMAIN old : new[o].modtime > old[o].modtime
  BY <1>1, <1>2 DEF Store!Changed
<1>6. Store!Lost(old, new) \subseteq DOMAIN added \ DOMAIN new
  BY <1>1 DEF Store!Lost
<1>7. QED
  BY <1>2, <1>4, <1>5, <1>6, StoreCardinality DEF Store!Publishes, added, new

(* The initial state is one of the abstract store.                         *)
LEMMA StoreInit == Init => Store!Init
BY DEF Init, NoModels, Store!Init

(* Who changes the models, and how.                                        *)
ModelsRemoved(p) ==
  itsProducers' = [itsProducers EXCEPT ![p] = RemoveAll(itsProducers[p], Removals)]

ModelAdded(p, m) ==
  itsProducers' = [itsProducers EXCEPT ![p] = Resize(Add(itsProducers[p], m), NumberToKeep[p])]

ModelsExpired(p) ==
  itsProducers' = [itsProducers EXCEPT ![p] = Expire(itsProducers[p], now - MaxAge[p])]

(* Only three actions change the collections: publication, removal,        *)
(* expiration.                                                             *)
LEMMA ModelChanges ==
  ASSUME TypeOK, [Next]_vars
  PROVE  \/ UNCHANGED itsProducers
         \/ monitor = "remove" /\ ModelsRemoved(watched)
         \/ \E p \in Producer : \E m \in Model : ModelAdded(p, m)
         \/ \E p \in Producer : MaxAge[p] > 0 /\ ModelsExpired(p)
<1> USE DEF fileVars, monitorVars, repoVars, taskVars, ownerVars
<1>1. CASE FileStep
  BY <1>1 DEF FileStep, WriteFile, DeleteFile, Tick
<1>2. CASE MonitorStep
  BY <1>2 DEF MonitorStep, Callback, Scan, UpdateStatus, UpdateRemove, UpdateSchedule,
              MonitorExit, ModelsRemoved
<1>3. ASSUME NEW t \in TaskId, LoadStep(t)
      PROVE  \/ UNCHANGED itsProducers
             \/ \E p \in Producer : \E m \in Model : ModelAdded(p, m)
  <2>1. CASE LoadAdd(t)
    <3>1. task[t].producer \in Producer /\ task[t].model \in Model
      BY DEF TypeOK, Task
    <3>2. ModelAdded(task[t].producer, task[t].model)
      BY <2>1 DEF LoadAdd, ModelAdded
    <3>3. QED
      BY <3>1, <3>2
  <2>2. QED
    BY <1>3, <2>1 DEF LoadStep, LoadStart, LoadLoopEnds, LoadDereferencesNull, LoadReuse,
                      LoadRead, LoadFails, LoadFinish, LoadExit
<1>4. CASE ExpirationStep
  BY <1>4 DEF ExpirationStep, ExpireProducer, ExpirationExit, ModelsExpired
<1>5. CASE OwnerStep
  BY <1>5 DEF OwnerStep, ReadyCount, ReadyMonitor, ReadyAbandoned, RemoveOldManager,
              ShutdownStop, ShutdownJoin
<1>6. CASE RequestShutdown
  BY <1>6 DEF RequestShutdown
<1>7. CASE UNCHANGED vars
  BY <1>7 DEF vars
<1>8. QED
  BY <1>1, <1>2, <1>3, <1>4, <1>5, <1>6, <1>7 DEF Next

(* Every step is a step of the abstract store, or leaves it alone.         *)
LEMMA StoreStep == TypeAndBound /\ [Next]_vars => [Store!Next]_itsProducers
<1> SUFFICES ASSUME TypeOK, KeepBound, [Next]_vars PROVE [Store!Next]_itsProducers
  BY DEF TypeAndBound
<1>1. \A p \in Producer : IsSharedModels(itsProducers[p]) /\ IsFiniteSet(DOMAIN itsProducers[p])
  BY DEF TypeOK, KeepBound
<1>2. ASSUME NEW p \in Producer, NEW new, itsProducers' = [itsProducers EXCEPT ![p] = new],
             \/ Store!Publishes(itsProducers[p], new, NumberToKeep[p])
             \/ Store!Withdraws(itsProducers[p], new)
      PROVE  Store!Next
  BY <1>2 DEF Store!Next, Store!Step, TypeOK
<1>3. CASE ModelsRemoved(watched)
  <2>1. watched \in Producer
    BY DEF TypeOK
  <2>2. Store!Withdraws(itsProducers[watched], RemoveAll(itsProducers[watched], Removals))
    BY <1>1, <2>1, RemoveAllFacts DEF Store!Withdraws, Store!Changed
  <2>3. QED
    BY <1>2, <1>3, <2>1, <2>2 DEF ModelsRemoved
<1>4. ASSUME NEW p \in Producer, NEW m \in Model, ModelAdded(p, m) PROVE Store!Next
  <2>1. NumberToKeep[p] \in Nat
    BY ProducerAssumption
  <2>2. Store!Publishes(itsProducers[p], Resize(Add(itsProducers[p], m), NumberToKeep[p]),
                        NumberToKeep[p])
    BY <1>1, <2>1, AddAndResizePublishes
  <2>3. QED
    BY <1>2, <1>4, <2>2 DEF ModelAdded
<1>5. ASSUME NEW p \in Producer, ModelsExpired(p) PROVE Store!Next
  <2>1. Store!Withdraws(itsProducers[p], Expire(itsProducers[p], now - MaxAge[p]))
    BY <1>1, ExpireFacts DEF Store!Withdraws, Store!Changed
  <2>2. QED
    BY <1>2, <1>5, <2>1 DEF ModelsExpired
<1>6. QED
  BY <1>3, <1>4, <1>5, ModelChanges

(* RepoManager implements ModelStore: whatever the threads do, what the    *)
(* readers see changes by publishing one model or withdrawing some.        *)
THEOREM StoreImplemented == Spec => StorePromise
<1>1. Spec => []TypeAndBound
  BY TypeAndBoundInvariant
<1>2. QED
  BY <1>1, StoreInit, StoreStep, PTL DEF Spec, StorePromise, Store!Spec

-------------------------------------------------------------------------------
(* The newest origin time.  Publishing drops only models that are older    *)
(* than all that stay, and some stay, because number_to_keep is positive.  *)
LEMMA NewestStep ==
  TypeAndBound /\ [Next]_vars
    => [\A p \in Producer : RegressionExplained(p)]_itsProducers
<1> SUFFICES ASSUME TypeOK, KeepBound, [Next]_vars, NEW p \in Producer,
                    DOMAIN itsProducers[p] # {},
                    \A o \in DOMAIN itsProducers'[p] : o < Newest(DOMAIN itsProducers[p]),
                    itsProducers' # itsProducers
             PROVE  LET models == itsProducers[p]
                        newest == Newest(DOMAIN models)
                    IN  \/ /\ monitor = "remove" /\ watched = p
                           /\ models[newest].path \in Removals
                        \/ MaxAge[p] > 0 /\ models[newest].modtime < now - MaxAge[p]
  BY DEF TypeAndBound, RegressionExplained
<1> DEFINE models == itsProducers[p]
           newest == Newest(DOMAIN models)
<1>1. IsSharedModels(models) /\ IsFiniteSet(DOMAIN models)
  BY DEF TypeOK, KeepBound
<1>2. newest \in DOMAIN models /\ newest \in Nat
  <2>1. \E o \in DOMAIN models : \A q \in DOMAIN models : q <= o
    BY <1>1, GreatestElement DEF IsSharedModels
  <2>2. QED
    BY <1>1, <2>1 DEF Newest, IsSharedModels
<1>3. newest \notin DOMAIN itsProducers'[p]
  BY <1>2
<1>4. CASE monitor = "remove" /\ ModelsRemoved(watched)
  <2>1. watched = p
    BY <1>2, <1>3, <1>4 DEF ModelsRemoved, TypeOK
  <2>2. itsProducers'[p] = RemoveAll(models, Removals)
    BY <1>4, <2>1 DEF ModelsRemoved, TypeOK
  <2>3. models[newest].path \in Removals
    BY <1>2, <1>3, <2>2 DEF RemoveAll, Restrict, FirstWithPath
  <2>4. QED
    BY <1>4, <2>1, <2>3
<1>5. ASSUME NEW q \in Producer, NEW m \in Model, ModelAdded(q, m) PROVE FALSE
  <2> DEFINE added == Add(models, m)
             new   == Resize(added, NumberToKeep[p])
  <2>1. itsProducers'[p] = new
    BY <1>2, <1>3, <1>5 DEF ModelAdded, TypeOK
  <2>2. NumberToKeep[p] \in Nat \ {0}
    BY ProducerAssumption
  <2>3. /\ IsSharedModels(added) /\ IsFiniteSet(DOMAIN added)
        /\ newest \in DOMAIN added
    <3>1. /\ IsSharedModels(added) /\ IsFiniteSet(DOMAIN added)
          /\ DOMAIN added = DOMAIN models \cup {m.origin}
      BY <1>1, AddFacts
    <3>2. QED
      BY <1>2, <3>1
  <2> HIDE DEF added
  <2>4. /\ \A o \in DOMAIN added \ DOMAIN new : \A x \in DOMAIN new : o < x
        /\ DOMAIN added \ DOMAIN new # {} => Cardinality(DOMAIN new) = NumberToKeep[p]
        /\ IsSharedModels(new)
    BY <2>2, <2>3, ResizeFacts
  <2> HIDE DEF new
  <2>5. newest \in DOMAIN added \ DOMAIN new
    BY <1>3, <2>1, <2>3
  <2>6. PICK x \in DOMAIN new : TRUE
    BY <2>2, <2>4, <2>5, FS_EmptySet
  <2>7. newest < x /\ x < newest /\ x \in Nat
    BY <2>1, <2>4, <2>5, <2>6 DEF IsSharedModels
  <2>8. QED
    BY <1>2, <2>7
<1>6. ASSUME NEW q \in Producer, MaxAge[q] > 0, ModelsExpired(q)
      PROVE  MaxAge[p] > 0 /\ models[newest].modtime < now - MaxAge[p]
  <2>1. q = p
    BY <1>2, <1>3, <1>6 DEF ModelsExpired, TypeOK
  <2>2. itsProducers'[p] = Expire(models, now - MaxAge[p])
    BY <1>6, <2>1 DEF ModelsExpired, TypeOK
  <2>3. ~(models[newest].modtime >= now - MaxAge[p])
    BY <1>2, <1>3, <2>2 DEF Expire, Restrict
  <2>4. /\ models[newest].modtime \in Nat /\ now \in Nat /\ MaxAge[p] \in Nat
    BY <1>1, <1>2, ProducerAssumption DEF IsSharedModels, Model, TypeOK
  <2>5. QED
    BY <1>6, <2>1, <2>3, <2>4
<1>7. QED
  BY <1>4, <1>5, <1>6, ModelChanges

(* The newest origin time a producer offers goes back only when the file   *)
(* of that model was removed, or when it expired.                          *)
THEOREM NewestNeverRegressesHolds == Spec => NewestNeverRegresses
BY TypeAndBoundInvariant, NewestStep, PTL DEF Spec, NewestNeverRegresses

-------------------------------------------------------------------------------
(* The admin table.  A task that has not loaded anything owes it nothing.  *)
NoDebt == \A t \in TaskId : task[t].pc \in {"idle", "start", "exit"} => task[t].loads = 0

(* At first the table and the memory are both empty.                       *)
LEMMA StatusCoversInit == Init => StatusCovers /\ NoDebt
<1> SUFFICES ASSUME Init PROVE StatusCovers /\ NoDebt
  OBVIOUS
<1>1. \A p \in Producer : Cardinality(DOMAIN itsProducers[p]) = 0
  <2>1. \A p \in Producer : DOMAIN itsProducers[p] = {}
    BY DEF Init, NoModels
  <2>2. QED
    BY <2>1, FS_EmptySet
<1>2. \A p \in Producer : itsProducerStatus[p].number_of_loaded_files = 0
  BY DEF Init
<1>3. QED
  BY <1>1, <1>2 DEF Init, IdleTask, StatusCovers, NoDebt

(* The models of a producer become fewer only, or nothing happens.         *)
LEMMA StatusCoversFewer ==
  ASSUME TypeAndBound, StatusCovers, NoDebt,
         \A p \in Producer : /\ IsFiniteSet(DOMAIN itsProducers'[p])
                             /\ Cardinality(DOMAIN itsProducers'[p])
                                  <= Cardinality(DOMAIN itsProducers[p]),
         \A p \in Producer : itsProducerStatus'[p].number_of_loaded_files
                               = itsProducerStatus[p].number_of_loaded_files,
         \A t \in TaskId : task'[t].loads > 0 \/ task[t].loads = task'[t].loads,
         \A t \in TaskId : task[t].loads > 0 =>
           task'[t].pc \notin {"idle", "start", "exit"} /\ task'[t].producer = task[t].producer,
         \A t \in TaskId : task'[t].pc \in {"idle", "start", "exit"} => task'[t].loads = 0,
         shuttingDown => shuttingDown'
  PROVE  StatusCovers' /\ NoDebt'
<1>1. NoDebt'
  BY DEF NoDebt
<1>2. ASSUME NEW p \in Producer
      PROVE  \/ Cardinality(DOMAIN itsProducers'[p])
                  <= itsProducerStatus'[p].number_of_loaded_files
             \/ \E t \in Running' : task'[t].producer = p /\ task'[t].loads > 0
             \/ shuttingDown'
  <2>1. /\ Cardinality(DOMAIN itsProducers'[p]) \in Nat
        /\ Cardinality(DOMAIN itsProducers[p]) \in Nat
        /\ itsProducerStatus[p].number_of_loaded_files \in Nat
    BY FS_CardinalityType DEF TypeAndBound, TypeOK, KeepBound, ProducerStatus
  <2>2. CASE Cardinality(DOMAIN itsProducers[p]) <= itsProducerStatus[p].number_of_loaded_files
    BY <2>1, <2>2
  <2>3. ASSUME NEW t \in Running, task[t].producer = p, task[t].loads > 0
        PROVE  t \in Running' /\ task'[t].producer = p /\ task'[t].loads > 0
    BY <2>3 DEF Running
  <2>4. QED
    BY <2>2, <2>3 DEF StatusCovers
<1>3. QED
  BY <1>1, <1>2 DEF StatusCovers

(* Every step preserves StatusCovers and NoDebt.                           *)
LEMMA StatusCoversStep ==
  TypeAndBound /\ TypeAndBound' /\ StatusCovers /\ NoDebt /\ [Next]_vars
    => StatusCovers' /\ NoDebt'
<1> SUFFICES ASSUME TypeAndBound, TypeAndBound', StatusCovers, NoDebt, [Next]_vars
             PROVE  StatusCovers' /\ NoDebt'
  OBVIOUS
<1> USE DEF fileVars, monitorVars, repoVars, taskVars, ownerVars
<1>1. /\ TypeOK
      /\ \A t \in TaskId : task[t] \in Task /\ task[t].loads \in Nat
      /\ \A p \in Producer : /\ IsFiniteSet(DOMAIN itsProducers[p])
                              /\ Cardinality(DOMAIN itsProducers[p]) \in Nat
                              /\ IsFiniteSet(DOMAIN itsProducers'[p])
                              /\ Cardinality(DOMAIN itsProducers'[p]) \in Nat
  BY FS_CardinalityType DEF TypeAndBound, TypeOK, KeepBound, Task
<1>2. ASSUME UNCHANGED <<itsProducers, task>>, shuttingDown => shuttingDown',
             \A p \in Producer : itsProducerStatus'[p].number_of_loaded_files
                                   = itsProducerStatus[p].number_of_loaded_files
      PROVE  StatusCovers' /\ NoDebt'
  BY <1>1, <1>2, StatusCoversFewer DEF NoDebt
<1>3. ASSUME NEW t \in TaskId, NEW new \in Task, task' = [task EXCEPT ![t] = new],
             new.loads = task[t].loads,
             task[t].loads > 0 => /\ new.pc \notin {"idle", "start", "exit"}
                                  /\ new.producer = task[t].producer,
             UNCHANGED <<itsProducers, itsProducerStatus, shuttingDown>>
      PROVE  StatusCovers' /\ NoDebt'
  <2>1. \A u \in TaskId : task'[u] = IF u = t THEN new ELSE task[u]
    BY <1>1, <1>3 DEF TypeOK
  <2>2. \A u \in TaskId : task'[u].pc \in {"idle", "start", "exit"} => task'[u].loads = 0
    BY <1>1, <1>3, <2>1 DEF NoDebt
  <2>3. \A u \in TaskId : task[u].loads > 0 =>
          task'[u].pc \notin {"idle", "start", "exit"} /\ task'[u].producer = task[u].producer
    BY <1>3, <2>1 DEF NoDebt
  <2>4. \A u \in TaskId : task'[u].loads > 0 \/ task[u].loads = task'[u].loads
    BY <1>3, <2>1
  <2>5. QED
    BY <1>1, <1>3, <2>2, <2>3, <2>4, StatusCoversFewer
<1>4. CASE UpdateStatus
  BY <1>1, <1>2, <1>4 DEF UpdateStatus, TypeOK, ProducerStatus
<1>5. CASE UpdateRemove
  <2>1. \A p \in Producer : Cardinality(DOMAIN itsProducers'[p])
                               <= Cardinality(DOMAIN itsProducers[p])
    <3>1. watched \in Producer /\ IsSharedModels(itsProducers[watched])
      BY <1>1 DEF TypeOK
    <3>2. Cardinality(DOMAIN RemoveAll(itsProducers[watched], Removals))
            <= Cardinality(DOMAIN itsProducers[watched])
      BY <1>1, <3>1, RemoveAllFacts
    <3>3. QED
      BY <1>1, <1>5, <3>1, <3>2 DEF UpdateRemove, TypeOK
  <2>2. UNCHANGED <<task, itsProducerStatus, shuttingDown>>
    BY <1>5 DEF UpdateRemove
  <2>3. QED
    BY <1>1, <2>1, <2>2, StatusCoversFewer DEF NoDebt
<1>6. CASE UpdateSchedule
  <2>1. CASE Additions = {} \/ shuttingDown
    BY <1>2, <1>6, <2>1 DEF UpdateSchedule
  <2>2. CASE ~(Additions = {} \/ shuttingDown)
    <3> DEFINE started == [IdleTask EXCEPT !.pc = "start", !.producer = watched,
                                           !.files = Additions,
                                           !.initial = watched \notin scanned]
    <3>1. PICK t \in TaskId : task[t].pc = "idle" /\ task' = [task EXCEPT ![t] = started]
      BY <1>6, <2>2 DEF UpdateSchedule
    <3>2. started.loads = 0
      BY DEF IdleTask
    <3>3. started \in Task
      <4>1. watched \in Producer /\ Additions \in SUBSET Path
        BY <1>1 DEF TypeOK, Additions
      <4>2. QED
        BY <4>1, IdleTaskType DEF Task
    <3> HIDE DEF started
    <3>4. task[t].loads = 0 /\ ~(task[t].loads > 0)
      BY <3>1 DEF NoDebt
    <3>5. UNCHANGED <<itsProducers, itsProducerStatus, shuttingDown>>
      BY <1>6 DEF UpdateSchedule
    <3>6. QED
      BY <1>3, <3>1, <3>2, <3>3, <3>4, <3>5
  <2>3. QED
    BY <2>1, <2>2
<1>7. ASSUME NEW t \in TaskId, LoadStep(t) PROVE StatusCovers' /\ NoDebt'
  <2>1. CASE LoadStart(t)
    <3>1. CASE shuttingDown
      <4>1. IdleTask.loads = 0 /\ task[t].loads = 0
        BY <2>1 DEF LoadStart, NoDebt, IdleTask
      <4>2. QED
        BY <1>3, <2>1, <3>1, <4>1, IdleTaskType DEF LoadStart, TaskEnds
    <3>2. CASE ~shuttingDown
      <4>1. PICK x \in BOOLEAN : task' = [task EXCEPT ![t].pc = "next", ![t].try_old_repo = x]
        BY <2>1, <3>2, Zenon DEF LoadStart
      <4> DEFINE new == [task[t] EXCEPT !.pc = "next", !.try_old_repo = x]
      <4>2. /\ new \in Task /\ task' = [task EXCEPT ![t] = new]
            /\ new.pc = "next" /\ new.loads = task[t].loads /\ new.producer = task[t].producer
        BY <1>1, <4>1 DEF Task, TypeOK
      <4> HIDE DEF new
      <4>3. QED
        BY <1>3, <2>1, <4>2 DEF LoadStart
    <3>3. QED
      BY <3>1, <3>2
  <2>2. CASE LoadLoopEnds(t)
    <3> DEFINE new == [task[t] EXCEPT !.pc = "finish"]
    <3>1. /\ new \in Task /\ task' = [task EXCEPT ![t] = new]
          /\ new.pc = "finish" /\ new.loads = task[t].loads /\ new.producer = task[t].producer
      BY <1>1, <2>2 DEF LoadLoopEnds, Task, TypeOK
    <3> HIDE DEF new
    <3>2. QED
      BY <1>3, <2>2, <3>1 DEF LoadLoopEnds
  <2>3. CASE LoadDereferencesNull(t)
    BY <1>2, <2>3 DEF LoadDereferencesNull
  <2>4. CASE LoadReuse(t)
    <3>1. task'[t] \in Task
      BY DEF TypeAndBound, TypeOK
    <3>2. PICK f, m : task' = [task EXCEPT ![t].pc = "add", ![t].model = m, ![t].files = @ \ {f}]
      BY <2>4 DEF LoadReuse
    <3>3. /\ task' = [task EXCEPT ![t] = task'[t]]
          /\ task'[t].pc = "add" /\ task'[t].loads = task[t].loads
          /\ task'[t].producer = task[t].producer
      BY <1>1, <3>2 DEF TypeOK, Task
    <3>4. QED
      BY <1>3, <2>4, <3>1, <3>3 DEF LoadReuse
  <2>5. CASE LoadRead(t)
    <3>1. task'[t] \in Task
      BY DEF TypeAndBound, TypeOK
    <3>2. PICK f, m : task' = [task EXCEPT ![t].pc = "add", ![t].model = m, ![t].files = @ \ {f},
                                          ![t].data_load_time = now]
      BY <2>5 DEF LoadRead
    <3>3. /\ task' = [task EXCEPT ![t] = task'[t]]
          /\ task'[t].pc = "add" /\ task'[t].loads = task[t].loads
          /\ task'[t].producer = task[t].producer
      BY <1>1, <3>2 DEF TypeOK, Task
    <3>4. QED
      BY <1>3, <2>5, <3>1, <3>3 DEF LoadRead
  <2>6. CASE LoadFails(t)
    <3>1. task'[t] \in Task
      BY DEF TypeAndBound, TypeOK
    <3>2. PICK f : task' = [task EXCEPT ![t].files = @ \ {f}]
      BY <2>6 DEF LoadFails
    <3>3. /\ task' = [task EXCEPT ![t] = task'[t]]
          /\ task'[t].pc = task[t].pc /\ task'[t].loads = task[t].loads
          /\ task'[t].producer = task[t].producer
      BY <1>1, <3>2 DEF TypeOK, Task
    <3>4. task[t].pc = "next"
      BY <2>6 DEF LoadFails, LoadContinues
    <3>5. QED
      BY <1>3, <2>6, <3>1, <3>3, <3>4 DEF LoadFails
  <2>7. CASE LoadAdd(t)
    <3>1. /\ task'[t].pc = "next" /\ task'[t].producer = task[t].producer
          /\ task'[t].loads = task[t].loads + 1
          /\ \A u \in TaskId \ {t} : task'[u] = task[u]
      BY <1>1, <2>7 DEF LoadAdd, TypeOK, Task
    <3>2. /\ UNCHANGED <<itsProducerStatus, shuttingDown>>
          /\ \A q \in Producer \ {task[t].producer} : itsProducers'[q] = itsProducers[q]
      BY <1>1, <2>7 DEF LoadAdd, TypeOK
    <3>3. NoDebt'
      BY <3>1 DEF NoDebt
    <3>4. t \in Running' /\ task'[t].loads > 0
      BY <1>1, <3>1 DEF Running
    <3>5. \A u \in Running : u \in Running' /\ task'[u].producer = task[u].producer
                             /\ (task[u].loads > 0 => task'[u].loads > 0)
      BY <1>1, <3>1 DEF Running
    <3>6. QED
      BY <3>1, <3>2, <3>3, <3>4, <3>5 DEF StatusCovers
  <2>8. CASE LoadFinish(t)
    <3>1. /\ task'[t].pc = "exit" /\ task'[t].loads = 0
          /\ \A u \in TaskId \ {t} : task'[u] = task[u]
      BY <1>1, <2>8 DEF LoadFinish, TypeOK, IdleTask
    <3>2. UNCHANGED <<itsProducers, shuttingDown>>
      BY <2>8 DEF LoadFinish
    <3>3. NoDebt'
      BY <3>1 DEF NoDebt
    <3>4. ~shuttingDown =>
            /\ itsProducerStatus'[task[t].producer].number_of_loaded_files
                 = Cardinality(DOMAIN itsProducers[task[t].producer])
            /\ \A q \in Producer \ {task[t].producer} : itsProducerStatus'[q] = itsProducerStatus[q]
      <4>1. task[t].producer \in Producer /\ itsProducerStatus[task[t].producer] \in ProducerStatus
        BY <1>1 DEF TypeOK, Task
      <4>2. LoadedStatus(t).number_of_loaded_files
              = Cardinality(DOMAIN itsProducers[task[t].producer])
        BY <4>1 DEF LoadedStatus, ProducerStatus
      <4>3. ~shuttingDown => itsProducerStatus' =
              [itsProducerStatus EXCEPT ![task[t].producer] = LoadedStatus(t)]
        BY <2>8 DEF LoadFinish
      <4>4. QED
        BY <1>1, <4>1, <4>2, <4>3 DEF TypeOK
    <3>5. \A u \in Running \ {t} : u \in Running' /\ task'[u] = task[u]
      BY <3>1 DEF Running
    <3>6. \A p \in Producer \ {task[t].producer} : ~shuttingDown =>
            \/ Cardinality(DOMAIN itsProducers'[p]) <= itsProducerStatus'[p].number_of_loaded_files
            \/ \E u \in Running' : task'[u].producer = p /\ task'[u].loads > 0
      BY <3>2, <3>4, <3>5 DEF StatusCovers
    <3>7. task[t].producer \in Producer /\ ~shuttingDown =>
            Cardinality(DOMAIN itsProducers'[task[t].producer])
              <= itsProducerStatus'[task[t].producer].number_of_loaded_files
      BY <1>1, <3>2, <3>4
    <3>8. StatusCovers'
      BY <3>2, <3>6, <3>7 DEF StatusCovers
    <3>9. QED
      BY <3>3, <3>8
  <2>9. CASE LoadExit(t)
    <3>1. IdleTask.loads = task[t].loads /\ ~(task[t].loads > 0)
      BY <2>9 DEF LoadExit, NoDebt, IdleTask
    <3>2. /\ task' = [task EXCEPT ![t] = IdleTask]
          /\ UNCHANGED <<itsProducers, itsProducerStatus, shuttingDown>>
      BY <2>9 DEF LoadExit, TaskEnds
    <3>3. QED
      BY <1>3, <3>1, <3>2, IdleTaskType
  <2>10. QED
    BY <1>7, <2>1, <2>2, <2>3, <2>4, <2>5, <2>6, <2>7, <2>8, <2>9 DEF LoadStep
<1>8. ASSUME NEW p \in Producer, ExpireProducer(p) PROVE StatusCovers' /\ NoDebt'
  <2>1. \A q \in Producer : Cardinality(DOMAIN itsProducers'[q])
                               <= Cardinality(DOMAIN itsProducers[q])
    <3>1. Cardinality(DOMAIN Expire(itsProducers[p], now - MaxAge[p]))
            <= Cardinality(DOMAIN itsProducers[p])
      BY <1>1, ExpireFacts DEF TypeOK
    <3>2. QED
      BY <1>1, <1>8, <3>1 DEF ExpireProducer, TypeOK
  <2>2. UNCHANGED <<task, itsProducerStatus, shuttingDown>>
    BY <1>8 DEF ExpireProducer
  <2>3. QED
    BY <1>1, <2>1, <2>2, StatusCoversFewer DEF NoDebt
<1>9. CASE FileStep
  BY <1>2, <1>9 DEF FileStep, WriteFile, DeleteFile, Tick
<1>10. CASE (\E p \in Producer : Scan(p)) \/ MonitorExit \/ ExpirationExit
  BY <1>2, <1>10 DEF Scan, MonitorExit, ExpirationExit
<1>11. CASE OwnerStep
  BY <1>2, <1>11 DEF OwnerStep, ReadyCount, ReadyMonitor, ReadyAbandoned, RemoveOldManager,
                     ShutdownStop, ShutdownJoin
<1>12. CASE RequestShutdown
  BY <1>2, <1>12 DEF RequestShutdown
<1>13. CASE UNCHANGED vars
  BY <1>2, <1>13 DEF vars
<1>14. QED
  BY <1>4, <1>5, <1>6, <1>7, <1>8, <1>9, <1>10, <1>11, <1>12, <1>13
  DEF Next, MonitorStep, Callback, ExpirationStep

(* The admin table never shows fewer files than there are models, but for  *)
(* a task that still has to report.                                        *)
THEOREM StatusCoversHolds == Spec => []StatusCovers
BY TypeAndBoundInvariant, StatusCoversInit, StatusCoversStep, PTL DEF Spec

-------------------------------------------------------------------------------
(* From files to models: the race between a deletion and a load(), which   *)
(* is the only way to keep a model whose file is gone, or to load one file *)
(* twice; and what is in memory once a manager has caught up with a        *)
(* directory to which files are only added, in the order of their names.   *)

(* A file's history is kept by a step that starts no load of it, removes   *)
(* nothing from the snapshot and tells update() nothing.                   *)
LEMMA TrackedKept ==
  ASSUME NEW f, Tracked(f), UNCHANGED seen,
         AboutToLoad(f)' => AboutToLoad(f),
         BeingRemoved(f) => BeingRemoved(f)',
         Loaded(f)' \subseteq Loaded(f),
         \A t \in TaskId : Holds(t, f)' => Holds(t, f),
         \A t \in TaskId : (task[t].pc = "add" /\ task[t].model.path = f)'
                             => f \notin task'[t].files
  PROVE  Tracked(f)'
BY DEF Tracked

(* A step that only takes models of one producer away.                     *)
LEMMA LoadedShrinks ==
  ASSUME NEW p \in Producer,
         \A q \in Producer \ {p} : itsProducers'[q] = itsProducers[q],
         DOMAIN itsProducers'[p] \subseteq DOMAIN itsProducers[p],
         \A o \in DOMAIN itsProducers'[p] : itsProducers'[p][o] = itsProducers[p][o],
         OwnFiles
  PROVE  /\ \A f \in Path : Loaded(f)' \subseteq Loaded(f)
         /\ \A q \in Producer : \A o \in DOMAIN itsProducers'[q] :
              itsProducers'[q][o].path \in FilesOf(q)
<1>1. ASSUME NEW f \in Path PROVE Loaded(f)' \subseteq Loaded(f)
  <2>1. DirectoryOf[f] \in Producer
    BY FileAssumption
  <2>2. QED
    BY <2>1 DEF Loaded
<1>2. QED
  BY <1>1 DEF OwnFiles

-------------------------------------------------------------------------------
(* At first no file is anywhere.                                           *)
LEMMA InOnePlaceInit == Init => InOnePlace
<1> SUFFICES ASSUME Init PROVE InOnePlace
  OBVIOUS
<1>1. /\ \A p \in Producer : DOMAIN itsProducers[p] = {}
      /\ DOMAIN status = {}
      /\ \A t \in TaskId : task[t].pc = "idle" /\ task[t].files = {}
  BY DEF Init, NoModels, IdleTask
<1>2. OwnFiles
  BY <1>1 DEF OwnFiles, Additions
<1>3. ASSUME NEW f \in Path PROVE Tracked(f)
  <2>1. Loaded(f) = {}
    BY <1>1, FileAssumption DEF Loaded
  <2>2. \A t \in TaskId : ~Holds(t, f)
    BY <1>1 DEF Holds
  <2>3. ~AboutToLoad(f)
    BY <1>1 DEF AboutToLoad
  <2>4. QED
    BY <1>1, <2>1, <2>2, <2>3 DEF Tracked
<1>4. QED
  BY <1>2, <1>3 DEF InOnePlace

(* A step that changes neither the monitor, nor the models, nor a task.    *)
LEMMA InOnePlaceUnchanged ==
  ASSUME InOnePlace, UNCHANGED <<seen, monitor, watched, status, itsProducers, task, raced>>
  PROVE  InOnePlace'
<1>1. OwnFiles'
  BY DEF InOnePlace, OwnFiles, Additions
<1>2. ASSUME NEW f \in Path \ raced PROVE Tracked(f)'
  <2>1. Tracked(f)
    BY DEF InOnePlace
  <2>2. /\ AboutToLoad(f)' <=> AboutToLoad(f)
        /\ BeingRemoved(f)' <=> BeingRemoved(f)
        /\ Loaded(f)' = Loaded(f)
        /\ \A t \in TaskId : Holds(t, f)' <=> Holds(t, f)
    BY DEF AboutToLoad, BeingRemoved, Removals, Loaded, Holds
  <2>3. QED
    BY <2>1, <2>2 DEF Tracked
<1>3. QED
  BY <1>1, <1>2 DEF InOnePlace

(* A step of a task that publishes nothing and takes up no new file.       *)
LEMMA InOnePlaceTask ==
  ASSUME InOnePlace, TypeOK, NEW t \in TaskId, NEW new \in Task,
         UNCHANGED <<seen, monitor, watched, status, itsProducers, raced>>,
         task' = [task EXCEPT ![t] = new],
         new.files \subseteq task[t].files,
         new.producer = task[t].producer \/ new.files = {},
         new.pc # "idle" => task[t].pc # "idle",
         new.pc = "add" => /\ new.producer = task[t].producer
                           /\ new.model.path \notin new.files
                           /\ new.model.path \in task[t].files
  PROVE  InOnePlace'
<1>1. \A u \in TaskId : task'[u] = IF u = t THEN new ELSE task[u]
  BY DEF TypeOK
<1>2. ASSUME NEW f \in Path \ raced PROVE Tracked(f)'
  <2>1. Tracked(f)
    BY DEF InOnePlace
  <2>2. /\ AboutToLoad(f)' => AboutToLoad(f)
        /\ BeingRemoved(f) => BeingRemoved(f)'
        /\ Loaded(f)' \subseteq Loaded(f)
    BY DEF AboutToLoad, BeingRemoved, Removals, Loaded
  <2>3. \A u \in TaskId : Holds(u, f)' => Holds(u, f)
    BY <1>1 DEF Holds
  <2>4. \A u \in TaskId : (task[u].pc = "add" /\ task[u].model.path = f)'
                             => f \notin task'[u].files
    BY <1>1, <2>1 DEF Tracked
  <2>5. QED
    BY <2>1, <2>2, <2>3, <2>4, TrackedKept
<1>3. OwnFiles'
  <2>1. OwnFiles
    BY DEF InOnePlace
  <2>2. \A u \in TaskId : task'[u].files \subseteq FilesOf(task'[u].producer)
    BY <1>1, <2>1 DEF OwnFiles
  <2>3. \A u \in TaskId :
          task'[u].pc = "add" => task'[u].model.path \in FilesOf(task'[u].producer)
    BY <1>1, <2>1 DEF OwnFiles
  <2>4. QED
    BY <2>1, <2>2, <2>3 DEF OwnFiles, Additions
<1>4. QED
  BY <1>2, <1>3 DEF InOnePlace

-------------------------------------------------------------------------------
(* The monitor's thread.                                                   *)
LEMMA InOnePlaceScan ==
  ASSUME InOnePlace, TypeOK, NEW p \in Producer, Scan(p)
  PROVE  InOnePlace'
<1> USE DEF fileVars, monitorVars, repoVars, taskVars, ownerVars
<1>1. /\ monitor = "idle" /\ monitor' = "status" /\ watched' = p
      /\ status' = Differences(p)
      /\ DOMAIN seen' = (DOMAIN seen \ FilesOf(p)) \cup (DOMAIN disk \cap FilesOf(p))
      /\ UNCHANGED <<itsProducers, task, raced>>
  BY DEF Scan
<1>2. OwnFiles'
  <2>1. DOMAIN status' \subseteq FilesOf(watched')
    BY <1>1 DEF Differences
  <2>2. Additions' \subseteq DOMAIN seen'
    BY <1>1 DEF Differences, Additions
  <2>3. QED
    BY <1>1, <2>1, <2>2 DEF InOnePlace, OwnFiles
<1>3. ASSUME NEW f \in Path \ raced PROVE Tracked(f)'
  <2> DEFINE Known == Loaded(f) # {} \/ \E t \in TaskId : Holds(t, f)
  <2>1. Tracked(f)
    BY DEF InOnePlace
  <2>2. /\ Loaded(f)' = Loaded(f)
        /\ \A t \in TaskId : Holds(t, f)' <=> Holds(t, f)
    BY <1>1 DEF Loaded, Holds
  <2>3. Known => f \in DOMAIN seen
    BY <1>1, <2>1 DEF Tracked, BeingRemoved
  <2>4. Known => f \in DOMAIN seen' \/ BeingRemoved(f)'
    <3>1. CASE f \in FilesOf(p) /\ f \notin DOMAIN disk /\ Known
      <4>1. f \in DOMAIN status' /\ status'[f] = "DELETE"
        BY <1>1, <2>3, <3>1 DEF Differences
      <4>2. QED
        BY <1>1, <4>1 DEF BeingRemoved, Removals
    <3>2. QED
      BY <1>1, <2>3, <3>1
  <2>5. AboutToLoad(f)' => ~Known
    <3>1. AboutToLoad(f)' => f \in (DOMAIN disk \ DOMAIN seen) \cap FilesOf(p)
      BY <1>1 DEF AboutToLoad, Differences
    <3>2. QED
      BY <1>1, <2>3, <3>1
  <2>6. QED
    BY <1>1, <2>1, <2>2, <2>4, <2>5 DEF Tracked
<1>4. QED
  BY <1>1, <1>2, <1>3 DEF InOnePlace

(* The callback of the monitor keeps what is to be removed and what is to  *)
(* be loaded apart.                                                        *)
LEMMA InOnePlaceStatus ==
  ASSUME InOnePlace, TypeOK, UpdateStatus
  PROVE  InOnePlace'
<1> USE DEF fileVars, monitorVars, repoVars, taskVars, ownerVars
<1>1. UNCHANGED <<seen, itsProducers, task, raced>> /\ monitor = "status"
  BY DEF UpdateStatus, CallbackEnds
<1>2. \/ DOMAIN status = {} /\ DOMAIN status' = {} /\ monitor' = "idle"
      \/ UNCHANGED <<status, watched>> /\ monitor' = "remove"
  BY DEF UpdateStatus, CallbackEnds
<1>3. OwnFiles'
  BY <1>1, <1>2 DEF InOnePlace, OwnFiles, Additions
<1>4. ASSUME NEW f \in Path \ raced PROVE Tracked(f)'
  <2>1. Tracked(f)
    BY DEF InOnePlace
  <2>2. AboutToLoad(f)' => AboutToLoad(f)
    BY <1>1, <1>2 DEF AboutToLoad
  <2>3. BeingRemoved(f) => BeingRemoved(f)'
    BY <1>1, <1>2 DEF BeingRemoved, Removals
  <2>4. Loaded(f)' = Loaded(f) /\ \A t \in TaskId : Holds(t, f)' <=> Holds(t, f)
    BY <1>1 DEF Loaded, Holds
  <2>5. QED
    BY <1>1, <2>1, <2>2, <2>3, <2>4 DEF Tracked
<1>5. QED
  BY <1>1, <1>3, <1>4 DEF InOnePlace

(* A removal takes a file out of memory, where alone it may be.            *)
LEMMA InOnePlaceRemove ==
  ASSUME InOnePlace, TypeOK, UpdateRemove
  PROVE  InOnePlace'
<1> USE DEF fileVars, monitorVars, repoVars, taskVars, ownerVars
<1> DEFINE left == RemoveAll(itsProducers[watched], Removals)
<1>1. /\ UNCHANGED <<seen, task>> /\ monitor = "remove"
      /\ itsProducers' = [itsProducers EXCEPT ![watched] = left]
      /\ raced' = raced \cup (Removals \cap InFlight)
  BY DEF UpdateRemove, CallbackEnds
<1>2. \/ DOMAIN status' = {} /\ monitor' = "idle"
      \/ UNCHANGED <<status, watched>> /\ monitor' = "schedule"
  BY DEF UpdateRemove, CallbackEnds
<1>3. watched \in Producer /\ IsSharedModels(itsProducers[watched])
  BY DEF TypeOK
<1>4. /\ DOMAIN left \subseteq DOMAIN itsProducers[watched]
      /\ \A o \in DOMAIN left : left[o] = itsProducers[watched][o]
  BY <1>3, RemoveAllFacts
<1>5. DOMAIN left = DOMAIN itsProducers[watched]
                      \ UNION {FirstWithPath(itsProducers[watched], f) : f \in Removals}
  BY DEF RemoveAll, Restrict
<1> HIDE DEF left
<1>6. /\ \A f \in Path : Loaded(f)' \subseteq Loaded(f)
      /\ \A q \in Producer : \A o \in DOMAIN itsProducers'[q] :
           itsProducers'[q][o].path \in FilesOf(q)
  <2>1. /\ \A q \in Producer \ {watched} : itsProducers'[q] = itsProducers[q]
        /\ itsProducers'[watched] = left
    BY <1>1, <1>3 DEF TypeOK
  <2>2. OwnFiles
    BY DEF InOnePlace
  <2>3. QED
    BY <1>3, <1>4, <2>1, <2>2, LoadedShrinks
<1>7. OwnFiles'
  BY <1>1, <1>2, <1>6 DEF InOnePlace, OwnFiles, Additions
<1>8. ASSUME NEW f \in Path \ raced' PROVE Tracked(f)'
  <2>1. Tracked(f)
    BY <1>1 DEF InOnePlace
  <2>2. \A t \in TaskId : Holds(t, f)' <=> Holds(t, f)
    BY <1>1 DEF Holds
  <2>3. CASE f \in Removals
    <3>1. \A t \in TaskId : ~Holds(t, f)
      BY <1>1, <2>3 DEF InFlight
    <3>2. DirectoryOf[f] = watched
      BY <2>3 DEF InOnePlace, OwnFiles, Removals, FilesOf
    <3>3. ASSUME NEW o \in Loaded(f) PROVE o \in FirstWithPath(itsProducers[watched], f)
      <4>1. /\ o \in DOMAIN itsProducers[watched]
            /\ itsProducers[watched][o].path = f
            /\ \A q \in DOMAIN itsProducers[watched] :
                 itsProducers[watched][q].path = f => o = q
        BY <2>1, <3>2 DEF Loaded, Tracked
      <4>2. o \in Nat
        BY <1>3, <4>1 DEF IsSharedModels
      <4>3. QED
        BY <4>1, <4>2 DEF FirstWithPath
    <3>4. Loaded(f)' = {}
      <4>1. \A o \in Loaded(f)' : o \in DOMAIN left
        BY <1>1, <1>3, <3>2 DEF Loaded, TypeOK
      <4>2. QED
        BY <1>5, <1>6, <2>3, <3>3, <4>1
    <3>5. QED
      BY <1>1, <2>1, <2>2, <3>1, <3>4 DEF Tracked
  <2>4. CASE f \notin Removals
    <3>1. AboutToLoad(f)' => AboutToLoad(f)
      BY <1>1, <1>2, <2>4 DEF AboutToLoad, Removals
    <3>2. ~BeingRemoved(f)
      BY <2>4 DEF BeingRemoved
    <3>3. QED
      BY <1>1, <1>6, <2>1, <2>2, <3>1, <3>2 DEF Tracked
  <2>5. QED
    BY <2>3, <2>4
<1>9. QED
  BY <1>7, <1>8 DEF InOnePlace

(* A file that is about to be scheduled goes into one task.                *)
LEMMA InOnePlaceSchedule ==
  ASSUME InOnePlace, TypeOK, UpdateSchedule
  PROVE  InOnePlace'
<1> USE DEF fileVars, monitorVars, repoVars, taskVars, ownerVars
<1>1. /\ UNCHANGED <<seen, itsProducers, raced>> /\ monitor = "schedule"
      /\ DOMAIN status' = {} /\ monitor' = "idle"
  BY DEF UpdateSchedule, CallbackEnds
<1>2. /\ \A f : ~AboutToLoad(f)'
      /\ \A f : ~BeingRemoved(f)
      /\ \A f \in Path : Loaded(f)' = Loaded(f)
  BY <1>1 DEF AboutToLoad, BeingRemoved, Loaded
<1>3. CASE Additions = {} \/ shuttingDown
  <2>1. UNCHANGED task
    BY <1>3 DEF UpdateSchedule
  <2>2. OwnFiles'
    BY <1>1, <2>1 DEF InOnePlace, OwnFiles, Additions
  <2>3. ASSUME NEW f \in Path \ raced PROVE Tracked(f)'
    <3>1. Tracked(f)
      BY DEF InOnePlace
    <3>2. \A t \in TaskId : Holds(t, f)' <=> Holds(t, f)
      BY <2>1 DEF Holds
    <3>3. QED
      BY <1>1, <1>2, <2>1, <3>1, <3>2 DEF Tracked
  <2>4. QED
    BY <1>1, <2>2, <2>3 DEF InOnePlace
<1>4. CASE ~(Additions = {} \/ shuttingDown)
  <2>1. PICK t \in TaskId :
          /\ task[t].pc = "idle"
          /\ task' = [task EXCEPT ![t] = [IdleTask EXCEPT !.pc = "start",
                                                          !.producer = watched,
                                                          !.files = Additions,
                                                          !.initial = watched \notin scanned]]
    BY <1>4 DEF UpdateSchedule
  <2>2. /\ task'[t].pc = "start" /\ task'[t].producer = watched /\ task'[t].files = Additions
        /\ \A u \in TaskId \ {t} : task'[u] = task[u]
    BY <2>1 DEF TypeOK, IdleTask
  <2>3. OwnFiles'
    <3>1. OwnFiles /\ Additions \subseteq FilesOf(watched)
      BY DEF InOnePlace, OwnFiles, Additions
    <3>2. \A u \in TaskId : task'[u].files \subseteq FilesOf(task'[u].producer)
      BY <2>2, <3>1 DEF OwnFiles
    <3>3. \A u \in TaskId :
            task'[u].pc = "add" => task'[u].model.path \in FilesOf(task'[u].producer)
      BY <2>2, <3>1 DEF OwnFiles
    <3>4. QED
      BY <1>1, <3>1, <3>2, <3>3 DEF OwnFiles, Additions
  <2>4. ASSUME NEW f \in Path \ raced PROVE Tracked(f)'
    <3>1. Tracked(f)
      BY DEF InOnePlace
    <3>2. \A u \in TaskId \ {t} : Holds(u, f)' <=> Holds(u, f)
      BY <2>2 DEF Holds
    <3>3. /\ Holds(t, f)' <=> f \in Additions
          /\ ~Holds(t, f)
      BY <2>1, <2>2 DEF Holds
    <3>4. f \in Additions => f \in DOMAIN seen /\ AboutToLoad(f)
      BY <1>1 DEF InOnePlace, OwnFiles, Additions, AboutToLoad
    <3>5. f \in Additions => Loaded(f) = {} /\ \A u \in TaskId : ~Holds(u, f)
      BY <3>1, <3>4 DEF Tracked
    <3>6. Loaded(f)' # {} \/ (\E u \in TaskId : Holds(u, f)') => f \in DOMAIN seen'
      BY <1>1, <1>2, <3>1, <3>2, <3>3, <3>4 DEF Tracked
    <3>7. \A u \in TaskId : Holds(u, f)' =>
            Loaded(f)' = {} /\ \A v \in TaskId : Holds(v, f)' => v = u
      BY <1>2, <3>1, <3>2, <3>3, <3>5 DEF Tracked
    <3>8. \A u \in TaskId : task'[u].pc = "add" /\ task'[u].model.path = f
                               => f \notin task'[u].files
      BY <2>2, <3>1 DEF Tracked
    <3>9. QED
      BY <1>2, <3>1, <3>6, <3>7, <3>8 DEF Tracked
  <2>5. QED
    BY <1>1, <2>3, <2>4 DEF InOnePlace
<1>5. QED
  BY <1>3, <1>4

-------------------------------------------------------------------------------
(* The load() tasks.                                                       *)
LEMMA InOnePlaceAdd ==
  ASSUME InOnePlace, TypeAndBound, NEW t \in TaskId, LoadAdd(t)
  PROVE  InOnePlace'
<1> USE DEF fileVars, monitorVars, repoVars, taskVars, ownerVars
<1> DEFINE p == task[t].producer
           m == task[t].model
           new == Resize(Add(itsProducers[p], m), NumberToKeep[p])
<1>1. /\ UNCHANGED <<seen, monitor, watched, status, raced>>
      /\ task[t].pc = "add"
      /\ itsProducers' = [itsProducers EXCEPT ![p] = new]
      /\ task' = [task EXCEPT ![t].pc = "next", ![t].loads = @ + 1, ![t].model = NoModel]
  BY DEF LoadAdd
<1>2. p \in Producer /\ m \in Model /\ NumberToKeep[p] \in Nat
  BY ProducerAssumption DEF TypeAndBound, TypeOK, Task
<1>3. \A o \in DOMAIN new : \/ o \in DOMAIN itsProducers[p] /\ new[o] = itsProducers[p][o]
                            \/ o = m.origin /\ new[o] = m
  <2> HIDE DEF new, p, m
  <2> DEFINE models == itsProducers[p]
             added  == Add(models, m)
  <2>1. IsSharedModels(models) /\ IsFiniteSet(DOMAIN models)
    BY <1>2 DEF TypeAndBound, TypeOK, KeepBound
  <2> HIDE DEF models
  <2>2. /\ IsSharedModels(added) /\ IsFiniteSet(DOMAIN added)
        /\ \A o \in DOMAIN added :
             \/ o \in DOMAIN models /\ added[o] = models[o]
             \/ /\ o = m.origin /\ added[o] = m
                /\ o \in DOMAIN models => m.modtime > models[o].modtime
    BY <1>2, <2>1, AddFacts
  <2> HIDE DEF added
  <2>3. /\ DOMAIN Resize(added, NumberToKeep[p]) \subseteq DOMAIN added
        /\ \A o \in DOMAIN Resize(added, NumberToKeep[p]) :
             Resize(added, NumberToKeep[p])[o] = added[o]
    BY <1>2, <2>2, ResizeFacts
  <2>4. QED
    BY <2>2, <2>3 DEF added, models, new
<1> HIDE DEF new
<1>4. /\ task'[t].pc = "next" /\ task'[t].files = task[t].files
      /\ task'[t].producer = task[t].producer
      /\ \A u \in TaskId \ {t} : task'[u] = task[u]
      /\ itsProducers'[p] = new
      /\ \A q \in Producer \ {p} : itsProducers'[q] = itsProducers[q]
  BY <1>1, <1>2 DEF TypeAndBound, TypeOK, Task
<1> HIDE DEF p, m
<1>5. m.path \in FilesOf(p) /\ m.path \in Path /\ DirectoryOf[m.path] = p
  BY <1>1 DEF InOnePlace, OwnFiles, FilesOf, p, m
<1>6. OwnFiles'
  <2>1. OwnFiles
    BY DEF InOnePlace
  <2>2. \A q \in Producer : \A o \in DOMAIN itsProducers'[q] : itsProducers'[q][o].path \in FilesOf(q)
    BY <1>2, <1>3, <1>4, <1>5, <2>1 DEF OwnFiles
  <2>3. /\ \A u \in TaskId : task'[u].files \subseteq FilesOf(task'[u].producer)
        /\ \A u \in TaskId :
             task'[u].pc = "add" => task'[u].model.path \in FilesOf(task'[u].producer)
    BY <1>4, <2>1 DEF OwnFiles
  <2>4. QED
    BY <1>1, <2>1, <2>2, <2>3 DEF OwnFiles, Additions
<1>7. ASSUME NEW f \in Path \ raced PROVE Tracked(f)'
  <2>1. Tracked(f)
    BY DEF InOnePlace
  <2>2. DirectoryOf[f] \in Producer
    BY FileAssumption
  <2>3. /\ AboutToLoad(f)' <=> AboutToLoad(f)
        /\ BeingRemoved(f)' <=> BeingRemoved(f)
    BY <1>1 DEF AboutToLoad, BeingRemoved, Removals
  <2>4. /\ \A u \in TaskId : Holds(u, f)' => Holds(u, f)
        /\ \A u \in TaskId : task'[u].pc = "add" /\ task'[u].model.path = f
                               => f \notin task'[u].files
    BY <1>1, <1>4, <2>1 DEF Holds, Tracked
  <2>5. CASE f # m.path
    <3>1. Loaded(f)' \subseteq Loaded(f)
      BY <1>3, <1>4, <2>2, <2>5 DEF Loaded
    <3>2. QED
      BY <1>1, <2>1, <2>3, <2>4, <3>1, TrackedKept
  <2>6. CASE f = m.path
    <3>1. Holds(t, f) /\ f \notin task[t].files
      BY <1>1, <2>1, <2>6 DEF Holds, Tracked, m
    <3>2. /\ Loaded(f) = {} /\ ~AboutToLoad(f)
          /\ \A u \in TaskId \ {t} : ~Holds(u, f)
          /\ f \in DOMAIN seen \/ BeingRemoved(f)
      BY <2>1, <3>1 DEF Tracked
    <3>3. \A u \in TaskId : ~Holds(u, f)'
      BY <1>4, <2>4, <3>1, <3>2 DEF Holds
    <3>4. Loaded(f)' \subseteq {m.origin}
      BY <1>3, <1>4, <1>5, <2>6, <3>2 DEF Loaded
    <3>5. QED
      BY <1>1, <2>3, <2>4, <3>2, <3>3, <3>4 DEF Tracked
  <2>7. QED
    BY <2>5, <2>6
<1>8. QED
  BY <1>1, <1>6, <1>7 DEF InOnePlace

(* A task that loads or reuses a file, or fails to, moves it from its list *)
(* to its hand, or drops it.                                               *)
LEMMA InOnePlaceLoad ==
  ASSUME InOnePlace, TypeAndBound, NEW t \in TaskId, LoadStep(t)
  PROVE  InOnePlace'
<1> USE DEF fileVars, monitorVars, repoVars, taskVars, ownerVars
<1>1. TypeOK /\ task[t] \in Task /\ OwnFiles /\ \A f \in Path \ raced : Tracked(f)
  BY DEF TypeAndBound, TypeOK, InOnePlace
<1>2. ASSUME TaskEnds(t), UNCHANGED <<seen, monitor, watched, status, itsProducers, raced>>
      PROVE  InOnePlace'
  <2>1. /\ task' = [task EXCEPT ![t] = IdleTask]
        /\ IdleTask.pc = "idle" /\ IdleTask.files = {}
    BY <1>2 DEF TaskEnds, IdleTask
  <2>2. QED
    BY <1>1, <1>2, <2>1, IdleTaskType, InOnePlaceTask
<1>3. CASE LoadStart(t)
  <2>1. CASE shuttingDown
    BY <1>2, <1>3, <2>1 DEF LoadStart
  <2>2. CASE ~shuttingDown
    <3>1. PICK x \in BOOLEAN : task' = [task EXCEPT ![t].pc = "next", ![t].try_old_repo = x]
      BY <1>3, <2>2, Zenon DEF LoadStart
    <3> DEFINE new == [task[t] EXCEPT !.pc = "next", !.try_old_repo = x]
    <3>2. new \in Task /\ task' = [task EXCEPT ![t] = new]
      BY <1>1, <3>1 DEF Task, TypeOK
    <3>3. new.pc = "next" /\ new.files = task[t].files /\ new.producer = task[t].producer
      BY <1>1 DEF Task
    <3>4. /\ UNCHANGED <<seen, monitor, watched, status, itsProducers, raced>>
          /\ task[t].pc = "start"
      BY <1>3 DEF LoadStart
    <3> HIDE DEF new
    <3>5. QED
      BY <1>1, <3>2, <3>3, <3>4, InOnePlaceTask
  <2>3. QED
    BY <2>1, <2>2
<1>4. CASE LoadLoopEnds(t)
  <2> DEFINE new == [task[t] EXCEPT !.pc = "finish"]
  <2>1. new \in Task /\ task' = [task EXCEPT ![t] = new]
    BY <1>1, <1>4 DEF LoadLoopEnds, Task, TypeOK
  <2>2. new.pc = "finish" /\ new.files = task[t].files /\ new.producer = task[t].producer
    BY <1>1 DEF Task
  <2>3. /\ UNCHANGED <<seen, monitor, watched, status, itsProducers, raced>>
        /\ task[t].pc = "next"
    BY <1>4 DEF LoadLoopEnds
  <2> HIDE DEF new
  <2>4. QED
    BY <1>1, <2>1, <2>2, <2>3, InOnePlaceTask
<1>5. CASE LoadDereferencesNull(t)
  BY <1>5, InOnePlaceUnchanged DEF LoadDereferencesNull
<1>6. ASSUME NEW f \in task[t].files, NEW m \in Model, m.path = f, NEW x,
             task' = [task EXCEPT ![t] = [task[t] EXCEPT !.pc = "add", !.model = m,
                                                         !.files = task[t].files \ {f},
                                                         !.data_load_time = x]],
             x \in Nat \cup {NotADateTime},
             UNCHANGED <<seen, monitor, watched, status, itsProducers, raced>>,
             task[t].pc = "next"
      PROVE  InOnePlace'
  <2> DEFINE new == [task[t] EXCEPT !.pc = "add", !.model = m, !.files = task[t].files \ {f},
                                    !.data_load_time = x]
  <2>1. new \in Task
    BY <1>1, <1>6 DEF Task
  <2>2. /\ new.pc = "add" /\ new.files = task[t].files \ {f} /\ new.model = m
        /\ new.producer = task[t].producer
    BY <1>1 DEF Task
  <2>3. task' = [task EXCEPT ![t] = new]
    BY <1>6
  <2> HIDE DEF new
  <2>4. /\ new.files \subseteq task[t].files
        /\ new.model.path \notin new.files /\ new.model.path \in task[t].files
    BY <1>6, <2>2
  <2>5. QED
    BY <1>1, <1>6, <2>1, <2>2, <2>3, <2>4, InOnePlaceTask
<1>7. CASE LoadReuse(t)
  <2>1. PICK f \in task[t].files : \E m \in GetModel(OldModels[task[t].producer], f) :
          task' = [task EXCEPT ![t].pc = "add", ![t].model = m, ![t].files = @ \ {f}]
    BY <1>7 DEF LoadReuse
  <2>2. PICK m \in GetModel(OldModels[task[t].producer], f) :
          task' = [task EXCEPT ![t].pc = "add", ![t].model = m, ![t].files = @ \ {f}]
    BY <2>1
  <2>3. m \in Model /\ m.path = f
    <3>1. task[t].producer \in Producer
      BY <1>1 DEF Task
    <3>2. IsSharedModels(OldModels[task[t].producer])
      BY <3>1, ProducerAssumption
    <3>3. QED
      BY <3>2 DEF GetModel, FirstWithPath, IsSharedModels
  <2>4. task' = [task EXCEPT ![t] = [task[t] EXCEPT !.pc = "add", !.model = m,
                                                    !.files = task[t].files \ {f},
                                                    !.data_load_time = task[t].data_load_time]]
    BY <1>1, <2>2 DEF TypeOK, Task
  <2>5. task[t].data_load_time \in Nat \cup {NotADateTime}
    BY <1>1 DEF Task
  <2>6. /\ UNCHANGED <<seen, monitor, watched, status, itsProducers, raced>>
        /\ task[t].pc = "next"
    BY <1>7 DEF LoadReuse, LoadContinues
  <2>7. QED
    BY <1>6, <2>3, <2>4, <2>5, <2>6
<1>8. CASE LoadRead(t)
  <2>1. PICK f \in task[t].files :
          /\ Loadable(f)
          /\ task' = [task EXCEPT ![t].pc = "add",
                                  ![t].model = [path |-> f, origin |-> disk[f].origin,
                                                modtime |-> disk[f].modtime],
                                  ![t].files = @ \ {f},
                                  ![t].data_load_time = now]
    BY <1>8 DEF LoadRead
  <2> DEFINE m == [path |-> f, origin |-> disk[f].origin, modtime |-> disk[f].modtime]
  <2>2. m \in Model
    BY <1>1, <2>1, FileAssumption DEF Loadable, TypeOK, Task, Version, Model
  <2>3. m.path = f
    OBVIOUS
  <2>4. task' = [task EXCEPT ![t] = [task[t] EXCEPT !.pc = "add", !.model = m,
                                                    !.files = task[t].files \ {f},
                                                    !.data_load_time = now]]
    BY <1>1, <2>1 DEF TypeOK, Task
  <2> HIDE DEF m
  <2>5. /\ UNCHANGED <<seen, monitor, watched, status, itsProducers, raced>>
        /\ task[t].pc = "next" /\ now \in Nat \cup {NotADateTime}
    BY <1>1, <1>8 DEF LoadRead, LoadContinues, TypeOK
  <2>6. QED
    BY <1>6, <2>2, <2>3, <2>4, <2>5
<1>9. CASE LoadFails(t)
  <2>1. PICK f \in task[t].files : task' = [task EXCEPT ![t].files = @ \ {f}]
    BY <1>9 DEF LoadFails
  <2> DEFINE new == [task[t] EXCEPT !.files = task[t].files \ {f}]
  <2>2. new \in Task /\ task' = [task EXCEPT ![t] = new]
    BY <1>1, <2>1 DEF Task, TypeOK
  <2>3. /\ new.pc = task[t].pc /\ new.files = task[t].files \ {f}
        /\ new.producer = task[t].producer
    BY <1>1 DEF Task
  <2>4. /\ UNCHANGED <<seen, monitor, watched, status, itsProducers, raced>>
        /\ task[t].pc = "next"
    BY <1>9 DEF LoadFails, LoadContinues
  <2> HIDE DEF new
  <2>5. QED
    BY <1>1, <2>2, <2>3, <2>4, InOnePlaceTask
<1>10. CASE LoadAdd(t)
  BY <1>10, InOnePlaceAdd
<1>11. CASE LoadFinish(t)
  <2> DEFINE new == [IdleTask EXCEPT !.pc = "exit", !.initial = task[t].initial]
  <2>1. /\ new \in Task /\ new.pc = "exit" /\ new.files = {}
        /\ task' = [task EXCEPT ![t] = new]
    BY <1>1, <1>11, IdleTaskType DEF LoadFinish, Task, IdleTask
  <2>2. /\ UNCHANGED <<seen, monitor, watched, status, itsProducers, raced>>
        /\ task[t].pc = "finish"
    BY <1>11 DEF LoadFinish
  <2> HIDE DEF new
  <2>3. QED
    BY <1>1, <2>1, <2>2, InOnePlaceTask
<1>12. CASE LoadExit(t)
  BY <1>2, <1>12 DEF LoadExit
<1>13. QED
  BY <1>3, <1>4, <1>5, <1>7, <1>8, <1>9, <1>10, <1>11, <1>12 DEF LoadStep

-------------------------------------------------------------------------------
(* Expiration and resizing only take models out of memory.                 *)
LEMMA InOnePlaceExpire ==
  ASSUME InOnePlace, TypeOK, NEW p \in Producer, ExpireProducer(p)
  PROVE  InOnePlace'
<1> USE DEF fileVars, monitorVars, repoVars, taskVars, ownerVars
<1> DEFINE left == Expire(itsProducers[p], now - MaxAge[p])
<1>1. /\ UNCHANGED <<seen, monitor, watched, status, task, raced>>
      /\ itsProducers' = [itsProducers EXCEPT ![p] = left]
  BY DEF ExpireProducer
<1>2. /\ DOMAIN left \subseteq DOMAIN itsProducers[p]
      /\ \A o \in DOMAIN left : left[o] = itsProducers[p][o]
  BY ExpireFacts DEF TypeOK
<1> HIDE DEF left
<1>3. /\ \A q \in Producer \ {p} : itsProducers'[q] = itsProducers[q]
      /\ itsProducers'[p] = left
  BY <1>1 DEF TypeOK
<1>4. OwnFiles
  BY DEF InOnePlace
<1>5. /\ \A f \in Path : Loaded(f)' \subseteq Loaded(f)
      /\ \A q \in Producer : \A o \in DOMAIN itsProducers'[q] :
           itsProducers'[q][o].path \in FilesOf(q)
  BY <1>2, <1>3, <1>4, LoadedShrinks
<1>6. OwnFiles'
  BY <1>1, <1>4, <1>5 DEF OwnFiles, Additions
<1>7. ASSUME NEW f \in Path \ raced PROVE Tracked(f)'
  <2>1. Tracked(f)
    BY DEF InOnePlace
  <2>2. /\ AboutToLoad(f)' <=> AboutToLoad(f)
        /\ BeingRemoved(f)' <=> BeingRemoved(f)
        /\ \A t \in TaskId : Holds(t, f)' <=> Holds(t, f)
    BY <1>1 DEF AboutToLoad, BeingRemoved, Removals, Holds
  <2>3. QED
    BY <1>1, <1>5, <2>1, <2>2 DEF Tracked
<1>8. QED
  BY <1>1, <1>6, <1>7 DEF InOnePlace

(* Every step preserves InOnePlace.                                        *)
LEMMA InOnePlaceStep == InOnePlace /\ TypeAndBound /\ [Next]_vars => InOnePlace'
<1> SUFFICES ASSUME InOnePlace, TypeAndBound, [Next]_vars PROVE InOnePlace'
  OBVIOUS
<1> USE DEF fileVars, monitorVars, repoVars, taskVars, ownerVars
<1>1. TypeOK
  BY DEF TypeAndBound
<1>2. CASE FileStep
  BY <1>2, InOnePlaceUnchanged DEF FileStep, WriteFile, DeleteFile, Tick
<1>3. CASE MonitorStep
  <2>1. CASE MonitorExit
    <3>1. /\ monitor = "idle" /\ monitor' = "stopped"
          /\ UNCHANGED <<seen, watched, status, itsProducers, task, raced>>
      BY <2>1 DEF MonitorExit
    <3>2. OwnFiles'
      BY <3>1 DEF InOnePlace, OwnFiles, Additions
    <3>3. ASSUME NEW f \in Path \ raced PROVE Tracked(f)'
      <4>1. Tracked(f)
        BY DEF InOnePlace
      <4>2. /\ ~AboutToLoad(f)' /\ ~BeingRemoved(f)
            /\ Loaded(f)' = Loaded(f)
            /\ \A t \in TaskId : Holds(t, f)' <=> Holds(t, f)
        BY <3>1 DEF AboutToLoad, BeingRemoved, Loaded, Holds
      <4>3. QED
        BY <3>1, <4>1, <4>2 DEF Tracked
    <3>4. QED
      BY <3>1, <3>2, <3>3 DEF InOnePlace
  <2>2. QED
    BY <1>1, <1>3, <2>1, InOnePlaceScan, InOnePlaceStatus, InOnePlaceRemove, InOnePlaceSchedule
    DEF MonitorStep, Callback
<1>4. CASE \E t \in TaskId : LoadStep(t)
  BY <1>4, InOnePlaceLoad
<1>5. CASE ExpirationStep
  BY <1>1, <1>5, InOnePlaceExpire, InOnePlaceUnchanged DEF ExpirationStep, ExpirationExit
<1>6. CASE OwnerStep
  BY <1>6, InOnePlaceUnchanged DEF OwnerStep, ReadyCount, ReadyMonitor, ReadyAbandoned,
                                   RemoveOldManager, ShutdownStop, ShutdownJoin
<1>7. CASE RequestShutdown
  BY <1>7, InOnePlaceUnchanged DEF RequestShutdown
<1>8. CASE UNCHANGED vars
  BY <1>8, InOnePlaceUnchanged DEF vars
<1>9. QED
  BY <1>2, <1>3, <1>4, <1>5, <1>6, <1>7, <1>8 DEF Next

(* A file that was never removed while a load() had it is in one place.    *)
THEOREM InOnePlaceHolds == Spec => []InOnePlace
BY TypeAndBoundInvariant, InOnePlaceInit, InOnePlaceStep, PTL DEF Spec

(* What is in one place only is not in memory after its removal, nor       *)
(* twice.                                                                  *)
LEMMA InOnePlaceImplies == TypeOK /\ InOnePlace => RemovedUnlessRaced
<1> SUFFICES ASSUME TypeOK, InOnePlace, NEW p \in Producer, NEW o \in DOMAIN itsProducers[p],
                    itsProducers[p][o].path \notin raced
             PROVE  LET f == itsProducers[p][o].path
                    IN  /\ f \in DOMAIN seen \/ BeingRemoved(f)
                        /\ \A q \in DOMAIN itsProducers[p] : itsProducers[p][q].path = f => q = o
  BY DEF RemovedUnlessRaced
<1> DEFINE f == itsProducers[p][o].path
<1>1. f \in Path /\ DirectoryOf[f] = p
  BY DEF InOnePlace, OwnFiles, FilesOf
<1>2. Tracked(f)
  BY <1>1 DEF InOnePlace
<1>3. o \in Loaded(f)
  BY <1>1 DEF Loaded
<1>4. QED
  BY <1>1, <1>2, <1>3 DEF Tracked, Loaded

(* No model outlives its file, and no file is loaded twice, unless the     *)
(* file was removed while a load() had it.                                 *)
THEOREM RemovedUnlessRacedHolds == Spec => []RemovedUnlessRaced
BY TypeCorrect, InOnePlaceHolds, InOnePlaceImplies, PTL

-------------------------------------------------------------------------------
(* The models that are newer than an origin time.                          *)
NewerThan(times, o) == {q \in times : q > o}

(* resize() takes a newer model away only where `limit' newer ones stay,   *)
(* and so it is with the model itself.                                     *)
LEMMA ResizeKeepsNewer ==
  ASSUME NEW models, IsSharedModels(models), IsFiniteSet(DOMAIN models), NEW limit \in Nat,
         NEW o \in Nat
  PROVE  LET left == DOMAIN Resize(models, limit)
         IN  /\ \/ NewerThan(left, o) = NewerThan(DOMAIN models, o)
                \/ Cardinality(NewerThan(left, o)) = limit
             /\ o \in DOMAIN models \ left => Cardinality(NewerThan(left, o)) = limit
<1> DEFINE all  == DOMAIN models
           left == DOMAIN Resize(models, limit)
<1>1. /\ left \subseteq all /\ all \subseteq Nat
      /\ \A q \in all \ left : \A r \in left : q < r
      /\ all \ left # {} => Cardinality(left) = limit
  BY ResizeFacts DEF IsSharedModels
<1> HIDE DEF all, left
<1>2. CASE all \ left = {}
  BY <1>1, <1>2 DEF NewerThan, all, left
<1>3. ASSUME NEW x \in all \ left, x >= o PROVE Cardinality(NewerThan(left, o)) = limit
  <2>1. \A r \in left : r > o
    BY <1>1, <1>3
  <2>2. NewerThan(left, o) = left
    BY <2>1 DEF NewerThan
  <2>3. QED
    BY <1>1, <1>3, <2>2
<1>4. CASE \A x \in all \ left : ~(x >= o)
  <2>1. \A x \in all : x > o => x \in left
    BY <1>1, <1>4
  <2>2. NewerThan(left, o) = NewerThan(all, o)
    BY <1>1, <2>1 DEF NewerThan
  <2>3. o \notin all \ left
    BY <1>4
  <2>4. QED
    BY <2>2, <2>3 DEF all, left
<1>5. QED
  <2>1. CASE \E x \in all \ left : x >= o
    BY <1>3, <2>1 DEF all, left
  <2>2. QED
    BY <1>4, <2>1

(* When a model is published, the models newer than another time become    *)
(* `limit', or no fewer than they were; and one more, if the new one is    *)
(* newer and its time was free.                                            *)
LEMMA PublishingKeepsNewer ==
  ASSUME NEW models, IsSharedModels(models), IsFiniteSet(DOMAIN models), NEW limit \in Nat,
         NEW m \in Model, NEW o \in Nat
  PROVE  LET before == NewerThan(DOMAIN models, o)
             left   == DOMAIN Resize(Add(models, m), limit)
             after  == NewerThan(left, o)
         IN  /\ Cardinality(after) >= limit \/ Cardinality(after) >= Cardinality(before)
             /\ m.origin > o /\ m.origin \notin DOMAIN models =>
                  Cardinality(after) >= limit \/ Cardinality(after) >= Cardinality(before) + 1
             /\ o \in (DOMAIN models \cup {m.origin}) \ left => Cardinality(after) >= limit
<1> DEFINE added  == Add(models, m)
           before == NewerThan(DOMAIN models, o)
           left   == DOMAIN Resize(added, limit)
           after  == NewerThan(left, o)
           all    == NewerThan(DOMAIN added, o)
<1>1. /\ IsSharedModels(added) /\ IsFiniteSet(DOMAIN added)
      /\ DOMAIN added = DOMAIN models \cup {m.origin}
  BY AddFacts
<1>2. before \subseteq DOMAIN models /\ IsFiniteSet(before) /\ Cardinality(before) \in Nat
  BY FS_Subset, FS_CardinalityType DEF NewerThan
<1>3. all = IF m.origin > o THEN before \cup {m.origin} ELSE before
  BY <1>1 DEF NewerThan
<1> HIDE DEF added
<1>4. /\ after = all \/ Cardinality(after) = limit
      /\ o \in DOMAIN added \ left => Cardinality(after) = limit
  BY <1>1, ResizeKeepsNewer
<1> HIDE DEF before, all, after, left
<1>5. CASE m.origin > o /\ m.origin \notin DOMAIN models
  <2>1. all = before \cup {m.origin} /\ m.origin \notin before
    BY <1>2, <1>3, <1>5
  <2>2. Cardinality(all) = Cardinality(before) + 1
    BY <1>2, <2>1, FS_AddElement
  <2>3. QED
    BY <1>1, <1>2, <1>4, <2>2 DEF before, left, after, added
<1>6. CASE ~(m.origin > o /\ m.origin \notin DOMAIN models)
  <2>1. all = before
    BY <1>3, <1>6 DEF before, NewerThan
  <2>2. QED
    BY <1>1, <1>2, <1>4, <1>6, <2>1 DEF before, left, after, added
<1>7. QED
  BY <1>5, <1>6

-------------------------------------------------------------------------------
(* The invariant.  What the manager knows of files is still so on disk,    *)
(* and nothing is ever removed.                                            *)
AsOnDisk ==
  /\ \A f \in DOMAIN disk : disk[f].origin \in OriginsOf[f]
  /\ DOMAIN seen \subseteq DOMAIN disk
  /\ \A f \in DOMAIN seen : seen[f] = disk[f].modtime
  /\ \A f \in DOMAIN status : status[f] = "CREATE"
  /\ raced = {}

(* A model in memory, or in the hand of a task, is that of its file; what  *)
(* is still in the list of that task has a smaller name.                   *)
IsOf(m, f) == f \in DOMAIN disk /\ m.path = f /\ m.origin = disk[f].origin

ModelsOfFiles ==
  /\ \A p \in Producer : \A o \in DOMAIN itsProducers[p] :
       itsProducers[p][o].origin = o /\ IsOf(itsProducers[p][o], itsProducers[p][o].path)
  /\ \A t \in TaskId : task[t].pc = "add" =>
       /\ IsOf(task[t].model, task[t].model.path)
       /\ \A g \in task[t].files : g < task[t].model.path

(* A file is outdone when there are number_to_keep newer models.  A task   *)
(* that has loaded some files has as many models in memory that are newer  *)
(* than the files it still has to load, unless these are outdone: what it  *)
(* drops in the end is outdone.                                            *)
Newer(p, o) == Cardinality(NewerThan(DOMAIN itsProducers[p], o))

Outdone(p, o) == Newer(p, o) >= NumberToKeep[p]

DropsOutdone ==
  /\ \A t \in TaskId : task[t].pc \in {"idle", "start"} => task[t].loads = 0
  /\ \A t \in TaskId : task[t].pc \in {"idle", "exit"} => task[t].files = {}
  /\ \A t \in TaskId : task[t].pc = "finish" /\ ~shuttingDown =>
       task[t].files = {} \/ EnoughLoaded(t)
  /\ \A t \in TaskId : \A f \in task[t].files : Loadable(f) =>
       \/ Outdone(task[t].producer, disk[f].origin)
       \/ Newer(task[t].producer, disk[f].origin) >= task[t].loads

(* A file that was seen and that nobody is about to load is in memory or   *)
(* outdone.                                                                *)
Pending(f) == AboutToLoad(f) \/ \E t \in TaskId : Holds(t, f)

LoadedOrOutdone ==
  ~shuttingDown =>
    \A f \in DOMAIN seen : Loadable(f) /\ ~Pending(f) =>
      LET p == DirectoryOf[f]
      IN  disk[f].origin \in DOMAIN itsProducers[p] \/ Outdone(p, disk[f].origin)

LoadsInOrder == AsOnDisk /\ ModelsOfFiles /\ DropsOutdone /\ LoadedOrOutdone

(* Of two files of a directory, the one with the greater name is newer.    *)
LEMMA NamesTellOrder ==
  ASSUME OnlyAdded, TypeOK, AsOnDisk,
         NEW f \in DOMAIN disk, NEW g \in DOMAIN disk, DirectoryOf[f] = DirectoryOf[g],
         Loadable(f), Loadable(g)
  PROVE  /\ disk[f].origin \in Nat /\ disk[g].origin \in Nat
         /\ f < g => disk[f].origin < disk[g].origin
         /\ disk[f].origin = disk[g].origin => f = g
<1>1. f \in Path /\ g \in Path /\ f \in Nat /\ g \in Nat
  BY FileAssumption DEF TypeOK
<1>2. /\ disk[f].origin \in OriginsOf[f] \ {Corrupt} /\ disk[f].origin \in Nat
      /\ disk[g].origin \in OriginsOf[g] \ {Corrupt} /\ disk[g].origin \in Nat
  BY DEF TypeOK, Version, AsOnDisk, Loadable
<1>3. /\ f < g => disk[f].origin < disk[g].origin
      /\ g < f => disk[g].origin < disk[f].origin
  BY <1>1, <1>2 DEF OnlyAdded, InNameOrder
<1>4. QED
  BY <1>1, <1>2, <1>3

(* The models that are newer than a time are finitely many.                *)
LEMMA NewerType ==
  ASSUME KeepBound, NEW p \in Producer, NEW o
  PROVE  /\ IsFiniteSet(NewerThan(DOMAIN itsProducers[p], o))
         /\ Newer(p, o) \in Nat
BY FS_Subset, FS_CardinalityType DEF KeepBound, NewerThan, Newer

-------------------------------------------------------------------------------
(* Having caught up, the manager has the newest files: a file that is not  *)
(* in memory is outdone by as many as may be in memory.                    *)
LEMMA CaughtUpHasNewest ==
  ASSUME OnlyAdded, TypeAndBound, InOnePlace, LoadsInOrder, CaughtUp, NEW p \in Producer
  PROVE  HasNewest(p)
<1> DEFINE D == DOMAIN itsProducers[p]
           L == LoadableOrigins(p)
           N == NumberToKeep[p]
<1>1. /\ TypeOK /\ KeepBound /\ AsOnDisk /\ N \in Nat
  BY ProducerAssumption DEF TypeAndBound, LoadsInOrder
<1>2. /\ IsFiniteSet(D) /\ Cardinality(D) \in Nat /\ Cardinality(D) <= N /\ D \subseteq Nat
  BY <1>1, FS_CardinalityType DEF KeepBound, TypeOK, IsSharedModels
<1>3. IsFiniteSet(L) /\ L \subseteq Nat
  <2>1. IsFiniteSet({g \in FilesOf(p) : Loadable(g)})
    BY FS_Subset DEF OnlyAdded, FilesOf
  <2>2. IsFiniteSet(L)
    <3> DEFINE S == {g \in FilesOf(p) : Loadable(g)}
           origin == [f \in S |-> disk[f].origin]
    <3>1. origin \in [S -> L] /\ \A o \in L : \E f \in S : origin[f] = o
      BY DEF LoadableOrigins
    <3> HIDE DEF S, origin
    <3>2. origin \in Surjection(S, L)
      BY <3>1, Fun_IsSurj
    <3>3. QED
      BY <2>1, <3>2, FS_Surjection DEF S
  <2>3. L \subseteq Nat
    BY <1>1, NamesTellOrder DEF LoadableOrigins, Loadable
  <2>4. QED
    BY <2>2, <2>3
<1>4. D \subseteq L
  <2>1. SUFFICES ASSUME NEW o \in D PROVE o \in L
    OBVIOUS
  <2> DEFINE m == itsProducers[p][o]
  <2>2. m.path \in FilesOf(p)
    BY DEF InOnePlace, OwnFiles
  <2>3. m.origin = o /\ IsOf(m, m.path)
    BY DEF LoadsInOrder, ModelsOfFiles
  <2> HIDE DEF m
  <2>4. o \in Nat
    BY <1>2
  <2>5. PICK f \in FilesOf(p) : Loadable(f) /\ disk[f].origin = o
    BY <2>2, <2>3, <2>4 DEF Loadable, IsOf, Corrupt
  <2>6. f \in {g \in FilesOf(p) : Loadable(g)}
    BY <2>5
  <2>7. QED
    BY <2>5, <2>6, Zenon DEF LoadableOrigins
<1>5. \A o \in L : o \in D \/ Newer(p, o) >= N
  <2>1. SUFFICES ASSUME NEW f \in FilesOf(p), Loadable(f)
                 PROVE  disk[f].origin \in D \/ Outdone(p, disk[f].origin)
    BY DEF LoadableOrigins, Outdone
  <2>2. f \in DOMAIN seen /\ DirectoryOf[f] = p /\ ~shuttingDown
    BY <2>1 DEF CaughtUp, Loadable, FilesOf
  <2>3. ~Pending(f)
    BY DEF Pending, CaughtUp, AboutToLoad, Holds, Running
  <2>4. QED
    BY <2>1, <2>2, <2>3 DEF LoadsInOrder, LoadedOrOutdone
<1> HIDE DEF D, L, N
<1>6. ASSUME NEW o \in L, Cardinality({q \in L : q >= o}) <= N
      PROVE  o \in D
  <2>1. SUFFICES ASSUME o \notin D PROVE FALSE
    OBVIOUS
  <2> DEFINE A == NewerThan(D, o)
             B == {q \in L : q >= o}
  <2>2. /\ Cardinality(A) >= N /\ IsFiniteSet(A) /\ o \notin A
        /\ A \cup {o} \subseteq B /\ IsFiniteSet(B)
    <3>1. Cardinality(A) >= N
      BY <1>5, <2>1 DEF Newer, D
    <3>2. IsFiniteSet(A) /\ IsFiniteSet(B)
      BY <1>2, <1>3, FS_Subset DEF NewerThan
    <3>3. o \notin A /\ A \cup {o} \subseteq B
      <4>1. o \in Nat /\ \A q \in A : q \in L /\ q \in Nat /\ q > o
        BY <1>3, <1>4 DEF NewerThan
      <4> HIDE DEF A
      <4>2. QED
        BY <4>1
    <3>4. QED
      BY <3>1, <3>2, <3>3
  <2> HIDE DEF A
  <2>3. Cardinality(A \cup {o}) = Cardinality(A) + 1 /\ IsFiniteSet(A \cup {o})
    BY <2>2, FS_AddElement
  <2>4. Cardinality(A \cup {o}) <= Cardinality(B)
    BY <2>2, FS_Subset
  <2>5. Cardinality(A) \in Nat /\ Cardinality(B) \in Nat /\ Cardinality(B) <= N
    BY <1>6, <2>2, FS_CardinalityType
  <2>6. QED
    BY <1>1, <2>2, <2>3, <2>4, <2>5 DEF N
<1>7. ASSUME NEW o \in D
      PROVE  Cardinality({q \in L : q >= o}) <= N
  <2> DEFINE B == {q \in L : q >= o}
  <2>1. CASE B \subseteq D
    <3>1. Cardinality(B) <= Cardinality(D) /\ IsFiniteSet(B)
      BY <1>2, <2>1, FS_Subset
    <3>2. Cardinality(B) \in Nat
      BY <3>1, FS_CardinalityType
    <3>3. QED
      BY <1>1, <1>2, <3>1, <3>2 DEF N
  <2>2. CASE ~(B \subseteq D)
    <3>1. PICK q \in L : q >= o /\ q \notin D
      BY <2>2
    <3> DEFINE A == NewerThan(D, q)
    <3>2. Cardinality(A) >= N /\ IsFiniteSet(A) /\ o \notin A /\ A \cup {o} \subseteq D
      <4>1. Cardinality(A) >= N
        BY <1>5, <3>1 DEF Newer, D
      <4>2. IsFiniteSet(A)
        BY <1>2, FS_Subset DEF NewerThan
      <4>3. o \notin A /\ A \cup {o} \subseteq D
        BY <1>2, <1>3, <3>1 DEF NewerThan
      <4>4. QED
        BY <4>1, <4>2, <4>3
    <3> HIDE DEF A
    <3>3. Cardinality(A \cup {o}) = Cardinality(A) + 1 /\ Cardinality(A) \in Nat
      BY <3>2, FS_AddElement, FS_CardinalityType
    <3>4. Cardinality(A \cup {o}) <= Cardinality(D)
      BY <1>2, <3>2, FS_Subset
    <3>5. FALSE
      BY <1>1, <1>2, <3>2, <3>3, <3>4 DEF N
    <3>6. QED
      BY <3>5
  <2>3. QED
    BY <2>1, <2>2
<1>8. D = {o \in L : Cardinality({q \in L : q >= o}) <= N}
  BY <1>4, <1>6, <1>7
<1>9. QED
  BY <1>8 DEF HasNewest, D, L, N

(* What a task has in its list or its hand has been seen.                  *)
LEMMA HeldIsSeen ==
  ASSUME TypeOK, InOnePlace, LoadsInOrder
  PROVE  \A t \in TaskId :
           /\ task[t].files \subseteq DOMAIN seen
           /\ task[t].files \subseteq FilesOf(task[t].producer)
           /\ \A f \in task[t].files : Holds(t, f)
           /\ \A f \in Path : Holds(t, f) =>
                /\ f \in DOMAIN seen /\ Loaded(f) = {}
                /\ \A u \in TaskId : Holds(u, f) => u = t
<1>1. SUFFICES ASSUME NEW t \in TaskId
               PROVE  /\ task[t].files \subseteq DOMAIN seen
                      /\ task[t].files \subseteq FilesOf(task[t].producer)
                      /\ \A f \in task[t].files : Holds(t, f)
                      /\ \A f \in Path : Holds(t, f) =>
                           /\ f \in DOMAIN seen /\ Loaded(f) = {}
                           /\ \A u \in TaskId : Holds(u, f) => u = t
  OBVIOUS
<1>2. ASSUME NEW f \in Path, Holds(t, f)
      PROVE  /\ f \in DOMAIN seen /\ Loaded(f) = {}
             /\ \A u \in TaskId : Holds(u, f) => u = t
  <2>1. Tracked(f)
    BY DEF InOnePlace, LoadsInOrder, AsOnDisk
  <2>2. ~BeingRemoved(f)
    BY DEF BeingRemoved, Removals, LoadsInOrder, AsOnDisk
  <2>3. QED
    BY <1>2, <2>1, <2>2 DEF Tracked
<1>3. task[t].files \subseteq FilesOf(task[t].producer)
  BY DEF InOnePlace, OwnFiles
<1>4. \A f \in task[t].files : f \in Path /\ Holds(t, f)
  BY <1>3 DEF LoadsInOrder, DropsOutdone, Holds, FilesOf
<1>5. QED
  BY <1>2, <1>3, <1>4

-------------------------------------------------------------------------------
(* At first nothing has been seen.                                         *)
LEMMA LoadsInOrderInit == Init => LoadsInOrder
<1> SUFFICES ASSUME Init PROVE LoadsInOrder
  OBVIOUS
<1>1. \A t \in TaskId : task[t].pc = "idle" /\ task[t].files = {} /\ task[t].loads = 0
  BY DEF Init, IdleTask
<1>2. AsOnDisk
  BY DEF Init, AsOnDisk
<1>3. ModelsOfFiles
  BY <1>1 DEF Init, ModelsOfFiles, NoModels
<1>4. DropsOutdone
  BY <1>1 DEF DropsOutdone
<1>5. LoadedOrOutdone
  BY DEF Init, LoadedOrOutdone
<1>6. QED
  BY <1>2, <1>3, <1>4, <1>5 DEF LoadsInOrder

(* Nothing is lost by a step that leaves files, models and tasks alone and *)
(* forgets none of the files that are about to be loaded.                  *)
LEMMA LoadsInOrderKept ==
  ASSUME LoadsInOrder, UNCHANGED <<disk, seen, itsProducers, task, raced>>,
         shuttingDown => shuttingDown',
         \A f \in DOMAIN status' : status'[f] = "CREATE",
         shuttingDown \/ \A f \in DOMAIN seen : AboutToLoad(f) => AboutToLoad(f)'
  PROVE  LoadsInOrder'
<1>1. AsOnDisk' /\ ModelsOfFiles'
  BY DEF LoadsInOrder, AsOnDisk, ModelsOfFiles, IsOf
<1>2. DropsOutdone'
  BY DEF LoadsInOrder, DropsOutdone, EnoughLoaded, Loadable, Outdone, Newer
<1>3. LoadedOrOutdone'
  <2>1. SUFFICES ASSUME ~shuttingDown, NEW f \in DOMAIN seen, Loadable(f), ~Pending(f)'
                 PROVE  \/ disk[f].origin \in DOMAIN itsProducers[DirectoryOf[f]]
                        \/ Outdone(DirectoryOf[f], disk[f].origin)
    BY DEF LoadedOrOutdone, Loadable, Outdone, Newer
  <2>2. ~Pending(f)
    BY <2>1 DEF Pending, Holds
  <2>3. QED
    BY <2>1, <2>2 DEF LoadsInOrder, LoadedOrOutdone
<1>4. QED
  BY <1>1, <1>2, <1>3 DEF LoadsInOrder

(* A new file has not been seen by anybody.                                *)
LEMMA LoadsInOrderWrite ==
  ASSUME OnlyAdded, TypeOK, InOnePlace, LoadsInOrder,
         NEW f \in Path, NEW o \in OriginsOf[f], WriteFile(f, o)
  PROVE  LoadsInOrder'
<1> USE DEF monitorVars, repoVars, taskVars, ownerVars
<1>1. /\ f \notin DOMAIN disk /\ DOMAIN disk' = DOMAIN disk \cup {f} /\ disk'[f].origin = o
      /\ \A g \in DOMAIN disk : disk'[g] = disk[g]
      /\ UNCHANGED <<seen, status, monitor, itsProducers, task, raced, shuttingDown>>
  BY DEF WriteFile, OnlyAdded
<1>2. AsOnDisk'
  BY <1>1 DEF LoadsInOrder, AsOnDisk
<1>3. ModelsOfFiles'
  <2>1. \A m, g : IsOf(m, g) => IsOf(m, g)'
    BY <1>1 DEF IsOf
  <2>2. QED
    BY <1>1, <2>1 DEF LoadsInOrder, ModelsOfFiles
<1>4. \A g \in DOMAIN seen : g \in DOMAIN disk /\ (Loadable(g)' <=> Loadable(g))
  BY <1>1 DEF LoadsInOrder, AsOnDisk, Loadable
<1>5. \A t \in TaskId : task[t].files \subseteq DOMAIN seen
  BY HeldIsSeen
<1>6. DropsOutdone'
  <2>1. /\ \A t \in TaskId : task[t].pc \in {"idle", "start"} => task[t].loads = 0
        /\ \A t \in TaskId : task[t].pc \in {"idle", "exit"} => task[t].files = {}
        /\ \A t \in TaskId : task[t].pc = "finish" /\ ~shuttingDown =>
             task[t].files = {} \/ EnoughLoaded(t)
    BY DEF LoadsInOrder, DropsOutdone
  <2>2. ASSUME NEW t \in TaskId, NEW g \in task[t].files, Loadable(g)'
        PROVE  \/ Outdone(task[t].producer, disk'[g].origin)
               \/ Newer(task[t].producer, disk'[g].origin) >= task[t].loads
    <3>1. Loadable(g) /\ disk'[g] = disk[g]
      BY <1>1, <1>4, <1>5, <2>2
    <3>2. QED
      BY <3>1 DEF LoadsInOrder, DropsOutdone
  <2>3. QED
    BY <1>1, <2>1, <2>2 DEF DropsOutdone, EnoughLoaded, Outdone, Newer
<1>7. LoadedOrOutdone'
  <2>1. SUFFICES ASSUME ~shuttingDown, NEW g \in DOMAIN seen, Loadable(g)', ~Pending(g)
                 PROVE  \/ disk'[g].origin \in DOMAIN itsProducers[DirectoryOf[g]]
                        \/ Outdone(DirectoryOf[g], disk'[g].origin)
    BY <1>1 DEF LoadedOrOutdone, Outdone, Newer, Pending, AboutToLoad, Holds
  <2>2. Loadable(g) /\ disk'[g] = disk[g]
    BY <1>1, <1>4, <2>1
  <2>3. QED
    BY <2>1, <2>2 DEF LoadsInOrder, LoadedOrOutdone
<1>8. QED
  BY <1>2, <1>3, <1>6, <1>7 DEF LoadsInOrder

-------------------------------------------------------------------------------
(* The monitor's thread.  What a scan finds is new, and about to be loaded.*)
LEMMA LoadsInOrderScan ==
  ASSUME OnlyAdded, TypeOK, LoadsInOrder, NEW p \in Producer, Scan(p)
  PROVE  LoadsInOrder'
<1> USE DEF fileVars, repoVars, taskVars, ownerVars
<1>1. /\ UNCHANGED <<disk, itsProducers, task, raced, shuttingDown>>
      /\ monitor = "idle" /\ monitor' = "status" /\ status' = Differences(p)
      /\ DOMAIN seen' = (DOMAIN seen \ FilesOf(p)) \cup (DOMAIN disk \cap FilesOf(p))
      /\ \A f \in DOMAIN seen' :
           seen'[f] = IF DirectoryOf[f] = p THEN disk[f].modtime ELSE seen[f]
  BY DEF Scan
<1>2. AsOnDisk
  BY DEF LoadsInOrder
<1>3. /\ DOMAIN status' = (DOMAIN disk \ DOMAIN seen) \cap FilesOf(p)
      /\ \A f \in DOMAIN status' : status'[f] = "CREATE"
  <2> DEFINE created  == (DOMAIN disk \ DOMAIN seen) \cap FilesOf(p)
             deleted  == (DOMAIN seen \ DOMAIN disk) \cap FilesOf(p)
             modified == {f \in DOMAIN disk \cap DOMAIN seen \cap FilesOf(p) :
                            disk[f].modtime # seen[f]}
  <2>1. deleted = {} /\ modified = {}
    BY <1>2 DEF AsOnDisk
  <2> HIDE DEF created, deleted, modified
  <2>2. status' = [f \in created \cup deleted \cup modified |->
                     IF f \in created THEN "CREATE"
                     ELSE IF f \in deleted THEN "DELETE" ELSE "MODIFY"]
    BY <1>1 DEF Differences, created, deleted, modified
  <2>3. DOMAIN status' = created /\ \A f \in created : status'[f] = "CREATE"
    BY <2>1, <2>2
  <2>4. QED
    BY <2>3 DEF created
<1>4. DOMAIN seen' \subseteq DOMAIN disk /\ \A f \in DOMAIN seen' : seen'[f] = disk[f].modtime
  BY <1>1, <1>2 DEF AsOnDisk, FilesOf
<1>5. AsOnDisk'
  BY <1>1, <1>2, <1>3, <1>4 DEF AsOnDisk
<1>6. ModelsOfFiles'
  BY <1>1 DEF LoadsInOrder, ModelsOfFiles, IsOf
<1>7. DropsOutdone'
  BY <1>1 DEF LoadsInOrder, DropsOutdone, EnoughLoaded, Loadable, Outdone, Newer
<1>8. LoadedOrOutdone'
  <2>1. SUFFICES ASSUME ~shuttingDown, NEW f \in DOMAIN seen', Loadable(f), ~Pending(f)'
                 PROVE  \/ disk[f].origin \in DOMAIN itsProducers[DirectoryOf[f]]
                        \/ Outdone(DirectoryOf[f], disk[f].origin)
    BY <1>1 DEF LoadedOrOutdone, Loadable, Outdone, Newer
  <2>2. f \notin DOMAIN status'
    BY <1>1, <1>3, <2>1 DEF Pending, AboutToLoad
  <2>3. f \in DOMAIN seen
    BY <1>1, <1>3, <2>2 DEF FilesOf
  <2>4. ~Pending(f)
    BY <1>1, <2>1 DEF Pending, Holds, AboutToLoad
  <2>5. QED
    BY <2>1, <2>3, <2>4 DEF LoadsInOrder, LoadedOrOutdone
<1>9. QED
  BY <1>5, <1>6, <1>7, <1>8 DEF LoadsInOrder

(* update() has nothing to remove, so that its first two parts only pass   *)
(* the new files on.                                                       *)
LEMMA LoadsInOrderUpdate ==
  ASSUME TypeOK, LoadsInOrder, UpdateStatus \/ UpdateRemove
  PROVE  LoadsInOrder'
<1> USE DEF fileVars, taskVars, ownerVars
<1>1. AsOnDisk /\ Removals = {}
  BY DEF LoadsInOrder, AsOnDisk, Removals
<1>2. CASE UpdateStatus
  <2>1. UNCHANGED <<disk, seen, itsProducers, task, raced, shuttingDown>>
    BY <1>2 DEF UpdateStatus, CallbackEnds
  <2>2. CASE DOMAIN status = {}
    <3>1. DOMAIN status' = {} /\ \A f : ~AboutToLoad(f)
      BY <1>2, <2>2 DEF UpdateStatus, CallbackEnds, AboutToLoad
    <3>2. QED
      BY <2>1, <3>1, LoadsInOrderKept
  <2>3. CASE DOMAIN status # {}
    <3>1. status' = status /\ monitor' = "remove"
      BY <1>2, <2>3 DEF UpdateStatus
    <3>2. \A f : AboutToLoad(f) => AboutToLoad(f)'
      BY <1>1, <3>1 DEF AboutToLoad, AsOnDisk
    <3>3. QED
      BY <1>1, <2>1, <3>1, <3>2, LoadsInOrderKept DEF AsOnDisk
  <2>4. QED
    BY <2>2, <2>3
<1>3. CASE UpdateRemove
  <2>1. watched \in Producer /\ itsProducers = [p \in Producer |-> itsProducers[p]]
        /\ IsSharedModels(itsProducers[watched])
    BY DEF TypeOK
  <2> DEFINE models == itsProducers[watched]
  <2>2. RemoveAll(models, Removals) = models
    <3>1. DOMAIN RemoveAll(models, Removals) = DOMAIN models
      BY <1>1 DEF RemoveAll, Restrict
    <3>2. RemoveAll(models, Removals) = [o \in DOMAIN models |-> models[o]]
      BY <1>1, <3>1 DEF RemoveAll, Restrict
    <3>3. models = [o \in DOMAIN models |-> models[o]]
      BY <2>1 DEF IsSharedModels
    <3>4. QED
      BY <3>2, <3>3
  <2>3. ~RemoveAllThrows(models, Removals)
    BY <1>1 DEF RemoveAllThrows
  <2>4. /\ itsProducers' = [itsProducers EXCEPT ![watched] = models]
        /\ raced' = raced
        /\ monitor' = "schedule" /\ UNCHANGED <<disk, seen, status, task, shuttingDown>>
    BY <1>1, <1>3, <2>2, <2>3 DEF UpdateRemove
  <2>5. itsProducers' = itsProducers
    BY <2>1, <2>4
  <2>6. \A f : AboutToLoad(f) => AboutToLoad(f)'
    BY <2>4 DEF AboutToLoad
  <2>7. QED
    BY <1>1, <2>4, <2>5, <2>6, LoadsInOrderKept DEF AsOnDisk
<1>4. QED
  BY <1>2, <1>3

(* The new files are given to a task, which has loaded none of them yet.   *)
LEMMA LoadsInOrderSchedule ==
  ASSUME TypeAndBound, InOnePlace, LoadsInOrder, UpdateSchedule
  PROVE  LoadsInOrder'
<1> USE DEF fileVars, repoVars
<1>1. /\ UNCHANGED <<disk, seen, itsProducers, raced, shuttingDown>>
      /\ monitor = "schedule" /\ DOMAIN status' = {}
  BY DEF UpdateSchedule, CallbackEnds, ownerVars
<1>2. AsOnDisk /\ TypeOK /\ KeepBound
  BY DEF LoadsInOrder, TypeAndBound
<1>3. Additions = DOMAIN status
  BY <1>2 DEF AsOnDisk, Additions
<1>4. CASE Additions = {} \/ shuttingDown
  <2>1. task' = task
    BY <1>4 DEF UpdateSchedule
  <2>2. Additions = {} => \A f : ~AboutToLoad(f)
    BY <1>3 DEF AboutToLoad
  <2>3. QED
    BY <1>1, <1>4, <2>1, <2>2, LoadsInOrderKept
<1>5. CASE ~(Additions = {} \/ shuttingDown)
  <2>1. PICK t \in TaskId :
          /\ task[t].pc = "idle"
          /\ task' = [task EXCEPT ![t] = [IdleTask EXCEPT !.pc = "start",
                                                          !.producer = watched,
                                                          !.files = Additions,
                                                          !.initial = watched \notin scanned]]
    BY <1>5 DEF UpdateSchedule
  <2>2. /\ task'[t].pc = "start" /\ task'[t].producer = watched /\ task'[t].files = Additions
        /\ task'[t].loads = 0
        /\ \A u \in TaskId \ {t} : task'[u] = task[u]
    BY <1>2, <2>1 DEF TypeOK, IdleTask
  <2>3. AsOnDisk'
    BY <1>1, <1>2 DEF AsOnDisk
  <2>4. ModelsOfFiles'
    BY <1>1, <2>2 DEF LoadsInOrder, ModelsOfFiles, IsOf
  <2>5. DropsOutdone'
    <3>1. \A o : Newer(watched, o) >= 0
      BY <1>2, NewerType DEF TypeOK
    <3>2. /\ \A u \in TaskId : task'[u].pc \in {"idle", "start"} => task'[u].loads = 0
          /\ \A u \in TaskId : task'[u].pc \in {"idle", "exit"} => task'[u].files = {}
      BY <2>2 DEF LoadsInOrder, DropsOutdone
    <3>3. \A u \in TaskId : task'[u].pc = "finish" /\ ~shuttingDown =>
            task'[u].files = {} \/ EnoughLoaded(u)'
      BY <2>2 DEF LoadsInOrder, DropsOutdone, EnoughLoaded
    <3>4. \A u \in TaskId : \A f \in task'[u].files : Loadable(f) =>
            \/ Outdone(task'[u].producer, disk[f].origin)
            \/ Newer(task'[u].producer, disk[f].origin) >= task'[u].loads
      BY <2>2, <3>1 DEF LoadsInOrder, DropsOutdone
    <3>5. QED
      BY <1>1, <3>2, <3>3, <3>4 DEF DropsOutdone, Loadable, Outdone, Newer
  <2>6. LoadedOrOutdone'
    <3>1. SUFFICES ASSUME ~shuttingDown, NEW f \in DOMAIN seen, Loadable(f), ~Pending(f)'
                   PROVE  \/ disk[f].origin \in DOMAIN itsProducers[DirectoryOf[f]]
                          \/ Outdone(DirectoryOf[f], disk[f].origin)
      BY <1>1 DEF LoadedOrOutdone, Loadable, Outdone, Newer
    <3>2. f \notin Additions
      BY <2>2, <3>1 DEF Pending, Holds
    <3>3. ~AboutToLoad(f)
      BY <1>3, <3>2 DEF AboutToLoad
    <3>4. \A u \in TaskId : ~Holds(u, f)
      BY <2>1, <2>2, <3>1 DEF Pending, Holds
    <3>5. QED
      BY <3>1, <3>3, <3>4 DEF LoadsInOrder, LoadedOrOutdone, Pending
  <2>7. QED
    BY <2>3, <2>4, <2>5, <2>6 DEF LoadsInOrder
<1>6. QED
  BY <1>4, <1>5

-------------------------------------------------------------------------------
(* A step of a task that publishes nothing.  A loadable file that leaves   *)
(* its list is in its hand, or outdone.                                    *)
LEMMA LoadsInOrderTask ==
  ASSUME TypeOK, InOnePlace, LoadsInOrder, NEW t \in TaskId, NEW new \in Task,
         UNCHANGED <<disk, seen, monitor, status, itsProducers, raced, shuttingDown>>,
         task' = [task EXCEPT ![t] = new],
         new.files \subseteq task[t].files,
         \/ new.files = {}
         \/ new.producer = task[t].producer /\ new.loads = task[t].loads,
         new.pc # "start" /\ (new.pc = "idle" => new.loads = 0),
         new.pc \in {"idle", "exit"} => new.files = {},
         new.pc = "finish" /\ ~shuttingDown =>
           \/ new.files = {}
           \/ new.loads >= NumberToKeep[new.producer],
         new.pc = "add" => /\ IsOf(new.model, new.model.path)
                           /\ \A g \in new.files : g < new.model.path,
         task[t].pc # "add",
         \A f \in task[t].files \ new.files :
           \/ shuttingDown
           \/ ~Loadable(f)
           \/ new.pc = "add" /\ new.model.path = f
           \/ Outdone(task[t].producer, disk[f].origin)
  PROVE  LoadsInOrder'
<1>1. \A u \in TaskId : task'[u] = IF u = t THEN new ELSE task[u]
  BY DEF TypeOK
<1>2. AsOnDisk' /\ ModelsOfFiles'
  BY <1>1 DEF LoadsInOrder, AsOnDisk, ModelsOfFiles, IsOf
<1>3. DropsOutdone'
  <2>1. /\ \A u \in TaskId : task'[u].pc \in {"idle", "start"} => task'[u].loads = 0
        /\ \A u \in TaskId : task'[u].pc \in {"idle", "exit"} => task'[u].files = {}
    BY <1>1 DEF LoadsInOrder, DropsOutdone
  <2>2. \A u \in TaskId : task'[u].pc = "finish" /\ ~shuttingDown =>
          task'[u].files = {} \/ EnoughLoaded(u)'
    BY <1>1 DEF LoadsInOrder, DropsOutdone, EnoughLoaded
  <2>3. \A u \in TaskId : \A f \in task'[u].files : Loadable(f) =>
          \/ Outdone(task'[u].producer, disk[f].origin)
          \/ Newer(task'[u].producer, disk[f].origin) >= task'[u].loads
    BY <1>1 DEF LoadsInOrder, DropsOutdone
  <2>4. QED
    BY <2>1, <2>2, <2>3 DEF DropsOutdone, Loadable, Outdone, Newer
<1>4. LoadedOrOutdone'
  <2>1. SUFFICES ASSUME ~shuttingDown, NEW f \in DOMAIN seen, Loadable(f), ~Pending(f)'
                 PROVE  \/ disk[f].origin \in DOMAIN itsProducers[DirectoryOf[f]]
                        \/ Outdone(DirectoryOf[f], disk[f].origin)
    BY DEF LoadedOrOutdone, Loadable, Outdone, Newer
  <2>2. /\ ~AboutToLoad(f)
        /\ \A u \in TaskId \ {t} : ~Holds(u, f)
        /\ ~(new.pc = "add" /\ new.model.path = f)
        /\ new.pc # "idle" => f \notin new.files
    BY <1>1, <2>1 DEF Pending, AboutToLoad, Holds
  <2>3. CASE f \in task[t].files
    <3>1. f \notin new.files
      BY <2>2
    <3>2. Outdone(task[t].producer, disk[f].origin)
      BY <2>1, <2>2, <2>3, <3>1
    <3>3. DirectoryOf[f] = task[t].producer
      BY <2>3, HeldIsSeen DEF FilesOf
    <3>4. QED
      BY <3>2, <3>3
  <2>4. CASE f \notin task[t].files
    <3>1. ~Pending(f)
      BY <2>1, <2>2, <2>4 DEF Pending, Holds
    <3>2. QED
      BY <2>1, <3>1 DEF LoadsInOrder, LoadedOrOutdone
  <2>5. QED
    BY <2>3, <2>4
<1>5. QED
  BY <1>2, <1>3, <1>4 DEF LoadsInOrder

(* A task publishes a model.  Its origin time is new, and greater than     *)
(* those of the files that the task has left, so that these have one more  *)
(* model that is newer, or are outdone.                                    *)
LEMMA LoadsInOrderAdd ==
  ASSUME OnlyAdded, TypeAndBound, InOnePlace, LoadsInOrder, NEW t \in TaskId, LoadAdd(t)
  PROVE  LoadsInOrder'
<1> USE DEF fileVars, monitorVars, repoVars, taskVars, ownerVars
<1>0. PICK p, m : p = task[t].producer /\ m = task[t].model
  OBVIOUS
<1> DEFINE models == itsProducers[p]
           N      == NumberToKeep[p]
           added  == Add(models, m)
           new    == Resize(added, N)
<1>1. /\ UNCHANGED <<disk, seen, monitor, status, raced, shuttingDown>>
      /\ task[t].pc = "add"
      /\ itsProducers' = [itsProducers EXCEPT ![p] = new]
      /\ task' = [task EXCEPT ![t].pc = "next", ![t].loads = @ + 1, ![t].model = NoModel]
  BY <1>0 DEF LoadAdd
<1>2. /\ TypeOK /\ KeepBound /\ AsOnDisk /\ ModelsOfFiles /\ DropsOutdone
      /\ task[t] \in Task /\ p \in Producer /\ m \in Model /\ N \in Nat
      /\ IsSharedModels(models) /\ IsFiniteSet(DOMAIN models)
  BY <1>0, ProducerAssumption DEF TypeAndBound, TypeOK, KeepBound, Task, LoadsInOrder
<1>3. /\ task'[t].pc = "next" /\ task'[t].loads = task[t].loads + 1
      /\ task'[t].files = task[t].files /\ task'[t].producer = p
      /\ \A u \in TaskId \ {t} : task'[u] = task[u]
      /\ itsProducers'[p] = new
      /\ \A q \in Producer \ {p} : itsProducers'[q] = itsProducers[q]
  BY <1>0, <1>1, <1>2 DEF TypeOK, Task
<1>4. \A o \in DOMAIN new : \/ o \in DOMAIN models /\ new[o] = models[o]
                            \/ o = m.origin /\ new[o] = m
  <2> HIDE DEF models, N
  <2>1. /\ IsSharedModels(added) /\ IsFiniteSet(DOMAIN added)
        /\ \A o \in DOMAIN added : \/ o \in DOMAIN models /\ added[o] = models[o]
                                   \/ o = m.origin /\ added[o] = m
    BY <1>2, AddFacts
  <2> HIDE DEF added
  <2>2. QED
    BY <1>2, <2>1, ResizeFacts
<1> DEFINE before(o) == Cardinality(NewerThan(DOMAIN models, o))
           after(o)  == Cardinality(NewerThan(DOMAIN new, o))
<1>5. \A o \in Nat :
        /\ after(o) >= N \/ after(o) >= before(o)
        /\ m.origin > o /\ m.origin \notin DOMAIN models => after(o) >= N \/ after(o) >= before(o) + 1
        /\ o \in (DOMAIN models \cup {m.origin}) \ DOMAIN new => after(o) >= N
  <2> HIDE DEF models, N
  <2>1. QED
    BY <1>2, PublishingKeepsNewer
<1>6. \A o : before(o) \in Nat /\ after(o) \in Nat
  <2> HIDE DEF models, N
  <2>1. IsSharedModels(added) /\ IsFiniteSet(DOMAIN added)
    BY <1>2, AddFacts
  <2> HIDE DEF added
  <2>2. IsFiniteSet(DOMAIN new)
    BY <1>2, <2>1, ResizeFacts
  <2>3. \A S, o : IsFiniteSet(S) => Cardinality(NewerThan(S, o)) \in Nat
    BY FS_Subset, FS_CardinalityType DEF NewerThan
  <2>4. QED
    BY <1>2, <2>2, <2>3
<1> HIDE DEF new, added
<1>7. /\ \A o : Newer(p, o) = before(o) /\ Newer(p, o)' = after(o)
      /\ \A o : Outdone(p, o) <=> before(o) >= N
      /\ \A o : Outdone(p, o)' <=> after(o) >= N
      /\ \A q \in Producer \ {p} : \A o : /\ Newer(q, o)' = Newer(q, o)
                                          /\ Outdone(q, o)' <=> Outdone(q, o)
  <2>1. /\ \A o : Newer(p, o) = before(o)
        /\ \A q, o : Newer(q, o)' = Cardinality(NewerThan(DOMAIN itsProducers'[q], o))
    BY DEF Newer
  <2>2. QED
    BY <1>3, <2>1 DEF Outdone, Newer
<1> HIDE DEF before, after
<1>8. /\ Holds(t, m.path) /\ m.path \in Path /\ DirectoryOf[m.path] = p
      /\ IsOf(m, m.path) /\ Loadable(m.path) /\ m.origin \in Nat
      /\ m.path \in DOMAIN seen /\ Loaded(m.path) = {}
  <2>1. Holds(t, m.path) /\ m.path \in Path /\ DirectoryOf[m.path] = p
    BY <1>0, <1>1 DEF Holds, InOnePlace, OwnFiles, FilesOf
  <2>2. IsOf(m, m.path) /\ m.origin \in Nat
    BY <1>0, <1>1, <1>2 DEF ModelsOfFiles, Model
  <2>3. Loadable(m.path)
    BY <2>2 DEF Loadable, IsOf, Corrupt
  <2>4. QED
    BY <1>2, <2>1, <2>2, <2>3, HeldIsSeen
<1>9. m.origin \notin DOMAIN models
  <2> SUFFICES ASSUME m.origin \in DOMAIN models PROVE FALSE
    OBVIOUS
  <2> DEFINE g == models[m.origin].path
  <2>1. g \in FilesOf(p) /\ g \in DOMAIN disk /\ disk[g].origin = m.origin
    BY <1>2 DEF ModelsOfFiles, IsOf, InOnePlace, OwnFiles
  <2>2. Loadable(g) /\ DirectoryOf[g] = p
    BY <1>8, <2>1 DEF Loadable, FilesOf, Corrupt
  <2>3. g = m.path
    <3> HIDE DEF g
    <3>1. m.path \in DOMAIN disk /\ disk[m.path].origin = m.origin
      BY <1>8 DEF IsOf
    <3>2. QED
      BY <1>2, <1>8, <2>1, <2>2, <3>1, NamesTellOrder
  <2>4. m.origin \in Loaded(m.path)
    BY <1>8, <2>3 DEF Loaded
  <2>5. QED
    BY <1>8, <2>4
<1>10. AsOnDisk'
  BY <1>1, <1>2 DEF AsOnDisk
<1>11. ModelsOfFiles'
  <2>1. \A x, f : IsOf(x, f)' <=> IsOf(x, f)
    BY <1>1 DEF IsOf
  <2>2. /\ m.origin = m.origin /\ IsOf(m, m.path)
        /\ \A q \in Producer : \A o \in DOMAIN itsProducers[q] :
             itsProducers[q][o].origin = o /\ IsOf(itsProducers[q][o], itsProducers[q][o].path)
    BY <1>2, <1>8 DEF ModelsOfFiles
  <2>3. \A q \in Producer : \A o \in DOMAIN itsProducers'[q] :
          itsProducers'[q][o].origin = o /\ IsOf(itsProducers'[q][o], itsProducers'[q][o].path)
    BY <1>3, <1>4, <2>2
  <2>4. \A u \in TaskId : task'[u].pc = "add" =>
          /\ IsOf(task'[u].model, task'[u].model.path)
          /\ \A g \in task'[u].files : g < task'[u].model.path
    BY <1>2, <1>3 DEF ModelsOfFiles
  <2>5. QED
    BY <2>1, <2>3, <2>4 DEF ModelsOfFiles
<1>12. DropsOutdone'
  <2>1. /\ \A u \in TaskId : task'[u].pc \in {"idle", "start"} => task'[u].loads = 0
        /\ \A u \in TaskId : task'[u].pc \in {"idle", "exit"} => task'[u].files = {}
        /\ \A u \in TaskId : task'[u].pc = "finish" /\ ~shuttingDown =>
             task'[u].files = {} \/ EnoughLoaded(u)'
    BY <1>2, <1>3 DEF DropsOutdone, EnoughLoaded
  <2>2. ASSUME NEW u \in TaskId, NEW f \in task'[u].files, Loadable(f),
               NEW q, q = task'[u].producer, NEW o, o = disk[f].origin
        PROVE  Outdone(q, o)' \/ Newer(q, o)' >= task'[u].loads
    <3>1. /\ f \in task[u].files /\ q = task[u].producer
          /\ task'[u].loads = IF u = t THEN task[t].loads + 1 ELSE task[u].loads
          /\ task[u].loads \in Nat /\ q \in Producer
      BY <1>0, <1>2, <1>3, <2>2 DEF TypeOK, Task
    <3>2. Outdone(q, o) \/ Newer(q, o) >= task[u].loads
      BY <1>2, <2>2, <3>1 DEF DropsOutdone
    <3>3. f \in DOMAIN disk /\ f \in FilesOf(q) /\ o \in Nat
      BY <1>2, <2>2, <3>1, HeldIsSeen, NamesTellOrder DEF AsOnDisk
    <3>4. CASE q # p
      BY <1>0, <1>7, <3>1, <3>2, <3>4
    <3>5. CASE q = p /\ u # t
      <4> HIDE DEF models, N
      <4>1. before(o) >= N \/ before(o) >= task[u].loads
        BY <1>7, <3>2, <3>5
      <4>2. after(o) >= N \/ after(o) >= task[u].loads
        BY <1>2, <1>5, <1>6, <3>1, <3>3, <4>1
      <4>3. QED
        BY <1>7, <3>1, <3>5, <4>2
    <3>6. CASE u = t
      <4>1. f < m.path
        BY <1>0, <1>1, <1>2, <3>1, <3>6 DEF ModelsOfFiles
      <4>2. DirectoryOf[f] = p /\ q = p
        BY <1>0, <3>1, <3>3, <3>6 DEF FilesOf
      <4>3. o < m.origin
        <5>1. m.path \in DOMAIN disk /\ disk[m.path].origin = m.origin
          BY <1>8 DEF IsOf
        <5>2. QED
          BY <1>2, <1>8, <2>2, <3>3, <4>1, <4>2, <5>1, NamesTellOrder
      <4> HIDE DEF models, N
      <4>4. before(o) >= N \/ before(o) >= task[t].loads
        BY <1>7, <3>2, <3>6, <4>2
      <4>5. after(o) >= N \/ after(o) >= before(o) + 1
        BY <1>5, <1>8, <1>9, <3>3, <4>3
      <4>6. after(o) >= N \/ after(o) >= task[t].loads + 1
        BY <1>2, <1>6, <3>1, <3>6, <4>4, <4>5
      <4>7. QED
        BY <1>7, <3>1, <3>6, <4>2, <4>6
    <3>7. QED
      BY <3>4, <3>5, <3>6
  <2>3. \A u \in TaskId : \A f \in task'[u].files : Loadable(f) =>
          \/ Cardinality(NewerThan(DOMAIN itsProducers'[task'[u].producer], disk[f].origin))
               >= NumberToKeep[task'[u].producer]
          \/ Cardinality(NewerThan(DOMAIN itsProducers'[task'[u].producer], disk[f].origin))
               >= task'[u].loads
    BY <2>2 DEF Outdone, Newer
  <2>4. QED
    BY <1>1, <2>1, <2>3 DEF DropsOutdone, Loadable, Outdone, Newer
<1>13. LoadedOrOutdone'
  <2>1. ASSUME ~shuttingDown, NEW f \in DOMAIN seen, Loadable(f), ~Pending(f)',
               NEW q, q = DirectoryOf[f], NEW o, o = disk[f].origin
        PROVE  o \in DOMAIN itsProducers'[q] \/ Outdone(q, o)'
    <3>1. f \in Path /\ f \in DOMAIN disk /\ q \in Producer /\ o \in Nat
      BY <1>1, <1>2, <2>1, FileAssumption, NamesTellOrder DEF AsOnDisk, TypeOK
    <3>2. CASE f = m.path
      <4>1. o = m.origin /\ q = p
        BY <1>8, <2>1, <3>2 DEF IsOf
      <4> HIDE DEF models, N
      <4>2. o \in DOMAIN new \/ after(o) >= N
        BY <1>5, <3>1, <4>1
      <4>3. QED
        BY <1>3, <1>7, <4>1, <4>2
    <3>3. CASE f # m.path
      <4>1. ~Pending(f)
        BY <1>0, <1>1, <1>3, <2>1, <3>3 DEF Pending, Holds, AboutToLoad
      <4>2. o \in DOMAIN itsProducers[q] \/ Outdone(q, o)
        BY <2>1, <4>1 DEF LoadsInOrder, LoadedOrOutdone
      <4>3. CASE q # p
        BY <1>3, <1>7, <3>1, <4>2, <4>3
      <4>4. CASE q = p
        <5>1. o \in DOMAIN models \/ before(o) >= N
          BY <1>7, <4>2, <4>4
        <5> HIDE DEF models, N
        <5>2. o \in DOMAIN new \/ after(o) >= N
          BY <1>2, <1>5, <1>6, <3>1, <5>1
        <5>3. QED
          BY <1>3, <1>7, <4>4, <5>2
      <4>5. QED
        BY <4>3, <4>4
    <3>4. QED
      BY <3>2, <3>3
  <2>2. ~shuttingDown => \A f \in DOMAIN seen : Loadable(f) /\ ~Pending(f)' =>
          \/ disk[f].origin \in DOMAIN itsProducers'[DirectoryOf[f]]
          \/ Cardinality(NewerThan(DOMAIN itsProducers'[DirectoryOf[f]], disk[f].origin))
               >= NumberToKeep[DirectoryOf[f]]
    BY <2>1 DEF Outdone, Newer
  <2>3. QED
    BY <1>1, <2>2 DEF LoadedOrOutdone, Loadable, Outdone, Newer
<1>14. QED
  BY <1>10, <1>11, <1>12, <1>13 DEF LoadsInOrder

(* The steps of a task: the file it takes is the one with the greatest     *)
(* name, and it stops early only when the others are outdone.              *)
LEMMA LoadsInOrderLoad ==
  ASSUME OnlyAdded, TypeAndBound, InOnePlace, LoadsInOrder, NEW t \in TaskId, LoadStep(t)
  PROVE  LoadsInOrder'
<1> USE DEF fileVars, monitorVars, repoVars, taskVars, ownerVars
<1>1. /\ TypeOK /\ KeepBound /\ AsOnDisk /\ DropsOutdone
      /\ task[t] \in Task /\ task[t].producer \in Producer
      /\ task[t].files \subseteq Nat /\ NumberToKeep[task[t].producer] \in Nat
  BY FileAssumption, ProducerAssumption DEF TypeAndBound, TypeOK, Task, LoadsInOrder
<1> DEFINE others == <<disk, seen, monitor, status, itsProducers, raced, shuttingDown>>
<1>2. ASSUME TaskEnds(t), UNCHANGED others, task[t].files = {} \/ shuttingDown, task[t].pc # "add"
      PROVE  LoadsInOrder'
  <2>1. /\ task' = [task EXCEPT ![t] = IdleTask]
        /\ IdleTask.pc = "idle" /\ IdleTask.files = {} /\ IdleTask.loads = 0
    BY <1>2 DEF TaskEnds, IdleTask
  <2>2. QED
    BY <1>1, <1>2, <2>1, IdleTaskType, LoadsInOrderTask
<1>3. CASE LoadStart(t)
  <2>1. UNCHANGED others /\ task[t].pc = "start"
    BY <1>3 DEF LoadStart
  <2>2. CASE shuttingDown
    BY <1>2, <1>3, <2>1, <2>2 DEF LoadStart
  <2>3. CASE ~shuttingDown
    <3>1. PICK x \in BOOLEAN : task' = [task EXCEPT ![t].pc = "next", ![t].try_old_repo = x]
      BY <1>3, <2>3, Zenon DEF LoadStart
    <3> DEFINE new == [task[t] EXCEPT !.pc = "next", !.try_old_repo = x]
    <3>2. new \in Task /\ task' = [task EXCEPT ![t] = new]
      BY <1>1, <3>1 DEF Task, TypeOK
    <3>3. /\ new.pc = "next" /\ new.files = task[t].files /\ new.producer = task[t].producer
          /\ new.loads = task[t].loads
      BY <1>1 DEF Task
    <3> HIDE DEF new
    <3>4. QED
      BY <1>1, <2>1, <3>2, <3>3, LoadsInOrderTask
  <2>4. QED
    BY <2>2, <2>3
<1>4. CASE LoadLoopEnds(t)
  <2> DEFINE new == [task[t] EXCEPT !.pc = "finish"]
  <2>1. new \in Task /\ task' = [task EXCEPT ![t] = new]
    BY <1>1, <1>4 DEF LoadLoopEnds, Task, TypeOK
  <2>2. /\ new.pc = "finish" /\ new.files = task[t].files /\ new.producer = task[t].producer
        /\ new.loads = task[t].loads
    BY <1>1 DEF Task
  <2>3. /\ UNCHANGED others /\ task[t].pc = "next"
        /\ shuttingDown \/ task[t].files = {} \/ EnoughLoaded(t)
    BY <1>4 DEF LoadLoopEnds
  <2> HIDE DEF new
  <2>4. QED
    BY <1>1, <2>1, <2>2, <2>3, LoadsInOrderTask DEF EnoughLoaded
<1>5. CASE LoadDereferencesNull(t)
  <2>1. UNCHANGED others /\ task' = task
    BY <1>5 DEF LoadDereferencesNull
  <2>2. \A f : AboutToLoad(f) => AboutToLoad(f)'
    BY <2>1 DEF AboutToLoad
  <2>3. QED
    BY <1>1, <2>1, <2>2, LoadsInOrderKept DEF AsOnDisk
<1>6. ASSUME NEW f \in task[t].files, IsNext(t, f), NEW m \in Model, IsOf(m, f), NEW x,
             task' = [task EXCEPT ![t] = [task[t] EXCEPT !.pc = "add", !.model = m,
                                                         !.files = task[t].files \ {f},
                                                         !.data_load_time = x]],
             x \in Nat \cup {NotADateTime},
             UNCHANGED others, task[t].pc = "next"
      PROVE  LoadsInOrder'
  <2> DEFINE new == [task[t] EXCEPT !.pc = "add", !.model = m, !.files = task[t].files \ {f},
                                    !.data_load_time = x]
  <2>1. new \in Task
    BY <1>1, <1>6 DEF Task
  <2>2. /\ new.pc = "add" /\ new.files = task[t].files \ {f} /\ new.model = m
        /\ new.producer = task[t].producer /\ new.loads = task[t].loads
    BY <1>1 DEF Task
  <2>3. task' = [task EXCEPT ![t] = new]
    BY <1>6
  <2> HIDE DEF new
  <2>4. /\ IsOf(new.model, new.model.path) /\ new.model.path = f
        /\ new.files \subseteq task[t].files
        /\ \A g \in new.files : g < new.model.path
        /\ task[t].files \ new.files = {f}
    BY <1>1, <1>6, <2>2 DEF IsOf, IsNext
  <2>5. QED
    BY <1>1, <1>6, <2>1, <2>2, <2>3, <2>4, LoadsInOrderTask
<1>7. CASE LoadReuse(t)
  <2>1. PICK f \in task[t].files : \E m \in GetModel(OldModels[task[t].producer], f) :
          /\ IsNext(t, f)
          /\ task' = [task EXCEPT ![t].pc = "add", ![t].model = m, ![t].files = @ \ {f}]
    BY <1>7 DEF LoadReuse
  <2>2. PICK m \in GetModel(OldModels[task[t].producer], f) :
          /\ IsNext(t, f)
          /\ task' = [task EXCEPT ![t].pc = "add", ![t].model = m, ![t].files = @ \ {f}]
    BY <2>1
  <2>3. m \in Model /\ IsOf(m, f)
    <3>1. /\ IsSharedModels(OldModels[task[t].producer])
          /\ \A o \in DOMAIN OldModels[task[t].producer] :
               /\ OldModels[task[t].producer][o].origin = o
               /\ OriginsOf[OldModels[task[t].producer][o].path] = {o}
      BY <1>1, ProducerAssumption DEF OnlyAdded, OldModelsOfFiles
    <3>2. PICK o \in DOMAIN OldModels[task[t].producer] :
            m = OldModels[task[t].producer][o] /\ m.path = f
      BY DEF GetModel, FirstWithPath
    <3>3. m \in Model /\ m.path = f /\ m.origin = o /\ OriginsOf[f] = {o}
      BY <3>1, <3>2 DEF IsSharedModels
    <3>4. f \in DOMAIN disk /\ disk[f].origin \in OriginsOf[f]
      BY <1>1, HeldIsSeen DEF AsOnDisk
    <3>5. QED
      BY <3>3, <3>4 DEF IsOf
  <2>4. task' = [task EXCEPT ![t] = [task[t] EXCEPT !.pc = "add", !.model = m,
                                                    !.files = task[t].files \ {f},
                                                    !.data_load_time = task[t].data_load_time]]
    BY <1>1, <2>2 DEF TypeOK, Task
  <2>5. task[t].data_load_time \in Nat \cup {NotADateTime}
    BY <1>1 DEF Task
  <2>6. UNCHANGED others /\ task[t].pc = "next"
    BY <1>7 DEF LoadReuse, LoadContinues
  <2>7. QED
    BY <1>6, <2>2, <2>3, <2>4, <2>5, <2>6
<1>8. CASE LoadRead(t)
  <2>1. PICK f \in task[t].files :
          /\ IsNext(t, f)
          /\ Loadable(f)
          /\ task' = [task EXCEPT ![t].pc = "add",
                                  ![t].model = [path |-> f, origin |-> disk[f].origin,
                                                modtime |-> disk[f].modtime],
                                  ![t].files = @ \ {f},
                                  ![t].data_load_time = now]
    BY <1>8 DEF LoadRead
  <2> DEFINE m == [path |-> f, origin |-> disk[f].origin, modtime |-> disk[f].modtime]
  <2>2. m \in Model
    BY <1>1, <2>1, FileAssumption DEF Loadable, TypeOK, Task, Version, Model
  <2>3. IsOf(m, f)
    BY <2>1 DEF IsOf, Loadable
  <2>4. task' = [task EXCEPT ![t] = [task[t] EXCEPT !.pc = "add", !.model = m,
                                                    !.files = task[t].files \ {f},
                                                    !.data_load_time = now]]
    BY <1>1, <2>1 DEF TypeOK, Task
  <2> HIDE DEF m
  <2>5. UNCHANGED others /\ task[t].pc = "next" /\ now \in Nat \cup {NotADateTime}
    BY <1>1, <1>8 DEF LoadRead, LoadContinues, TypeOK
  <2>6. QED
    BY <1>6, <2>1, <2>2, <2>3, <2>4, <2>5
<1>9. CASE LoadFails(t)
  <2>1. PICK f \in task[t].files : ~Loadable(f) /\ task' = [task EXCEPT ![t].files = @ \ {f}]
    BY <1>9 DEF LoadFails
  <2> DEFINE new == [task[t] EXCEPT !.files = task[t].files \ {f}]
  <2>2. new \in Task /\ task' = [task EXCEPT ![t] = new]
    BY <1>1, <2>1 DEF Task, TypeOK
  <2>3. UNCHANGED others /\ task[t].pc = "next"
    BY <1>9 DEF LoadFails, LoadContinues
  <2>4. /\ new.pc = "next" /\ new.files = task[t].files \ {f}
        /\ new.producer = task[t].producer /\ new.loads = task[t].loads
    BY <1>1, <2>3 DEF Task
  <2> HIDE DEF new
  <2>5. QED
    BY <1>1, <2>1, <2>2, <2>3, <2>4, LoadsInOrderTask
<1>10. CASE LoadAdd(t)
  BY <1>10, LoadsInOrderAdd
<1>11. CASE LoadFinish(t)
  <2> DEFINE new == [IdleTask EXCEPT !.pc = "exit", !.initial = task[t].initial]
  <2>1. /\ new \in Task /\ new.pc = "exit" /\ new.files = {}
        /\ task' = [task EXCEPT ![t] = new]
    BY <1>1, <1>11, IdleTaskType DEF LoadFinish, Task, IdleTask
  <2>2. UNCHANGED others /\ task[t].pc = "finish"
    BY <1>11 DEF LoadFinish
  <2>3. ASSUME NEW f \in task[t].files, Loadable(f), ~shuttingDown
        PROVE  Outdone(task[t].producer, disk[f].origin)
    <3>1. task[t].loads >= NumberToKeep[task[t].producer]
      BY <1>1, <2>2, <2>3 DEF DropsOutdone, EnoughLoaded
    <3>2. \/ Outdone(task[t].producer, disk[f].origin)
          \/ Newer(task[t].producer, disk[f].origin) >= task[t].loads
      BY <1>1, <2>3 DEF DropsOutdone
    <3>3. Newer(task[t].producer, disk[f].origin) \in Nat /\ task[t].loads \in Nat
      BY <1>1, NewerType DEF Task
    <3>4. QED
      BY <1>1, <3>1, <3>2, <3>3 DEF Outdone
  <2> HIDE DEF new
  <2>4. QED
    BY <1>1, <2>1, <2>2, <2>3, LoadsInOrderTask
<1>12. CASE LoadExit(t)
  BY <1>1, <1>2, <1>12 DEF LoadExit, DropsOutdone
<1>13. QED
  BY <1>3, <1>4, <1>5, <1>7, <1>8, <1>9, <1>10, <1>11, <1>12 DEF LoadStep

-------------------------------------------------------------------------------
(* Every step of a manager, over a directory to which files are only added,*)
(* keeps what loading in the order of names achieves.                      *)
LEMMA LoadsInOrderStep ==
  OnlyAdded /\ TypeAndBound /\ InOnePlace /\ LoadsInOrder /\ [Next]_vars => LoadsInOrder'
<1> SUFFICES ASSUME OnlyAdded, TypeAndBound, InOnePlace, LoadsInOrder, [Next]_vars
             PROVE  LoadsInOrder'
  OBVIOUS
<1> USE DEF fileVars, monitorVars, repoVars, taskVars, ownerVars
<1>1. TypeOK /\ AsOnDisk
  BY DEF TypeAndBound, LoadsInOrder
<1>2. ASSUME UNCHANGED <<disk, seen, status, itsProducers, task, raced>>,
             UNCHANGED monitor \/ monitor = "idle", shuttingDown => shuttingDown'
      PROVE  LoadsInOrder'
  <2>1. \A f : AboutToLoad(f) => AboutToLoad(f)'
    BY <1>2 DEF AboutToLoad
  <2>2. QED
    BY <1>1, <1>2, <2>1, LoadsInOrderKept DEF AsOnDisk
<1>3. CASE FileStep
  <2>1. CASE \E f \in Path : \E o \in OriginsOf[f] : WriteFile(f, o)
    BY <1>1, <2>1, LoadsInOrderWrite
  <2>2. CASE \E f \in Path : DeleteFile(f)
    BY <2>2 DEF DeleteFile, OnlyAdded
  <2>3. CASE Tick
    BY <1>2, <2>3 DEF Tick
  <2>4. QED
    BY <1>3, <2>1, <2>2, <2>3 DEF FileStep
<1>4. CASE MonitorStep
  <2>1. CASE MonitorExit
    BY <1>2, <2>1 DEF MonitorExit
  <2>2. QED
    BY <1>1, <1>4, <2>1, LoadsInOrderScan, LoadsInOrderUpdate, LoadsInOrderSchedule
    DEF MonitorStep, Callback
<1>5. CASE \E t \in TaskId : LoadStep(t)
  BY <1>5, LoadsInOrderLoad
<1>6. CASE ExpirationStep
  <2>1. CASE \E p \in Producer : ExpireProducer(p)
    BY <2>1 DEF ExpireProducer, OnlyAdded
  <2>2. CASE ExpirationExit
    BY <1>2, <2>2 DEF ExpirationExit
  <2>3. QED
    BY <1>6, <2>1, <2>2 DEF ExpirationStep
<1>7. CASE OwnerStep
  BY <1>2, <1>7 DEF OwnerStep, ReadyCount, ReadyMonitor, ReadyAbandoned,
                    RemoveOldManager, ShutdownStop, ShutdownJoin
<1>8. CASE RequestShutdown
  BY <1>2, <1>8 DEF RequestShutdown
<1>9. CASE UNCHANGED vars
  BY <1>2, <1>9 DEF vars
<1>10. QED
  BY <1>3, <1>4, <1>5, <1>6, <1>7, <1>8, <1>9 DEF Next

(* Over a directory to which files are only added, in the order of their   *)
(* names, a manager that has caught up has exactly the newest files that   *)
(* can be loaded in memory: no load() that stops at number_to_keep leaves  *)
(* a file behind that belongs there, whichever tasks the scans start and   *)
(* in whatever order these publish.                                        *)
THEOREM NewestLoadedHolds == Spec => []NewestLoaded
<1>1. CASE OnlyAdded
  <2>1. Spec => []LoadsInOrder
    BY <1>1, TypeAndBoundInvariant, InOnePlaceHolds, LoadsInOrderInit, LoadsInOrderStep, PTL
    DEF Spec
  <2>2. TypeAndBound /\ InOnePlace /\ LoadsInOrder => NewestLoaded
    BY CaughtUpHasNewest DEF NewestLoaded
  <2>3. QED
    BY <2>1, <2>2, TypeAndBoundInvariant, InOnePlaceHolds, PTL
<1>2. CASE ~OnlyAdded
  <2>1. NewestLoaded
    BY <1>2 DEF NewestLoaded
  <2>2. QED
    BY <2>1, PTL
<1>3. QED
  BY <1>1, <1>2
===============================================================================
