------------------------------ MODULE RepoManager ------------------------------
(***************************************************************************)
(* One querydata/RepoManager: the directory monitor's thread, which calls  *)
(* update() after every scan of a data directory; the load() tasks that    *)
(* update() schedules; the expiration thread; and the thread that owns the *)
(* manager (EngineImpl), which waits for ready(), lets go of the manager   *)
(* that is being replaced, and shuts the manager down.                     *)
(*                                                                         *)
(* An action is one step between two points where other threads can        *)
(* intervene: a section under itsMutex is one action, and so is the read   *)
(* of one file, which is not under the lock.                               *)
(*                                                                         *)
(* The file system and the monitor (Fmi::DirectoryMonitor) are external.   *)
(* Files may be written, rewritten and deleted at any moment.  A scan      *)
(* compares names and modification times with the previous scan, and the   *)
(* callback gets the differences.  An exception from the callback is       *)
(* reported and the scan counts as done.                                   *)
(***************************************************************************)
EXTENDS Repository

CONSTANTS
  Producer,        \* the producers of the configuration file
  Path,            \* the file names, as their ranks in the name order
  DirectoryOf,     \* the producer whose directory and pattern a file matches
  NumberToKeep,    \* ProducerConfig::number_to_keep, by producer
  MaxAge,          \* ProducerConfig::max_age, by producer; 0 means no limit
  MaxThreadCount,  \* the setting maxthreads
  TaskId,          \* identities for the tasks of updateTasks
  HasOldManager,   \* is this manager replacing another one?
  SameConfig,      \* producers whose settings the old manager shares
  OldModels,       \* the models of the old manager, by producer
  OriginsOf,       \* the origin times a file may hold, by path
  Mutable,         \* the files that may be rewritten and deleted
  MayShutDown,     \* may the server be shut down?
  MaxChanges,      \* bound: the number of writes and deletes
  MaxTime          \* bound: the clock

(* The origin time of a file no model can be created from.                 *)
Corrupt == -1

ASSUME ProducerAssumption ==
  /\ Producer # {}
  /\ NumberToKeep \in [Producer -> Nat \ {0}]
  /\ MaxAge \in [Producer -> Nat]
  /\ MaxThreadCount \in Nat
  /\ SameConfig \subseteq Producer
  /\ DOMAIN OldModels = Producer
  /\ \A p \in Producer : IsSharedModels(OldModels[p])
  /\ \A p \in Producer : \A o \in DOMAIN OldModels[p] :
        OldModels[p][o].origin = o /\ OldModels[p][o].path \in Path

ASSUME FileAssumption ==
  /\ Path \subseteq Nat
  /\ DirectoryOf \in [Path -> Producer]
  /\ OriginsOf \in [Path -> SUBSET (Nat \cup {Corrupt})]
  /\ Mutable \subseteq Path

ASSUME BoundAssumption ==
  /\ HasOldManager \in BOOLEAN
  /\ MayShutDown \in BOOLEAN
  /\ MaxChanges \in Nat
  /\ MaxTime \in Nat

VARIABLES
  disk,                \* the existing files: origin and modification time
  now,                 \* the clock, in seconds
  changes,             \* number of writes and deletes so far
  seen,                \* the monitor's last snapshot: modification times
  scanned,             \* the producers whose directory has been scanned
  monitor,             \* where the monitor's thread is
  watched,             \* the producer of the current scan
  status,              \* the differences the current scan found
  itsProducers,        \* itsRepo: the models, by producer
  itsProducerStatus,   \* itsRepo: what the admin tables show
  itsThreadCount,
  task,                \* the load() calls
  expiration,          \* where the expiration thread is
  owner,               \* where the owner's thread is
  itsOldRepoManager,   \* is the old manager still set?
  crashed,             \* a null pointer was dereferenced
  shuttingDown,        \* Spine::Reactor::isShuttingDown()
  raced                \* history: files removed while a load() had them

fileVars    == <<disk, now, changes>>
monitorVars == <<seen, scanned, monitor, watched, status>>
repoVars    == <<itsProducers, itsProducerStatus>>
taskVars    == <<itsThreadCount, task, crashed>>
ownerVars   == <<owner, itsOldRepoManager, shuttingDown>>
vars == <<fileVars, monitorVars, repoVars, taskVars, expiration, ownerVars, raced>>

-------------------------------------------------------------------------------
FilesOf(p) == {f \in Path : DirectoryOf[f] = p}

Version == [origin : Nat \cup {Corrupt}, modtime : Nat]

Change == {"CREATE", "DELETE", "MODIFY"}

NotADateTime == -1

ProducerStatus == [latest_scan_time : Nat \cup {NotADateTime},
                   latest_data_load_time : Nat \cup {NotADateTime},
                   number_of_loaded_files : Nat]

NoModel == [path |-> 0, origin |-> 0, modtime |-> 0]

(* The parameters and local variables of load(); loads is successful_loads *)
(* and initial marks the tasks that load what the first scan found.        *)
NoProducer == CHOOSE p \in Producer : TRUE

IdleTask == [pc |-> "idle", producer |-> NoProducer, files |-> {},
             try_old_repo |-> FALSE, loads |-> 0, model |-> NoModel,
             data_load_time |-> NotADateTime, initial |-> FALSE]

Task == [pc : {"idle", "start", "next", "add", "finish", "exit"}, producer : Producer,
         files : SUBSET Path, try_old_repo : BOOLEAN, loads : Nat, model : Model,
         data_load_time : Nat \cup {NotADateTime}, initial : BOOLEAN]

Running == {t \in TaskId : task[t].pc # "idle"}

(* The files a running task may still publish a model of.                  *)
Holds(t, f) ==
  /\ task[t].pc # "idle"
  /\ f \in task[t].files \/ (task[t].pc = "add" /\ task[t].model.path = f)

InFlight == {f \in Path : \E t \in TaskId : Holds(t, f)}

TypeOK ==
  /\ DOMAIN disk \subseteq Path
  /\ disk \in [DOMAIN disk -> Version]
  /\ now \in Nat
  /\ changes \in Nat
  /\ DOMAIN seen \subseteq Path
  /\ seen \in [DOMAIN seen -> Nat]
  /\ scanned \subseteq Producer
  /\ monitor \in {"idle", "status", "remove", "schedule", "stopped"}
  /\ watched \in Producer
  /\ DOMAIN status \subseteq Path
  /\ status \in [DOMAIN status -> Change]
  /\ itsProducers = [p \in Producer |-> itsProducers[p]]
  /\ \A p \in Producer : IsSharedModels(itsProducers[p])
  /\ itsProducerStatus \in [Producer -> ProducerStatus]
  /\ itsThreadCount \in Int
  /\ task \in [TaskId -> Task]
  /\ expiration \in {"running", "stopped"}
  /\ owner \in {"wait", "counted", "waited", "serving", "stopping", "stopped"}
  /\ itsOldRepoManager \in BOOLEAN
  /\ crashed \in BOOLEAN
  /\ shuttingDown \in BOOLEAN
  /\ raced \subseteq Path

(* RepoManager::RepoManager and RepoManager::init: nothing is loaded, all  *)
(* directories are watched, both threads run, and the owner waits.         *)
Init ==
  /\ disk \in UNION {[S -> [origin : UNION {OriginsOf[f] : f \in Path}, modtime : {0}]] :
                       S \in SUBSET Path}
  /\ \A f \in DOMAIN disk : disk[f].origin \in OriginsOf[f]
  /\ now = 1
  /\ changes = 0
  /\ seen = [f \in {} |-> 0]
  /\ scanned = {}
  /\ monitor = "idle"
  /\ watched = NoProducer
  /\ status = [f \in {} |-> "CREATE"]
  /\ itsProducers = [p \in Producer |-> NoModels]
  /\ itsProducerStatus = [p \in Producer |-> [latest_scan_time |-> NotADateTime,
                                              latest_data_load_time |-> NotADateTime,
                                              number_of_loaded_files |-> 0]]
  /\ itsThreadCount = 0
  /\ task = [t \in TaskId |-> IdleTask]
  /\ expiration = "running"
  /\ owner = "wait"
  /\ itsOldRepoManager = HasOldManager
  /\ crashed = FALSE
  /\ shuttingDown = FALSE
  /\ raced = {}

-------------------------------------------------------------------------------
(* The file system: a file is written, rewritten or deleted; time passes.  *)
WriteFile(f, o) ==
  /\ changes < MaxChanges
  /\ f \in DOMAIN disk => f \in Mutable
  /\ disk' = [g \in DOMAIN disk \cup {f} |->
                IF g = f THEN [origin |-> o, modtime |-> now] ELSE disk[g]]
  /\ changes' = changes + 1
  /\ UNCHANGED <<now, monitorVars, repoVars, taskVars, expiration, ownerVars, raced>>

DeleteFile(f) ==
  /\ changes < MaxChanges
  /\ f \in DOMAIN disk \cap Mutable
  /\ disk' = [g \in DOMAIN disk \ {f} |-> disk[g]]
  /\ changes' = changes + 1
  /\ UNCHANGED <<now, monitorVars, repoVars, taskVars, expiration, ownerVars, raced>>

Tick ==
  /\ now < MaxTime
  /\ now' = now + 1
  /\ UNCHANGED <<disk, changes, monitorVars, repoVars, taskVars, expiration, ownerVars, raced>>

-------------------------------------------------------------------------------
(* The monitor's thread.  A scan compares the directory with the previous  *)
(* snapshot and calls update().                                            *)
Differences(p) ==
  LET created  == (DOMAIN disk \ DOMAIN seen) \cap FilesOf(p)
      deleted  == (DOMAIN seen \ DOMAIN disk) \cap FilesOf(p)
      modified == {f \in DOMAIN disk \cap DOMAIN seen \cap FilesOf(p) :
                     disk[f].modtime # seen[f]}
  IN  [f \in created \cup deleted \cup modified |->
         IF f \in created THEN "CREATE" ELSE IF f \in deleted THEN "DELETE" ELSE "MODIFY"]

Scan(p) ==
  /\ ~crashed
  /\ monitor = "idle"
  /\ owner \notin {"stopping", "stopped"}
  /\ status' = Differences(p)
  /\ seen' = [f \in (DOMAIN seen \ FilesOf(p)) \cup (DOMAIN disk \cap FilesOf(p)) |->
                IF DirectoryOf[f] = p THEN disk[f].modtime ELSE seen[f]]
  /\ watched' = p
  /\ monitor' = "status"
  /\ UNCHANGED <<fileVars, scanned, repoVars, taskVars, expiration, ownerVars, raced>>

RemovalsModified == {f \in DOMAIN status : status[f] = "MODIFY"}

RemovalsDeleted == {f \in DOMAIN status : status[f] = "DELETE"}

Removals == {f \in DOMAIN status : status[f] \in {"DELETE", "MODIFY"}}

Additions == {f \in DOMAIN status : status[f] \in {"CREATE", "MODIFY"}}

(* The callback returns, or throws: either way the monitor goes on.        *)
CallbackEnds ==
  /\ monitor' = "idle"
  /\ scanned' = scanned \cup {watched}
  /\ status' = [f \in {} |-> "CREATE"]
  /\ watched' = NoProducer

(* update(), the SCAN entry: record the time of the scan.                  *)
UpdateStatus ==
  /\ ~crashed
  /\ monitor = "status"
  /\ itsProducerStatus' = [itsProducerStatus EXCEPT ![watched].latest_scan_time = now]
  /\ IF DOMAIN status = {}
     THEN CallbackEnds /\ UNCHANGED seen
     ELSE monitor' = "remove" /\ UNCHANGED <<seen, scanned, watched, status>>
  /\ UNCHANGED <<fileVars, itsProducers, taskVars, expiration, ownerVars, raced>>

(* update(), the deleted and modified files, under one write lock.  An     *)
(* exception from Repository::remove leaves update() at once.              *)
UpdateRemove ==
  /\ ~crashed
  /\ monitor = "remove"
  /\ itsProducers' = [itsProducers EXCEPT ![watched] = RemoveAll(@, Removals)]
  /\ raced' = raced \cup (Removals \cap InFlight)
  /\ IF RemoveAllThrows(itsProducers[watched], Removals)
     THEN CallbackEnds /\ UNCHANGED seen
     ELSE monitor' = "schedule" /\ UNCHANGED <<seen, scanned, watched, status>>
  /\ UNCHANGED <<fileVars, itsProducerStatus, taskVars, expiration, ownerVars>>

(* update(), the new and modified files: wait until there are few enough   *)
(* tasks, count the new one, and start it.                                 *)
ThreadAvailableAlways == TRUE

ThreadAvailable == itsThreadCount <= MaxThreadCount

UpdateSchedule ==
  /\ ~crashed
  /\ monitor = "schedule"
  /\ IF Additions = {} \/ shuttingDown
     THEN UNCHANGED <<itsThreadCount, task>>
     ELSE /\ ThreadAvailable
          /\ itsThreadCount' = itsThreadCount + 1
          /\ \E t \in TaskId :
               /\ task[t].pc = "idle"
               /\ task' = [task EXCEPT ![t] = [IdleTask EXCEPT !.pc = "start",
                                                               !.producer = watched,
                                                               !.files = Additions,
                                                               !.initial = watched \notin scanned]]
  /\ CallbackEnds
  /\ UNCHANGED <<fileVars, seen, repoVars, crashed, expiration, ownerVars, raced>>

(* DirectoryMonitor::run returns once stop() has been called.              *)
MonitorExitLate ==
  /\ ~crashed
  /\ monitor = "idle"
  /\ owner = "stopped"
  /\ monitor' = "stopped"
  /\ UNCHANGED <<fileVars, seen, scanned, watched, status, repoVars, taskVars, expiration,
                 ownerVars, raced>>

MonitorExit ==
  /\ ~crashed
  /\ monitor = "idle"
  /\ owner = "stopping"
  /\ monitor' = "stopped"
  /\ UNCHANGED <<fileVars, seen, scanned, watched, status, repoVars, taskVars, expiration,
                 ownerVars, raced>>

-------------------------------------------------------------------------------
(* The load() tasks.                                                       *)
TaskEndsUncounted(t) ==
  /\ task' = [task EXCEPT ![t] = IdleTask]
  /\ UNCHANGED itsThreadCount

TaskEnds(t) ==
  /\ itsThreadCount' = itsThreadCount - 1
  /\ task' = [task EXCEPT ![t] = IdleTask]

(* load() starts: the old manager is asked for its settings if there is    *)
(* one, and its models are used if the settings have not changed.          *)
LoadStart(t) ==
  /\ ~crashed
  /\ task[t].pc = "start"
  /\ IF shuttingDown
     THEN TaskEnds(t)
     ELSE /\ task' = [task EXCEPT ![t].pc = "next",
                                  ![t].try_old_repo = /\ itsOldRepoManager
                                                      /\ task[t].producer \in SameConfig]
          /\ UNCHANGED itsThreadCount
  /\ UNCHANGED <<fileVars, monitorVars, repoVars, crashed, expiration, ownerVars, raced>>

(* The files are taken newest name first until enough have been loaded.    *)
IsNextOldestFirst(t, f) == f \in task[t].files /\ \A g \in task[t].files : f <= g

IsNext(t, f) == f \in task[t].files /\ \A g \in task[t].files : g <= f

EnoughAfterOne(t) == task[t].loads > 0

EnoughLoaded(t) == task[t].loads >= NumberToKeep[task[t].producer]

LoadContinues(t) ==
  /\ ~crashed
  /\ task[t].pc = "next"
  /\ ~shuttingDown /\ task[t].files # {} /\ ~EnoughLoaded(t)

LoadLoopEnds(t) ==
  /\ ~crashed
  /\ task[t].pc = "next"
  /\ shuttingDown \/ task[t].files = {} \/ EnoughLoaded(t)
  /\ task' = [task EXCEPT ![t].pc = "finish"]
  /\ UNCHANGED <<fileVars, monitorVars, repoVars, itsThreadCount, crashed, expiration,
                 ownerVars, raced>>

(* The old manager was let go of after load() had decided to use it: the   *)
(* server's process crashes, and takes no further step.                    *)
LoadDereferencesNull(t) ==
  /\ LoadContinues(t)
  /\ task[t].try_old_repo /\ ~itsOldRepoManager
  /\ crashed' = TRUE
  /\ UNCHANGED <<fileVars, monitorVars, repoVars, itsThreadCount, task, expiration,
                 ownerVars, raced>>

(* The old manager has a model from a file of that name: it is reused.     *)
LoadReuse(t) ==
  /\ LoadContinues(t)
  /\ task[t].try_old_repo /\ itsOldRepoManager
  /\ \E f \in task[t].files : \E m \in GetModel(OldModels[task[t].producer], f) :
       /\ IsNext(t, f)
       /\ task' = [task EXCEPT ![t].pc = "add", ![t].model = m, ![t].files = @ \ {f}]
  /\ UNCHANGED <<fileVars, monitorVars, repoVars, itsThreadCount, crashed, expiration,
                 ownerVars, raced>>

(* The file is read; the old manager may have removed its model meanwhile. *)
LoadableAny(f) == f \in DOMAIN disk

Loadable(f) == f \in DOMAIN disk /\ disk[f].origin # Corrupt

LoadRead(t) ==
  /\ LoadContinues(t)
  /\ task[t].try_old_repo => itsOldRepoManager
  /\ \E f \in task[t].files :
       /\ IsNext(t, f)
       /\ Loadable(f)
       /\ task' = [task EXCEPT ![t].pc = "add",
                               ![t].model = [path |-> f, origin |-> disk[f].origin,
                                             modtime |-> disk[f].modtime],
                               ![t].files = @ \ {f},
                               ![t].data_load_time = now]
  /\ UNCHANGED <<fileVars, monitorVars, repoVars, itsThreadCount, crashed, expiration,
                 ownerVars, raced>>

(* The file is missing or corrupt: the exception is caught and reported.   *)
LoadFails(t) ==
  /\ LoadContinues(t)
  /\ task[t].try_old_repo => itsOldRepoManager
  /\ \E f \in task[t].files :
       /\ IsNext(t, f)
       /\ ~Loadable(f)
       /\ task' = [task EXCEPT ![t].files = @ \ {f}]
  /\ UNCHANGED <<fileVars, monitorVars, repoVars, itsThreadCount, crashed, expiration,
                 ownerVars, raced>>

(* The model is published and the producer resized, under one write lock.  *)
LoadAdd(t) ==
  /\ ~crashed
  /\ task[t].pc = "add"
  /\ LET p == task[t].producer
     IN  itsProducers' = [itsProducers EXCEPT
                            ![p] = Resize(Add(@, task[t].model), NumberToKeep[p])]
  /\ task' = [task EXCEPT ![t].pc = "next", ![t].loads = @ + 1, ![t].model = NoModel]
  /\ UNCHANGED <<fileVars, monitorVars, itsProducerStatus, itsThreadCount, crashed, expiration,
                 ownerVars, raced>>

(* The admin status is updated under the lock, unless shutting down.       *)
LoadedStatusOfTask(t) ==
  [itsProducerStatus[task[t].producer] EXCEPT
     !.latest_data_load_time = task[t].data_load_time,
     !.number_of_loaded_files = task[t].loads]

LoadedStatus(t) ==
  [itsProducerStatus[task[t].producer] EXCEPT
     !.latest_data_load_time = task[t].data_load_time,
     !.number_of_loaded_files = Cardinality(DOMAIN itsProducers[task[t].producer])]

LoadFinish(t) ==
  /\ ~crashed
  /\ task[t].pc = "finish"
  /\ IF shuttingDown
     THEN UNCHANGED itsProducerStatus
     ELSE itsProducerStatus' = [itsProducerStatus EXCEPT ![task[t].producer] = LoadedStatus(t)]
  /\ task' = [task EXCEPT ![t] = [IdleTask EXCEPT !.pc = "exit", !.initial = task[t].initial]]
  /\ UNCHANGED <<fileVars, monitorVars, itsProducers, itsThreadCount, crashed, expiration,
                 ownerVars, raced>>

LoadExit(t) ==
  /\ ~crashed
  /\ task[t].pc = "exit"
  /\ TaskEnds(t)
  /\ UNCHANGED <<fileVars, monitorVars, repoVars, crashed, expiration, ownerVars, raced>>

-------------------------------------------------------------------------------
(* The expiration thread: one producer at a time, each under the lock.     *)
ExpireProducer(p) ==
  /\ ~crashed
  /\ expiration = "running"
  /\ ~shuttingDown
  /\ MaxAge[p] > 0
  /\ itsProducers' = [itsProducers EXCEPT ![p] = Expire(@, now - MaxAge[p])]
  /\ UNCHANGED <<fileVars, monitorVars, itsProducerStatus, taskVars, expiration, ownerVars, raced>>

ExpirationExit ==
  /\ ~crashed
  /\ expiration = "running"
  /\ shuttingDown
  /\ expiration' = "stopped"
  /\ UNCHANGED <<fileVars, monitorVars, repoVars, taskVars, ownerVars, raced>>

-------------------------------------------------------------------------------
(* The owner's thread polls ready(), which reads the count of tasks first  *)
(* and asks the monitor afterwards.                                        *)
ReadyCount ==
  /\ ~crashed
  /\ owner = "wait"
  /\ itsThreadCount = 0
  /\ owner' = "counted"
  /\ UNCHANGED <<fileVars, monitorVars, repoVars, taskVars, expiration, itsOldRepoManager,
                 shuttingDown, raced>>

ReadyMonitor ==
  /\ ~crashed
  /\ owner = "counted"
  /\ owner' = IF scanned = Producer THEN "waited" ELSE "wait"
  /\ UNCHANGED <<fileVars, monitorVars, repoVars, taskVars, expiration, itsOldRepoManager,
                 shuttingDown, raced>>

ReadyAbandoned ==
  /\ ~crashed
  /\ owner = "wait"
  /\ shuttingDown
  /\ owner' = "waited"
  /\ UNCHANGED <<fileVars, monitorVars, repoVars, taskVars, expiration, itsOldRepoManager,
                 shuttingDown, raced>>

RemoveOldManager ==
  /\ ~crashed
  /\ owner = "waited"
  /\ owner' = "serving"
  /\ itsOldRepoManager' = FALSE
  /\ UNCHANGED <<fileVars, monitorVars, repoVars, taskVars, expiration, shuttingDown, raced>>

(* The server shuts down: the flag is raised, and then shutdown() stops    *)
(* the monitor and joins both threads and all tasks.                       *)
RequestShutdown ==
  /\ ~crashed
  /\ MayShutDown
  /\ ~shuttingDown
  /\ shuttingDown' = TRUE
  /\ UNCHANGED <<fileVars, monitorVars, repoVars, taskVars, expiration, owner,
                 itsOldRepoManager, raced>>

ShutdownStop ==
  /\ ~crashed
  /\ owner = "serving"
  /\ shuttingDown
  /\ owner' = "stopping"
  /\ UNCHANGED <<fileVars, monitorVars, repoVars, taskVars, expiration, itsOldRepoManager,
                 shuttingDown, raced>>

ShutdownJoin ==
  /\ ~crashed
  /\ owner = "stopping"
  /\ monitor = "stopped"
  /\ expiration = "stopped"
  /\ Running = {}
  /\ owner' = "stopped"
  /\ UNCHANGED <<fileVars, monitorVars, repoVars, taskVars, expiration, itsOldRepoManager,
                 shuttingDown, raced>>

-------------------------------------------------------------------------------
FileStep ==
  \/ \E f \in Path : \E o \in OriginsOf[f] : WriteFile(f, o)
  \/ \E f \in Path : DeleteFile(f)
  \/ Tick

Callback == UpdateStatus \/ UpdateRemove \/ UpdateSchedule

MonitorStep == (\E p \in Producer : Scan(p)) \/ Callback \/ MonitorExit

LoadStep(t) ==
  \/ LoadStart(t) \/ LoadLoopEnds(t) \/ LoadDereferencesNull(t) \/ LoadReuse(t)
  \/ LoadRead(t) \/ LoadFails(t) \/ LoadAdd(t) \/ LoadFinish(t) \/ LoadExit(t)

ExpirationStep == (\E p \in Producer : ExpireProducer(p)) \/ ExpirationExit

OwnerStep ==
  \/ ReadyCount \/ ReadyMonitor \/ ReadyAbandoned \/ RemoveOldManager
  \/ ShutdownStop \/ ShutdownJoin

Next ==
  \/ FileStep
  \/ MonitorStep
  \/ \E t \in TaskId : LoadStep(t)
  \/ ExpirationStep
  \/ OwnerStep
  \/ RequestShutdown

(* Every thread that can run eventually does.  The monitor scans every     *)
(* directory again and again (refresh_interval_secs).  Nothing is assumed  *)
(* of the file system, of the clock, of expiration or of shutdowns.        *)
Fairness ==
  /\ \A p \in Producer : SF_vars(Scan(p))
  /\ WF_vars(Callback \/ MonitorExit)
  /\ \A t \in TaskId : WF_vars(LoadStep(t))
  /\ WF_vars(ExpirationExit)
  /\ WF_vars(OwnerStep)

Spec == Init /\ [][Next]_vars

FairSpec == Spec /\ Fairness

-------------------------------------------------------------------------------
(* Safety.                                                                 *)

(* The counter that limits the tasks and that ready() trusts counts        *)
(* exactly the tasks that have been scheduled and have not returned, and   *)
(* the limit is exceeded by at most one task: update() compares with <=    *)
(* before it increments.                                                   *)
ThreadCountExact ==
  /\ IsFiniteSet(Running)
  /\ itsThreadCount = Cardinality(Running)
  /\ itsThreadCount <= MaxThreadCount + 1

(* No reader ever finds more models than number_to_keep, however many      *)
(* tasks add models of one producer: add and resize share one lock.        *)
KeepBound ==
  \A p \in Producer : /\ IsFiniteSet(DOMAIN itsProducers[p])
                      /\ Cardinality(DOMAIN itsProducers[p]) <= NumberToKeep[p]

(* The number of files in the admin table is never below the number of     *)
(* models in memory, except while a task that has added a model has not    *)
(* come to its status update: tasks of one producer may overtake each      *)
(* other and still the last one reports what is there.  (It may be above:  *)
(* neither removal nor expiration updates the number.)                     *)
StatusCovers ==
  \A p \in Producer :
    \/ Cardinality(DOMAIN itsProducers[p]) <= itsProducerStatus[p].number_of_loaded_files
    \/ \E t \in Running : task[t].producer = p /\ task[t].loads > 0
    \/ shuttingDown

(* update() has told the repository of a deleted file before its models    *)
(* can be stale: the file of every loaded model is in the monitor's last   *)
(* snapshot, or its removal is under way, or it was removed while a load() *)
(* had it in its list.  And only such a race can load one file twice.      *)
BeingRemoved(f) == monitor \in {"status", "remove"} /\ f \in Removals

RemovedUnlessRaced ==
  \A p \in Producer : \A o \in DOMAIN itsProducers[p] :
    LET f == itsProducers[p][o].path
    IN  \/ f \in raced
        \/ /\ f \in DOMAIN seen \/ BeingRemoved(f)
           /\ \A q \in DOMAIN itsProducers[p] : itsProducers[p][q].path = f => q = o

(* Why: follow one file that was never removed while a load() had it.  It  *)
(* is loaded, or in the list of one task, or about to be given to a task,  *)
(* and never two of these.  (The invariant the proof needs.)               *)
Loaded(f) ==
  {o \in DOMAIN itsProducers[DirectoryOf[f]] : itsProducers[DirectoryOf[f]][o].path = f}

AboutToLoad(f) ==
  /\ f \in DOMAIN status
  /\ \/ monitor \in {"status", "remove", "schedule"} /\ status[f] = "CREATE"
     \/ monitor = "schedule" /\ status[f] = "MODIFY"

Tracked(f) ==
  /\ Loaded(f) # {} \/ (\E t \in TaskId : Holds(t, f)) => f \in DOMAIN seen \/ BeingRemoved(f)
  /\ AboutToLoad(f) => Loaded(f) = {} /\ \A t \in TaskId : ~Holds(t, f)
  /\ \A t \in TaskId : Holds(t, f) => /\ Loaded(f) = {}
                                      /\ \A u \in TaskId : Holds(u, f) => u = t
  /\ \A t \in TaskId : task[t].pc = "add" /\ task[t].model.path = f => f \notin task[t].files
  /\ \A o, q \in Loaded(f) : o = q

(* A model, a scan and a task have to do with files of one directory, and  *)
(* what update() is told to load is in the snapshot.                       *)
OwnFiles ==
  /\ \A p \in Producer : \A o \in DOMAIN itsProducers[p] : itsProducers[p][o].path \in FilesOf(p)
  /\ DOMAIN status \subseteq FilesOf(watched) /\ Additions \subseteq DOMAIN seen
  /\ \A t \in TaskId : task[t].files \subseteq FilesOf(task[t].producer)
  /\ \A t \in TaskId : task[t].pc = "add" => task[t].model.path \in FilesOf(task[t].producer)

InOnePlace == OwnFiles /\ \A f \in Path \ raced : Tracked(f)

(* A producer's newest origin time goes back only because the file of that *)
(* very model was removed, or because the model has expired.               *)
RegressionExplained(p) ==
  LET models == itsProducers[p]
      newest == Newest(DOMAIN models)
  IN  DOMAIN models # {} /\ (\A o \in DOMAIN itsProducers'[p] : o < newest)
      => \/ monitor = "remove" /\ watched = p /\ models[newest].path \in Removals
         \/ MaxAge[p] > 0 /\ models[newest].modtime < now - MaxAge[p]

(* Publishing never takes the newest origin time away from the readers, in *)
(* whatever order the tasks add their models: add() and resize() share one *)
(* lock, and resize() erases the oldest.                                   *)
NewestNeverRegresses == [][\A p \in Producer : RegressionExplained(p)]_itsProducers

(* What readers are promised (module ModelStore).                          *)
Store == INSTANCE ModelStore WITH models <- itsProducers

StorePromise == Store!Spec

-------------------------------------------------------------------------------
(* When files are only added, one origin time each, in name order: once    *)
(* the manager has caught up with the directory, it has exactly the newest *)
(* files that can be loaded, however the scans cut them into tasks, and    *)
(* although load() stops at number_to_keep successes.                      *)
InNameOrder ==
  \A f, g \in Path : DirectoryOf[f] = DirectoryOf[g] /\ f < g =>
    \A o \in OriginsOf[f] \ {Corrupt}, q \in OriginsOf[g] \ {Corrupt} : o < q

OldModelsOfFiles ==
  \A p \in Producer : \A o \in DOMAIN OldModels[p] : OriginsOf[OldModels[p][o].path] = {o}

OnlyAdded ==
  /\ IsFiniteSet(Path) /\ Mutable = {} /\ \A p \in Producer : MaxAge[p] = 0
  /\ InNameOrder /\ OldModelsOfFiles

CaughtUp ==
  /\ monitor = "idle"
  /\ Running = {}
  /\ seen = [f \in DOMAIN disk |-> disk[f].modtime]
  /\ ~shuttingDown

LoadableOrigins(p) == {disk[f].origin : f \in {g \in FilesOf(p) : Loadable(g)}}

HasNewest(p) ==
  DOMAIN itsProducers[p] =
    {o \in LoadableOrigins(p) :
       Cardinality({q \in LoadableOrigins(p) : q >= o}) <= NumberToKeep[p]}

NewestLoaded == OnlyAdded /\ CaughtUp => \A p \in Producer : HasNewest(p)

-------------------------------------------------------------------------------
(* Liveness.                                                               *)

(* Unless the server is shut down, the newest files of every producer are  *)
(* eventually in memory to stay, although the producers share one monitor  *)
(* thread, which blocks while there are too many tasks.                    *)
NewestEventuallyLoaded ==
  <>shuttingDown \/ <>[](\A p \in Producer : HasNewest(p))

(* The owner does not wait for ready() forever.                            *)
InitialWaitEnds == <>(owner = "serving")

(* A shutdown completes, whatever is being scanned, awaited or loaded.     *)
ShutdownCompletes == shuttingDown ~> owner = "stopped"

-------------------------------------------------------------------------------
(* What the comments of the code say, and the code does not do.            *)

(* RepoManager.cpp:448-450: "if any callback request notices a modified    *)
(* file, we will reload it".  A callback with a modified file does not     *)
(* return before it has started a task.                                    *)
ModifiedIsReloaded ==
  [][/\ monitor \in {"remove", "schedule"} /\ monitor' = "idle"
     /\ \E f \in DOMAIN status : status[f] = "MODIFY"
     /\ ~shuttingDown
     => \E t \in TaskId : task[t].pc = "idle" /\ task'[t].pc = "start"]_monitor

(* EngineImpl.cpp:252 and 361: "Wait until all initial data has been       *)
(* loaded".  When the wait ends, no task with files of the first scan of a *)
(* directory is still running.                                             *)
ReadyMeansLoaded ==
  owner = "waited" /\ ~shuttingDown => \A t \in Running : ~task[t].initial

(* RepoManager.cpp:350: "Remove old manager from use once init is          *)
(* complete".  No task uses the old manager afterwards.                    *)
OldManagerNotUsed == ~crashed
===============================================================================
