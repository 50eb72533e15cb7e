------------------------------- MODULE Handover -------------------------------
(***************************************************************************)
(* A manager that takes over from another one: EngineImpl::configFileWatch *)
(* makes a RepoManager for each new version of the configuration file, and *)
(* RepoManager::load takes models from the manager before it when the      *)
(* producer's settings are the same (querydata/RepoManager.cpp,            *)
(* Producer.cpp).  All managers watch the same directory, each with its    *)
(* own monitor and tasks, until they are freed.                            *)
(*                                                                         *)
(* RepoManager has one manager in more detail, and EngineReload the        *)
(* pointers to managers; here are the contents of several of them, for one *)
(* producer.  A scan and its callback are one action; a rewritten file has *)
(* a new modification time, which is the number of the change.             *)
(***************************************************************************)
EXTENDS Repository

CONSTANTS
  Path,         \* the file names, as their ranks in the name order
  OriginOf,     \* the origin time in a file, by path
  Group,        \* what the configuration file may say about the producer
  Manager,      \* the managers, in the order they are made
  TaskId,       \* identities for the tasks of a manager
  MaxChanges    \* bound: the number of writes and deletes

(* The settings of a producer and their defaults (ProducerConfig).         *)
Default ==
  [alias |-> {}, directory |-> "", pattern |-> "", type |-> "grid", leveltype |-> "surface",
   refresh_interval_secs |-> 60, number_to_keep |-> 2, update_interval |-> 3600,
   minimum_expires |-> 600, max_age |-> 0, max_latest_age |-> 0, maxdistance |-> -1,
   multifile |-> FALSE, forecast |-> TRUE, climatology |-> FALSE, fullgrid |-> TRUE,
   staticgrid |-> FALSE, relative_uv |-> FALSE, mmap |-> TRUE]

ASSUME HandoverAssumption ==
  /\ Path \subseteq Nat /\ IsFiniteSet(Path) /\ OriginOf \in [Path -> Nat]
  /\ IsFiniteSet(Manager) /\ Manager # {} /\ Manager = 1 .. Cardinality(Manager)
  /\ MaxChanges \in Nat

VARIABLES
  disk,      \* the modification times of the existing files
  changes,   \* number of writes and deletes so far
  file,      \* the configuration file: the group, and whether it has been read
  mgr,       \* the managers
  current,   \* itsRepoManager
  owner,     \* configFileWatch: where it is, and the manager it has made
  crashed,   \* a null pointer was dereferenced
  raced      \* history: files that a manager removed while a task of it had them

vars == <<disk, changes, file, mgr, current, owner, crashed, raced>>

-------------------------------------------------------------------------------
(* parse_producerinfo: an unknown setting is an error, and so are some     *)
(* values.                                                                 *)
Parse(group) == [s \in DOMAIN Default |-> IF s \in DOMAIN group THEN group[s] ELSE Default[s]]

Parses(group) ==
  /\ DOMAIN group \subseteq DOMAIN Default
  /\ LET conf == Parse(group)
     IN  /\ conf.directory # "" /\ conf.pattern # ""
         /\ conf.refresh_interval_secs >= 1 /\ conf.update_interval >= 60
         /\ conf.number_to_keep >= 1 /\ conf.number_to_keep < 1000000
         /\ conf.maxdistance < 10000

(* ProducerConfig::operator== does not look at max_latest_age.             *)
Compared == DOMAIN Default \ {"max_latest_age"}

SameButForWinds(c, d) == \A s \in Compared \ {"relative_uv"} : c[s] = d[s]

SameSettings(c, d) == \A s \in Compared : c[s] = d[s]

(* What Model::create copies into a model.                                 *)
Copied == {"leveltype", "climatology", "fullgrid", "staticgrid", "relative_uv",
           "update_interval", "minimum_expires", "mmap"}

SettingsOf(conf) == [s \in Copied |-> conf[s]]

(* A model knows, beside what Repository looks at, its settings and        *)
(* (history) whether its file had changed when it was taken over.          *)
None == 0

NoModel == [path |-> 0, origin |-> 0, modtime |-> 0, made |-> SettingsOf(Default), late |-> FALSE]

IdleTask == [pc |-> "idle", files |-> {}, try_old_repo |-> FALSE, loads |-> 0, model |-> NoModel]

Unmade ==
  [pc |-> "unmade", conf |-> Default, models |-> NoModels, seen |-> [f \in {} |-> 0],
   scanned |-> FALSE, old |-> None, task |-> [t \in TaskId |-> IdleTask]]

Started(conf, old) == [Unmade EXCEPT !.pc = "running", !.conf = conf, !.old = old]

TypeOK ==
  /\ DOMAIN disk \subseteq Path /\ Range(disk) \subseteq 0 .. MaxChanges
  /\ changes \in 0 .. MaxChanges
  /\ file.group \in Group /\ file.read \in BOOLEAN
  /\ \A m \in Manager :
       /\ mgr[m].pc \in {"unmade", "running", "freed"}
       /\ DOMAIN mgr[m].models \subseteq Range(OriginOf) /\ DOMAIN mgr[m].seen \subseteq Path
       /\ mgr[m].old \in Manager \cup {None}
       /\ \A t \in TaskId : mgr[m].task[t].pc \in {"idle", "start", "next", "add"}
  /\ current \in Manager
  /\ owner.pc \in {"watch", "wait", "counted", "waited", "store", "rest"}
  /\ owner.new \in Manager \cup {None}
  /\ crashed \in BOOLEAN
  /\ raced \in [Manager -> SUBSET Path]

(* The engine has started, with its first manager.                         *)
Init ==
  /\ disk \in {[f \in S |-> 0] : S \in SUBSET Path}
  /\ changes = 0
  /\ \E g \in {h \in Group : Parses(h)} :
       /\ file = [group |-> g, read |-> TRUE]
       /\ mgr = [m \in Manager |-> IF m = 1 THEN Started(Parse(g), None) ELSE Unmade]
  /\ current = 1
  /\ owner = [pc |-> "watch", new |-> None]
  /\ crashed = FALSE
  /\ raced = [m \in Manager |-> {}]

-------------------------------------------------------------------------------
(* The administrator, and those who deliver files.  The configuration is   *)
(* edited as long as there are managers to be made (a bound).              *)
WriteFile(f) ==
  /\ changes < MaxChanges
  /\ disk' = [g \in DOMAIN disk \cup {f} |-> IF g = f THEN changes + 1 ELSE disk[g]]
  /\ changes' = changes + 1
  /\ UNCHANGED <<file, mgr, current, owner, crashed, raced>>

DeleteFile(f) ==
  /\ changes < MaxChanges /\ f \in DOMAIN disk
  /\ disk' = Restrict(disk, DOMAIN disk \ {f})
  /\ changes' = changes + 1
  /\ UNCHANGED <<file, mgr, current, owner, crashed, raced>>

EditConfig(g) ==
  /\ file.read /\ g # file.group
  /\ \E m \in Manager : mgr[m].pc = "unmade"
  /\ file' = [group |-> g, read |-> FALSE]
  /\ UNCHANGED <<disk, changes, mgr, current, owner, crashed, raced>>

-------------------------------------------------------------------------------
(* The monitor of one manager scans, and update() removes what is deleted  *)
(* or modified and starts a task for what is new or modified, unless       *)
(* remove() throws.                                                        *)
Alive(m) == ~crashed /\ mgr[m].pc = "running"

Running(m) == {t \in TaskId : mgr[m].task[t].pc # "idle"}

Holds(m, f) ==
  \E t \in Running(m) : \/ f \in mgr[m].task[t].files
                        \/ mgr[m].task[t].pc = "add" /\ mgr[m].task[t].model.path = f

RemovalsRewritten(m) ==
  {f \in DOMAIN mgr[m].seen : f \in DOMAIN disk /\ disk[f] # mgr[m].seen[f]}

Removals(m) ==
  {f \in DOMAIN mgr[m].seen : f \in DOMAIN disk => disk[f] # mgr[m].seen[f]}

Additions(m) ==
  {f \in DOMAIN disk : f \in DOMAIN mgr[m].seen => disk[f] # mgr[m].seen[f]}

RemovesOnly(m) ==
  RemoveAllThrows(mgr[m].models, Removals(m)) \/ Additions(m) = {}

Update(m) ==
  /\ Alive(m)
  /\ ~mgr[m].scanned \/ mgr[m].seen # disk
  /\ LET scanned == [mgr[m] EXCEPT !.seen = disk, !.scanned = TRUE,
                                   !.models = RemoveAll(@, Removals(m))]
     IN  \/ /\ RemovesOnly(m)
            /\ mgr' = [mgr EXCEPT ![m] = scanned]
         \/ /\ ~RemovesOnly(m)
            /\ \E t \in TaskId \ Running(m) :
                 mgr' = [mgr EXCEPT ![m] = [scanned EXCEPT
                           !.task[t] = [IdleTask EXCEPT !.pc = "start", !.files = Additions(m)]]]
  /\ raced' = [raced EXCEPT ![m] = @ \cup {f \in Removals(m) : Holds(m, f)}]
  /\ UNCHANGED <<disk, changes, file, current, owner, crashed>>

-------------------------------------------------------------------------------
(* load(): whether to try the old manager is decided once, by comparing    *)
(* the settings.  Files are taken newest name first.                       *)
LoadStart(m, t) ==
  /\ Alive(m) /\ mgr[m].task[t].pc = "start"
  /\ mgr' = [mgr EXCEPT ![m].task[t] = [@ EXCEPT !.pc = "next", !.try_old_repo =
               mgr[m].old # None /\ SameSettings(mgr[mgr[m].old].conf, mgr[m].conf)]]
  /\ UNCHANGED <<disk, changes, file, current, owner, crashed, raced>>

Continues(m, t) ==
  /\ Alive(m) /\ mgr[m].task[t].pc = "next"
  /\ mgr[m].task[t].files # {} /\ mgr[m].task[t].loads < mgr[m].conf.number_to_keep

NextFile(m, t) ==
  CHOOSE f \in mgr[m].task[t].files : \A g \in mgr[m].task[t].files : g <= f

InOldManager(m, t) ==
  IF mgr[m].task[t].try_old_repo THEN GetModel(mgr[mgr[m].old].models, NextFile(m, t)) ELSE {}

OldManagerGone(m, t) == mgr[m].task[t].try_old_repo /\ mgr[m].old = None

LoadCrashes(m, t) ==
  /\ Continues(m, t) /\ OldManagerGone(m, t)
  /\ crashed' = TRUE
  /\ UNCHANGED <<disk, changes, file, mgr, current, owner, raced>>

(* The task takes a file, from the old manager or by reading it.           *)
Take(m, t, model) ==
  mgr' = [mgr EXCEPT ![m].task[t] =
            [@ EXCEPT !.pc = "add", !.model = model,
                      !.files = mgr[m].task[t].files \ {NextFile(m, t)}]]

(* A model of the old manager is taken whatever has become of its file.    *)
Changed(model) == model.path \in DOMAIN disk => disk[model.path] # model.modtime

LoadReuse(m, t) ==
  /\ Continues(m, t) /\ ~OldManagerGone(m, t)
  /\ \E model \in InOldManager(m, t) : Take(m, t, [model EXCEPT !.late = Changed(model)])
  /\ UNCHANGED <<disk, changes, file, current, owner, crashed, raced>>

LoadRead(m, t) ==
  /\ Continues(m, t) /\ ~OldManagerGone(m, t) /\ InOldManager(m, t) = {}
  /\ LET f == NextFile(m, t)
     IN  \/ /\ f \in DOMAIN disk
            /\ Take(m, t, [path |-> f, origin |-> OriginOf[f], modtime |-> disk[f],
                           made |-> SettingsOf(mgr[m].conf), late |-> FALSE])
         \/ /\ f \notin DOMAIN disk
            /\ mgr' = [mgr EXCEPT ![m].task[t].files = @ \ {f}]
  /\ UNCHANGED <<disk, changes, file, current, owner, crashed, raced>>

LoadAdd(m, t) ==
  /\ Alive(m) /\ mgr[m].task[t].pc = "add"
  /\ LET models == Add(mgr[m].models, mgr[m].task[t].model)
         task == [mgr[m].task[t] EXCEPT !.pc = "next", !.loads = @ + 1, !.model = NoModel]
     IN  mgr' = [mgr EXCEPT ![m] =
                   [@ EXCEPT !.models = Resize(models, mgr[m].conf.number_to_keep),
                             !.task[t] = task]]
  /\ UNCHANGED <<disk, changes, file, current, owner, crashed, raced>>

LoadEnds(m, t) ==
  /\ Alive(m) /\ mgr[m].task[t].pc = "next" /\ ~Continues(m, t)
  /\ mgr' = [mgr EXCEPT ![m].task[t] = IdleTask]
  /\ UNCHANGED <<disk, changes, file, current, owner, crashed, raced>>

-------------------------------------------------------------------------------
(* configFileWatch: a new manager is made for a changed file, if its       *)
(* settings can be used; it gets the old one, and lets go of it when it is *)
(* ready, which reads the count of tasks before it asks the monitor.       *)
ReadConfig ==
  /\ ~crashed /\ owner.pc = "watch" /\ ~file.read
  /\ file' = [file EXCEPT !.read = TRUE]
  /\ \/ /\ ~Parses(file.group)
        /\ UNCHANGED <<mgr, owner>>
     \/ /\ Parses(file.group)
        /\ \E m \in Manager :
             /\ mgr[m].pc = "unmade"
             /\ m - 1 \in Manager => mgr[m - 1].pc # "unmade"
             /\ mgr' = [mgr EXCEPT ![m] = Started(Parse(file.group), current)]
             /\ owner' = [pc |-> "wait", new |-> m]
  /\ UNCHANGED <<disk, changes, current, crashed, raced>>

ReadyCount ==
  /\ ~crashed /\ owner.pc = "wait" /\ Running(owner.new) = {}
  /\ owner' = [owner EXCEPT !.pc = "counted"]
  /\ UNCHANGED <<disk, changes, file, mgr, current, crashed, raced>>

ReadyMonitor ==
  /\ ~crashed /\ owner.pc = "counted"
  /\ owner' = [owner EXCEPT !.pc = IF mgr[owner.new].scanned THEN "waited" ELSE "wait"]
  /\ UNCHANGED <<disk, changes, file, mgr, current, crashed, raced>>

RemoveOldManager ==
  /\ ~crashed /\ owner.pc = "waited"
  /\ owner' = [owner EXCEPT !.pc = "store"]
  /\ mgr' = [mgr EXCEPT ![owner.new].old = None]
  /\ UNCHANGED <<disk, changes, file, current, crashed, raced>>

Store ==
  /\ ~crashed /\ owner.pc = "store"
  /\ current' = owner.new
  /\ owner' = [owner EXCEPT !.pc = "rest"]
  /\ UNCHANGED <<disk, changes, file, mgr, crashed, raced>>

Rested ==
  /\ ~crashed /\ owner.pc = "rest"
  /\ owner' = [pc |-> "watch", new |-> None]
  /\ UNCHANGED <<disk, changes, file, mgr, current, crashed, raced>>

(* The destructor of the manager before, at some time after the swap: a    *)
(* call may still hold it.  Its monitor stops, but its tasks may run on.   *)
Destroy(m) ==
  /\ Alive(m) /\ m < current /\ owner.pc \in {"watch", "wait", "counted", "waited", "store"}
  /\ \A n \in Manager : mgr[n].old # m
  /\ mgr' = [mgr EXCEPT ![m] = [Unmade EXCEPT !.pc = "freed", !.task = mgr[m].task]]
  /\ UNCHANGED <<disk, changes, file, current, owner, crashed, raced>>

-------------------------------------------------------------------------------
LoadStep(m, t) ==
  \/ LoadStart(m, t) \/ LoadCrashes(m, t) \/ LoadReuse(m, t) \/ LoadRead(m, t)
  \/ LoadAdd(m, t) \/ LoadEnds(m, t)

Next ==
  \/ \E f \in Path : WriteFile(f)
  \/ \E f \in Path : DeleteFile(f)
  \/ \E g \in Group : EditConfig(g)
  \/ \E m \in Manager : Update(m)
  \/ \E m \in Manager, t \in TaskId : LoadStep(m, t)
  \/ ReadConfig
  \/ ReadyCount \/ ReadyMonitor \/ RemoveOldManager \/ Store \/ Rested
  \/ \E m \in Manager : Destroy(m)

Spec == Init /\ [][Next]_vars

-------------------------------------------------------------------------------
(* A manager that has caught up with its directory answers from the files  *)
(* as they are.  Only two things let it keep a model of a file that has    *)
(* changed: the file was already removed when a task still had it, or the  *)
(* model was already out of date when it was taken from the manager before *)
(* (which a reload does by name, without a look at the file).              *)
CaughtUp(m) == Alive(m) /\ mgr[m].scanned /\ mgr[m].seen = disk /\ Running(m) = {}

FreshUnlessReused ==
  \A m \in Manager : CaughtUp(m) =>
    \A o \in DOMAIN mgr[m].models :
      LET model == mgr[m].models[o]
      IN  model.late \/ model.path \in raced[m] \/ ~Changed(model)

(* Whichever managers a model has gone through, it is as the settings of   *)
(* the manager that has it say: models are handed over only between        *)
(* managers that would have made them alike.                               *)
ReusedAsConfigured ==
  \A m \in Manager : \A o \in DOMAIN mgr[m].models :
    mgr[m].models[o].made = SettingsOf(mgr[m].conf)

(* Not true of the code: a manager is not destroyed under its tasks.  (Its *)
(* destructor joins two threads, and itsRepo is destroyed before the tasks *)
(* are.)                                                                   *)
TasksUseLiveMembers == \A m \in Manager : mgr[m].pc = "freed" => Running(m) = {}

(* Not true of the code: what is handed over is up to date.                *)
ReusedUpToDate ==
  \A m \in Manager : \A o \in DOMAIN mgr[m].models : ~mgr[m].models[o].late
===============================================================================
