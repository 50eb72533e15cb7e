---------------------------- MODULE Handover_proofs ----------------------------
(***************************************************************************)
(* What managers that take over from one another have in memory: proofs    *)
(* for module Handover, for any files, settings, managers and tasks.       *)
(*                                                                         *)
(* A model is made from the settings of one manager and may be passed on   *)
(* several times, while files change, managers are made and freed, and     *)
(* tasks hold files and models that their manager has removed.  Inv says   *)
(* what each place a model can be in owes to the manager that has it.      *)
(***************************************************************************)
EXTENDS Handover, RepositoryFacts

-------------------------------------------------------------------------------
(* The values of the variables.                                            *)
Conf == {Default} \cup {Parse(g) : g \in Group}

MadeModel ==
  [path : Nat, origin : Nat, modtime : Nat, made : {SettingsOf(c) : c \in Conf}, late : BOOLEAN]

Models == UNION {[S -> MadeModel] : S \in SUBSET Nat}

Times == UNION {[S -> Nat] : S \in SUBSET Path}

Task ==
  [pc : {"idle", "start", "next", "add"}, files : SUBSET Path, try_old_repo : BOOLEAN,
   loads : Nat, model : MadeModel]

RepoManager ==
  [pc : {"unmade", "running", "freed"}, conf : Conf, models : Models, seen : Times,
   scanned : BOOLEAN, old : Manager \cup {None}, task : [TaskId -> Task]]

StateType ==
  /\ disk \in Times
  /\ changes \in Nat
  /\ file \in [group : Group, read : BOOLEAN]
  /\ mgr \in [Manager -> RepoManager]
  /\ current \in Manager
  /\ owner \in [pc : {"watch", "wait", "counted", "waited", "store", "rest"},
                new : Manager \cup {None}]
  /\ crashed \in BOOLEAN
  /\ raced \in [Manager -> SUBSET Path]

(* Managers are made in order, and the engine has made those it refers to. *)
Made(m) == mgr[m].pc # "unmade"

MadeInOrder ==
  /\ \A m \in Manager : Made(m) => \A n \in Manager : n <= m => Made(n)
  /\ Made(current)
  /\ owner.pc # "watch" => owner.new \in Manager /\ Made(owner.new)

(* A manager that another one may take models from has not been freed.     *)
OldIsKept == \A m \in Manager : mgr[m].old # None => mgr[mgr[m].old].pc = "running"

(* The pointers to managers that can be used are to managers in use.       *)
InUse ==
  /\ mgr[current].pc = "running"
  /\ owner.pc # "watch" => mgr[owner.new].pc = "running" /\ owner.new >= current

(* A task that may take models over compares with the settings it has.     *)
TakesAlike ==
  \A m \in Manager : \A t \in TaskId :
    mgr[m].task[t].try_old_repo /\ mgr[m].old # None =>
      SameSettings(mgr[mgr[m].old].conf, mgr[m].conf)

(* Models in tasks and in memory are as the manager would have made them.  *)
AsConfigured ==
  \A m \in Manager :
    /\ \A o \in DOMAIN mgr[m].models : mgr[m].models[o].made = SettingsOf(mgr[m].conf)
    /\ mgr[m].pc = "running" =>
         \A t \in TaskId : mgr[m].task[t].pc = "add" =>
            mgr[m].task[t].model.made = SettingsOf(mgr[m].conf)

(* Manager m knows of file f, or removed it while a task had it.           *)
Known(m, f) == f \in DOMAIN mgr[m].seen \/ f \in raced[m]

(* A model is of its file as manager m last saw it, if the file is still   *)
(* so.                                                                     *)
UpToDate(m, model) ==
  \/ model.late
  \/ model.path \in raced[m]
  \/ /\ model.path \in DOMAIN mgr[m].seen
     /\ model.path \in DOMAIN disk /\ disk[model.path] = mgr[m].seen[model.path]
          => model.modtime = disk[model.path]

Origin(model) == model.path \in Path /\ model.origin = OriginOf[model.path]

Fresh ==
  /\ \A f \in DOMAIN disk : disk[f] <= changes
  /\ \A m \in Manager :
       /\ \A f \in DOMAIN mgr[m].seen : mgr[m].seen[f] <= changes
       /\ \A o \in DOMAIN mgr[m].models :
            /\ mgr[m].models[o].origin = o /\ Origin(mgr[m].models[o])
            /\ UpToDate(m, mgr[m].models[o])
       /\ mgr[m].pc = "running" => \A t \in TaskId :
            /\ mgr[m].task[t].pc # "idle" => \A f \in mgr[m].task[t].files : Known(m, f)
            /\ mgr[m].task[t].pc = "add" =>
                 Origin(mgr[m].task[t].model) /\ UpToDate(m, mgr[m].task[t].model)

Inv == StateType /\ MadeInOrder /\ OldIsKept /\ InUse /\ TakesAlike /\ AsConfigured /\ Fresh

-------------------------------------------------------------------------------
(* What the operations on models keep, whatever else the models know.      *)

(* Models with the same settings, as ProducerConfig compares them, would   *)
(* be made alike: all that Model::create copies is compared.               *)
LEMMA MadeAlike ==
  ASSUME NEW c, NEW d, SameSettings(c, d)
  PROVE  SettingsOf(c) = SettingsOf(d)
<1>1. Copied \subseteq Compared
  BY DEF Copied, Compared, Default
<1>2. \A s \in Copied : c[s] = d[s]
  BY <1>1, Zenon DEF SameSettings
<1>3. QED
  BY <1>2, Zenon DEF SettingsOf

LEMMA RestrictKeeps ==
  ASSUME NEW models \in Models, NEW T \in SUBSET DOMAIN models
  PROVE  /\ Restrict(models, T) \in Models
         /\ DOMAIN Restrict(models, T) = T
         /\ \A o \in T : Restrict(models, T)[o] = models[o]
<1>1. Restrict(models, T) = [o \in T |-> models[o]]
  BY DEF Restrict
<1>2. [o \in T |-> models[o]] \in Models
  BY DEF Models
<1>3. QED
  BY <1>1, <1>2

(* add() and resize() leave models that were there, and the one added.     *)
LEMMA AddResizeKeeps ==
  ASSUME NEW models \in Models, NEW model \in MadeModel, NEW limit
  PROVE  /\ Resize(Add(models, model), limit) \in Models
         /\ \A o \in DOMAIN Resize(Add(models, model), limit) :
              \/ o \in DOMAIN models /\ Resize(Add(models, model), limit)[o] = models[o]
              \/ o = model.origin /\ Resize(Add(models, model), limit)[o] = model
<1> DEFINE added == Add(models, model)
<1>1. /\ added \in Models
      /\ \A o \in DOMAIN added : \/ o \in DOMAIN models /\ added[o] = models[o]
                                 \/ o = model.origin /\ added[o] = model
  <2>1. model.origin \in Nat
    BY DEF MadeModel
  <2>2. QED
    BY <2>1 DEF Add, AddAlways, Models
<1> HIDE DEF added
<1> DEFINE T == {o \in DOMAIN added : Cardinality({q \in DOMAIN added : q >= o}) <= limit}
<1>2. Resize(added, limit) = [o \in T |-> added[o]]
  BY DEF Resize, Restrict
<1>3. T \subseteq DOMAIN added
  OBVIOUS
<1> HIDE DEF T
<1>4. [o \in T |-> added[o]] \in Models
  BY <1>1, <1>3 DEF Models
<1>5. QED
  BY <1>1, <1>2, <1>3, <1>4 DEF added

(* The removals of update() take away every model of the files, since all  *)
(* models of a file have its origin time.                                  *)
LEMMA RemovesAllOf ==
  ASSUME NEW models \in Models, NEW files,
         \A o \in DOMAIN models : models[o].origin = o /\ Origin(models[o])
  PROVE  /\ RemoveAll(models, files) \in Models
         /\ DOMAIN RemoveAll(models, files) \subseteq DOMAIN models
         /\ \A o \in DOMAIN RemoveAll(models, files) :
              /\ RemoveAll(models, files)[o] = models[o]
              /\ models[o].path \notin files
<1> DEFINE T == DOMAIN models \ UNION {FirstWithPath(models, f) : f \in files}
<1>1. T \in SUBSET DOMAIN models
  OBVIOUS
<1>2. RemoveAll(models, files) = Restrict(models, T)
  BY DEF RemoveAll
<1>3. ASSUME NEW o \in T PROVE models[o].path \notin files
  <2>1. \A q \in DOMAIN models : models[q].path = models[o].path => q = o
    BY DEF Origin
  <2>2. o \in Nat
    BY DEF Models
  <2>3. o \in FirstWithPath(models, models[o].path)
    BY <2>1, <2>2 DEF FirstWithPath
  <2>4. QED
    BY <2>3
<1> HIDE DEF T
<1>4. QED
  BY <1>1, <1>2, <1>3, RestrictKeeps

LEMMA InitialValues ==
  /\ NoModels \in Models
  /\ NoModel \in MadeModel
  /\ IdleTask \in Task
  /\ Unmade \in RepoManager
  /\ \A c \in Conf, old \in Manager \cup {None} : Started(c, old) \in RepoManager
<1>1. NoModels \in Models
  BY DEF NoModels, Models
<1>2. NoModel \in MadeModel
  BY DEF NoModel, MadeModel, Conf
<1>3. IdleTask \in Task
  BY <1>2 DEF IdleTask, Task
<1>4. [f \in {} |-> 0] \in Times
  BY DEF Times
<1>5. Unmade \in RepoManager
  BY <1>1, <1>3, <1>4 DEF Unmade, RepoManager, Conf
<1>6. ASSUME NEW c \in Conf, NEW old \in Manager \cup {None}
      PROVE  Started(c, old) \in RepoManager
  BY <1>5 DEF Started, RepoManager
<1>7. QED
  BY <1>1, <1>2, <1>3, <1>5, <1>6

(* What a manager is that has just been made.                              *)
LEMMA StartedFields ==
  ASSUME NEW c \in Conf, NEW old \in Manager \cup {None}
  PROVE  /\ Started(c, old).pc = "running" /\ Started(c, old).conf = c
         /\ Started(c, old).old = old
         /\ DOMAIN Started(c, old).models = {} /\ DOMAIN Started(c, old).seen = {}
         /\ \A t \in TaskId : /\ Started(c, old).task[t].pc = "idle"
                              /\ ~Started(c, old).task[t].try_old_repo
BY DEF Started, Unmade, IdleTask, NoModels

LEMMA UnmadeFields ==
  /\ Unmade.pc = "unmade" /\ Unmade.old = None
  /\ DOMAIN Unmade.models = {} /\ DOMAIN Unmade.seen = {}
  /\ \A t \in TaskId : Unmade.task[t].pc = "idle" /\ ~Unmade.task[t].try_old_repo
BY DEF Unmade, IdleTask, NoModels

-------------------------------------------------------------------------------
LEMMA InvInit == Init => Inv
<1> SUFFICES ASSUME Init PROVE Inv
  OBVIOUS
<1>1. PICK g \in Group : /\ file = [group |-> g, read |-> TRUE]
                         /\ mgr = [m \in Manager |-> IF m = 1 THEN Started(Parse(g), None) ELSE Unmade]
  BY DEF Init
<1> DEFINE first == Started(Parse(g), None)
<1>2. Parse(g) \in Conf /\ None \in Manager \cup {None}
  BY DEF Conf
<1>3. /\ first \in RepoManager /\ first.pc = "running" /\ first.old = None
      /\ DOMAIN first.models = {} /\ DOMAIN first.seen = {}
      /\ \A t \in TaskId : first.task[t].pc = "idle" /\ ~first.task[t].try_old_repo
  BY <1>2, StartedFields, InitialValues
<1> HIDE DEF first
<1>4. /\ mgr \in [Manager -> {first, Unmade}]
      /\ \A m \in Manager : (m = 1 /\ mgr[m] = first) \/ (m # 1 /\ mgr[m] = Unmade)
  BY <1>1 DEF first
<1>5. 1 \in Manager /\ (\A m \in Manager : m \in Nat /\ m >= 1) /\ current = 1
  <2>1. /\ Manager # {} /\ Manager = 1 .. Cardinality(Manager) /\ current = 1
    BY HandoverAssumption DEF Init
  <2> DEFINE c == Cardinality(Manager)
  <2>2. Manager = 1 .. c /\ c \in Nat
    BY <2>1, HandoverAssumption, FS_CardinalityType
  <2> HIDE DEF c
  <2>3. QED
    BY <2>1, <2>2
<1>6. /\ \A m \in Manager : /\ mgr[m].old = None
                            /\ DOMAIN mgr[m].models = {} /\ DOMAIN mgr[m].seen = {}
                            /\ \A t \in TaskId : /\ mgr[m].task[t].pc = "idle"
                                                 /\ ~mgr[m].task[t].try_old_repo
      /\ mgr[1].pc = "running" /\ \A m \in Manager : m # 1 => mgr[m].pc = "unmade"
  BY <1>3, <1>4, <1>5, UnmadeFields
<1>7. /\ changes = 0 /\ owner = [pc |-> "watch", new |-> None] /\ crashed = FALSE
      /\ raced = [m \in Manager |-> {}]
      /\ disk \in {[f \in S |-> 0] : S \in SUBSET Path}
  BY DEF Init
<1>8. disk \in Times /\ \A f \in DOMAIN disk : disk[f] = 0
  BY <1>7 DEF Times
<1>9. StateType
  <2>1. mgr \in [Manager -> RepoManager]
    BY <1>3, <1>4, InitialValues
  <2>2. QED
    BY <1>1, <1>5, <1>7, <1>8, <2>1 DEF StateType
<1>10. MadeInOrder
  BY <1>5, <1>6, <1>7 DEF MadeInOrder, Made
<1>11. OldIsKept /\ TakesAlike
  BY <1>6 DEF OldIsKept, TakesAlike
<1>12. InUse
  BY <1>5, <1>6, <1>7 DEF InUse
<1>13. AsConfigured
  BY <1>6 DEF AsConfigured
<1>14. Fresh
  BY <1>6, <1>7, <1>8 DEF Fresh
<1>15. QED
  BY <1>9, <1>10, <1>11, <1>12, <1>13, <1>14 DEF Inv

-------------------------------------------------------------------------------
LEMMA PointersStay ==
  ASSUME Inv, UNCHANGED <<current, owner>>,
         \A n \in Manager : mgr'[n].pc = mgr[n].pc /\ mgr'[n].old = mgr[n].old
  PROVE  MadeInOrder' /\ OldIsKept' /\ InUse'
<1>1. StateType /\ MadeInOrder /\ OldIsKept /\ InUse
  BY DEF Inv
<1>2. MadeInOrder'
  BY <1>1 DEF MadeInOrder, Made, StateType
<1>3. OldIsKept'
  BY <1>1 DEF OldIsKept, StateType, RepoManager
<1>4. InUse'
  BY <1>1 DEF InUse, MadeInOrder, StateType
<1>5. QED
  BY <1>2, <1>3, <1>4

(* A step of task t of manager m: the rest of the manager stays, but for   *)
(* the models, which may get the one the task has.                         *)
InTask(m, t) ==
  /\ mgr' \in [Manager -> RepoManager]
  /\ \A n \in Manager : /\ mgr'[n].pc = mgr[n].pc /\ mgr'[n].conf = mgr[n].conf
                        /\ mgr'[n].old = mgr[n].old /\ mgr'[n].seen = mgr[n].seen
                        /\ n # m => mgr'[n].models = mgr[n].models
                        /\ \A u \in TaskId : n # m \/ u # t => mgr'[n].task[u] = mgr[n].task[u]
  /\ UNCHANGED <<disk, changes, file, current, owner, raced>>
  /\ crashed' \in BOOLEAN

LEMMA TaskStep ==
  ASSUME Inv, NEW m \in Manager, NEW t \in TaskId, mgr[m].pc = "running", InTask(m, t),
         \A o \in DOMAIN mgr'[m].models :
           \/ o \in DOMAIN mgr[m].models /\ mgr'[m].models[o] = mgr[m].models[o]
           \/ /\ mgr[m].task[t].pc = "add"
              /\ o = mgr[m].task[t].model.origin /\ mgr'[m].models[o] = mgr[m].task[t].model,
         mgr'[m].task[t].try_old_repo /\ mgr[m].old # None =>
           SameSettings(mgr[mgr[m].old].conf, mgr[m].conf),
         mgr'[m].task[t].pc # "idle" => \A f \in mgr'[m].task[t].files : Known(m, f),
         mgr'[m].task[t].pc = "add" =>
           /\ mgr'[m].task[t].model.made = SettingsOf(mgr[m].conf)
           /\ Origin(mgr'[m].task[t].model) /\ UpToDate(m, mgr'[m].task[t].model)
  PROVE  Inv'
<1>1. StateType /\ MadeInOrder /\ OldIsKept /\ InUse /\ TakesAlike /\ AsConfigured /\ Fresh
  BY DEF Inv
<1>2. StateType'
  BY <1>1 DEF StateType, InTask
<1>3. /\ \A n \in Manager : mgr'[n].pc = mgr[n].pc /\ mgr'[n].old = mgr[n].old
      /\ UNCHANGED <<current, owner>>
  BY DEF InTask
<1>4. MadeInOrder' /\ OldIsKept' /\ InUse'
  BY <1>3, PointersStay
<1>5. TakesAlike'
  <2> SUFFICES ASSUME NEW n \in Manager, NEW u \in TaskId,
                      mgr'[n].task[u].try_old_repo, mgr'[n].old # None
               PROVE  SameSettings(mgr'[mgr'[n].old].conf, mgr'[n].conf)
    BY DEF TakesAlike
  <2>1. mgr'[n].old = mgr[n].old /\ mgr[n].old \in Manager
    BY <1>1 DEF InTask, StateType, RepoManager
  <2>2. mgr'[n].conf = mgr[n].conf /\ mgr'[mgr[n].old].conf = mgr[mgr[n].old].conf
    BY <2>1 DEF InTask
  <2>3. SameSettings(mgr[mgr[n].old].conf, mgr[n].conf)
    <3>1. CASE n = m /\ u = t
      BY <3>1, <2>1
    <3>2. CASE n # m \/ u # t
      BY <3>2, <2>1, <1>1 DEF InTask, TakesAlike
    <3>3. QED
      BY <3>1, <3>2
  <2>4. QED
    BY <2>1, <2>2, <2>3
<1>6. AsConfigured'
  <2> SUFFICES ASSUME NEW n \in Manager
               PROVE  /\ \A o \in DOMAIN mgr'[n].models :
                           mgr'[n].models[o].made = SettingsOf(mgr'[n].conf)
                      /\ mgr'[n].pc = "running" =>
                           \A u \in TaskId : mgr'[n].task[u].pc = "add" =>
                              mgr'[n].task[u].model.made = SettingsOf(mgr'[n].conf)
    BY DEF AsConfigured
  <2>1. mgr'[n].conf = mgr[n].conf /\ mgr'[n].pc = mgr[n].pc
    BY DEF InTask
  <2>2. ASSUME NEW o \in DOMAIN mgr'[n].models
        PROVE  mgr'[n].models[o].made = SettingsOf(mgr[n].conf)
    BY <1>1, <2>2 DEF InTask, AsConfigured
  <2>3. ASSUME NEW u \in TaskId, mgr[n].pc = "running", mgr'[n].task[u].pc = "add"
        PROVE  mgr'[n].task[u].model.made = SettingsOf(mgr[n].conf)
    BY <1>1, <2>3 DEF InTask, AsConfigured
  <2>4. QED
    BY <2>1, <2>2, <2>3
<1>7. Fresh'
  <2>1. disk' = disk /\ changes' = changes /\ raced' = raced
    BY DEF InTask
  <2>2. \A n \in Manager : mgr'[n].seen = mgr[n].seen /\ mgr'[n].pc = mgr[n].pc
    BY DEF InTask
  <2>3. \A n \in Manager : \A f : Known(n, f) => Known(n, f)'
    BY <2>1, <2>2 DEF Known
  <2>4. \A n \in Manager : \A model : UpToDate(n, model) =>
          \/ model.late
          \/ model.path \in raced'[n]
          \/ /\ model.path \in DOMAIN mgr'[n].seen
             /\ model.path \in DOMAIN disk' /\ disk'[model.path] = mgr'[n].seen[model.path]
                  => model.modtime = disk'[model.path]
    BY <2>1, <2>2 DEF UpToDate
  <2>5. ASSUME NEW n \in Manager, NEW o \in DOMAIN mgr'[n].models
        PROVE  /\ mgr'[n].models[o].origin = o
               /\ Origin(mgr'[n].models[o]) /\ UpToDate(n, mgr'[n].models[o])
    BY <1>1, <2>5 DEF InTask, Fresh
  <2>6. ASSUME NEW n \in Manager, NEW u \in TaskId, mgr[n].pc = "running"
        PROVE  /\ mgr'[n].task[u].pc # "idle" => \A f \in mgr'[n].task[u].files : Known(n, f)
               /\ mgr'[n].task[u].pc = "add" =>
                    Origin(mgr'[n].task[u].model) /\ UpToDate(n, mgr'[n].task[u].model)
    BY <1>1, <2>6 DEF InTask, Fresh
  <2>7. \A n \in Manager : \A f \in DOMAIN mgr'[n].seen : mgr'[n].seen[f] <= changes'
    BY <1>1, <2>1, <2>2 DEF Fresh
  <2>8. \A f \in DOMAIN disk' : disk'[f] <= changes'
    BY <1>1, <2>1 DEF Fresh
  <2>9. ASSUME NEW n \in Manager, NEW o \in DOMAIN mgr'[n].models
        PROVE  UpToDate(n, mgr[n].models[o])'
    BY <2>4, <2>5 DEF UpToDate
  <2>10. ASSUME NEW n \in Manager, NEW u \in TaskId, mgr[n].pc = "running",
                mgr'[n].task[u].pc = "add"
         PROVE  UpToDate(n, mgr[n].task[u].model)'
    BY <2>4, <2>6, <2>10 DEF UpToDate
  <2>11. \A model : Origin(model)' <=> Origin(model)
    BY DEF Origin
  <2>12. QED
    BY <2>2, <2>3, <2>5, <2>6, <2>7, <2>8, <2>9, <2>10, <2>11, Zenon DEF Fresh
<1>8. QED
  BY <1>2, <1>4, <1>5, <1>6, <1>7 DEF Inv

-------------------------------------------------------------------------------
(* A manager and a task with one field changed.                            *)
LEMMA TaskTypes ==
  ASSUME NEW x \in Task
  PROVE  /\ \A v \in {"idle", "start", "next", "add"} : [x EXCEPT !.pc = v] \in Task
         /\ \A v \in SUBSET Path : [x EXCEPT !.files = v] \in Task
         /\ \A v \in BOOLEAN : [x EXCEPT !.try_old_repo = v] \in Task
         /\ \A v \in Nat : [x EXCEPT !.loads = v] \in Task
         /\ \A v \in MadeModel : [x EXCEPT !.model = v] \in Task
BY DEF Task

WithTask(x, t, v) == [x EXCEPT !.task[t] = v]

WithModels(x, v) == [x EXCEPT !.models = v]

LEMMA PutTask ==
  ASSUME NEW x \in RepoManager, NEW t \in TaskId, NEW v \in Task
  PROVE  /\ WithTask(x, t, v) \in RepoManager
         /\ WithTask(x, t, v).pc = x.pc /\ WithTask(x, t, v).conf = x.conf
         /\ WithTask(x, t, v).old = x.old /\ WithTask(x, t, v).seen = x.seen
         /\ WithTask(x, t, v).models = x.models /\ WithTask(x, t, v).task[t] = v
         /\ \A u \in TaskId \ {t} : WithTask(x, t, v).task[u] = x.task[u]
BY DEF RepoManager, WithTask

LEMMA PutModels ==
  ASSUME NEW x \in RepoManager, NEW v \in Models
  PROVE  /\ WithModels(x, v) \in RepoManager /\ WithModels(x, v).models = v
         /\ WithModels(x, v).pc = x.pc /\ WithModels(x, v).conf = x.conf
         /\ WithModels(x, v).old = x.old /\ WithModels(x, v).seen = x.seen
         /\ WithModels(x, v).task = x.task
BY DEF RepoManager, WithModels

(* Steps of a task that put it, and maybe models, in place.                *)
Puts(m, y) == mgr' = [mgr EXCEPT ![m] = y]

LEMMA PutsInTask ==
  ASSUME StateType, NEW m \in Manager, NEW t \in TaskId, NEW task \in Task, NEW models \in Models,
         \/ Puts(m, WithTask(mgr[m], t, task)) /\ models = mgr[m].models
         \/ Puts(m, WithTask(WithModels(mgr[m], models), t, task)),
         disk' = disk, changes' = changes, file' = file, current' = current, owner' = owner,
         raced' = raced, crashed' \in BOOLEAN
  PROVE  InTask(m, t) /\ mgr'[m].models = models /\ mgr'[m].task[t] = task
<1>1. mgr[m] \in RepoManager
  BY DEF StateType
<1>2. PICK y \in RepoManager :
        /\ Puts(m, y)
        /\ y.pc = mgr[m].pc /\ y.conf = mgr[m].conf /\ y.old = mgr[m].old
        /\ y.seen = mgr[m].seen /\ y.models = models /\ y.task[t] = task
        /\ \A u \in TaskId \ {t} : y.task[u] = mgr[m].task[u]
  <2>1. CASE Puts(m, WithTask(mgr[m], t, task)) /\ models = mgr[m].models
    BY <1>1, <2>1, PutTask
  <2>2. CASE Puts(m, WithTask(WithModels(mgr[m], models), t, task))
    <3> DEFINE x == WithModels(mgr[m], models)
    <3>1. /\ x \in RepoManager /\ x.models = models
          /\ x.pc = mgr[m].pc /\ x.conf = mgr[m].conf
          /\ x.old = mgr[m].old /\ x.seen = mgr[m].seen /\ x.task = mgr[m].task
      BY <1>1, PutModels
    <3>2. Puts(m, WithTask(x, t, task))
      BY <2>2
    <3> HIDE DEF x
    <3>3. QED
      BY <3>1, <3>2, PutTask
  <2>3. QED
    BY <2>1, <2>2
<1>3. /\ mgr' \in [Manager -> RepoManager]
      /\ mgr'[m] = y /\ \A n \in Manager \ {m} : mgr'[n] = mgr[n]
  BY <1>2 DEF Puts, StateType
<1>4. QED
  BY <1>2, <1>3 DEF InTask

LEMMA LoadStartStep ==
  ASSUME Inv, NEW m \in Manager, NEW t \in TaskId, LoadStart(m, t)
  PROVE  Inv'
<1> DEFINE same == mgr[m].old # None /\ SameSettings(mgr[mgr[m].old].conf, mgr[m].conf)
           task == [mgr[m].task[t] EXCEPT !.pc = "next", !.try_old_repo = same]
<1>1. StateType /\ Fresh
  BY DEF Inv
<1>2. same \in BOOLEAN
  BY Zenon
<1>3. /\ Puts(m, WithTask(mgr[m], t, task))
      /\ UNCHANGED <<disk, changes, file, current, owner, crashed, raced>>
  BY DEF LoadStart, Puts, WithTask
<1>4. mgr[m].task[t] \in Task /\ mgr[m].models \in Models /\ crashed' \in BOOLEAN
  BY <1>1, <1>3 DEF StateType, RepoManager
<1>5. (same => SameSettings(mgr[mgr[m].old].conf, mgr[m].conf))
  OBVIOUS
<1> HIDE DEF same
<1>6. /\ task \in Task /\ task.pc = "next" /\ task.try_old_repo = same
      /\ task.files = mgr[m].task[t].files
  BY <1>2, <1>4 DEF Task
<1> HIDE DEF task
<1>7. InTask(m, t) /\ mgr'[m].models = mgr[m].models /\ mgr'[m].task[t] = task
  BY <1>1, <1>3, <1>4, <1>6, PutsInTask
<1>8. mgr[m].pc = "running" /\ mgr[m].task[t].pc = "start"
  BY DEF LoadStart, Alive
<1>9. \A f \in mgr[m].task[t].files : Known(m, f)
  BY <1>1, <1>8 DEF Fresh
<1>10. QED
  BY <1>5, <1>6, <1>7, <1>8, <1>9, TaskStep

(* What the next file is: one of the files of the task.                    *)
LEMMA NextFileFact ==
  ASSUME StateType, NEW m \in Manager, NEW t \in TaskId, mgr[m].task[t].files # {}
  PROVE  NextFile(m, t) \in mgr[m].task[t].files
<1> DEFINE F == mgr[m].task[t].files
<1>1. F \in SUBSET Path
  BY DEF StateType, RepoManager, Task
<1>2. F \in SUBSET Nat /\ IsFiniteSet(F)
  BY <1>1, HandoverAssumption, FS_Subset
<1>3. \E f \in F : \A g \in F : g <= f
  <2> HIDE DEF F
  <2>1. F # {}
    BY DEF F
  <2>2. QED
    BY <1>2, <2>1, GreatestElement
<1>4. QED
  BY <1>3, Zenon DEF NextFile

(* What a task knows that may take one more file.                          *)
LEMMA ContinuesFacts ==
  ASSUME Inv, NEW m \in Manager, NEW t \in TaskId, Continues(m, t)
  PROVE  /\ mgr[m].pc = "running" /\ mgr[m] \in RepoManager
         /\ mgr[m].task[t] \in Task /\ mgr[m].task[t].pc = "next"
         /\ mgr[m].models \in Models /\ mgr[m].conf \in Conf
         /\ NextFile(m, t) \in mgr[m].task[t].files /\ NextFile(m, t) \in Path
         /\ \A f \in mgr[m].task[t].files : Known(m, f)
         /\ mgr[m].task[t].try_old_repo /\ mgr[m].old # None =>
              SameSettings(mgr[mgr[m].old].conf, mgr[m].conf)
<1>1. StateType /\ Fresh /\ TakesAlike
  BY DEF Inv
<1>2. /\ mgr[m].pc = "running" /\ mgr[m].task[t].pc = "next" /\ mgr[m].task[t].files # {}
  BY DEF Continues, Alive
<1>3. mgr[m] \in RepoManager
  BY <1>1 DEF StateType
<1>4. mgr[m].task[t] \in Task /\ mgr[m].models \in Models /\ mgr[m].conf \in Conf
  BY <1>3 DEF RepoManager
<1>5. NextFile(m, t) \in mgr[m].task[t].files
  BY <1>1, <1>2, NextFileFact
<1>6. mgr[m].task[t].files \subseteq Path
  BY <1>4 DEF Task
<1>7. \A f \in mgr[m].task[t].files : Known(m, f)
  BY <1>1, <1>2 DEF Fresh
<1>8. QED
  BY <1>1, <1>2, <1>3, <1>4, <1>5, <1>6, <1>7 DEF TakesAlike

(* The step to "add", with a model that is as it should be.                *)
LEMMA TakeStep ==
  ASSUME Inv, NEW m \in Manager, NEW t \in TaskId, Continues(m, t), NEW model \in MadeModel,
         Take(m, t, model),
         UNCHANGED <<disk, changes, file, current, owner, crashed, raced>>,
         model.made = SettingsOf(mgr[m].conf), Origin(model), UpToDate(m, model)
  PROVE  Inv'
<1> DEFINE task == [mgr[m].task[t] EXCEPT !.pc = "add", !.model = model,
                      !.files = mgr[m].task[t].files \ {NextFile(m, t)}]
<1>1. StateType /\ Fresh /\ TakesAlike
  BY DEF Inv
<1>2. Puts(m, WithTask(mgr[m], t, task))
  BY DEF Take, Puts, WithTask
<1>3. /\ task \in Task /\ task.pc = "add" /\ task.model = model
      /\ task.try_old_repo = mgr[m].task[t].try_old_repo
      /\ task.files \subseteq mgr[m].task[t].files
  <2>1. mgr[m].task[t] \in Task
    BY ContinuesFacts
  <2>2. QED
    BY <2>1 DEF Task
<1> HIDE DEF task
<1>4. crashed' \in BOOLEAN
  BY <1>1 DEF StateType
<1>5. InTask(m, t) /\ mgr'[m].models = mgr[m].models /\ mgr'[m].task[t] = task
  BY <1>1, <1>2, <1>3, <1>4, ContinuesFacts, PutsInTask
<1>6. /\ mgr[m].pc = "running"
      /\ \A f \in task.files : Known(m, f)
      /\ task.try_old_repo /\ mgr[m].old # None =>
           SameSettings(mgr[mgr[m].old].conf, mgr[m].conf)
  BY <1>3, ContinuesFacts
<1>7. QED
  BY <1>3, <1>5, <1>6, TaskStep

LEMMA LoadReuseStep ==
  ASSUME Inv, NEW m \in Manager, NEW t \in TaskId, LoadReuse(m, t)
  PROVE  Inv'
<1>1. StateType /\ AsConfigured /\ Fresh
  BY DEF Inv
<1>2. Continues(m, t) /\ ~OldManagerGone(m, t)
  BY DEF LoadReuse
<1>3. PICK taken \in InOldManager(m, t) :
        Take(m, t, [taken EXCEPT !.late = Changed(taken)])
  BY DEF LoadReuse
<1> DEFINE old == mgr[m].old
           model == [taken EXCEPT !.late = Changed(taken)]
<1>4. /\ mgr[m].task[t].try_old_repo /\ old # None /\ old \in Manager
      /\ taken \in GetModel(mgr[old].models, NextFile(m, t))
  BY <1>1, <1>2, <1>3 DEF InOldManager, OldManagerGone, StateType, RepoManager
<1>5. PICK o \in DOMAIN mgr[old].models : /\ taken = mgr[old].models[o]
                                          /\ taken.path = NextFile(m, t)
  BY <1>4 DEF GetModel, FirstWithPath
<1>6. mgr[old].models \in Models /\ taken \in MadeModel
  <2>1. mgr[old] \in RepoManager
    BY <1>1, <1>4 DEF StateType
  <2>2. mgr[old].models \in Models
    BY <2>1 DEF RepoManager
  <2>3. QED
    BY <1>5, <2>2 DEF Models
<1>7. taken.made = SettingsOf(mgr[m].conf)
  <2>1. SameSettings(mgr[old].conf, mgr[m].conf)
    BY <1>2, <1>4, ContinuesFacts
  <2>2. taken.made = SettingsOf(mgr[old].conf)
    BY <1>1, <1>4, <1>5 DEF AsConfigured
  <2>3. QED
    BY <2>1, <2>2, MadeAlike
<1>8. Origin(taken)
  BY <1>1, <1>4, <1>5 DEF Fresh
<1>9. Changed(taken) \in BOOLEAN
  BY Zenon DEF Changed
<1>10. /\ model \in MadeModel /\ model.late = Changed(taken)
       /\ model.path = taken.path /\ model.origin = taken.origin
       /\ model.modtime = taken.modtime /\ model.made = taken.made
  BY <1>6, <1>9 DEF MadeModel
<1>11. Take(m, t, model)
  BY <1>3
<1> HIDE DEF model
<1>12. Origin(model) /\ model.made = SettingsOf(mgr[m].conf)
  BY <1>7, <1>8, <1>10 DEF Origin
<1>13. UpToDate(m, model)
  <2>1. Known(m, model.path)
    BY <1>2, <1>5, <1>10, ContinuesFacts
  <2>2. CASE model.path \in raced[m]
    BY <2>2 DEF UpToDate
  <2>3. CASE model.path \in DOMAIN mgr[m].seen
    BY <2>3, <1>10 DEF UpToDate, Changed
  <2>4. QED
    BY <2>1, <2>2, <2>3 DEF Known
<1>14. UNCHANGED <<disk, changes, file, current, owner, crashed, raced>>
  BY DEF LoadReuse
<1>15. QED
  BY <1>2, <1>10, <1>11, <1>12, <1>13, <1>14, TakeStep

LEMMA LoadReadStep ==
  ASSUME Inv, NEW m \in Manager, NEW t \in TaskId, LoadRead(m, t)
  PROVE  Inv'
<1> DEFINE f == NextFile(m, t)
<1>1. StateType /\ Fresh
  BY DEF Inv
<1>2. /\ Continues(m, t)
      /\ UNCHANGED <<disk, changes, file, current, owner, crashed, raced>>
  BY DEF LoadRead
<1>3. /\ mgr[m].task[t] \in Task /\ mgr[m] \in RepoManager /\ mgr[m].pc = "running"
      /\ mgr[m].task[t].pc = "next" /\ f \in Path /\ f \in Nat
      /\ Known(m, f) /\ mgr[m].models \in Models /\ mgr[m].conf \in Conf
  BY <1>2, ContinuesFacts, HandoverAssumption
<1>4. CASE /\ f \in DOMAIN disk
           /\ Take(m, t, [path |-> f, origin |-> OriginOf[f], modtime |-> disk[f],
                          made |-> SettingsOf(mgr[m].conf), late |-> FALSE])
  <2> DEFINE model == [path |-> f, origin |-> OriginOf[f], modtime |-> disk[f],
                       made |-> SettingsOf(mgr[m].conf), late |-> FALSE]
  <2>1. disk[f] \in Nat /\ OriginOf[f] \in Nat
    BY <1>1, <1>3, <1>4, HandoverAssumption DEF StateType, Times
  <2> HIDE DEF f
  <2>2. /\ model \in MadeModel /\ model.path = f /\ model.origin = OriginOf[f]
        /\ model.made = SettingsOf(mgr[m].conf) /\ model.modtime = disk[f]
    BY <1>3, <2>1 DEF MadeModel
  <2>3. Take(m, t, model)
    BY <1>4 DEF f
  <2> HIDE DEF model
  <2>4. Origin(model) /\ UpToDate(m, model)
    BY <1>3, <2>2 DEF Origin, UpToDate, Known
  <2>5. QED
    BY <1>2, <2>2, <2>3, <2>4, TakeStep
<1>5. CASE mgr' = [mgr EXCEPT ![m].task[t].files = @ \ {f}]
  <2> HIDE DEF f
  <2> DEFINE task == [mgr[m].task[t] EXCEPT !.files = @ \ {f}]
  <2>1. Puts(m, WithTask(mgr[m], t, task))
    BY <1>5 DEF Puts, WithTask
  <2>2. /\ task \in Task /\ task.pc = "next"
        /\ task.try_old_repo = mgr[m].task[t].try_old_repo
        /\ task.files \subseteq mgr[m].task[t].files
    BY <1>3 DEF Task
  <2> HIDE DEF task
  <2>3. crashed' \in BOOLEAN
    BY <1>1, <1>2 DEF StateType
  <2>4. InTask(m, t) /\ mgr'[m].models = mgr[m].models /\ mgr'[m].task[t] = task
    BY <1>1, <1>2, <1>3, <2>1, <2>2, <2>3, PutsInTask
  <2>5. /\ \A g \in task.files : Known(m, g)
        /\ task.try_old_repo /\ mgr[m].old # None =>
             SameSettings(mgr[mgr[m].old].conf, mgr[m].conf)
    BY <1>2, <2>2, ContinuesFacts
  <2>6. QED
    BY <1>3, <2>2, <2>4, <2>5, TaskStep
<1>6. QED
  BY <1>4, <1>5 DEF LoadRead

LEMMA LoadAddStep ==
  ASSUME Inv, NEW m \in Manager, NEW t \in TaskId, LoadAdd(m, t)
  PROVE  Inv'
<1> DEFINE own == mgr[m].task[t]
           models == Resize(Add(mgr[m].models, own.model), mgr[m].conf.number_to_keep)
           task == [own EXCEPT !.pc = "next", !.loads = @ + 1, !.model = NoModel]
<1>1. StateType /\ Fresh /\ TakesAlike
  BY DEF Inv
<1>2. /\ mgr[m].pc = "running" /\ own.pc = "add"
      /\ UNCHANGED <<disk, changes, file, current, owner, crashed, raced>>
  BY DEF LoadAdd, Alive
<1>3. mgr[m] \in RepoManager /\ own \in Task /\ mgr[m].models \in Models /\ crashed' \in BOOLEAN
  BY <1>1, <1>2 DEF StateType, RepoManager
<1>4. Puts(m, WithTask(WithModels(mgr[m], models), t, task))
  BY <1>3 DEF LoadAdd, Puts, WithTask, WithModels, RepoManager
<1> HIDE DEF own
<1>5. /\ task \in Task /\ task.pc = "next" /\ task.files = own.files
      /\ task.try_old_repo = own.try_old_repo
  <2>1. own.loads + 1 \in Nat /\ NoModel \in MadeModel
    BY <1>3, InitialValues DEF Task
  <2>2. QED
    BY <1>3, <2>1 DEF Task
<1>6. own.model \in MadeModel
  BY <1>3 DEF Task
<1> HIDE DEF task
<1>7. /\ models \in Models
      /\ \A o \in DOMAIN models : \/ o \in DOMAIN mgr[m].models /\ models[o] = mgr[m].models[o]
                                  \/ o = own.model.origin /\ models[o] = own.model
  BY <1>3, <1>6, AddResizeKeeps
<1> HIDE DEF models
<1>8. InTask(m, t) /\ mgr'[m].models = models /\ mgr'[m].task[t] = task
  BY <1>1, <1>2, <1>3, <1>4, <1>5, <1>7, PutsInTask
<1>9. /\ \A f \in own.files : Known(m, f)
      /\ own.try_old_repo /\ mgr[m].old # None =>
           SameSettings(mgr[mgr[m].old].conf, mgr[m].conf)
  BY <1>1, <1>2 DEF Fresh, TakesAlike, own
<1>10. QED
  BY <1>2, <1>5, <1>7, <1>8, <1>9, TaskStep DEF own

LEMMA LoadEndsStep ==
  ASSUME Inv, NEW m \in Manager, NEW t \in TaskId, LoadEnds(m, t)
  PROVE  Inv'
<1>1. StateType
  BY DEF Inv
<1>2. /\ Puts(m, WithTask(mgr[m], t, IdleTask)) /\ mgr[m].pc = "running"
      /\ UNCHANGED <<disk, changes, file, current, owner, crashed, raced>>
  BY DEF LoadEnds, Alive, Puts, WithTask
<1>3. mgr[m].models \in Models /\ crashed' \in BOOLEAN
  BY <1>1, <1>2 DEF StateType, RepoManager
<1>4. InTask(m, t) /\ mgr'[m].models = mgr[m].models /\ mgr'[m].task[t] = IdleTask
  BY <1>1, <1>2, <1>3, InitialValues, PutsInTask
<1>5. IdleTask.pc = "idle" /\ ~IdleTask.try_old_repo
  BY DEF IdleTask
<1>6. QED
  BY <1>2, <1>4, <1>5, TaskStep

(* While the files and the managers stay, so does what is known of models. *)
LEMMA ModelsStay ==
  ASSUME TakesAlike, AsConfigured, Fresh, UNCHANGED <<disk, changes, mgr, raced>>
  PROVE  TakesAlike' /\ AsConfigured' /\ Fresh'
<1>1. disk' = disk /\ changes' = changes /\ mgr' = mgr /\ raced' = raced
  OBVIOUS
<1>2. TakesAlike' /\ AsConfigured'
  BY <1>1 DEF TakesAlike, AsConfigured
<1>3. /\ \A m, f : Known(m, f) => Known(m, f)'
      /\ \A x : Origin(x) => Origin(x)'
      /\ \A m, x : UpToDate(m, x) => UpToDate(m, x)'
  BY <1>1 DEF UpToDate, Origin, Known
<1>4. Fresh'
  BY <1>1, <1>3 DEF Fresh
<1>5. QED
  BY <1>2, <1>4

LEMMA LoadCrashesStep ==
  ASSUME Inv, NEW m \in Manager, NEW t \in TaskId, LoadCrashes(m, t)
  PROVE  Inv'
<1>1. StateType /\ AsConfigured /\ Fresh /\ TakesAlike
  BY DEF Inv
<1>2. UNCHANGED <<disk, changes, file, mgr, current, owner, raced>> /\ crashed' = TRUE
  BY DEF LoadCrashes
<1>3. StateType'
  BY <1>1, <1>2 DEF StateType
<1>4. MadeInOrder' /\ OldIsKept' /\ InUse'
  BY <1>2, PointersStay
<1>5. TakesAlike' /\ AsConfigured' /\ Fresh'
  BY <1>1, <1>2, ModelsStay
<1>6. QED
  BY <1>3, <1>4, <1>5 DEF Inv

LEMMA LoadSteps ==
  ASSUME Inv, NEW m \in Manager, NEW t \in TaskId, LoadStep(m, t)
  PROVE  Inv'
BY LoadStartStep, LoadCrashesStep, LoadReuseStep, LoadReadStep, LoadAddStep, LoadEndsStep
   DEF LoadStep

-------------------------------------------------------------------------------
(* Files come and go.  A file that changes gets a time no manager has seen *)
(* yet, so a model can only be in doubt while its file is.                 *)
LEMMA DiskStep ==
  ASSUME Inv, UNCHANGED <<file, mgr, current, owner, crashed, raced>>,
         changes' = changes + 1, disk' \in Times,
         \A f \in DOMAIN disk' : \/ f \in DOMAIN disk /\ disk'[f] = disk[f]
                                 \/ disk'[f] = changes + 1
  PROVE  Inv'
<1>1. StateType /\ Fresh /\ TakesAlike /\ AsConfigured
  BY DEF Inv
<1>2. changes \in Nat /\ changes' = changes + 1
  BY <1>1 DEF StateType
<1>3. StateType'
  BY <1>1, <1>2 DEF StateType
<1>4. MadeInOrder' /\ OldIsKept' /\ InUse'
  BY PointersStay
<1>5. TakesAlike' /\ AsConfigured'
  BY <1>1 DEF TakesAlike, AsConfigured
<1>6. \A f \in DOMAIN disk' : disk'[f] <= changes'
  BY <1>1, <1>2 DEF Fresh, StateType, Times
<1>7. ASSUME NEW m \in Manager, NEW f \in DOMAIN mgr[m].seen
      PROVE  mgr[m].seen[f] \in Nat /\ mgr[m].seen[f] <= changes
  BY <1>1 DEF StateType, RepoManager, Times, Fresh
<1>8. ASSUME NEW m \in Manager, NEW model, UpToDate(m, model)
      PROVE  \/ model.late
             \/ model.path \in raced[m]
             \/ /\ model.path \in DOMAIN mgr[m].seen
                /\ model.path \in DOMAIN disk' /\ disk'[model.path] = mgr[m].seen[model.path]
                     => model.modtime = disk'[model.path]
  <2>1. CASE model.path \in DOMAIN mgr[m].seen
    <3>1. mgr[m].seen[model.path] # changes + 1
      BY <1>2, <1>7, <2>1
    <3>2. model.path \in DOMAIN disk' /\ disk'[model.path] = mgr[m].seen[model.path] =>
            model.path \in DOMAIN disk /\ disk'[model.path] = disk[model.path]
      BY <3>1
    <3>3. QED
      BY <1>8, <2>1, <3>2 DEF UpToDate
  <2>2. CASE model.path \notin DOMAIN mgr[m].seen
    BY <1>8, <2>2 DEF UpToDate
  <2>3. QED
    BY <2>1, <2>2
<1>9. Fresh'
  <2>1. \A m \in Manager : \A f \in DOMAIN mgr[m].seen : mgr[m].seen[f] <= changes'
    BY <1>2, <1>7
  <2>2. \A m \in Manager : \A f : Known(m, f) => Known(m, f)'
    BY DEF Known
  <2>3. \A model : Origin(model)' <=> Origin(model)
    BY DEF Origin
  <2>4. /\ mgr' = mgr
        /\ \A m \in Manager : \A o \in DOMAIN mgr[m].models : UpToDate(m, mgr[m].models[o])'
        /\ \A m \in Manager : mgr[m].pc = "running" => \A t \in TaskId :
             mgr[m].task[t].pc = "add" => UpToDate(m, mgr[m].task[t].model)'
    BY <1>1, <1>8 DEF Fresh, UpToDate
  <2>5. QED
    BY <1>1, <1>6, <2>1, <2>2, <2>3, <2>4, Zenon DEF Fresh
<1>10. QED
  BY <1>3, <1>4, <1>5, <1>9 DEF Inv

LEMMA FileSteps ==
  ASSUME Inv, NEW f \in Path, WriteFile(f) \/ DeleteFile(f)
  PROVE  Inv'
<1>1. disk \in Times /\ changes \in Nat
  BY DEF Inv, StateType
<1>2. CASE WriteFile(f)
  <2>1. /\ disk' \in Times
        /\ \A g \in DOMAIN disk' : \/ g \in DOMAIN disk /\ disk'[g] = disk[g]
                                   \/ disk'[g] = changes + 1
    BY <1>1, <1>2 DEF WriteFile, Times
  <2>2. QED
    BY <1>2, <2>1, DiskStep DEF WriteFile
<1>3. CASE DeleteFile(f)
  <2>1. disk' = [g \in DOMAIN disk \ {f} |-> disk[g]]
    BY <1>3 DEF DeleteFile, Restrict
  <2>2. /\ disk' \in Times
        /\ \A g \in DOMAIN disk' : g \in DOMAIN disk /\ disk'[g] = disk[g]
    BY <1>1, <2>1 DEF Times
  <2>3. QED
    BY <1>3, <2>2, DiskStep DEF DeleteFile
<1>4. QED
  BY <1>2, <1>3

LEMMA EditConfigStep ==
  ASSUME Inv, NEW g \in Group, EditConfig(g)
  PROVE  Inv'
<1>1. StateType /\ AsConfigured /\ Fresh /\ TakesAlike
  BY DEF Inv
<1>2. /\ UNCHANGED <<disk, changes, mgr, current, owner, crashed, raced>>
      /\ file' = [group |-> g, read |-> FALSE]
  BY DEF EditConfig
<1>3. StateType'
  BY <1>1, <1>2 DEF StateType
<1>4. MadeInOrder' /\ OldIsKept' /\ InUse'
  BY <1>2, PointersStay
<1>5. TakesAlike' /\ AsConfigured' /\ Fresh'
  BY <1>1, <1>2, ModelsStay
<1>6. QED
  BY <1>3, <1>4, <1>5 DEF Inv

-------------------------------------------------------------------------------
(* The monitor of a manager scans: what changed is removed and, unless the *)
(* removals throw, a task gets it.                                         *)
Scanned(m) ==
  [mgr[m] EXCEPT !.seen = disk, !.scanned = TRUE, !.models = RemoveAll(@, Removals(m))]

NewTask(m) == [IdleTask EXCEPT !.pc = "start", !.files = Additions(m)]

LEMMA UpdateFields ==
  ASSUME StateType, Fresh, NEW m \in Manager, Update(m)
  PROVE  /\ mgr' \in [Manager -> RepoManager]
         /\ \A n \in Manager \ {m} : mgr'[n] = mgr[n]
         /\ mgr'[m].pc = mgr[m].pc /\ mgr'[m].conf = mgr[m].conf /\ mgr'[m].old = mgr[m].old
         /\ mgr'[m].seen = disk
         /\ mgr'[m].models = RemoveAll(mgr[m].models, Removals(m))
         /\ \A t \in TaskId : \/ mgr'[m].task[t] = mgr[m].task[t]
                              \/ /\ mgr'[m].task[t].pc = "start" /\ ~mgr'[m].task[t].try_old_repo
                                 /\ mgr'[m].task[t].files = Additions(m)
<1> DEFINE kept == RemoveAll(mgr[m].models, Removals(m))
<1>1. mgr[m] \in RepoManager
  BY DEF StateType
<1>2. mgr[m].models \in Models /\ disk \in Times
  BY <1>1 DEF StateType, RepoManager
<1>3. kept \in Models
  BY <1>2, RemovesAllOf DEF Fresh
<1>4. Scanned(m) = [mgr[m] EXCEPT !.seen = disk, !.scanned = TRUE, !.models = kept]
  BY <1>1 DEF Scanned, RepoManager
<1> HIDE DEF kept
<1>5. /\ Scanned(m) \in RepoManager /\ Scanned(m).seen = disk /\ Scanned(m).models = kept
      /\ Scanned(m).pc = mgr[m].pc /\ Scanned(m).conf = mgr[m].conf
      /\ Scanned(m).old = mgr[m].old /\ Scanned(m).task = mgr[m].task
  BY <1>1, <1>2, <1>3, <1>4 DEF RepoManager
<1>6. /\ NewTask(m) \in Task /\ NewTask(m).pc = "start" /\ ~NewTask(m).try_old_repo
      /\ NewTask(m).files = Additions(m)
  <2>1. Additions(m) \subseteq Path
    BY <1>2 DEF Additions, Times
  <2>2. IdleTask \in Task /\ ~IdleTask.try_old_repo
    BY InitialValues DEF IdleTask
  <2>3. QED
    BY <2>1, <2>2 DEF NewTask, Task
<1>7. \/ Puts(m, Scanned(m))
      \/ \E t \in TaskId : Puts(m, WithTask(Scanned(m), t, NewTask(m)))
  BY Zenon DEF Update, Puts, WithTask, Scanned, NewTask
<1>8. PICK y \in RepoManager :
        /\ Puts(m, y)
        /\ y.pc = mgr[m].pc /\ y.conf = mgr[m].conf /\ y.old = mgr[m].old
        /\ y.seen = disk /\ y.models = kept
        /\ \A t \in TaskId : y.task[t] = mgr[m].task[t] \/ y.task[t] = NewTask(m)
  <2>1. CASE Puts(m, Scanned(m))
    BY <1>5, <2>1
  <2>2. ASSUME NEW t \in TaskId, Puts(m, WithTask(Scanned(m), t, NewTask(m)))
        PROVE  \E y \in RepoManager :
                 /\ Puts(m, y)
                 /\ y.pc = mgr[m].pc /\ y.conf = mgr[m].conf /\ y.old = mgr[m].old
                 /\ y.seen = disk /\ y.models = kept
                 /\ \A u \in TaskId : y.task[u] = mgr[m].task[u] \/ y.task[u] = NewTask(m)
    <3> DEFINE z == WithTask(Scanned(m), t, NewTask(m))
    <3>1. /\ z \in RepoManager /\ z.pc = mgr[m].pc /\ z.conf = mgr[m].conf /\ z.old = mgr[m].old
          /\ z.seen = disk /\ z.models = kept /\ z.task[t] = NewTask(m)
          /\ \A u \in TaskId \ {t} : z.task[u] = mgr[m].task[u]
      BY <1>5, <1>6, PutTask
    <3> HIDE DEF z
    <3>2. QED
      BY <2>2, <3>1 DEF z
  <2>3. QED
    BY <1>7, <2>1, <2>2
<1>9. mgr' = [mgr EXCEPT ![m] = y]
  BY <1>8 DEF Puts
<1>10. /\ mgr' \in [Manager -> RepoManager]
       /\ mgr'[m] = y /\ \A n \in Manager \ {m} : mgr'[n] = mgr[n]
  BY <1>9 DEF StateType
<1>11. QED
  BY <1>6, <1>8, <1>10 DEF kept

LEMMA UpdateStep ==
  ASSUME Inv, NEW m \in Manager, Update(m)
  PROVE  Inv'
<1>1. StateType /\ AsConfigured /\ Fresh /\ TakesAlike
  BY DEF Inv
<1>2. /\ mgr' \in [Manager -> RepoManager]
      /\ \A n \in Manager \ {m} : mgr'[n] = mgr[n]
      /\ mgr'[m].pc = mgr[m].pc /\ mgr'[m].conf = mgr[m].conf /\ mgr'[m].old = mgr[m].old
      /\ mgr'[m].seen = disk
      /\ mgr'[m].models = RemoveAll(mgr[m].models, Removals(m))
      /\ \A t \in TaskId : \/ mgr'[m].task[t] = mgr[m].task[t]
                           \/ /\ mgr'[m].task[t].pc = "start" /\ ~mgr'[m].task[t].try_old_repo
                              /\ mgr'[m].task[t].files = Additions(m)
  BY <1>1, UpdateFields
<1>3. /\ raced' = [raced EXCEPT ![m] = @ \cup {f \in Removals(m) : Holds(m, f)}]
      /\ UNCHANGED <<disk, changes, file, current, owner, crashed>>
      /\ mgr[m].pc = "running"
  BY DEF Update, Alive
<1>4. /\ mgr[m].models \in Models /\ mgr[m].seen \in Times /\ disk \in Times
      /\ raced \in [Manager -> SUBSET Path]
  <2>1. mgr[m] \in RepoManager
    BY <1>1 DEF StateType
  <2>2. QED
    BY <1>1, <2>1 DEF RepoManager, StateType
<1>5. /\ DOMAIN mgr'[m].models \subseteq DOMAIN mgr[m].models
      /\ \A o \in DOMAIN mgr'[m].models : /\ mgr'[m].models[o] = mgr[m].models[o]
                                          /\ mgr[m].models[o].path \notin Removals(m)
  BY <1>1, <1>2, <1>4, RemovesAllOf DEF Fresh
<1>6. /\ raced' \in [Manager -> SUBSET Path]
      /\ \A n \in Manager : raced[n] \subseteq raced'[n]
      /\ \A f \in Removals(m) : Holds(m, f) => f \in raced'[m]
  <2>1. Removals(m) \subseteq Path
    BY <1>4 DEF Removals, Times
  <2>2. QED
    BY <1>3, <1>4, <2>1
<1>7. StateType'
  BY <1>1, <1>2, <1>3, <1>6 DEF StateType
<1>8. \A n \in Manager : mgr'[n].pc = mgr[n].pc /\ mgr'[n].old = mgr[n].old
                         /\ mgr'[n].conf = mgr[n].conf
  BY <1>2
<1>9. MadeInOrder' /\ OldIsKept' /\ InUse'
  BY <1>3, <1>8, PointersStay
<1>10. TakesAlike'
  <2> SUFFICES ASSUME NEW n \in Manager, NEW t \in TaskId,
                      mgr'[n].task[t].try_old_repo, mgr'[n].old # None
               PROVE  SameSettings(mgr'[mgr'[n].old].conf, mgr'[n].conf)
    BY DEF TakesAlike
  <2>1. mgr'[n].task[t] = mgr[n].task[t]
    BY <1>2
  <2>2. mgr'[n].old = mgr[n].old /\ mgr[n].old \in Manager
    BY <1>1, <1>8 DEF StateType, RepoManager
  <2>3. mgr'[n].conf = mgr[n].conf /\ mgr'[mgr[n].old].conf = mgr[mgr[n].old].conf
    BY <1>8, <2>2
  <2>4. QED
    BY <1>1, <2>1, <2>2, <2>3 DEF TakesAlike
<1>11. AsConfigured'
  <2>1. ASSUME NEW n \in Manager, NEW o \in DOMAIN mgr'[n].models
        PROVE  mgr'[n].models[o].made = SettingsOf(mgr'[n].conf)
    BY <1>1, <1>2, <1>5, <1>8, <2>1 DEF AsConfigured
  <2>2. ASSUME NEW n \in Manager, mgr'[n].pc = "running", NEW t \in TaskId,
               mgr'[n].task[t].pc = "add"
        PROVE  mgr'[n].task[t].model.made = SettingsOf(mgr'[n].conf)
    BY <1>1, <1>2, <1>8, <2>2 DEF AsConfigured
  <2>3. QED
    BY <2>1, <2>2 DEF AsConfigured
<1>12. ASSUME NEW n \in Manager, n # m, NEW model, UpToDate(n, model)
       PROVE  \/ model.late
              \/ model.path \in raced'[n]
              \/ /\ model.path \in DOMAIN mgr'[n].seen
                 /\ model.path \in DOMAIN disk' /\ disk'[model.path] = mgr'[n].seen[model.path]
                      => model.modtime = disk'[model.path]
  BY <1>2, <1>3, <1>6, <1>12 DEF UpToDate
<1>13. ASSUME NEW model, UpToDate(m, model),
              model.path \in Removals(m) => Holds(m, model.path)
       PROVE  \/ model.late
              \/ model.path \in raced'[m]
              \/ /\ model.path \in DOMAIN mgr'[m].seen
                 /\ model.path \in DOMAIN disk' /\ disk'[model.path] = mgr'[m].seen[model.path]
                      => model.modtime = disk'[model.path]
  <2>1. CASE model.path \in Removals(m)
    BY <1>6, <1>13, <2>1
  <2>2. CASE model.path \notin Removals(m) /\ model.path \in DOMAIN mgr[m].seen
    <3>1. model.path \in DOMAIN disk /\ disk[model.path] = mgr[m].seen[model.path]
      BY <2>2 DEF Removals
    <3>2. QED
      BY <1>2, <1>3, <1>6, <1>13, <3>1 DEF UpToDate
  <2>3. CASE model.path \notin DOMAIN mgr[m].seen
    BY <1>6, <1>13, <2>3 DEF UpToDate
  <2>4. QED
    BY <2>1, <2>2, <2>3
<1>14. ASSUME NEW t \in TaskId, mgr[m].task[t].pc # "idle", NEW f \in mgr[m].task[t].files,
              Known(m, f)
       PROVE  f \in DOMAIN mgr'[m].seen \/ f \in raced'[m]
  <2>1. Holds(m, f)
    BY <1>14 DEF Holds, Running
  <2>2. f \in DOMAIN mgr[m].seen /\ f \notin DOMAIN disk => f \in Removals(m)
    BY DEF Removals
  <2>3. QED
    BY <1>2, <1>6, <1>14, <2>1, <2>2 DEF Known
<1>15. Fresh'
  <2>1. \A f \in DOMAIN disk' : disk'[f] <= changes'
    BY <1>1, <1>3 DEF Fresh
  <2>2. \A n \in Manager : \A f \in DOMAIN mgr'[n].seen : mgr'[n].seen[f] <= changes'
    BY <1>1, <1>2, <1>3 DEF Fresh
  <2>3. ASSUME NEW n \in Manager, NEW o \in DOMAIN mgr'[n].models
        PROVE  /\ mgr'[n].models[o].origin = o
               /\ Origin(mgr'[n].models[o]) /\ UpToDate(n, mgr[n].models[o])'
    <3>1. o \in DOMAIN mgr[n].models /\ mgr'[n].models[o] = mgr[n].models[o]
      BY <1>2, <1>5
    <3>2. mgr[n].models[o].origin = o /\ Origin(mgr[n].models[o]) /\ UpToDate(n, mgr[n].models[o])
      BY <1>1, <3>1 DEF Fresh
    <3>3. UpToDate(n, mgr[n].models[o])'
      BY <1>5, <1>12, <1>13, <3>1, <3>2 DEF UpToDate
    <3>4. QED
      BY <3>1, <3>2, <3>3
  <2>4. ASSUME NEW n \in Manager, mgr'[n].pc = "running", NEW t \in TaskId,
               mgr'[n].task[t].pc # "idle", NEW f \in mgr'[n].task[t].files
        PROVE  Known(n, f)'
    <3>1. CASE n # m
      <4>1. mgr'[n] = mgr[n] /\ Known(n, f)
        BY <1>1, <1>2, <2>4, <3>1 DEF Fresh
      <4>2. QED
        BY <1>6, <4>1 DEF Known
    <3>2. CASE n = m /\ mgr'[m].task[t] = mgr[m].task[t]
      <4>1. mgr[m].task[t].pc # "idle" /\ f \in mgr[m].task[t].files
        BY <2>4, <3>2
      <4>2. Known(m, f)
        BY <1>1, <1>3, <4>1 DEF Fresh
      <4>3. QED
        BY <1>14, <3>2, <4>1, <4>2 DEF Known
    <3>3. CASE n = m /\ mgr'[m].task[t].files = Additions(m)
      BY <1>2, <2>4, <3>3 DEF Known, Additions
    <3>4. QED
      BY <1>2, <3>1, <3>2, <3>3
  <2>5. ASSUME NEW n \in Manager, mgr'[n].pc = "running", NEW t \in TaskId,
               mgr'[n].task[t].pc = "add"
        PROVE  Origin(mgr'[n].task[t].model) /\ UpToDate(n, mgr[n].task[t].model)'
    <3>1. mgr'[n].task[t] = mgr[n].task[t] /\ mgr[n].pc = "running"
      BY <1>2, <1>8, <2>5
    <3>2. Origin(mgr[n].task[t].model) /\ UpToDate(n, mgr[n].task[t].model)
      BY <1>1, <2>5, <3>1 DEF Fresh
    <3>3. CASE n # m
      BY <1>12, <3>1, <3>2, <3>3 DEF UpToDate
    <3>4. CASE n = m
      <4>1. Holds(m, mgr[m].task[t].model.path)
        BY <2>5, <3>1, <3>4 DEF Holds, Running
      <4>2. QED
        BY <1>13, <3>1, <3>2, <3>4, <4>1 DEF UpToDate
    <3>5. QED
      BY <3>1, <3>2, <3>3, <3>4
  <2>6. \A model : Origin(model)' <=> Origin(model)
    BY DEF Origin
  <2>7. QED
    BY <2>1, <2>2, <2>3, <2>4, <2>5, <2>6, Zenon DEF Fresh
<1>16. QED
  BY <1>7, <1>9, <1>10, <1>11, <1>15 DEF Inv

-------------------------------------------------------------------------------
(* The engine makes managers, lets go of them and frees them.  Steps that  *)
(* leave every manager as it was, or take its models and files away.       *)
LEMMA ManagersStep ==
  ASSUME Inv, UNCHANGED <<disk, changes, raced>>, StateType',
         MadeInOrder', OldIsKept', InUse', TakesAlike',
         \A m \in Manager :
           \/ /\ mgr'[m].pc = mgr[m].pc /\ mgr'[m].conf = mgr[m].conf
              /\ mgr'[m].models = mgr[m].models /\ mgr'[m].seen = mgr[m].seen
              /\ mgr'[m].task = mgr[m].task
           \/ /\ DOMAIN mgr'[m].models = {} /\ DOMAIN mgr'[m].seen = {}
              /\ mgr'[m].pc = "running" => \A t \in TaskId : mgr'[m].task[t].pc = "idle"
  PROVE  Inv'
<1>1. StateType /\ AsConfigured /\ Fresh
  BY DEF Inv
<1>2. AsConfigured'
  BY <1>1 DEF AsConfigured
<1>3. Fresh'
  <2>1. \A f \in DOMAIN disk' : disk'[f] <= changes'
    BY <1>1 DEF Fresh
  <2>2. ASSUME NEW m \in Manager,
               /\ mgr'[m].pc = mgr[m].pc /\ mgr'[m].models = mgr[m].models
               /\ mgr'[m].seen = mgr[m].seen /\ mgr'[m].task = mgr[m].task
        PROVE  /\ \A f \in DOMAIN mgr'[m].seen : mgr'[m].seen[f] <= changes'
               /\ \A o \in DOMAIN mgr'[m].models :
                    /\ mgr'[m].models[o].origin = o
                    /\ Origin(mgr[m].models[o])' /\ UpToDate(m, mgr[m].models[o])'
               /\ mgr'[m].pc = "running" => \A t \in TaskId :
                    /\ mgr'[m].task[t].pc # "idle" =>
                         \A f \in mgr'[m].task[t].files : Known(m, f)'
                    /\ mgr'[m].task[t].pc = "add" =>
                         Origin(mgr[m].task[t].model)' /\ UpToDate(m, mgr[m].task[t].model)'
    <3>1. /\ \A f \in DOMAIN mgr[m].seen : mgr[m].seen[f] <= changes
          /\ \A o \in DOMAIN mgr[m].models :
               /\ mgr[m].models[o].origin = o
               /\ Origin(mgr[m].models[o]) /\ UpToDate(m, mgr[m].models[o])
      BY <1>1 DEF Fresh
    <3>2. mgr[m].pc = "running" => \A t \in TaskId :
            /\ mgr[m].task[t].pc # "idle" => \A f \in mgr[m].task[t].files : Known(m, f)
            /\ mgr[m].task[t].pc = "add" =>
                 Origin(mgr[m].task[t].model) /\ UpToDate(m, mgr[m].task[t].model)
      BY <1>1 DEF Fresh
    <3>3. disk' = disk /\ changes' = changes /\ raced' = raced
      OBVIOUS
    <3>4. /\ \A f : Known(m, f) => Known(m, f)'
          /\ \A x : Origin(x) => Origin(x)'
          /\ \A x : UpToDate(m, x) => UpToDate(m, x)'
      BY <2>2, <3>3 DEF UpToDate, Origin, Known
    <3>5. QED
      BY <2>2, <3>1, <3>2, <3>3, <3>4
  <2>3. QED
    BY <2>1, <2>2, Zenon DEF Fresh
<1>4. QED
  BY <1>2, <1>3 DEF Inv

LEMMA ReadConfigStep ==
  ASSUME Inv, ReadConfig
  PROVE  Inv'
<1>1. StateType /\ MadeInOrder /\ OldIsKept /\ InUse /\ TakesAlike
  BY DEF Inv
<1>2. /\ UNCHANGED <<disk, changes, current, crashed, raced>> /\ owner.pc = "watch"
      /\ file' = [file EXCEPT !.read = TRUE]
  BY DEF ReadConfig
<1>3. file' \in [group : Group, read : BOOLEAN] /\ file.group \in Group
  BY <1>1, <1>2 DEF StateType
<1>4. CASE UNCHANGED <<mgr, owner>>
  <2>1. StateType' /\ TakesAlike'
    BY <1>1, <1>2, <1>3, <1>4 DEF StateType, TakesAlike
  <2>2. QED
    BY <1>2, <1>4, <2>1, PointersStay, ManagersStep
<1>5. ASSUME NEW m \in Manager, mgr[m].pc = "unmade",
             m - 1 \in Manager => mgr[m - 1].pc # "unmade",
             mgr' = [mgr EXCEPT ![m] = Started(Parse(file.group), current)],
             owner' = [pc |-> "wait", new |-> m]
      PROVE  Inv'
  <2> DEFINE new == Started(Parse(file.group), current)
  <2>1. /\ new \in RepoManager /\ new.pc = "running" /\ new.old = current
        /\ DOMAIN new.models = {} /\ DOMAIN new.seen = {}
        /\ \A t \in TaskId : new.task[t].pc = "idle" /\ ~new.task[t].try_old_repo
    <3>1. Parse(file.group) \in Conf /\ current \in Manager \cup {None}
      BY <1>1, <1>3 DEF StateType, Conf
    <3>2. QED
      BY <3>1, InitialValues, StartedFields
  <2> HIDE DEF new
  <2>2. /\ mgr' \in [Manager -> RepoManager]
        /\ mgr'[m] = new /\ \A n \in Manager \ {m} : mgr'[n] = mgr[n]
    BY <1>1, <1>5, <2>1 DEF StateType, new
  <2>3. StateType'
    BY <1>1, <1>2, <1>3, <1>5, <2>2 DEF StateType
  <2>4. PICK last \in Nat : Manager = 1 .. last
    BY HandoverAssumption, FS_CardinalityType
  <2>5. \A n \in Manager : n < m => Made(n)
    <3> SUFFICES ASSUME NEW n \in Manager, n < m PROVE Made(n)
      OBVIOUS
    <3>1. m - 1 \in Manager /\ n <= m - 1
      BY <2>4
    <3>2. QED
      BY <1>1, <1>5, <3>1 DEF MadeInOrder, Made
  <2>6. current # m /\ current < m /\ current \in Manager
    <3>1. ~(m <= current) /\ current \in Manager
      BY <1>1, <1>5 DEF MadeInOrder, Made, StateType
    <3>2. QED
      BY <2>4, <3>1
  <2>7. MadeInOrder'
    <3>1. \A n \in Manager : mgr'[n].pc # "unmade" <=> mgr[n].pc # "unmade" \/ n = m
      BY <1>5, <2>1, <2>2
    <3>2. ASSUME NEW n \in Manager, mgr'[n].pc # "unmade", NEW k \in Manager, k <= n
          PROVE  mgr'[k].pc # "unmade"
      <4>1. CASE n = m
        <5>1. k < m \/ k = m
          BY <2>4, <3>2, <4>1
        <5>2. QED
          BY <2>5, <3>1, <5>1 DEF Made
      <4>2. CASE n # m
        BY <1>1, <3>1, <3>2, <4>2 DEF MadeInOrder, Made
      <4>3. QED
        BY <4>1, <4>2
    <3>3. mgr'[current'].pc # "unmade" /\ owner'.new = m
      BY <1>1, <1>2, <1>5, <2>6, <3>1 DEF MadeInOrder, Made
    <3>4. QED
      BY <3>1, <3>2, <3>3 DEF MadeInOrder, Made
  <2>8. \A n \in Manager : mgr[n].old # None => mgr[n].old \in Manager \ {m}
    BY <1>1, <1>5 DEF OldIsKept, StateType, RepoManager
  <2>9. OldIsKept'
    BY <1>1, <2>1, <2>2, <2>6, <2>8 DEF OldIsKept, InUse
  <2>10. InUse'
    BY <1>1, <1>2, <1>5, <2>1, <2>2, <2>4, <2>6 DEF InUse
  <2>11. TakesAlike'
    BY <1>1, <2>1, <2>2, <2>8 DEF TakesAlike
  <2>12. QED
    BY <1>2, <2>1, <2>2, <2>3, <2>7, <2>9, <2>10, <2>11, ManagersStep
<1>6. QED
  BY <1>4, <1>5 DEF ReadConfig

LEMMA OwnerSteps ==
  ASSUME Inv, ReadyCount \/ ReadyMonitor \/ Store \/ Rested
  PROVE  Inv'
<1>1. StateType /\ MadeInOrder /\ OldIsKept /\ InUse /\ TakesAlike
  BY DEF Inv
<1>2. /\ UNCHANGED <<disk, changes, file, mgr, crashed, raced>>
      /\ owner' \in [pc : {"watch", "wait", "counted", "waited", "store", "rest"},
                     new : Manager \cup {None}]
      /\ owner'.pc = "watch" \/ (owner.pc # "watch" /\ owner'.new = owner.new)
  BY <1>1 DEF ReadyCount, ReadyMonitor, Store, Rested, StateType
<1>3. current' = current \/ (owner.pc = "store" /\ current' = owner.new)
  BY DEF ReadyCount, ReadyMonitor, Store, Rested
<1>4. current' \in Manager
  BY <1>1, <1>3 DEF StateType, MadeInOrder
<1>5. StateType'
  BY <1>1, <1>2, <1>4 DEF StateType
<1>6. MadeInOrder' /\ OldIsKept' /\ TakesAlike'
  BY <1>1, <1>2, <1>3 DEF MadeInOrder, Made, OldIsKept, TakesAlike
<1>7. InUse'
  <2>1. owner.pc # "watch" => owner.new >= owner.new
    BY <1>1, HandoverAssumption, FS_CardinalityType DEF MadeInOrder
  <2>2. QED
    BY <1>1, <1>2, <1>3, <2>1 DEF InUse
<1>8. QED
  BY <1>2, <1>5, <1>6, <1>7, ManagersStep

LEMMA RemoveOldManagerStep ==
  ASSUME Inv, RemoveOldManager
  PROVE  Inv'
<1> DEFINE m == owner.new
<1>1. StateType /\ MadeInOrder /\ OldIsKept /\ InUse /\ TakesAlike
  BY DEF Inv
<1>2. /\ UNCHANGED <<disk, changes, file, current, crashed, raced>> /\ owner.pc = "waited"
      /\ owner' = [owner EXCEPT !.pc = "store"] /\ mgr' = [mgr EXCEPT ![m].old = None]
  BY DEF RemoveOldManager
<1>3. m \in Manager
  BY <1>1, <1>2 DEF MadeInOrder
<1>4. /\ owner' \in [pc : {"watch", "wait", "counted", "waited", "store", "rest"},
                     new : Manager \cup {None}]
      /\ owner'.pc # "watch" /\ owner'.new = m
  BY <1>1, <1>2 DEF StateType
<1> HIDE DEF m
<1>5. /\ mgr' \in [Manager -> RepoManager] /\ mgr'[m].old = None
      /\ \A n \in Manager : /\ mgr'[n].pc = mgr[n].pc /\ mgr'[n].conf = mgr[n].conf
                            /\ mgr'[n].models = mgr[n].models /\ mgr'[n].seen = mgr[n].seen
                            /\ mgr'[n].task = mgr[n].task
                            /\ n # m => mgr'[n].old = mgr[n].old
  BY <1>1, <1>2, <1>3 DEF StateType, RepoManager
<1>6. StateType'
  BY <1>1, <1>2, <1>4, <1>5 DEF StateType
<1>7. MadeInOrder' /\ InUse'
  BY <1>1, <1>2, <1>3, <1>4, <1>5 DEF MadeInOrder, Made, InUse, StateType, m
<1>8. \A n \in Manager : mgr'[n].old # None => mgr'[n].old = mgr[n].old /\ mgr[n].old \in Manager
  BY <1>1, <1>5 DEF StateType, RepoManager
<1>9. OldIsKept' /\ TakesAlike'
  <2>1. OldIsKept'
    BY <1>1, <1>5, <1>8 DEF OldIsKept
  <2>2. TakesAlike'
    BY <1>1, <1>5, <1>8 DEF TakesAlike
  <2>3. QED
    BY <2>1, <2>2
<1>10. QED
  BY <1>2, <1>5, <1>6, <1>7, <1>9, ManagersStep

LEMMA DestroyStep ==
  ASSUME Inv, NEW m \in Manager, Destroy(m)
  PROVE  Inv'
<1> DEFINE gone == [Unmade EXCEPT !.pc = "freed", !.task = mgr[m].task]
<1>1. StateType /\ MadeInOrder /\ OldIsKept /\ InUse /\ TakesAlike
  BY DEF Inv
<1>2. /\ UNCHANGED <<disk, changes, file, current, owner, crashed, raced>>
      /\ mgr[m].pc = "running" /\ m < current /\ \A n \in Manager : mgr[n].old # m
      /\ mgr' = [mgr EXCEPT ![m] = gone]
  BY DEF Destroy, Alive
<1>3. /\ gone \in RepoManager /\ gone.pc = "freed" /\ gone.old = None
      /\ DOMAIN gone.models = {} /\ DOMAIN gone.seen = {} /\ gone.task = mgr[m].task
  <2>1. mgr[m].task \in [TaskId -> Task]
    BY <1>1 DEF StateType, RepoManager
  <2>2. Unmade \in RepoManager /\ Unmade.old = None
        /\ DOMAIN Unmade.models = {} /\ DOMAIN Unmade.seen = {}
    BY InitialValues, UnmadeFields
  <2>3. QED
    BY <2>1, <2>2 DEF RepoManager
<1> HIDE DEF gone
<1>4. /\ mgr' \in [Manager -> RepoManager]
      /\ mgr'[m] = gone /\ \A n \in Manager \ {m} : mgr'[n] = mgr[n]
  BY <1>1, <1>2, <1>3 DEF StateType
<1>5. StateType'
  BY <1>1, <1>2, <1>4 DEF StateType
<1>6. MadeInOrder'
  <2>1. \A n \in Manager : mgr'[n].pc # "unmade" <=> mgr[n].pc # "unmade"
    BY <1>2, <1>3, <1>4
  <2>2. QED
    BY <1>1, <1>2, <2>1 DEF MadeInOrder, Made, StateType
<1>7. \A n \in Manager : mgr'[n].old # None => /\ mgr'[n].old = mgr[n].old /\ n # m
                                               /\ mgr[n].old \in Manager \ {m}
  BY <1>1, <1>2, <1>3, <1>4 DEF StateType, RepoManager
<1>8. OldIsKept'
  BY <1>1, <1>4, <1>7 DEF OldIsKept
<1>9. TakesAlike'
  BY <1>1, <1>4, <1>7 DEF TakesAlike
<1>10. InUse'
  <2>1. PICK last \in Nat : Manager = 1 .. last
    BY HandoverAssumption, FS_CardinalityType
  <2>2. current \in Manager /\ (owner.pc # "watch" => owner.new \in Manager)
    BY <1>1 DEF StateType, MadeInOrder
  <2>3. current # m /\ (owner.pc # "watch" => owner.new # m)
    BY <1>1, <1>2, <2>1, <2>2 DEF InUse
  <2>4. QED
    BY <1>1, <1>2, <1>4, <2>2, <2>3 DEF InUse
<1>11. QED
  BY <1>2, <1>3, <1>4, <1>5, <1>6, <1>8, <1>9, <1>10, ManagersStep

-------------------------------------------------------------------------------
LEMMA InvStep == Inv /\ [Next]_vars => Inv'
<1> SUFFICES ASSUME Inv, [Next]_vars PROVE Inv'
  OBVIOUS
<1>1. CASE UNCHANGED vars
  <2>1. UNCHANGED <<disk, changes, file, mgr, current, owner, crashed, raced>>
    BY <1>1 DEF vars
  <2>2. StateType' /\ TakesAlike'
    BY <2>1 DEF Inv, StateType, TakesAlike
  <2>3. QED
    BY <2>1, <2>2, PointersStay, ManagersStep
<1>2. CASE Next
  BY <1>2, FileSteps, EditConfigStep, UpdateStep, LoadSteps, ReadConfigStep, OwnerSteps,
     RemoveOldManagerStep, DestroyStep, Zenon DEF Next
<1>3. QED
  BY <1>1, <1>2

LEMMA AlwaysInv == Spec => []Inv
<1>1. Init => Inv
  BY InvInit
<1>2. Inv /\ [Next]_vars => Inv'
  BY InvStep
<1>3. QED
  BY <1>1, <1>2, PTL DEF Spec

(* However often models are handed over, a manager has only models as its  *)
(* own settings would make them: RepoManager::load takes models only from  *)
(* a manager whose settings are equal, and all that Model::create copies   *)
(* is among the settings that ProducerConfig::operator== compares.         *)
THEOREM HandsOverAlike == Spec => []ReusedAsConfigured
<1>1. Inv => ReusedAsConfigured
  BY DEF Inv, AsConfigured, ReusedAsConfigured
<1>2. QED
  BY <1>1, AlwaysInv, PTL

(* A manager that has caught up with its directory serves files as they    *)
(* are, but for models that were out of date when they were taken over and *)
(* files that were removed while a task had them.                          *)
THEOREM ServesFreshFiles == Spec => []FreshUnlessReused
<1>1. Inv => FreshUnlessReused
  <2> SUFFICES ASSUME Inv, NEW m \in Manager, CaughtUp(m), NEW o \in DOMAIN mgr[m].models
               PROVE  LET model == mgr[m].models[o]
                      IN  model.late \/ model.path \in raced[m] \/ ~Changed(model)
    BY DEF FreshUnlessReused
  <2>1. UpToDate(m, mgr[m].models[o]) /\ mgr[m].seen = disk
    BY DEF Inv, Fresh, CaughtUp
  <2>2. QED
    BY <2>1 DEF UpToDate, Changed
<1>2. QED
  BY <1>1, AlwaysInv, PTL

(* A manager is freed only when nothing can take models from it any more,  *)
(* and never while the engine answers queries from it.                     *)
THEOREM OldManagerIsUsable == Spec => [](OldIsKept /\ mgr[current].pc = "running")
<1>1. Inv => OldIsKept /\ mgr[current].pc = "running"
  BY DEF Inv, InUse
<1>2. QED
  BY <1>1, AlwaysInv, PTL
===============================================================================
