---------------------------- MODULE EngineReload ----------------------------
(***************************************************************************)
(* EngineImpl: the configuration file, the thread that watches it, the     *)
(* swap of managers under running queries, and the shutdown.               *)
(*                                                                         *)
(* The thread that initialises the engine becomes, in effect, the watcher: *)
(* one process, the owner.  A manager is alive while a shared pointer to   *)
(* it exists; its destructor joins its threads and runs where the last     *)
(* pointer is dropped, so that it is part of that step.  What a manager    *)
(* does with its files is RepoManager's business; here its directories are *)
(* scanned some time, and then the files that were found are loaded.       *)
(*                                                                         *)
(* Modification times are whole seconds and are only compared for equality *)
(* and with 0, so the clock moves only when the current second has been    *)
(* recorded somewhere, and then to a second that nobody has recorded.      *)
(***************************************************************************)
EXTENDS Naturals, FiniteSets

CONSTANTS
  Manager,          \* identities for managers; a freed one may be used again
  Query,            \* identities for calls of the engine
  MaxChanges,       \* bound: how often the file is written or deleted
  DistinctSeconds   \* whether every write of the file has a second of its own

ASSUME ReloadAssumption == MaxChanges \in Nat /\ DistinctSeconds \in BOOLEAN

None == "none"

ASSUME NoneAssumption == None \notin Manager

VARIABLES
  file,        \* the configuration file
  changes,     \* how often it has changed
  now,         \* the clock, in seconds
  mgr,         \* the managers
  current,     \* itsRepoManager
  errno,       \* lastConfigErrno
  owner,       \* the thread that initialises the engine and then watches the file
  parsed,      \* history: how the last parse of the file ended
  shutting,    \* Reactor::isShuttingDown
  shutdown,    \* the thread in EngineImpl::shutdown
  query        \* the calls of the engine

vars == <<file, changes, now, mgr, current, errno, owner, parsed, shutting, shutdown, query>>

(* What a file holds: settings that load, a syntax error, or settings that *)
(* cannot be used (a producer is missing, say).                            *)
Kind == {"valid", "syntax", "unusable"}

File == [exists : BOOLEAN, version : Nat, kind : Kind, mtime : Nat]

(* A manager: the version it was made from, configModTime, the old manager *)
(* it may take models of, and how far its first scan has got: what it has  *)
(* found is not known, is being loaded by tasks, or has been loaded.       *)
Work == {"unscanned", "loading", "loaded"}

ManagerState == [pc : {"free", "made", "running", "stopped"},
                 version : Nat, modtime : Nat, old : Manager \cup {None}, work : Work]

FreeManager ==
  [pc |-> "free", version |-> 0, modtime |-> 0, old |-> None, work |-> "unscanned"]

Error == {"OK", "EINPROGRESS", "ENOENT", "ENOEXEC", "ESHUTDOWN"}

OwnerState == [pc : {"boot", "bootread", "bootinit", "bootwait", "bootcounted", "poll", "cool",
                     "time", "read", "wait", "counted", "store", "rest", "done", "failed"},
               filetime : Nat, newtime : Nat, ec : BOOLEAN, slept : Nat,
               new : Manager \cup {None}, old : Manager \cup {None}]

(* Types; and the managers that calls and the engine work on are there.    *)
TypeOK ==
  /\ file \in File
  /\ changes \in 0 .. MaxChanges
  /\ now \in Nat
  /\ mgr \in [Manager -> ManagerState]
  /\ current \in Manager \cup {None}
  /\ errno \in Error
  /\ owner \in OwnerState
  /\ parsed \in {"OK", "syntax", "other"}
  /\ shutting \in BOOLEAN
  /\ shutdown \in {"no", "joining", "done"}
  /\ query \in [Query -> [pc : {"idle", "call", "ref"}, m : Manager \cup {None}]]
  /\ \A m \in {current, owner.new, owner.old} \ {None} : mgr[m].pc # "free"
  /\ \A q \in Query : query[q].pc = "call" => mgr[query[q].m].pc # "free"

Idle == [pc |-> "idle", m |-> None]

Init ==
  /\ file = [exists |-> TRUE, version |-> 0, kind |-> "valid", mtime |-> 1]
  /\ changes = 0
  /\ now = 2
  /\ mgr = [m \in Manager |-> FreeManager]
  /\ current = None
  /\ errno = "EINPROGRESS"
  /\ owner = [pc |-> "boot", filetime |-> 0, newtime |-> 0, ec |-> FALSE,
              slept |-> 0, new |-> None, old |-> None]
  /\ parsed = "OK"
  /\ shutting = FALSE
  /\ shutdown = "no"
  /\ query = [q \in Query |-> Idle]

Booting == {"boot", "bootread", "bootinit", "bootwait", "bootcounted", "failed"}

Booted == owner.pc \notin Booting

-------------------------------------------------------------------------------
(* The file and the clock.                                                 *)
Recorded == {file.mtime, owner.filetime, owner.newtime, owner.slept}
            \cup {mgr[m].modtime : m \in Manager}

Later == IF now \in Recorded THEN now + 1 ELSE now

WriteFile(kind) ==
  /\ changes < MaxChanges
  /\ changes' = changes + 1
  /\ \E t \in IF DistinctSeconds THEN {Later} ELSE {now, Later} :
       /\ now' = t
       /\ file' = [exists |-> TRUE, version |-> file.version + 1, kind |-> kind, mtime |-> t]
  /\ UNCHANGED <<mgr, current, errno, owner, parsed, shutting, shutdown, query>>

DeleteFile ==
  /\ changes < MaxChanges /\ file.exists
  /\ changes' = changes + 1
  /\ file' = [file EXCEPT !.exists = FALSE]
  /\ UNCHANGED <<now, mgr, current, errno, owner, parsed, shutting, shutdown, query>>

(* last_write_time of a file that is missing sets ec; what it returns then *)
(* is not the time of any file.                                            *)
WriteTime == IF file.exists THEN file.mtime ELSE 0

(* A sleep of a second or more has ended, and perhaps not only just.       *)
Awake(t) == t \in {now, Later} /\ t > owner.slept

(* time(nullptr)                                                           *)
TimeOfDay == IF DistinctSeconds /\ now = file.mtime THEN now + 1 ELSE now

-------------------------------------------------------------------------------
(* Managers that no shared pointer leads to any more are destroyed.        *)
PointersOfEngine(o, c, q) == {c, o.new, o.old} \ {None}

Pointers(o, c, q) ==
  ({c, o.new, o.old} \cup {q[x].m : x \in {y \in Query : q[y].pc = "call"}}) \ {None}

Reached(o, c, q, ms) ==
  Pointers(o, c, q) \cup ({ms[m].old : m \in Pointers(o, c, q)} \ {None})

Freed(o, c, q, ms) ==
  [m \in Manager |-> IF m \in Reached(o, c, q, ms) THEN ms[m] ELSE FreeManager]

-------------------------------------------------------------------------------
(* The constructor of RepoManager records the modification time before it  *)
(* reads the file; the engine's constructor makes the first manager.       *)
ParseTime ==
  /\ owner.pc \in {"boot", "time"}
  /\ \E m \in Manager :
       /\ mgr[m].pc = "free"
       /\ mgr' = [mgr EXCEPT ![m].pc = "made", ![m].modtime = WriteTime]
       /\ owner' = [owner EXCEPT !.pc = IF @ = "boot" THEN "bootread" ELSE "read", !.new = m]
  /\ UNCHANGED <<file, changes, now, current, errno, parsed, shutting, shutdown, query>>

Readable == file.exists /\ file.kind = "valid"

(* The end of a round of the watcher at time t: the local pointers go out  *)
(* of scope, and the time of the file, if it is known, is remembered.      *)
RoundEndsRereads(o, t) ==
  [o EXCEPT !.pc = "poll", !.filetime = IF o.ec THEN t ELSE file.mtime,
            !.slept = t, !.new = None, !.old = None]

RoundEnds(o, t) ==
  [o EXCEPT !.pc = "poll", !.filetime = IF o.ec THEN t ELSE o.newtime,
            !.slept = t, !.new = None, !.old = None]

(* Only a syntax error is reported as such; errno stays for other reasons. *)
ErrorOfAnyParse == "ENOEXEC"

ErrorOfParse == IF parsed' = "syntax" THEN "ENOEXEC" ELSE errno

ParseFails ==
  /\ owner.pc \in {"bootread", "read"} /\ ~Readable
  /\ parsed' = IF file.exists /\ file.kind = "syntax" THEN "syntax" ELSE "other"
  /\ \/ /\ owner.pc = "read"
        /\ now' = TimeOfDay
        /\ owner' = RoundEnds(owner, now')
        /\ errno' = ErrorOfParse
     \/ /\ owner.pc = "bootread"
        /\ owner' = [owner EXCEPT !.pc = "failed", !.new = None]
        /\ UNCHANGED <<now, errno>>
  /\ mgr' = Freed(owner', current, query, mgr)
  /\ UNCHANGED <<file, changes, current, shutting, shutdown, query>>

(* The managers' own threads.  The monitor has been through every          *)
(* directory, which makes tasks if there are files; the tasks have ended.  *)
(* Settings without producers leave nothing to be done from the start.     *)
AtStart == {"unscanned", "loaded"}

Scanned(m) ==
  /\ mgr[m].pc = "running" /\ mgr[m].work = "unscanned"
  /\ \E work \in {"loading", "loaded"} : mgr' = [mgr EXCEPT ![m].work = work]
  /\ UNCHANGED <<file, changes, now, current, errno, owner, parsed, shutting, shutdown, query>>

Loaded(m) ==
  /\ mgr[m].pc = "running" /\ mgr[m].work = "loading"
  /\ mgr' = [mgr EXCEPT ![m].work = "loaded"]
  /\ UNCHANGED <<file, changes, now, current, errno, owner, parsed, shutting, shutdown, query>>

(* ready() of the manager that is waited for is polled: it reads the count *)
(* of tasks, and if there is none it asks the monitor.  The wait ends when *)
(* both have answered so, or when the server shuts down.                   *)
Awaited == IF owner.pc \in {"bootwait", "bootcounted"} THEN current ELSE owner.new

ReadyCount ==
  /\ owner.pc \in {"bootwait", "wait"} /\ mgr[Awaited].work # "loading"
  /\ owner' = [owner EXCEPT !.pc = IF @ = "wait" THEN "counted" ELSE "bootcounted"]
  /\ UNCHANGED <<file, changes, now, mgr, current, errno, parsed, shutting, shutdown, query>>

MonitorNotReady ==
  /\ owner.pc \in {"bootcounted", "counted"} /\ mgr[Awaited].work = "unscanned"
  /\ owner' = [owner EXCEPT !.pc = IF @ = "counted" THEN "wait" ELSE "bootwait"]
  /\ UNCHANGED <<file, changes, now, mgr, current, errno, parsed, shutting, shutdown, query>>

WaitEnds(waiting, counted) ==
  \/ owner.pc = counted /\ mgr[Awaited].work # "unscanned"
  \/ owner.pc = waiting /\ shutting

(* The engine's first manager is published at once; the initialisation of  *)
(* the engine parses the file again, for settings that are not those of a  *)
(* manager, before it initialises that one, and waits for it.              *)
BootParses ==
  /\ owner.pc = "bootread" /\ Readable
  /\ parsed' = "OK"
  /\ mgr' = [mgr EXCEPT ![owner.new].pc = "made", ![owner.new].version = file.version]
  /\ current' = owner.new
  /\ owner' = [owner EXCEPT !.pc = "bootinit", !.new = None]
  /\ UNCHANGED <<file, changes, now, errno, shutting, shutdown, query>>

BootInit ==
  /\ owner.pc = "bootinit"
  /\ \/ /\ file.exists /\ file.kind # "syntax"
        /\ owner' = [owner EXCEPT !.pc = "bootwait"]
        /\ \E work \in AtStart :
             mgr' = [mgr EXCEPT ![current].pc = "running", ![current].work = work]
     \/ /\ ~(file.exists /\ file.kind # "syntax")
        /\ owner' = [owner EXCEPT !.pc = "failed"]
        /\ UNCHANGED mgr
  /\ UNCHANGED <<file, changes, now, current, errno, parsed, shutting, shutdown, query>>

(* The watcher starts from the time that the first manager has recorded.   *)
BootReady ==
  /\ WaitEnds("bootwait", "bootcounted")
  /\ errno' = "OK"
  /\ owner' = [owner EXCEPT !.pc = "poll", !.filetime = mgr[current].modtime, !.slept = now]
  /\ UNCHANGED <<file, changes, now, mgr, current, parsed, shutting, shutdown, query>>

-------------------------------------------------------------------------------
(* configFileWatch, one action for each stretch between two sleeps or      *)
(* between two accesses of what others change.                             *)
PollRemoved ==
  /\ owner.pc = "poll" /\ ~shutting /\ Awake(now')
  /\ ~file.exists /\ owner.filetime > 0
  /\ owner' = [owner EXCEPT !.filetime = 0, !.slept = now']
  /\ errno' = "ENOENT"
  /\ UNCHANGED <<file, changes, mgr, current, parsed, shutting, shutdown, query>>

PollModified ==
  /\ owner.pc = "poll" /\ ~shutting /\ Awake(now')
  /\ file.exists /\ file.mtime # owner.filetime
  /\ owner' = [owner EXCEPT !.pc = "cool", !.newtime = file.mtime, !.filetime = file.mtime,
                            !.slept = now']
  /\ errno' = "EINPROGRESS"
  /\ UNCHANGED <<file, changes, mgr, current, parsed, shutting, shutdown, query>>

(* The cooling period ends when the time of the file is the same after     *)
(* three seconds; a file that is missing twice has not changed either.     *)
Cooled == [owner EXCEPT !.newtime = WriteTime, !.ec = ~file.exists, !.slept = now']

StillChanging == WriteTime # owner.filetime

Cool ==
  /\ owner.pc = "cool" /\ Awake(now')
  /\ \/ /\ StillChanging /\ ~shutting
        /\ owner' = [Cooled EXCEPT !.filetime = WriteTime]
     \/ /\ ~StillChanging /\ ~shutting
        /\ owner' = [Cooled EXCEPT !.pc = "time"]
     \/ /\ shutting
        /\ owner' = RoundEnds(Cooled, now')
  /\ UNCHANGED <<file, changes, mgr, current, errno, parsed, shutting, shutdown, query>>

(* The new manager takes the old one along, and starts its threads.        *)
Parses ==
  /\ owner.pc = "read" /\ Readable
  /\ parsed' = "OK"
  /\ \E work \in AtStart :
       mgr' = [mgr EXCEPT ![owner.new] = [@ EXCEPT !.pc = "running", !.version = file.version,
                                                   !.old = current, !.work = work]]
  /\ owner' = [owner EXCEPT !.pc = "wait", !.old = current]
  /\ UNCHANGED <<file, changes, now, current, errno, shutting, shutdown, query>>

(* When the wait has ended, the new manager forgets the old one, and       *)
(* unless the server shuts down it is to be used.                          *)
OldKept == current

OldRemoved == None

ToBeUsedAlways == TRUE

ToBeUsed == ~shutting

Ready ==
  /\ WaitEnds("wait", "counted")
  /\ \/ ToBeUsed /\ owner' = [owner EXCEPT !.pc = "store"] /\ now' = now
     \/ ~ToBeUsed /\ now' = TimeOfDay /\ owner' = RoundEnds(owner, now')
  /\ mgr' = Freed(owner', current, query, [mgr EXCEPT ![owner.new].old = OldRemoved])
  /\ UNCHANGED <<file, changes, current, errno, parsed, shutting, shutdown, query>>

Store ==
  /\ owner.pc = "store"
  /\ current' = owner.new
  /\ errno' = "OK"
  /\ owner' = [owner EXCEPT !.pc = "rest"]
  /\ UNCHANGED <<file, changes, now, mgr, parsed, shutting, shutdown, query>>

Rested ==
  /\ owner.pc = "rest"
  /\ now' = TimeOfDay
  /\ owner' = RoundEnds(owner, now')
  /\ mgr' = Freed(owner', current, query, mgr)
  /\ UNCHANGED <<file, changes, current, errno, parsed, shutting, shutdown, query>>

WatcherExit ==
  /\ owner.pc = "poll" /\ shutting
  /\ owner' = [owner EXCEPT !.pc = "done"]
  /\ errno' = "ESHUTDOWN"
  /\ UNCHANGED <<file, changes, now, mgr, current, parsed, shutting, shutdown, query>>

-------------------------------------------------------------------------------
(* The server begins to shut down; EngineImpl::shutdown interrupts the     *)
(* watcher, which leaves it at the next sleep, joins it, and shuts down    *)
(* the manager that is then in use.                                        *)
RequestShutdown ==
  /\ ~shutting
  /\ shutting' = TRUE
  /\ UNCHANGED <<file, changes, now, mgr, current, errno, owner, parsed, shutdown, query>>

ShutdownInterrupts ==
  /\ shutting /\ Booted /\ shutdown = "no"
  /\ shutdown' = "joining"
  /\ UNCHANGED <<file, changes, now, mgr, current, errno, owner, parsed, shutting, query>>

WatcherInterrupted ==
  /\ shutdown = "joining" /\ owner.pc \in {"poll", "cool", "wait", "rest"}
  /\ owner' = [owner EXCEPT !.pc = "done", !.new = None, !.old = None]
  /\ mgr' = Freed(owner', current, query, mgr)
  /\ UNCHANGED <<file, changes, now, current, errno, parsed, shutting, shutdown, query>>

WatcherNotAwaited == TRUE

WatcherJoined == owner.pc = "done"

ShutdownJoins ==
  /\ shutdown = "joining" /\ WatcherJoined
  /\ shutdown' = "done"
  /\ mgr' = [mgr EXCEPT ![current].pc = "stopped"]
  /\ UNCHANGED <<file, changes, now, current, errno, owner, parsed, shutting, query>>

-------------------------------------------------------------------------------
(* A call loads the pointer and works on that manager until it returns;    *)
(* producers() and getProducerConfig() return references into it.          *)
Call(q) ==
  /\ Booted /\ query[q].pc = "idle"
  /\ query' = [query EXCEPT ![q] = [pc |-> "call", m |-> current]]
  /\ UNCHANGED <<file, changes, now, mgr, current, errno, owner, parsed, shutting, shutdown>>

Return(q) ==
  /\ query[q].pc = "call"
  /\ query' = [query EXCEPT ![q] = Idle]
  /\ mgr' = Freed(owner, current, query', mgr)
  /\ UNCHANGED <<file, changes, now, current, errno, owner, parsed, shutting, shutdown>>

ReturnReference(q) ==
  /\ query[q].pc = "call"
  /\ query' = [query EXCEPT ![q].pc = "ref"]
  /\ mgr' = Freed(owner, current, query', mgr)
  /\ UNCHANGED <<file, changes, now, current, errno, owner, parsed, shutting, shutdown>>

ForgetReference(q) ==
  /\ query[q].pc = "ref"
  /\ query' = [query EXCEPT ![q] = Idle]
  /\ UNCHANGED <<file, changes, now, mgr, current, errno, owner, parsed, shutting, shutdown>>

-------------------------------------------------------------------------------
OwnerStep ==
  \/ ParseTime \/ ParseFails \/ BootParses \/ BootInit
  \/ ReadyCount \/ MonitorNotReady \/ BootReady
  \/ PollRemoved \/ PollModified \/ Cool \/ Parses \/ Ready \/ Store \/ Rested
  \/ WatcherExit \/ WatcherInterrupted

Next ==
  \/ \E kind \in Kind : WriteFile(kind)
  \/ DeleteFile
  \/ OwnerStep
  \/ \E m \in Manager : Scanned(m) \/ Loaded(m)
  \/ RequestShutdown \/ ShutdownInterrupts \/ ShutdownJoins
  \/ \E q \in Query : Call(q) \/ Return(q) \/ ReturnReference(q) \/ ForgetReference(q)

Spec == Init /\ [][Next]_vars

(* The owner's thread runs, managers scan and load, and calls return.      *)
FairSpec ==
  /\ Spec
  /\ WF_vars(OwnerStep)
  /\ \A m \in Manager : WF_vars(Scanned(m) \/ Loaded(m))
  /\ \A q \in Query : WF_vars(Return(q) \/ ReturnReference(q))

-------------------------------------------------------------------------------
(* What callers are promised (module EngineService): a manager is replaced *)
(* only by one that has scanned all its directories, and never by one of   *)
(* an earlier file, whatever is wrong with the file and whenever the       *)
(* server shuts down; and a call keeps the manager it began with, with its *)
(* settings, until it returns.  That the files found have been loaded is   *)
(* not promised: see StoredWhenLoaded.                                     *)
Service ==
  INSTANCE EngineService WITH
    Caller <- Query,
    written <- file.version,
    serving <- IF current = None THEN {} ELSE {mgr[current].version},
    scanned <- current # None /\ mgr[current].work # "unscanned",
    answers <- [q \in Query |-> IF query[q].pc = "call" THEN {mgr[query[q].m].version} ELSE {}],
    stopped <- shutdown = "done"

EnginePromised == Service!Spec

(* Between two rounds of the watcher only the manager in use is left, and  *)
(* those that calls are still working on: no manager is kept alive by the  *)
(* one that has taken its models, and failed reloads leave nothing behind. *)
OldManagersFreed ==
  owner.pc \in {"poll", "done"} =>
    \A m \in Manager : mgr[m].pc # "free" =>
      m = current \/ \E q \in Query : query[q].pc = "call" /\ query[q].m = m

(* The error the engine reports between two rounds is what happened last:  *)
(* none only if the file that was parsed last could be used; that it is    *)
(* missing only while it is not back; a syntax error only if it had one;   *)
(* work in progress only if it could not be used for another reason.       *)
ErrorIsTrue ==
  owner.pc = "poll" /\ ~shutting =>
    CASE errno = "OK" -> parsed = "OK"
      [] errno = "ENOENT" -> owner.filetime = 0
      [] errno = "ENOEXEC" -> parsed = "syntax"
      [] errno = "EINPROGRESS" -> parsed = "other"
      [] errno = "ESHUTDOWN" -> FALSE

(* After the shutdown no manager runs any more, except those of calls that *)
(* have not returned.                                                      *)
StoppedAtEnd ==
  shutdown = "done" =>
    \A m \in Manager : mgr[m].pc \in {"made", "running"} =>
      \E q \in Query : query[q].pc = "call" /\ query[q].m = m

(* The settings in the file, when it is left alone and can be used, are    *)
(* the settings in use in the end, whatever happened to the file before    *)
(* ("current configuration kept until new file appears").                  *)
SettingsFollowFile ==
  <>[](Booted /\ Readable /\ ~shutting)
    => <>[](current # None /\ mgr[current].version = file.version)

(* EngineImpl.cpp:361: "Wait until all initial data has been loaded".  The *)
(* manager that is put in use has loaded what its first scan found.  The   *)
(* code does not keep this, for the scan may end after the tasks have been *)
(* counted and before the monitor is asked (RepoManager.cpp:702).          *)
StoredWhenLoaded == [][Store => mgr[owner.new].work = "loaded"]_vars

(* FEATURES.md:104-105: the atomic pointer "ensures readers always see a   *)
(* consistent snapshot".  What a call has returned a reference into is     *)
(* still there while the caller reads it.  The code does not keep this:    *)
(* see the observations in the README.                                     *)
ReferencesValid == \A q \in Query : query[q].pc = "ref" => mgr[query[q].m].pc # "free"
===============================================================================
