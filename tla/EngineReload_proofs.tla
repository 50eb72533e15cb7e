-------------------------- MODULE EngineReload_proofs --------------------------
(***************************************************************************)
(* The managers of an engine that reloads its configuration: proofs for    *)
(* module EngineReload, for any managers, calls and changes of the file.   *)
(*                                                                         *)
(* Who points to which manager depends on where the watcher is in its      *)
(* round, so the inductive invariant says at each of its steps what the    *)
(* local pointers are, who keeps the managers alive, what the last error   *)
(* is about and how the manager to be used compares with the one in use.   *)
(***************************************************************************)
EXTENDS EngineReload, TLAPS

(* The local pointers of the watcher, and itsRepoManager.                  *)
Building == {"bootread", "read", "wait", "counted", "store", "rest"}

Locals ==
  /\ owner.pc \in Building => owner.new # None
  /\ owner.pc \notin Building => owner.new = None
  /\ owner.pc \notin {"wait", "counted", "store", "rest"} => owner.old = None
  /\ owner.pc \in {"wait", "counted", "store"} => owner.old = current
  /\ owner.pc \in {"boot", "bootread"} => current = None
  /\ owner.pc \notin {"boot", "bootread", "failed"} => current # None

(* Only the manager that is being waited for has an old one.               *)
OnlyNewHasOld ==
  \A m \in Manager : mgr[m].old # None =>
    owner.pc \in {"wait", "counted"} /\ m = owner.new /\ mgr[m].old = current

(* Until it is stored, the new manager is known to the watcher alone.      *)
NewIsPrivate ==
  owner.pc \in {"read", "wait", "counted", "store"} =>
    /\ owner.new # current
    /\ \A q \in Query : query[q].pc = "call" => query[q].m # owner.new

(* Every manager that exists is held by somebody.                          *)
Held ==
  \A m \in Manager : mgr[m].pc # "free" =>
    \/ m \in {current, owner.new, owner.old}
    \/ \E q \in Query : query[q].pc = "call" /\ query[q].m = m

CallsHold == \A q \in Query : query[q].pc = "call" => query[q].m \in Manager

(* The manager that is to be used has scanned its directories and is not   *)
(* of an earlier file.                                                     *)
ToBeStored ==
  /\ \A m \in Manager : mgr[m].version <= file.version
  /\ owner.pc \in {"wait", "counted", "store"} => mgr[owner.new].version >= mgr[current].version
  /\ owner.pc = "store" => mgr[owner.new].work # "unscanned"

(* What the watcher knows of the last parse and the last error.            *)
ErrorsSoFar ==
  /\ owner.pc \in {"bootinit", "bootwait", "bootcounted", "wait", "counted", "store", "rest"} =>
       parsed = "OK"
  /\ owner.pc \in {"cool", "time", "read"} => errno = "EINPROGRESS"
  /\ owner.pc = "rest" => errno = "OK"

Stopping ==
  /\ shutdown # "no" => shutting
  /\ shutdown = "done" => owner.pc = "done" /\ mgr[current].pc = "stopped"

Inv ==
  /\ TypeOK /\ Locals /\ OnlyNewHasOld /\ NewIsPrivate /\ Held /\ CallsHold /\ ToBeStored
  /\ ErrorsSoFar /\ ErrorIsTrue /\ Stopping

-------------------------------------------------------------------------------
(* The values of the variables, and the managers that must be there.       *)
StateType ==
  /\ file \in File /\ changes \in 0 .. MaxChanges /\ now \in Nat
  /\ mgr \in [Manager -> ManagerState] /\ current \in Manager \cup {None}
  /\ errno \in Error /\ owner \in OwnerState /\ parsed \in {"OK", "syntax", "other"}
  /\ shutting \in BOOLEAN /\ shutdown \in {"no", "joining", "done"}
  /\ query \in [Query -> [pc : {"idle", "call", "ref"}, m : Manager \cup {None}]]

Alive ==
  /\ \A m \in {current, owner.new, owner.old} \ {None} : mgr[m].pc # "free"
  /\ \A q \in Query : query[q].pc = "call" => mgr[query[q].m].pc # "free"

LEMMA TypeParts == TypeOK <=> StateType /\ Alive
BY DEF TypeOK, StateType, Alive

LEMMA InvInit == Init => Inv
<1> SUFFICES ASSUME Init PROVE Inv
  OBVIOUS
<1>1. /\ mgr \in [Manager -> {FreeManager}] /\ FreeManager \in ManagerState
      /\ FreeManager.pc = "free" /\ FreeManager.old = None /\ FreeManager.version = 0
  BY DEF Init, FreeManager, ManagerState, Work
<1>2. StateType
  <2>1. mgr \in [Manager -> ManagerState]
    BY <1>1
  <2>2. changes \in 0 .. MaxChanges
    BY ReloadAssumption DEF Init
  <2>3. /\ file \in File /\ now \in Nat /\ current \in Manager \cup {None}
        /\ errno \in Error /\ owner \in OwnerState /\ parsed \in {"OK", "syntax", "other"}
        /\ shutting \in BOOLEAN /\ shutdown \in {"no", "joining", "done"}
    BY DEF Init, File, Kind, Error, OwnerState
  <2>4. query \in [Query -> [pc : {"idle", "call", "ref"}, m : Manager \cup {None}]]
    BY DEF Init, Idle
  <2>5. QED
    BY <2>1, <2>2, <2>3, <2>4 DEF StateType
<1>3. /\ owner.pc = "boot" /\ owner.new = None /\ owner.old = None /\ current = None
      /\ shutdown = "no" /\ file.version = 0 /\ \A q \in Query : query[q].pc = "idle"
  BY DEF Init, Idle
<1>4. Alive
  BY <1>3 DEF Alive
<1>5. Locals /\ OnlyNewHasOld /\ NewIsPrivate /\ Held /\ CallsHold /\ ToBeStored
      /\ ErrorsSoFar /\ ErrorIsTrue /\ Stopping
  BY <1>1, <1>3 DEF Locals, Building, OnlyNewHasOld, NewIsPrivate, Held, CallsHold, ToBeStored, ErrorsSoFar,
                    ErrorIsTrue, Stopping
<1>6. QED
  BY <1>2, <1>4, <1>5, TypeParts DEF Inv

-------------------------------------------------------------------------------
(* Destruction: managers that are pointed to stay, and what is left is     *)
(* pointed to if the old managers of those are.                            *)
LEMMA FreeingFacts ==
  ASSUME NEW o, NEW c, NEW q, NEW ms \in [Manager -> ManagerState]
  PROVE  /\ Freed(o, c, q, ms) \in [Manager -> ManagerState]
         /\ \A m \in Manager : m \in Pointers(o, c, q) => Freed(o, c, q, ms)[m] = ms[m]
         /\ \A m \in Manager :
              \/ Freed(o, c, q, ms)[m] = ms[m]
              \/ /\ Freed(o, c, q, ms)[m].pc = "free" /\ Freed(o, c, q, ms)[m].old = None
                 /\ Freed(o, c, q, ms)[m].version = 0
         /\ \A m \in Manager :
              Freed(o, c, q, ms)[m].pc # "free" \/ Freed(o, c, q, ms)[m].old # None =>
                m \in Pointers(o, c, q) \/ \E n \in Pointers(o, c, q) : m = ms[n].old
<1>1. FreeManager \in ManagerState /\ FreeManager.pc = "free" /\ FreeManager.old = None
      /\ FreeManager.version = 0
  BY DEF FreeManager, ManagerState, Work
<1>2. Freed(o, c, q, ms) = [m \in Manager |-> IF m \in Reached(o, c, q, ms) THEN ms[m]
                                                                         ELSE FreeManager]
  BY DEF Freed
<1>3. /\ Pointers(o, c, q) \subseteq Reached(o, c, q, ms)
      /\ \A m \in Reached(o, c, q, ms) :
           m \in Pointers(o, c, q) \/ \E n \in Pointers(o, c, q) : m = ms[n].old
  BY DEF Reached
<1>4. QED
  BY <1>1, <1>2, <1>3

(* Steps that drop pointers of the watcher or of calls: the managers they  *)
(* leave behind are destroyed.                                             *)
LEMMA DropStep ==
  ASSUME Inv, StateType', NEW ms \in [Manager -> ManagerState],
         mgr' = Freed(owner', current', query', ms),
         file' = file, current' = current,
         \A m \in Manager : /\ ms[m].pc = mgr[m].pc /\ ms[m].version = mgr[m].version
                            /\ ms[m].old # None => ms[m].old = mgr[m].old,
         \A m \in Pointers(owner', current', query') :
           ms[m].old # None => owner'.pc \in {"wait", "counted"} /\ owner'.new = owner.new,
         owner'.new = None \/ owner'.new = owner.new,
         owner'.old = None \/ owner'.old = owner.old,
         \A q \in Query : query'[q].pc = "call" => query[q].pc = "call" /\ query'[q].m = query[q].m,
         Locals', ErrorsSoFar', ErrorIsTrue', (shutdown' # "no" => shutting'),
         shutdown' = "done" => shutdown = "done" /\ owner'.pc = "done",
         owner'.pc \in {"wait", "counted", "store"} =>
           owner.pc \in {"wait", "counted", "store"} /\ owner'.new = owner.new,
         owner'.pc = "read" => owner.pc = "read" /\ owner'.new = owner.new,
         owner'.pc = "store" => ms[owner.new].work # "unscanned"
  PROVE  Inv'
<1>1. StateType /\ Alive /\ Locals /\ OnlyNewHasOld /\ NewIsPrivate /\ Held /\ CallsHold /\ ToBeStored /\ Stopping
  BY TypeParts DEF Inv
<1> DEFINE P == Pointers(owner', current', query')
<1>2. /\ \A m \in Manager : m \in P => mgr'[m] = ms[m]
      /\ \A m \in Manager :
           \/ mgr'[m] = ms[m]
           \/ mgr'[m].pc = "free" /\ mgr'[m].old = None /\ mgr'[m].version = 0
      /\ \A m \in Manager : mgr'[m].pc # "free" \/ mgr'[m].old # None =>
                            m \in P \/ \E n \in P : m = ms[n].old
  BY FreeingFacts
<1>3. /\ \A m \in {current', owner'.new, owner'.old} \ {None} : m \in P /\ m \in Manager
      /\ \A q \in Query : query'[q].pc = "call" => query'[q].m \in Manager
      /\ \A q \in Query : query'[q].pc = "call" => query'[q].m \in P
      /\ \A m \in P : m \in {current', owner'.new, owner'.old} \ {None}
                      \/ \E q \in Query : query'[q].pc = "call" /\ query'[q].m = m
  <2>1. current' \in Manager \cup {None} /\ owner' \in OwnerState
    BY DEF StateType
  <2>2. owner'.new \in Manager \cup {None} /\ owner'.old \in Manager \cup {None}
    BY <2>1 DEF OwnerState
  <2>3. \A q \in Query : query'[q].pc = "call" => query'[q].m \in Manager
    BY <1>1 DEF CallsHold
  <2>4. QED
    BY <2>1, <2>2, <2>3, NoneAssumption DEF Pointers
<1> HIDE DEF P
<1>4. P \subseteq Manager
  BY <1>3, <1>1 DEF StateType
<1>5. CallsHold'
  BY <1>3 DEF CallsHold
<1>6. Alive'
  <2>1. \A m \in {current', owner'.new, owner'.old} \ {None} : mgr[m].pc # "free"
    BY <1>1 DEF Alive
  <2>2. \A q \in Query : query'[q].pc = "call" => mgr[query'[q].m].pc # "free"
    BY <1>1 DEF Alive
  <2>3. \A m \in P : mgr'[m].pc = mgr[m].pc
    BY <1>2, <1>4
  <2>4. QED
    BY <1>3, <2>1, <2>2, <2>3 DEF Alive
<1>7. OnlyNewHasOld' /\ NewIsPrivate'
  <2>1. ASSUME NEW m \in Manager, mgr'[m].old # None
        PROVE  owner'.pc \in {"wait", "counted"} /\ m = owner'.new /\ mgr'[m].old = current'
    <3>1. mgr'[m] = ms[m] /\ ms[m].old = mgr[m].old
      BY <1>2, <2>1
    <3>2. m = owner.new /\ mgr[m].old = current
      BY <1>1, <2>1, <3>1 DEF OnlyNewHasOld
    <3>3. owner'.pc \in {"wait", "counted"} /\ owner'.new = owner.new
      <4>1. CASE m \in P
        BY <2>1, <3>1, <4>1 DEF P
      <4>2. ASSUME NEW n \in P, m = ms[n].old
            PROVE  owner'.pc \in {"wait", "counted"} /\ owner'.new = owner.new
        BY <4>2, NoneAssumption DEF P
      <4>3. QED
        BY <1>2, <2>1, <4>1, <4>2
    <3>4. QED
      BY <3>1, <3>2, <3>3
  <2>2. NewIsPrivate'
    BY <1>1 DEF NewIsPrivate
  <2>3. QED
    BY <2>1, <2>2 DEF OnlyNewHasOld
<1>8. Held'
  <2> SUFFICES ASSUME NEW m \in Manager, mgr'[m].pc # "free"
               PROVE  \/ m \in {current', owner'.new, owner'.old}
                      \/ \E q \in Query : query'[q].pc = "call" /\ query'[q].m = m
    BY DEF Held
  <2>1. CASE m \in P
    BY <1>3, <2>1
  <2>2. ASSUME NEW n \in P, m = ms[n].old PROVE m = current'
    BY <1>1, <1>4, <2>2, NoneAssumption DEF OnlyNewHasOld
  <2>3. QED
    BY <1>2, <2>1, <2>2
<1>9. ToBeStored'
  <2>1. \A m \in Manager : mgr'[m].version <= file'.version
    BY <1>1, <1>2 DEF ToBeStored, StateType, File
  <2>2. ASSUME owner'.pc \in {"wait", "counted", "store"}
        PROVE  /\ owner'.new \in P /\ current' \in P /\ owner'.new = owner.new
               /\ owner.new \in Manager /\ current \in Manager
    <3>1. owner.new # None /\ current # None
      BY <1>1, <2>2 DEF Locals, Building
    <3>2. QED
      BY <1>3, <2>2, <3>1
  <2>3. owner'.pc \in {"wait", "counted", "store"} =>
          mgr'[owner'.new].version >= mgr'[current'].version
    <3>1. SUFFICES ASSUME owner'.pc \in {"wait", "counted", "store"}
                   PROVE  mgr'[owner'.new].version >= mgr'[current'].version
      OBVIOUS
    <3>2. mgr[owner.new].version >= mgr[current].version
      BY <1>1, <3>1 DEF ToBeStored
    <3>3. QED
      BY <1>2, <2>2, <3>1, <3>2
  <2>4. owner'.pc = "store" => mgr'[owner'.new].work # "unscanned"
    BY <1>2, <2>2
  <2>5. QED
    BY <2>1, <2>3, <2>4 DEF ToBeStored
<1>10. Stopping'
  <2>1. shutdown' = "done" => current # None
    BY <1>1 DEF Stopping, Locals
  <2>2. QED
    BY <1>1, <1>2, <1>3, <2>1 DEF Stopping
<1>11. QED
  BY <1>5, <1>6, <1>7, <1>8, <1>9, <1>10, TypeParts DEF Inv, TypeOK, StateType, Alive

-------------------------------------------------------------------------------
(* ErrorIsTrue, case by case.                                              *)
LEMMA ErrorCases ==
  ASSUME errno \in Error
  PROVE  ErrorIsTrue <=>
           (owner.pc = "poll" /\ ~shutting =>
              /\ errno = "OK" => parsed = "OK"
              /\ errno = "ENOENT" => owner.filetime = 0
              /\ errno = "ENOEXEC" => parsed = "syntax"
              /\ errno = "EINPROGRESS" => parsed = "other"
              /\ errno # "ESHUTDOWN")
BY DEF ErrorIsTrue, Error

-------------------------------------------------------------------------------
(* Every step keeps the values of the variables.                           *)
LEMMA Clock ==
  ASSUME StateType
  PROVE  Later \in Nat /\ TimeOfDay \in Nat /\ WriteTime \in Nat
BY DEF Later, TimeOfDay, WriteTime, StateType, File

LEMMA RoundEndsFacts ==
  ASSUME NEW o \in OwnerState, NEW t \in Nat
  PROVE  /\ RoundEnds(o, t) \in OwnerState /\ RoundEnds(o, t).pc = "poll"
         /\ RoundEnds(o, t).new = None /\ RoundEnds(o, t).old = None
BY DEF RoundEnds, OwnerState

LEMMA FileTypes ==
  ASSUME StateType, (\E kind \in Kind : WriteFile(kind)) \/ DeleteFile
  PROVE  StateType'
<1>1. changes' \in 0 .. MaxChanges
  BY ReloadAssumption DEF StateType, WriteFile, DeleteFile
<1>2. CASE DeleteFile
  BY <1>1, <1>2 DEF StateType, DeleteFile, File
<1>3. ASSUME NEW kind \in Kind, WriteFile(kind) PROVE StateType'
  <2>1. PICK t \in {now, Later} :
          /\ now' = t
          /\ file' = [exists |-> TRUE, version |-> file.version + 1, kind |-> kind, mtime |-> t]
    BY <1>3 DEF WriteFile
  <2>2. t \in Nat /\ file.version + 1 \in Nat
    BY <2>1, Clock DEF StateType, File
  <2>3. file' \in File /\ now' \in Nat
    BY <2>1, <2>2 DEF File
  <2>4. QED
    BY <1>1, <1>3, <2>3 DEF StateType, WriteFile
<1>4. QED
  BY <1>2, <1>3

LEMMA CallTypes ==
  ASSUME StateType, NEW q \in Query,
         Call(q) \/ Return(q) \/ ReturnReference(q) \/ ForgetReference(q)
  PROVE  StateType'
<1>1. query' \in [Query -> [pc : {"idle", "call", "ref"}, m : Manager \cup {None}]]
  BY DEF StateType, Call, Return, ReturnReference, ForgetReference, Idle
<1>2. mgr' \in [Manager -> ManagerState]
  BY FreeingFacts DEF StateType, Call, Return, ReturnReference, ForgetReference
<1>3. UNCHANGED <<file, changes, now, current, errno, owner, parsed, shutting, shutdown>>
  BY DEF Call, Return, ReturnReference, ForgetReference
<1>4. QED
  BY <1>1, <1>2, <1>3 DEF StateType

LEMMA ShutdownTypes ==
  ASSUME StateType, RequestShutdown \/ ShutdownInterrupts \/ ShutdownJoins
  PROVE  StateType'
<1>1. mgr' \in [Manager -> ManagerState]
  BY DEF StateType, RequestShutdown, ShutdownInterrupts, ShutdownJoins, ManagerState
<1>2. /\ UNCHANGED <<file, changes, now, current, errno, owner, parsed, query>>
      /\ shutting' \in BOOLEAN /\ shutdown' \in {"no", "joining", "done"}
  BY DEF StateType, RequestShutdown, ShutdownInterrupts, ShutdownJoins
<1>3. QED
  BY <1>1, <1>2 DEF StateType

LEMMA OwnerTypes ==
  ASSUME StateType, OwnerStep, Locals
  PROVE  StateType'
<1>1. /\ owner \in OwnerState /\ mgr \in [Manager -> ManagerState]
      /\ current \in Manager \cup {None} /\ file \in File /\ now \in Nat
  BY DEF StateType
<1>2. /\ owner.new \in Manager \cup {None}
      /\ owner.pc \in Building => owner.new \in Manager
      /\ owner.pc \in {"bootinit", "bootwait", "bootcounted"} => current \in Manager
      /\ file.mtime \in Nat /\ file.version \in Nat
      /\ TimeOfDay \in Nat /\ WriteTime \in Nat
  BY <1>1, Clock DEF OwnerState, Locals, File
<1>3. UNCHANGED <<file, changes, shutting, shutdown, query>>
  BY DEF OwnerStep, ParseTime, ParseFails, BootParses, BootInit, BootReady, PollRemoved,
         PollModified, Cool, Parses, Ready, Store, Rested, WatcherExit, WatcherInterrupted,
         ReadyCount, MonitorNotReady
<1>4. CASE ParseTime
  <2>1. PICK m \in Manager : /\ mgr' = [mgr EXCEPT ![m].pc = "made", ![m].modtime = WriteTime]
                             /\ owner' = [owner EXCEPT !.pc = IF @ = "boot" THEN "bootread" ELSE "read",
                                                       !.new = m]
    BY <1>4 DEF ParseTime
  <2>2. mgr' \in [Manager -> ManagerState]
    BY <1>1, <1>2, <2>1, ZenonT(60) DEF ManagerState
  <2>3. owner' \in OwnerState
    BY <1>1, <2>1 DEF OwnerState
  <2>4. QED
    BY <1>3, <1>4, <2>2, <2>3 DEF StateType, ParseTime
<1>5. CASE ParseFails
  <2>1. now' \in Nat
    BY <1>1, <1>2, <1>5 DEF ParseFails
  <2>2. owner' \in OwnerState
    <3>1. CASE owner' = RoundEnds(owner, now')
      BY <1>1, <2>1, <3>1, RoundEndsFacts
    <3>2. CASE owner' = [owner EXCEPT !.pc = "failed", !.new = None]
      BY <1>1, <3>2 DEF OwnerState
    <3>3. QED
      BY <1>5, <3>1, <3>2 DEF ParseFails
  <2>3. errno' \in Error /\ parsed' \in {"OK", "syntax", "other"}
    BY <1>5 DEF ParseFails, ErrorOfParse, StateType, Error
  <2>4. mgr' \in [Manager -> ManagerState]
    BY <1>1, <1>5, FreeingFacts DEF ParseFails
  <2>5. QED
    BY <1>3, <1>5, <2>1, <2>2, <2>3, <2>4 DEF StateType, ParseFails
<1>6. CASE BootParses
  <2>1. mgr' \in [Manager -> ManagerState]
    BY <1>1, <1>2, <1>6 DEF BootParses, Building, ManagerState
  <2>2. owner' \in OwnerState /\ current' \in Manager
    BY <1>1, <1>2, <1>6 DEF BootParses, Building, OwnerState
  <2>3. QED
    BY <1>3, <1>6, <2>1, <2>2 DEF StateType, BootParses
<1>7. CASE BootInit
  <2>1. owner' \in OwnerState
    BY <1>1, <1>7 DEF BootInit, OwnerState
  <2>2. mgr' \in [Manager -> ManagerState]
    <3>1. CASE mgr' = mgr
      BY <1>1, <3>1
    <3>2. ASSUME NEW work \in AtStart,
                 mgr' = [mgr EXCEPT ![current].pc = "running", ![current].work = work]
          PROVE  mgr' \in [Manager -> ManagerState]
      <4>1. current \in Manager /\ work \in Work
        BY <1>2, <1>7 DEF BootInit, AtStart, Work
      <4>2. QED
        BY <1>1, <3>2, <4>1 DEF ManagerState
    <3>3. QED
      BY <1>7, <3>1, <3>2 DEF BootInit
  <2>3. QED
    BY <1>3, <1>7, <2>1, <2>2 DEF StateType, BootInit
<1>8. CASE BootReady
  <2>1. mgr' \in [Manager -> ManagerState]
    BY <1>1, <1>8 DEF BootReady
  <2>2. owner' \in OwnerState
    <3>1. mgr[current].modtime \in Nat
      BY <1>1, <1>2, <1>8 DEF BootReady, WaitEnds, ManagerState
    <3>2. QED
      BY <1>1, <1>8, <3>1 DEF BootReady, OwnerState
  <2>3. QED
    BY <1>3, <1>8, <2>1, <2>2 DEF StateType, BootReady, Error
<1>9. CASE PollRemoved \/ PollModified
  <2>1. now' \in Nat
    BY <1>1, <1>9, Clock DEF PollRemoved, PollModified, Awake
  <2>2. owner' \in OwnerState
    <3>1. CASE PollRemoved
      BY <1>1, <2>1, <3>1 DEF PollRemoved, OwnerState
    <3>2. CASE PollModified
      <4> DEFINE t == file.mtime
      <4>1. t \in Nat /\ owner' = [owner EXCEPT !.pc = "cool", !.newtime = t, !.filetime = t,
                                               !.slept = now']
        BY <1>2, <3>2 DEF PollModified
      <4> HIDE DEF t
      <4>2. QED
        BY <1>1, <2>1, <4>1 DEF OwnerState
    <3>3. QED
      BY <1>9, <3>1, <3>2
  <2>3. QED
    BY <1>3, <1>9, <2>1, <2>2 DEF StateType, PollRemoved, PollModified, Error
<1>10. CASE Cool
  <2>1. now' \in Nat
    BY <1>1, <1>10, Clock DEF Cool, Awake
  <2>2. Cooled \in OwnerState
    BY <1>1, <2>1, Clock DEF Cooled, OwnerState, File
  <2>3. owner' \in OwnerState
    <3>1. CASE owner' = [Cooled EXCEPT !.filetime = WriteTime]
      BY <2>2, <3>1, Clock DEF OwnerState
    <3>2. CASE owner' = [Cooled EXCEPT !.pc = "time"]
      BY <2>2, <3>2 DEF OwnerState
    <3>3. CASE owner' = RoundEnds(Cooled, now')
      BY <2>1, <2>2, <3>3, RoundEndsFacts
    <3>4. QED
      BY <1>10, <3>1, <3>2, <3>3 DEF Cool
  <2>4. QED
    BY <1>3, <1>10, <2>1, <2>3 DEF StateType, Cool
<1>11. CASE Parses
  <2>1. mgr' \in [Manager -> ManagerState]
    <3>1. PICK work \in AtStart :
            mgr' = [mgr EXCEPT ![owner.new] = [@ EXCEPT !.pc = "running", !.version = file.version,
                                                        !.old = current, !.work = work]]
      BY <1>11 DEF Parses
    <3>2. owner.new \in Manager /\ work \in Work
      BY <1>2, <1>11, <3>1 DEF Parses, Building, AtStart, Work
    <3> DEFINE made == [mgr[owner.new] EXCEPT !.pc = "running", !.version = file.version,
                                              !.old = current, !.work = work]
    <3>3. made \in ManagerState
      BY <1>1, <1>2, <3>2 DEF ManagerState
    <3>4. mgr' = [mgr EXCEPT ![owner.new] = made]
      BY <3>1, <3>2, <1>1
    <3> HIDE DEF made
    <3>5. QED
      BY <1>1, <3>3, <3>4
  <2>2. owner' \in OwnerState
    BY <1>1, <1>11 DEF Parses, OwnerState
  <2>3. QED
    BY <1>3, <1>11, <2>1, <2>2 DEF StateType, Parses
<1>12. CASE Ready
  <2>1. now' \in Nat /\ owner' \in OwnerState
    BY <1>1, <1>12, Clock, RoundEndsFacts DEF Ready, OwnerState
  <2>2. mgr' = Freed(owner', current, query, [mgr EXCEPT ![owner.new].old = OldRemoved])
    BY <1>12 DEF Ready
  <2>3. [mgr EXCEPT ![owner.new].old = OldRemoved] \in [Manager -> ManagerState]
    BY <1>1, ZenonT(60) DEF ManagerState, OldRemoved
  <2>4. mgr' \in [Manager -> ManagerState]
    BY <2>2, <2>3, FreeingFacts
  <2>5. QED
    BY <1>3, <1>12, <2>1, <2>4 DEF StateType, Ready
<1>13. CASE Store
  BY <1>1, <1>2, <1>3, <1>13 DEF StateType, Store, Building, OwnerState, Error
<1>14. CASE Rested
  <2>1. now' \in Nat /\ owner' \in OwnerState
    BY <1>1, <1>14, Clock, RoundEndsFacts DEF Rested
  <2>2. mgr' \in [Manager -> ManagerState]
    BY <1>1, <1>14, FreeingFacts DEF Rested
  <2>3. QED
    BY <1>3, <1>14, <2>1, <2>2 DEF StateType, Rested
<1>15. CASE WatcherExit
  BY <1>1, <1>3, <1>15 DEF StateType, WatcherExit, OwnerState, Error
<1>16. CASE WatcherInterrupted
  <2>1. mgr' \in [Manager -> ManagerState] /\ owner' \in OwnerState
    BY <1>1, <1>16, FreeingFacts DEF WatcherInterrupted, OwnerState
  <2>2. QED
    BY <1>3, <1>16, <2>1 DEF StateType, WatcherInterrupted
<1>17. CASE ReadyCount \/ MonitorNotReady
  BY <1>1, <1>3, <1>17 DEF StateType, ReadyCount, MonitorNotReady, OwnerState
<1>18. QED
  BY <1>4, <1>5, <1>6, <1>7, <1>8, <1>9, <1>10, <1>11, <1>12, <1>13, <1>14, <1>15, <1>16, <1>17
     DEF OwnerStep

LEMMA WorkTypes ==
  ASSUME StateType, NEW m \in Manager, Scanned(m) \/ Loaded(m)
  PROVE  StateType'
<1>1. PICK work \in Work : mgr' = [mgr EXCEPT ![m].work = work]
  BY DEF Scanned, Loaded, Work
<1>2. mgr' \in [Manager -> ManagerState]
  BY <1>1 DEF StateType, ManagerState
<1>3. UNCHANGED <<file, changes, now, current, errno, owner, parsed, shutting, shutdown, query>>
  BY DEF Scanned, Loaded
<1>4. QED
  BY <1>2, <1>3 DEF StateType

-------------------------------------------------------------------------------
(* Steps that touch neither managers nor pointers to them.                 *)
LEMMA QuietStep ==
  ASSUME Inv, StateType', mgr' = mgr, current' = current,
         owner'.new = owner.new, owner'.old = owner.old,
         \/ owner'.pc = owner.pc
         \/ owner.pc \in {"wait", "counted"} /\ owner'.pc \in {"wait", "counted"}
         \/ owner.pc \notin {"wait", "counted", "store"}
            /\ owner'.pc \notin {"read", "wait", "counted", "store"},
         \A q \in Query : /\ query'[q].pc = "call" <=> query[q].pc = "call"
                          /\ query[q].pc = "call" => query'[q].m = query[q].m,
         file'.version \in Nat, file'.version >= file.version,
         Locals', ErrorsSoFar', ErrorIsTrue', Stopping'
  PROVE  Inv'
<1>1. StateType /\ Alive /\ OnlyNewHasOld /\ NewIsPrivate /\ Held /\ CallsHold /\ ToBeStored
  BY TypeParts DEF Inv
<1>2. Alive'
  BY <1>1 DEF Alive
<1>3. OnlyNewHasOld' /\ NewIsPrivate'
  BY <1>1 DEF OnlyNewHasOld, NewIsPrivate
<1>4. Held' /\ CallsHold'
  BY <1>1 DEF Held, CallsHold
<1>5. ToBeStored'
  <2>1. \A m \in Manager : mgr[m].version \in Nat /\ mgr[m].version <= file.version
    BY <1>1 DEF ToBeStored, StateType, ManagerState
  <2>2. file.version \in Nat
    BY <1>1 DEF StateType, File
  <2>3. \A m \in Manager : mgr[m].version <= file'.version
    BY <2>1, <2>2
  <2>4. QED
    BY <1>1, <2>3 DEF ToBeStored
<1>6. QED
  BY <1>2, <1>3, <1>4, <1>5, TypeParts DEF Inv, TypeOK, StateType, Alive

LEMMA FileStep ==
  ASSUME Inv, (\E kind \in Kind : WriteFile(kind)) \/ DeleteFile
  PROVE  Inv'
<1>1. StateType /\ StateType' /\ Locals /\ ErrorsSoFar /\ ErrorIsTrue /\ Stopping
  BY FileTypes, TypeParts DEF Inv
<1>2. UNCHANGED <<mgr, current, errno, owner, parsed, shutting, shutdown, query>>
  BY DEF WriteFile, DeleteFile
<1>3. file'.version \in Nat /\ file'.version >= file.version
  BY <1>1 DEF StateType, File, WriteFile, DeleteFile
<1>4. Locals' /\ ErrorsSoFar' /\ ErrorIsTrue' /\ Stopping'
  BY <1>1, <1>2 DEF Locals, ErrorsSoFar, ErrorIsTrue, Stopping
<1>5. QED
  BY <1>1, <1>2, <1>3, <1>4, QuietStep

LEMMA ShutdownStep ==
  ASSUME Inv, RequestShutdown \/ ShutdownInterrupts \/ ShutdownJoins
  PROVE  Inv'
<1>1. /\ StateType /\ StateType' /\ Alive /\ Locals /\ OnlyNewHasOld /\ NewIsPrivate
      /\ Held /\ CallsHold /\ ToBeStored /\ ErrorsSoFar /\ ErrorIsTrue /\ Stopping
  BY ShutdownTypes, TypeParts DEF Inv
<1>2. UNCHANGED <<file, changes, now, current, errno, owner, parsed, query>>
  BY DEF RequestShutdown, ShutdownInterrupts, ShutdownJoins
<1>3. shutting' \/ (shutting' = shutting)
  BY DEF RequestShutdown, ShutdownInterrupts, ShutdownJoins
<1>4. Locals' /\ ErrorsSoFar' /\ ErrorIsTrue'
  BY <1>1, <1>2, <1>3 DEF Locals, ErrorsSoFar, ErrorIsTrue
<1>5. CASE RequestShutdown \/ ShutdownInterrupts
  <2>1. mgr' = mgr /\ Stopping'
    BY <1>1, <1>2, <1>5 DEF RequestShutdown, ShutdownInterrupts, Stopping
  <2>2. file'.version \in Nat /\ file'.version >= file.version
    BY <1>1, <1>2 DEF StateType, File
  <2>3. QED
    BY <1>1, <1>2, <1>4, <2>1, <2>2, QuietStep
<1>6. CASE ShutdownJoins
  <2>1. /\ shutdown = "joining" /\ shutdown' = "done" /\ shutting' = shutting
        /\ owner.pc = "done" /\ mgr' = [mgr EXCEPT ![current].pc = "stopped"]
    BY <1>6 DEF ShutdownJoins, WatcherJoined
  <2>2. current \in Manager
    BY <1>1, <2>1 DEF StateType, Locals
  <2>3. /\ mgr'[current].pc = "stopped"
        /\ \A m \in Manager : /\ m # current => mgr'[m].pc = mgr[m].pc
                              /\ mgr'[m].old = mgr[m].old /\ mgr'[m].version = mgr[m].version
    BY <1>1, <2>1, <2>2 DEF StateType, ManagerState
  <2>4. \A m \in Manager : mgr[m].pc # "free" => mgr'[m].pc # "free"
    BY <2>3
  <2>5. Alive'
    <3>1. owner.new \in Manager \cup {None} /\ owner.old \in Manager \cup {None}
      BY <1>1 DEF StateType, OwnerState
    <3>2. QED
      BY <1>1, <1>2, <2>2, <2>4, <3>1 DEF Alive, CallsHold
  <2>6. OnlyNewHasOld' /\ NewIsPrivate' /\ CallsHold' /\ ToBeStored'
    BY <1>1, <1>2, <2>1, <2>3 DEF OnlyNewHasOld, NewIsPrivate, CallsHold, ToBeStored
  <2>7. Held'
    BY <1>1, <1>2, <2>3 DEF Held
  <2>8. Stopping'
    BY <1>1, <1>2, <2>1, <2>3 DEF Stopping
  <2>9. QED
    BY <1>1, <1>4, <2>5, <2>6, <2>7, <2>8, TypeParts DEF Inv, TypeOK, StateType, Alive
<1>7. QED
  BY <1>5, <1>6

LEMMA CallStep ==
  ASSUME Inv, NEW q \in Query, Call(q) \/ Return(q) \/ ReturnReference(q) \/ ForgetReference(q)
  PROVE  Inv'
<1>1. /\ StateType /\ StateType' /\ Alive /\ Locals /\ OnlyNewHasOld /\ NewIsPrivate
      /\ Held /\ CallsHold /\ ToBeStored /\ ErrorsSoFar /\ ErrorIsTrue /\ Stopping
  BY CallTypes, TypeParts DEF Inv
<1>2. UNCHANGED <<file, changes, now, current, errno, owner, parsed, shutting, shutdown>>
  BY DEF Call, Return, ReturnReference, ForgetReference
<1>3. Locals' /\ ErrorsSoFar' /\ ErrorIsTrue'
  BY <1>1, <1>2 DEF Locals, ErrorsSoFar, ErrorIsTrue
<1>4. file'.version \in Nat /\ file'.version >= file.version
  BY <1>1, <1>2 DEF StateType, File
<1>5. CASE Call(q)
  <2>1. /\ mgr' = mgr /\ Booted /\ query[q].pc = "idle"
        /\ query' = [query EXCEPT ![q] = [pc |-> "call", m |-> current]]
    BY <1>5 DEF Call
  <2>2. current \in Manager /\ mgr[current].pc # "free"
    BY <1>1, <2>1 DEF StateType, Locals, Booted, Booting, Alive
  <2>3. /\ query'[q].pc = "call" /\ query'[q].m = current
        /\ \A x \in Query \ {q} : query'[x] = query[x]
    BY <1>1, <2>1 DEF StateType
  <2>4. Alive' /\ CallsHold'
    BY <1>1, <1>2, <2>1, <2>2, <2>3 DEF Alive, CallsHold
  <2>5. Held'
    <3>1. \A x \in Query : query[x].pc = "call" => query'[x].pc = "call" /\ query'[x].m = query[x].m
      BY <2>1, <2>3
    <3>2. QED
      BY <1>1, <1>2, <2>1, <3>1 DEF Held
  <2>6. OnlyNewHasOld' /\ NewIsPrivate' /\ ToBeStored' /\ Stopping'
    BY <1>1, <1>2, <2>1, <2>3 DEF OnlyNewHasOld, NewIsPrivate, ToBeStored, Stopping
  <2>7. QED
    BY <1>1, <1>3, <2>4, <2>5, <2>6, TypeParts DEF Inv, TypeOK, StateType, Alive
<1>6. CASE Return(q) \/ ReturnReference(q)
  <2>1. /\ mgr' = Freed(owner', current', query', mgr)
        /\ mgr \in [Manager -> ManagerState]
    BY <1>1, <1>2, <1>6 DEF Return, ReturnReference, StateType
  <2>2. /\ query'[q].pc # "call" /\ \A x \in Query \ {q} : query'[x] = query[x]
    BY <1>1, <1>6 DEF Return, ReturnReference, StateType, Idle
  <2>3. \A x \in Query : query'[x].pc = "call" =>
          query[x].pc = "call" /\ query'[x].m = query[x].m
    BY <2>2
  <2>4. \A m \in Pointers(owner', current', query') :
          mgr[m].old # None => owner'.pc \in {"wait", "counted"} /\ owner'.new = owner.new
    <3>1. Pointers(owner', current', query') \subseteq Manager
      BY <1>1 DEF Pointers, StateType, OwnerState
    <3>2. QED
      BY <1>1, <1>2, <3>1 DEF OnlyNewHasOld
  <2>5. (shutdown' # "no" => shutting') /\ (shutdown' = "done" => shutdown = "done" /\ owner'.pc = "done")
    BY <1>1, <1>2 DEF Stopping
  <2>6. owner'.pc = "store" => mgr[owner.new].work # "unscanned"
    BY <1>1, <1>2 DEF ToBeStored
  <2>7. QED
    BY <1>1, <1>2, <1>3, <2>1, <2>3, <2>4, <2>5, <2>6, DropStep
<1>7. CASE ForgetReference(q)
  <2>1. mgr' = mgr
    BY <1>7 DEF ForgetReference
  <2>2. /\ query'[q].pc = "idle" /\ query[q].pc = "ref"
        /\ \A x \in Query \ {q} : query'[x] = query[x]
    BY <1>1, <1>7 DEF ForgetReference, StateType, Idle
  <2>3. \A x \in Query : /\ query'[x].pc = "call" <=> query[x].pc = "call"
                         /\ query[x].pc = "call" => query'[x].m = query[x].m
    BY <2>2
  <2>4. Stopping'
    BY <1>1, <1>2, <2>1 DEF Stopping
  <2>5. QED
    BY <1>1, <1>2, <1>3, <1>4, <2>1, <2>3, <2>4, QuietStep
<1>8. QED
  BY <1>5, <1>6, <1>7

-------------------------------------------------------------------------------
(* The watcher.                                                            *)
LEMMA ParseTimeStep == Inv /\ ParseTime => Inv'
<1> SUFFICES ASSUME Inv, ParseTime PROVE Inv'
  OBVIOUS
<1>1. /\ StateType /\ StateType' /\ Alive /\ Locals /\ OnlyNewHasOld /\ NewIsPrivate
      /\ Held /\ CallsHold /\ ToBeStored /\ ErrorsSoFar /\ ErrorIsTrue /\ Stopping
  BY OwnerTypes, TypeParts DEF Inv, OwnerStep
<1>2. /\ UNCHANGED <<file, changes, now, current, errno, parsed, shutting, shutdown, query>>
      /\ owner.pc \in {"boot", "time"}
  BY DEF ParseTime
<1>3. PICK m \in Manager :
        /\ mgr[m].pc = "free"
        /\ mgr' = [mgr EXCEPT ![m].pc = "made", ![m].modtime = WriteTime]
        /\ owner' = [owner EXCEPT !.pc = IF @ = "boot" THEN "bootread" ELSE "read", !.new = m]
  BY DEF ParseTime
<1>4. /\ owner'.pc = (IF owner.pc = "boot" THEN "bootread" ELSE "read")
      /\ owner'.new = m /\ owner'.old = owner.old
  BY <1>1, <1>3 DEF StateType, OwnerState
<1>5. /\ mgr'[m].pc = "made" /\ mgr'[m].old = mgr[m].old /\ mgr'[m].version = mgr[m].version
      /\ \A n \in Manager \ {m} : mgr'[n] = mgr[n]
  BY <1>1, <1>3 DEF StateType, ManagerState
<1>6. owner.new = None /\ owner.old = None /\ m # None
  BY <1>1, <1>2, NoneAssumption DEF Locals, Building
<1>7. Locals'
  BY <1>1, <1>2, <1>4, <1>6 DEF Locals, Building
<1>8. Alive'
  <2>1. \A n \in Manager : mgr[n].pc # "free" => mgr'[n].pc # "free"
    BY <1>3, <1>5
  <2>2. current \in Manager \cup {None}
    BY <1>1 DEF StateType
  <2>3. QED
    BY <1>1, <1>2, <1>4, <1>5, <1>6, <2>1, <2>2 DEF Alive, CallsHold
<1>9. OnlyNewHasOld' /\ NewIsPrivate' /\ CallsHold'
  <2>1. current # m /\ \A q \in Query : query[q].pc = "call" => query[q].m # m
    BY <1>1, <1>3, <1>6 DEF Alive
  <2>2. QED
    BY <1>1, <1>2, <1>4, <1>5, <2>1 DEF OnlyNewHasOld, NewIsPrivate, CallsHold
<1>10. Held'
  BY <1>1, <1>2, <1>4, <1>5, <1>6 DEF Held
<1>11. ToBeStored' /\ ErrorsSoFar' /\ ErrorIsTrue'
  BY <1>1, <1>2, <1>4, <1>5 DEF ToBeStored, ErrorsSoFar, ErrorIsTrue
<1>12. Stopping'
  BY <1>1, <1>2 DEF Stopping
<1>13. QED
  BY <1>1, <1>7, <1>8, <1>9, <1>10, <1>11, <1>12, TypeParts DEF Inv, TypeOK, StateType, Alive

LEMMA BootParsesStep == Inv /\ BootParses => Inv'
<1> SUFFICES ASSUME Inv, BootParses PROVE Inv'
  OBVIOUS
<1> DEFINE m == owner.new
<1>1. /\ StateType /\ StateType' /\ Alive /\ Locals /\ OnlyNewHasOld /\ NewIsPrivate
      /\ Held /\ CallsHold /\ ToBeStored /\ ErrorsSoFar /\ ErrorIsTrue /\ Stopping
  BY OwnerTypes, TypeParts DEF Inv, OwnerStep
<1>2. /\ UNCHANGED <<file, changes, now, errno, shutting, shutdown, query>>
      /\ owner.pc = "bootread" /\ parsed' = "OK" /\ current' = m
      /\ mgr' = [mgr EXCEPT ![m].pc = "made", ![m].version = file.version]
      /\ owner' = [owner EXCEPT !.pc = "bootinit", !.new = None]
  BY DEF BootParses
<1>3. m \in Manager /\ m # None /\ current = None /\ owner.old = None
  BY <1>1, <1>2 DEF Locals, Building, StateType, OwnerState
<1>4. owner'.pc = "bootinit" /\ owner'.new = None /\ owner'.old = None
  BY <1>1, <1>2, <1>3 DEF StateType, OwnerState
<1> HIDE DEF m
<1>5. /\ mgr'[m].pc = "made" /\ mgr'[m].old = mgr[m].old /\ mgr'[m].version = file.version
      /\ \A n \in Manager \ {m} : mgr'[n] = mgr[n]
  BY <1>1, <1>2, <1>3 DEF StateType, ManagerState
<1>6. Locals'
  BY <1>2, <1>3, <1>4 DEF Locals, Building
<1>7. Alive'
  <2>1. \A n \in Manager : mgr[n].pc # "free" => mgr'[n].pc # "free"
    BY <1>5
  <2>2. QED
    BY <1>1, <1>2, <1>4, <1>5, <2>1 DEF Alive, CallsHold
<1>8. OnlyNewHasOld' /\ NewIsPrivate' /\ CallsHold'
  BY <1>1, <1>2, <1>4, <1>5 DEF OnlyNewHasOld, NewIsPrivate, CallsHold
<1>9. Held'
  <2>1. \A n \in Manager : n \in {current, owner.new, owner.old} => n = m
    BY <1>3, NoneAssumption DEF m
  <2>2. QED
    BY <1>1, <1>2, <1>5, <2>1 DEF Held
<1>10. ToBeStored'
  <2>1. file.version \in Nat /\ file' = file
    BY <1>1, <1>2 DEF StateType, File
  <2>2. ASSUME NEW n \in Manager PROVE mgr'[n].version <= file.version
    <3>1. CASE n = m
      BY <1>5, <2>1, <3>1
    <3>2. CASE n # m
      BY <1>1, <1>5, <3>2 DEF ToBeStored
    <3>3. QED
      BY <3>1, <3>2
  <2>3. QED
    BY <1>4, <2>1, <2>2 DEF ToBeStored
<1>11. ErrorsSoFar' /\ ErrorIsTrue'
  BY <1>1, <1>2, <1>4 DEF ErrorsSoFar, ErrorIsTrue
<1>12. Stopping'
  BY <1>1, <1>2 DEF Stopping
<1>13. QED
  BY <1>1, <1>6, <1>7, <1>8, <1>9, <1>10, <1>11, <1>12, TypeParts
     DEF Inv, TypeOK, StateType, Alive

(* Steps of managers that change no pointer and no settings.               *)
LEMMA WorkStep ==
  ASSUME Inv, StateType', current' = current, owner'.new = owner.new, owner'.old = owner.old,
         UNCHANGED <<file, shutting, shutdown, query>>,
         \A m \in Manager : /\ mgr'[m].pc # "free" <=> mgr[m].pc # "free"
                            /\ mgr'[m].old = mgr[m].old /\ mgr'[m].version = mgr[m].version,
         \/ /\ owner'.pc = owner.pc
            /\ \A m \in Manager : mgr[m].work # "unscanned" => mgr'[m].work # "unscanned"
         \/ owner.pc = "bootinit" /\ owner'.pc = "bootwait",
         Locals', ErrorsSoFar', ErrorIsTrue', Stopping'
  PROVE  Inv'
<1>1. /\ StateType /\ Alive /\ OnlyNewHasOld /\ NewIsPrivate /\ Held /\ CallsHold
      /\ ToBeStored /\ Locals
  BY TypeParts DEF Inv
<1>2. owner.new \in Manager \cup {None} /\ owner.old \in Manager \cup {None}
      /\ current \in Manager \cup {None}
  BY <1>1 DEF StateType, OwnerState
<1>3. Alive'
  BY <1>1, <1>2 DEF Alive, CallsHold
<1>4. OnlyNewHasOld' /\ NewIsPrivate'
  BY <1>1 DEF OnlyNewHasOld, NewIsPrivate
<1>5. CallsHold' /\ Held'
  <2>1. \A m \in Manager : mgr'[m].pc # "free" => mgr[m].pc # "free"
    OBVIOUS
  <2>2. QED
    BY <1>1, <2>1 DEF CallsHold, Held
<1>6. ToBeStored'
  <2>1. owner.pc \in {"wait", "counted", "store"} => owner.new \in Manager /\ current \in Manager
    BY <1>1, <1>2 DEF Locals, Building
  <2>2. QED
    BY <1>1, <2>1 DEF ToBeStored
<1>7. QED
  BY <1>3, <1>4, <1>5, <1>6, TypeParts DEF Inv, TypeOK, StateType, Alive

LEMMA ManagerStep ==
  ASSUME Inv, NEW m \in Manager, Scanned(m) \/ Loaded(m)
  PROVE  Inv'
<1>1. StateType /\ StateType' /\ Locals /\ ErrorsSoFar /\ ErrorIsTrue /\ Stopping
  BY WorkTypes, TypeParts DEF Inv
<1>2. UNCHANGED <<file, changes, now, current, errno, owner, parsed, shutting, shutdown, query>>
  BY DEF Scanned, Loaded
<1>3. PICK work \in {"loading", "loaded"} : mgr' = [mgr EXCEPT ![m].work = work]
  BY DEF Scanned, Loaded
<1>4. \A n \in Manager : /\ mgr'[n].pc = mgr[n].pc /\ mgr'[n].old = mgr[n].old
                         /\ mgr'[n].version = mgr[n].version
                         /\ mgr[n].work # "unscanned" => mgr'[n].work # "unscanned"
  BY <1>1, <1>3 DEF StateType, ManagerState
<1>5. Locals' /\ ErrorsSoFar' /\ ErrorIsTrue'
  BY <1>1, <1>2 DEF Locals, ErrorsSoFar, ErrorIsTrue
<1>6. Stopping'
  <2>1. shutdown = "done" => current \in Manager
    BY <1>1 DEF Stopping, Locals, StateType
  <2>2. QED
    BY <1>1, <1>2, <1>4, <2>1 DEF Stopping
<1>7. QED
  BY <1>1, <1>2, <1>4, <1>5, <1>6, WorkStep

LEMMA BootInitStep == Inv /\ BootInit => Inv'
<1> SUFFICES ASSUME Inv, BootInit PROVE Inv'
  OBVIOUS
<1>1. /\ StateType /\ StateType' /\ Locals /\ ErrorsSoFar /\ ErrorIsTrue /\ Stopping
  BY OwnerTypes, TypeParts DEF Inv, OwnerStep
<1>2. /\ UNCHANGED <<file, changes, now, current, errno, parsed, shutting, shutdown, query>>
      /\ owner.pc = "bootinit" /\ owner \in OwnerState
  BY <1>1 DEF BootInit, StateType
<1>3. /\ owner'.new = owner.new /\ owner'.old = owner.old
      /\ owner'.pc \in {"bootwait", "failed"}
  BY <1>2 DEF BootInit, OwnerState
<1>4. Locals' /\ ErrorsSoFar' /\ ErrorIsTrue' /\ Stopping'
  <2>1. Locals'
    BY <1>1, <1>2, <1>3 DEF Locals, Building
  <2>2. ErrorsSoFar' /\ ErrorIsTrue'
    BY <1>1, <1>2, <1>3 DEF ErrorsSoFar, ErrorIsTrue
  <2>3. shutdown' # "done"
    BY <1>1, <1>2 DEF Stopping
  <2>4. QED
    BY <1>1, <1>2, <2>1, <2>2, <2>3 DEF Stopping
<1>5. CASE mgr' = mgr
  <2>1. file'.version \in Nat /\ file'.version >= file.version
    BY <1>1, <1>2 DEF StateType, File
  <2>2. QED
    BY <1>1, <1>2, <1>3, <1>4, <1>5, <2>1, QuietStep
<1>6. ASSUME NEW work \in AtStart, owner'.pc = "bootwait",
             mgr' = [mgr EXCEPT ![current].pc = "running", ![current].work = work]
      PROVE  Inv'
  <2>1. current \in Manager /\ mgr[current].pc # "free"
    BY <1>1, <1>2 DEF Inv, TypeOK, Locals
  <2>2. \A m \in Manager : /\ mgr'[m].pc # "free" <=> mgr[m].pc # "free"
                           /\ mgr'[m].old = mgr[m].old /\ mgr'[m].version = mgr[m].version
    BY <1>1, <1>6, <2>1 DEF StateType, ManagerState
  <2>3. QED
    BY <1>1, <1>2, <1>3, <1>4, <1>6, <2>2, WorkStep
<1>7. BootInit
  OBVIOUS
<1>8. CASE mgr' = mgr
  BY <1>5, <1>8
<1>9. CASE mgr' # mgr
  <2>1. PICK work \in AtStart : /\ owner' = [owner EXCEPT !.pc = "bootwait"]
                                /\ mgr' = [mgr EXCEPT ![current].pc = "running", ![current].work = work]
    BY <1>7, <1>9 DEF BootInit
  <2>2. owner'.pc = "bootwait"
    BY <1>2, <2>1 DEF OwnerState
  <2>3. QED
    BY <1>6, <2>1, <2>2
<1>10. QED
  BY <1>8, <1>9

LEMMA BootReadyStep == Inv /\ BootReady => Inv'
<1> SUFFICES ASSUME Inv, BootReady PROVE Inv'
  OBVIOUS
<1>1. /\ StateType /\ StateType' /\ Locals /\ ErrorsSoFar /\ ErrorIsTrue /\ Stopping
  BY OwnerTypes, TypeParts DEF Inv, OwnerStep
<1>2. /\ UNCHANGED <<file, changes, now, mgr, current, parsed, shutting, shutdown, query>>
      /\ owner.pc \in {"bootwait", "bootcounted"} /\ errno' = "OK"
      /\ owner' = [owner EXCEPT !.pc = "poll", !.filetime = mgr[current].modtime, !.slept = now]
  BY DEF BootReady, WaitEnds
<1>3. owner'.pc = "poll" /\ owner'.new = owner.new /\ owner'.old = owner.old
  BY <1>1, <1>2 DEF StateType, OwnerState
<1>4. Locals'
  BY <1>1, <1>2, <1>3 DEF Locals, Building
<1>5. ErrorsSoFar' /\ ErrorIsTrue'
  BY <1>1, <1>2, <1>3 DEF ErrorsSoFar, ErrorIsTrue
<1>6. Stopping'
  BY <1>1, <1>2 DEF Stopping
<1>7. file'.version \in Nat /\ file'.version >= file.version
  BY <1>1, <1>2 DEF StateType, File
<1>8. QED
  BY <1>1, <1>2, <1>3, <1>4, <1>5, <1>6, <1>7, QuietStep

LEMMA PollingStep ==
  ASSUME Inv, ReadyCount \/ MonitorNotReady
  PROVE  Inv'
<1>1. /\ StateType /\ StateType' /\ Locals /\ ErrorsSoFar /\ ErrorIsTrue /\ Stopping
  BY OwnerTypes, TypeParts DEF Inv, OwnerStep
<1>2. UNCHANGED <<file, changes, now, mgr, current, errno, parsed, shutting, shutdown, query>>
  BY DEF ReadyCount, MonitorNotReady
<1>3. /\ owner'.new = owner.new /\ owner'.old = owner.old
      /\ \/ owner.pc \in {"wait", "counted"} /\ owner'.pc \in {"wait", "counted"}
         \/ owner.pc \in {"bootwait", "bootcounted"} /\ owner'.pc \in {"bootwait", "bootcounted"}
  BY <1>1 DEF ReadyCount, MonitorNotReady, StateType, OwnerState
<1>4. Locals'
  BY <1>1, <1>2, <1>3 DEF Locals, Building
<1>5. ErrorsSoFar' /\ ErrorIsTrue'
  BY <1>1, <1>2, <1>3 DEF ErrorsSoFar, ErrorIsTrue
<1>6. Stopping'
  <2>1. shutdown # "done"
    BY <1>1, <1>3 DEF Stopping
  <2>2. QED
    BY <1>1, <1>2, <2>1 DEF Stopping
<1>7. file'.version \in Nat /\ file'.version >= file.version
  BY <1>1, <1>2 DEF StateType, File
<1>8. QED
  BY <1>1, <1>2, <1>3, <1>4, <1>5, <1>6, <1>7, QuietStep

LEMMA WatchStep ==
  ASSUME Inv, PollRemoved \/ PollModified \/ Cool \/ WatcherExit
  PROVE  Inv'
<1>1. /\ StateType /\ StateType' /\ Locals /\ ErrorsSoFar /\ ErrorIsTrue /\ Stopping
  BY OwnerTypes, TypeParts DEF Inv, OwnerStep
<1>2. UNCHANGED <<file, changes, mgr, current, parsed, shutting, shutdown, query>>
  BY DEF PollRemoved, PollModified, Cool, WatcherExit
<1>3. owner \in OwnerState /\ owner' \in OwnerState
  BY <1>1 DEF StateType
<1>4. /\ owner.pc \in {"poll", "cool"} /\ owner.new = None /\ owner.old = None
  BY <1>1 DEF PollRemoved, PollModified, Cool, WatcherExit, Locals, Building,
              StateType, OwnerState
<1>5. /\ owner'.pc \in {"poll", "cool", "time", "done"}
      /\ owner.pc = "cool" => owner'.pc \in {"poll", "cool", "time"}
      /\ owner'.new = None /\ owner'.old = None
  <2>1. CASE PollRemoved \/ PollModified \/ WatcherExit
    BY <1>3, <1>4, <2>1 DEF PollRemoved, PollModified, WatcherExit, OwnerState
  <2>2. CASE Cool
    <3>1. Cooled.new = None /\ Cooled.old = None /\ Cooled.pc = "cool"
      BY <1>3, <1>4, <2>2 DEF Cooled, OwnerState, Cool
    <3>2. CASE owner' = RoundEnds(Cooled, now')
      <4>1. Cooled \in OwnerState /\ now' \in Nat
        <5>1. now' \in Nat
          BY <1>1 DEF StateType
        <5>2. QED
          BY <1>1, <1>3, <5>1, Clock DEF Cooled, OwnerState
      <4>2. QED
        BY <3>2, <4>1, RoundEndsFacts
    <3>3. CASE owner' = [Cooled EXCEPT !.filetime = WriteTime]
               \/ owner' = [Cooled EXCEPT !.pc = "time"]
      BY <1>3, <3>1, <3>3 DEF Cooled, OwnerState
    <3>4. QED
      BY <2>2, <3>2, <3>3 DEF Cool
  <2>3. QED
    BY <2>1, <2>2
<1>6. Locals'
  BY <1>1, <1>2, <1>4, <1>5 DEF Locals, Building
<1>7. ErrorsSoFar' /\ ErrorIsTrue'
  <2>1. CASE PollRemoved
    <3>1. errno' = "ENOENT" /\ owner'.filetime = 0 /\ owner'.pc = "poll"
      BY <1>3, <2>1 DEF PollRemoved, OwnerState
    <3>2. QED
      BY <3>1 DEF ErrorsSoFar, ErrorIsTrue
  <2>2. CASE PollModified
    <3>1. errno' = "EINPROGRESS" /\ owner'.pc = "cool"
      BY <1>3, <2>2 DEF PollModified, OwnerState
    <3>2. QED
      BY <3>1 DEF ErrorsSoFar, ErrorIsTrue
  <2>3. CASE Cool
    <3>1. errno' = errno /\ errno = "EINPROGRESS" /\ owner.pc = "cool"
      BY <1>1, <2>3 DEF Cool, ErrorsSoFar
    <3>2. CASE shutting
      BY <1>2, <1>5, <3>1, <3>2 DEF ErrorsSoFar, ErrorIsTrue
    <3>3. CASE ~shutting
      <4>1. owner'.pc \in {"cool", "time"}
        <5>1. owner' = [Cooled EXCEPT !.filetime = WriteTime] \/ owner' = [Cooled EXCEPT !.pc = "time"]
          BY <2>3, <3>3 DEF Cool
        <5>2. Cooled.pc = "cool"
          BY <1>3, <3>1 DEF Cooled, OwnerState
        <5>3. QED
          BY <1>3, <5>1, <5>2 DEF Cooled, OwnerState
      <4>2. QED
        BY <3>1, <4>1 DEF ErrorsSoFar, ErrorIsTrue
    <3>4. QED
      BY <3>2, <3>3
  <2>4. CASE WatcherExit
    <3>1. owner'.pc = "done"
      BY <1>3, <2>4 DEF WatcherExit, OwnerState
    <3>2. QED
      BY <3>1 DEF ErrorsSoFar, ErrorIsTrue
  <2>5. QED
    BY <2>1, <2>2, <2>3, <2>4
<1>8. Stopping'
  BY <1>1, <1>2, <1>4 DEF Stopping
<1>9. file'.version \in Nat /\ file'.version >= file.version
  BY <1>1, <1>2 DEF StateType, File
<1>10. QED
  BY <1>1, <1>2, <1>4, <1>5, <1>6, <1>7, <1>8, <1>9, QuietStep

LEMMA ParsesStep == Inv /\ Parses => Inv'
<1> SUFFICES ASSUME Inv, Parses PROVE Inv'
  OBVIOUS
<1> DEFINE m == owner.new
<1>1. /\ StateType /\ StateType' /\ Alive /\ Locals /\ OnlyNewHasOld /\ NewIsPrivate
      /\ Held /\ CallsHold /\ ToBeStored /\ ErrorsSoFar /\ ErrorIsTrue /\ Stopping
  BY OwnerTypes, TypeParts DEF Inv, OwnerStep
<1>2. /\ UNCHANGED <<file, changes, now, current, errno, shutting, shutdown, query>>
      /\ owner.pc = "read" /\ parsed' = "OK"
      /\ owner' = [owner EXCEPT !.pc = "wait", !.old = current]
      /\ \E work \in AtStart :
           mgr' = [mgr EXCEPT ![m] = [@ EXCEPT !.pc = "running", !.version = file.version,
                                               !.old = current, !.work = work]]
  BY DEF Parses
<1>3. m \in Manager /\ current \in Manager /\ m # current /\ owner.old = None
  BY <1>1, <1>2 DEF Locals, Building, StateType, OwnerState, NewIsPrivate
<1>4. owner'.pc = "wait" /\ owner'.new = m /\ owner'.old = current
  BY <1>1, <1>2 DEF StateType, OwnerState
<1> HIDE DEF m
<1>5. /\ mgr'[m].pc = "running" /\ mgr'[m].old = current /\ mgr'[m].version = file.version
      /\ \A n \in Manager \ {m} : mgr'[n] = mgr[n]
  <2>1. PICK work \in AtStart :
          mgr' = [mgr EXCEPT ![m] = [@ EXCEPT !.pc = "running", !.version = file.version,
                                              !.old = current, !.work = work]]
    BY <1>2
  <2>2. mgr[m] \in ManagerState /\ DOMAIN mgr = Manager
    BY <1>1, <1>3 DEF StateType
  <2>3. QED
    BY <1>3, <2>1, <2>2 DEF ManagerState
<1>6. Locals'
  BY <1>1, <1>2, <1>3, <1>4, NoneAssumption DEF Locals, Building
<1>7. Alive'
  <2>1. \A n \in Manager : mgr[n].pc # "free" => mgr'[n].pc # "free"
    BY <1>5
  <2>2. mgr[current].pc # "free"
    BY <1>1, <1>3, NoneAssumption DEF Alive
  <2>3. \A n \in {current', owner'.new, owner'.old} \ {None} : mgr'[n].pc # "free"
    BY <1>2, <1>3, <1>4, <1>5, <2>1, <2>2
  <2>4. QED
    BY <1>1, <1>2, <2>1, <2>3 DEF Alive, CallsHold
<1>8. OnlyNewHasOld'
  <2>1. \A n \in Manager : mgr[n].old = None
    BY <1>1, <1>2 DEF OnlyNewHasOld
  <2>2. \A n \in Manager : mgr'[n].old # None => n = m
    BY <1>5, <2>1
  <2>3. current' = current
    BY <1>2
  <2>4. QED
    BY <1>4, <1>5, <2>2, <2>3 DEF OnlyNewHasOld
<1>9. NewIsPrivate' /\ CallsHold'
  BY <1>1, <1>2, <1>4 DEF NewIsPrivate, CallsHold, m
<1>10. Held'
  <2>1. \A n \in Manager \ {m} : n \in {current, owner.new, owner.old} => n = current
    BY <1>3, NoneAssumption DEF m
  <2>2. QED
    BY <1>1, <1>2, <1>4, <1>5, <2>1 DEF Held
<1>11. ToBeStored'
  <2>1. file.version \in Nat /\ file' = file
    BY <1>1, <1>2 DEF StateType, File
  <2>2. ASSUME NEW n \in Manager PROVE mgr'[n].version <= file.version
    <3>1. CASE n = m
      BY <1>5, <2>1, <3>1
    <3>2. CASE n # m
      BY <1>1, <1>5, <3>2 DEF ToBeStored
    <3>3. QED
      BY <3>1, <3>2
  <2>3. mgr'[m].version >= mgr'[current'].version
    <3>1. mgr'[current].version \in Nat /\ mgr'[current].version <= file.version
      BY <1>1, <1>3, <2>2 DEF StateType, ManagerState
    <3>2. QED
      BY <1>2, <1>5, <2>1, <3>1
  <2>4. QED
    BY <1>4, <2>1, <2>2, <2>3 DEF ToBeStored
<1>12. ErrorsSoFar' /\ ErrorIsTrue'
  BY <1>1, <1>2, <1>4 DEF ErrorsSoFar, ErrorIsTrue
<1>13. Stopping'
  BY <1>1, <1>2 DEF Stopping
<1>14. QED
  BY <1>1, <1>6, <1>7, <1>8, <1>9, <1>10, <1>11, <1>12, <1>13, TypeParts
     DEF Inv, TypeOK, StateType, Alive

LEMMA StoreStep == Inv /\ Store => Inv'
<1> SUFFICES ASSUME Inv, Store PROVE Inv'
  OBVIOUS
<1>1. /\ StateType /\ StateType' /\ Alive /\ Locals /\ OnlyNewHasOld /\ NewIsPrivate
      /\ Held /\ CallsHold /\ ToBeStored /\ ErrorsSoFar /\ ErrorIsTrue /\ Stopping
  BY OwnerTypes, TypeParts DEF Inv, OwnerStep
<1>2. /\ UNCHANGED <<file, changes, now, mgr, parsed, shutting, shutdown, query>>
      /\ owner.pc = "store" /\ current' = owner.new /\ errno' = "OK"
      /\ owner'.pc = "rest" /\ owner'.new = owner.new /\ owner'.old = owner.old
  BY <1>1 DEF Store, StateType, OwnerState
<1>3. owner.new # None /\ owner.old = current /\ parsed = "OK"
  BY <1>1, <1>2 DEF Locals, Building, ErrorsSoFar
<1>4. Locals' /\ ErrorsSoFar' /\ ErrorIsTrue'
  BY <1>2, <1>3 DEF Locals, Building, ErrorsSoFar, ErrorIsTrue
<1>5. Alive' /\ CallsHold' /\ Held'
  BY <1>1, <1>2, <1>3 DEF Alive, CallsHold, Held
<1>6. OnlyNewHasOld' /\ NewIsPrivate' /\ ToBeStored'
  BY <1>1, <1>2 DEF OnlyNewHasOld, NewIsPrivate, ToBeStored
<1>7. Stopping'
  BY <1>1, <1>2 DEF Stopping
<1>8. QED
  BY <1>1, <1>4, <1>5, <1>6, <1>7, TypeParts DEF Inv, TypeOK, StateType, Alive

LEMMA ReadyStep == Inv /\ Ready => Inv'
<1> SUFFICES ASSUME Inv, Ready PROVE Inv'
  OBVIOUS
<1>1. /\ StateType /\ StateType' /\ Alive /\ Locals /\ OnlyNewHasOld /\ NewIsPrivate
      /\ Held /\ CallsHold /\ ToBeStored /\ ErrorsSoFar /\ ErrorIsTrue /\ Stopping
  BY OwnerTypes, TypeParts DEF Inv, OwnerStep
<1>2. /\ UNCHANGED <<file, changes, current, errno, parsed, shutting, shutdown, query>>
      /\ owner.pc \in {"wait", "counted"} /\ owner \in OwnerState
      /\ shutting \/ mgr[owner.new].work # "unscanned"
  BY <1>1 DEF Ready, WaitEnds, Awaited, StateType
<1> DEFINE ms == [mgr EXCEPT ![owner.new].old = OldRemoved]
<1>3. mgr' = Freed(owner', current, query, ms)
  BY DEF Ready
<1>4. owner.new \in Manager
  BY <1>1, <1>2 DEF Locals, Building, OwnerState
<1>5. ms \in [Manager -> ManagerState]
  <2> DEFINE done == [mgr[owner.new] EXCEPT !.old = None]
  <2>1. mgr \in [Manager -> ManagerState]
    BY <1>1 DEF StateType
  <2>2. done \in ManagerState
    BY <1>4, <2>1 DEF ManagerState
  <2>3. ms = [mgr EXCEPT ![owner.new] = done]
    BY <1>4, <2>1 DEF OldRemoved, ManagerState
  <2> HIDE DEF ms, done
  <2>4. QED
    BY <2>1, <2>2, <2>3
<1>6. /\ ms[owner.new].work = mgr[owner.new].work
      /\ ms[owner.new].old = None /\ \A m \in Manager \ {owner.new} : ms[m] = mgr[m]
      /\ \A m \in Manager : ms[m].pc = mgr[m].pc /\ ms[m].version = mgr[m].version
  BY <1>1, <1>4 DEF StateType, ManagerState, OldRemoved
<1>7. mgr' = Freed(owner', current', query', ms)
  BY <1>2, <1>3
<1> HIDE DEF ms
<1>8. \A m \in Manager : ms[m].old = None
  BY <1>1, <1>6 DEF OnlyNewHasOld
<1>9. Pointers(owner', current', query') \subseteq Manager
  BY <1>1 DEF Pointers, StateType, OwnerState
<1>10. \/ ~shutting /\ owner'.pc = "store" /\ owner'.new = owner.new /\ owner'.old = owner.old
       \/ shutting /\ owner'.pc = "poll" /\ owner'.new = None /\ owner'.old = None
  <2>1. now' \in Nat
    BY <1>1 DEF StateType
  <2>2. QED
    BY <1>2, <2>1, RoundEndsFacts DEF Ready, ToBeUsed, OwnerState
<1>11. Locals' /\ ErrorsSoFar' /\ ErrorIsTrue'
  <2>1. owner.new # None /\ owner.old = current /\ current # None /\ parsed = "OK"
    BY <1>1, <1>2 DEF Locals, Building, ErrorsSoFar
  <2>2. CASE ~shutting
    <3>1. owner'.pc = "store" /\ owner'.new = owner.new /\ owner'.old = owner.old
      BY <1>10, <2>2
    <3>2. QED
      BY <1>2, <2>1, <3>1 DEF Locals, Building, ErrorsSoFar, ErrorIsTrue
  <2>3. CASE shutting
    <3>1. owner'.pc = "poll" /\ owner'.new = None /\ owner'.old = None /\ shutting'
      BY <1>2, <1>10, <2>3
    <3>2. QED
      BY <1>2, <2>1, <3>1 DEF Locals, Building, ErrorsSoFar, ErrorIsTrue
  <2>4. QED
    BY <2>2, <2>3
<1>12. owner'.pc = "store" => ms[owner.new].work # "unscanned"
  BY <1>2, <1>6, <1>10
<1>13. (shutdown' # "no" => shutting') /\ shutdown' # "done"
  BY <1>1, <1>2 DEF Stopping
<1>14. \A m \in Manager : /\ ms[m].pc = mgr[m].pc /\ ms[m].version = mgr[m].version
                          /\ ms[m].old # None => ms[m].old = mgr[m].old
  BY <1>6, <1>8
<1>15. \A m \in Pointers(owner', current', query') :
         ms[m].old # None => owner'.pc \in {"wait", "counted"} /\ owner'.new = owner.new
  BY <1>8, <1>9
<1>16. /\ owner'.new = None \/ owner'.new = owner.new
       /\ owner'.old = None \/ owner'.old = owner.old
       /\ owner'.pc \in {"wait", "counted", "store"} =>
            owner.pc \in {"wait", "counted", "store"} /\ owner'.new = owner.new
       /\ owner'.pc # "read"
  BY <1>2, <1>10
<1>17. /\ file' = file /\ current' = current
       /\ \A q \in Query : query'[q].pc = "call" =>
                           query[q].pc = "call" /\ query'[q].m = query[q].m
  BY <1>2
<1>18. QED
  BY <1>1, <1>5, <1>7, <1>11, <1>12, <1>13, <1>14, <1>15, <1>16, <1>17, DropStep

LEMMA RoundFailsStep ==
  ASSUME Inv, ParseFails \/ Rested \/ WatcherInterrupted
  PROVE  Inv'
<1>1. /\ StateType /\ StateType' /\ Alive /\ Locals /\ OnlyNewHasOld /\ NewIsPrivate
      /\ Held /\ CallsHold /\ ToBeStored /\ ErrorsSoFar /\ ErrorIsTrue /\ Stopping
  BY OwnerTypes, TypeParts DEF Inv, OwnerStep
<1>2. /\ UNCHANGED <<file, changes, current, shutting, shutdown, query>>
      /\ owner \in OwnerState /\ now' \in Nat /\ mgr \in [Manager -> ManagerState]
      /\ mgr' = Freed(owner', current', query', mgr)
  BY <1>1 DEF ParseFails, Rested, WatcherInterrupted, StateType
<1>3. /\ owner'.new = None /\ owner'.old = None
      /\ owner'.pc \in {"poll", "failed", "done"}
      /\ owner'.pc = "failed" => owner.pc = "bootread"
      /\ owner.pc = "bootread" => owner'.pc = "failed"
      /\ owner'.pc = "poll" => owner.pc \in {"read", "rest"}
  <2>1. CASE ParseFails
    <3>1. owner.old = None
      BY <1>1, <2>1 DEF ParseFails, Locals
    <3>2. CASE owner.pc = "read" /\ owner' = RoundEnds(owner, now')
      BY <1>2, <3>2, RoundEndsFacts
    <3>3. CASE owner.pc = "bootread" /\ owner' = [owner EXCEPT !.pc = "failed", !.new = None]
      BY <1>2, <3>1, <3>3 DEF OwnerState
    <3>4. QED
      BY <2>1, <3>2, <3>3 DEF ParseFails
  <2>2. CASE Rested
    BY <1>2, <2>2, RoundEndsFacts DEF Rested
  <2>3. CASE WatcherInterrupted
    BY <1>2, <2>3 DEF WatcherInterrupted, OwnerState
  <2>4. QED
    BY <2>1, <2>2, <2>3
<1>4. /\ owner.pc \in {"bootread", "read", "rest", "poll", "cool", "wait"}
      /\ shutdown # "done"
  BY <1>1 DEF ParseFails, Rested, WatcherInterrupted, Stopping
<1>5. Locals'
  <2>1. owner'.pc \in {"poll", "done"} => current # None
    BY <1>1, <1>3, <1>4 DEF Locals
  <2>2. QED
    BY <1>2, <1>3, <2>1 DEF Locals, Building
<1>6. ErrorsSoFar'
  BY <1>3 DEF ErrorsSoFar
<1>7. ErrorIsTrue'
  <2>1. CASE ParseFails
    <3>1. CASE owner.pc = "read"
      <4>1. errno = "EINPROGRESS" /\ errno' = ErrorOfParse /\ parsed' \in {"syntax", "other"}
        BY <1>1, <2>1, <3>1 DEF ParseFails, ErrorsSoFar
      <4>2. \/ errno' = "ENOEXEC" /\ parsed' = "syntax"
            \/ errno' = "EINPROGRESS" /\ parsed' = "other"
        BY <4>1 DEF ErrorOfParse
      <4>3. QED
        BY <4>2 DEF ErrorIsTrue
    <3>2. CASE owner.pc = "bootread"
      BY <1>3, <3>2 DEF ErrorIsTrue
    <3>3. QED
      BY <2>1, <3>1, <3>2 DEF ParseFails
  <2>2. CASE Rested
    <3>1. errno' = "OK" /\ parsed' = "OK"
      BY <1>1, <2>2 DEF Rested, ErrorsSoFar
    <3>2. QED
      BY <3>1 DEF ErrorIsTrue
  <2>3. CASE WatcherInterrupted
    <3>1. owner'.pc = "done"
      BY <1>2, <2>3 DEF WatcherInterrupted, OwnerState
    <3>2. QED
      BY <3>1 DEF ErrorIsTrue
  <2>4. QED
    BY <2>1, <2>2, <2>3
<1>8. \A m \in Pointers(owner', current', query') : mgr[m].old = None
  <2>1. Pointers(owner', current', query') \subseteq Manager
    BY <1>1 DEF Pointers, StateType, OwnerState
  <2>2. ASSUME NEW m \in Pointers(owner', current', query'), mgr[m].old # None
        PROVE  FALSE
    <3>1. owner.pc \in {"wait", "counted"} /\ m = owner.new
      BY <1>1, <2>1, <2>2 DEF OnlyNewHasOld
    <3>2. m # current /\ \A q \in Query : query[q].pc = "call" => query[q].m # m
      BY <1>1, <3>1 DEF NewIsPrivate
    <3>3. QED
      BY <1>2, <1>3, <2>2, <3>2 DEF Pointers
  <2>3. QED
    BY <2>2
<1>9. shutdown' # "no" => shutting'
  BY <1>1, <1>2 DEF Stopping
<1>10. /\ file' = file /\ current' = current /\ shutdown' = shutdown
       /\ \A q \in Query : query'[q].pc = "call" =>
                           query[q].pc = "call" /\ query'[q].m = query[q].m
  BY <1>2
<1>11. owner'.pc \notin {"read", "wait", "counted", "store"}
  BY <1>3
<1>12. QED
  BY <1>1, <1>2, <1>3, <1>4, <1>5, <1>6, <1>7, <1>8, <1>9, <1>10, <1>11, DropStep

-------------------------------------------------------------------------------
(* The invariant, and what it says of the engine.                          *)
LEMMA InvStep == Inv /\ [Next]_vars => Inv'
<1> SUFFICES ASSUME Inv, [Next]_vars PROVE Inv'
  OBVIOUS
<1>1. CASE UNCHANGED vars
  <2>1. TypeOK' /\ Held' /\ CallsHold'
    BY <1>1 DEF vars, Inv, TypeOK, Held, CallsHold
  <2>2. Locals' /\ OnlyNewHasOld' /\ NewIsPrivate' /\ ToBeStored'
    BY <1>1 DEF vars, Inv, Locals, OnlyNewHasOld, NewIsPrivate, ToBeStored
  <2>3. ErrorsSoFar' /\ ErrorIsTrue' /\ Stopping'
    BY <1>1 DEF vars, Inv, ErrorsSoFar, ErrorIsTrue, Stopping
  <2>4. QED
    BY <2>1, <2>2, <2>3 DEF Inv
<1>2. CASE (\E kind \in Kind : WriteFile(kind)) \/ DeleteFile
  BY <1>2, FileStep
<1>3. CASE RequestShutdown \/ ShutdownInterrupts \/ ShutdownJoins
  BY <1>3, ShutdownStep
<1>4. CASE \E q \in Query : Call(q) \/ Return(q) \/ ReturnReference(q) \/ ForgetReference(q)
  BY <1>4, CallStep
<1>5. CASE OwnerStep
  BY <1>5, ParseTimeStep, BootParsesStep, BootInitStep, PollingStep, BootReadyStep, WatchStep,
     ParsesStep, StoreStep, ReadyStep, RoundFailsStep DEF OwnerStep
<1>6. CASE \E m \in Manager : Scanned(m) \/ Loaded(m)
  BY <1>6, ManagerStep
<1>7. QED
  BY <1>1, <1>2, <1>3, <1>4, <1>5, <1>6 DEF Next

LEMMA AlwaysInv == Spec => []Inv
BY InvInit, InvStep, PTL DEF Spec

(* The managers that the engine, the watcher and the calls work on have    *)
(* not been destroyed, and every variable has a value of its type.         *)
THEOREM PointersAreValid == Spec => []TypeOK
<1>1. Inv => TypeOK
  BY DEF Inv
<1>2. QED
  BY <1>1, AlwaysInv, PTL

(* Between two rounds of the watcher the managers left are the one in use  *)
(* and those calls work on: after any number of reloads, failed or not.    *)
THEOREM NothingLeftBehind == Spec => []OldManagersFreed
<1>1. Inv => OldManagersFreed
  <2> SUFFICES ASSUME Inv, owner.pc \in {"poll", "done"}, NEW m \in Manager, mgr[m].pc # "free"
               PROVE  m = current \/ \E q \in Query : query[q].pc = "call" /\ query[q].m = m
    BY DEF OldManagersFreed
  <2>1. owner.new = None /\ owner.old = None
    BY DEF Inv, Locals, Building
  <2>2. QED
    BY <2>1, NoneAssumption DEF Inv, Held
<1>2. QED
  BY <1>1, AlwaysInv, PTL

(* The error reported between two rounds is that of the last parse, of the *)
(* file that is missing, or none.                                          *)
THEOREM ReportsLastError == Spec => []ErrorIsTrue
<1>1. Inv => ErrorIsTrue
  BY DEF Inv
<1>2. QED
  BY <1>1, AlwaysInv, PTL

(* When the shutdown is over the manager in use has stopped, and only      *)
(* calls that have not returned keep another one running.                  *)
THEOREM ShutdownStopsAll == Spec => []StoppedAtEnd
<1>1. Inv => StoppedAtEnd
  <2> SUFFICES ASSUME Inv, shutdown = "done", NEW m \in Manager, mgr[m].pc \in {"made", "running"}
               PROVE  \E q \in Query : query[q].pc = "call" /\ query[q].m = m
    BY DEF StoppedAtEnd
  <2>1. owner.pc = "done" /\ mgr[current].pc = "stopped"
    BY DEF Inv, Stopping
  <2>2. owner.new = None /\ owner.old = None
    BY <2>1 DEF Inv, Locals, Building
  <2>3. QED
    BY <2>1, <2>2, NoneAssumption DEF Inv, Held
<1>2. QED
  BY <1>1, AlwaysInv, PTL

-------------------------------------------------------------------------------
(* The engine as its callers see it: module EngineService.  What they see  *)
(* are the versions of the managers that are in use and whether the one    *)
(* for the next call has scanned its directories, and most steps change    *)
(* neither.                                                                *)
InUse(m) == m = current \/ \E q \in Query : query[q].pc = "call" /\ query[q].m = m

SameCalls ==
  \A q \in Query : /\ query'[q].pc = "call" <=> query[q].pc = "call"
                   /\ query[q].pc = "call" => query'[q].m = query[q].m

SameManagers ==
  \A m \in Manager : InUse(m) =>
    /\ mgr'[m].version = mgr[m].version
    /\ m = current => (mgr'[m].work # "unscanned" <=> mgr[m].work # "unscanned")

LEMMA UsedAreManagers ==
  ASSUME Inv
  PROVE  /\ current # None => current \in Manager
         /\ \A q \in Query : query[q].pc = "call" => query[q].m \in Manager
         /\ mgr \in [Manager -> ManagerState]
         /\ \A m \in Manager : mgr[m].version \in Nat
         /\ file.version \in Nat
         /\ None \notin Manager
BY NoneAssumption DEF Inv, TypeOK, CallsHold, ManagerState, File

LEMMA NothingSeen ==
  ASSUME Inv, current' = current, file'.version = file.version,
         shutdown' = "done" <=> shutdown = "done", SameCalls, SameManagers
  PROVE  UNCHANGED Service!vars
<1>1. /\ current # None =>
           /\ mgr'[current].version = mgr[current].version
           /\ mgr'[current].work # "unscanned" <=> mgr[current].work # "unscanned"
      /\ \A q \in Query : query[q].pc = "call" =>
           mgr'[query[q].m].version = mgr[query[q].m].version
  BY UsedAreManagers DEF SameManagers, InUse
<1>2. [q \in Query |-> IF query'[q].pc = "call" THEN {mgr'[query'[q].m].version} ELSE {}]
        = [q \in Query |-> IF query[q].pc = "call" THEN {mgr[query[q].m].version} ELSE {}]
  BY <1>1 DEF SameCalls
<1> QED
  BY <1>1, <1>2 DEF Service!vars

(* Before the engine is up there are no calls, and before its first        *)
(* manager is initialised none has scanned anything.                       *)
Unstarted == {"boot", "bootread", "bootinit"}

BeforeBoot ==
  /\ ~Booted => \A q \in Query : query[q].pc # "call"
  /\ owner.pc \in Unstarted =>
       \A m \in Manager : mgr[m].pc # "running" /\ mgr[m].work = "unscanned"

LEMMA BeforeBootInit == Init => BeforeBoot
BY DEF Init, BeforeBoot, Unstarted, FreeManager, Idle

LEMMA StaysBooted ==
  ASSUME Inv, [Next]_vars
  PROVE  /\ owner'.pc \in Booting => owner.pc \in Booting
         /\ owner'.pc \in Unstarted => owner.pc \in Unstarted
<1> USE DEF Booting, Unstarted
<1>1. DOMAIN owner = {"pc", "filetime", "newtime", "ec", "slept", "new", "old"}
  BY DEF Inv, TypeOK, OwnerState
<1>2. CASE owner' = owner
  BY <1>2
<1>3. CASE ParseTime
  BY <1>1, <1>3 DEF ParseTime
<1>4. CASE BootParses \/ BootInit \/ ReadyCount \/ MonitorNotReady
  BY <1>1, <1>4 DEF BootParses, BootInit, ReadyCount, MonitorNotReady
<1>5. CASE ParseFails \/ Rested
  <2>1. \/ owner' = RoundEnds(owner, now')
        \/ owner.pc = "bootread" /\ owner' = [owner EXCEPT !.pc = "failed", !.new = None]
    BY <1>5 DEF ParseFails, Rested
  <2> QED
    BY <2>1, <1>1 DEF RoundEnds
<1>6. CASE PollRemoved \/ PollModified
  BY <1>1, <1>6 DEF PollRemoved, PollModified
<1>7. CASE Parses \/ Store \/ BootReady
  BY <1>1, <1>7 DEF Parses, Store, BootReady
<1>8. CASE WatcherExit \/ WatcherInterrupted
  BY <1>1, <1>8 DEF WatcherExit, WatcherInterrupted
<1>9. CASE Cool
  <2>1. DOMAIN Cooled = DOMAIN owner /\ Cooled.pc = owner.pc
    BY <1>1 DEF Cooled
  <2> QED
    BY <1>1, <1>9, <2>1 DEF Cool, RoundEnds
<1>10. CASE Ready
  BY <1>1, <1>10 DEF Ready, RoundEnds
<1> QED
  BY <1>2, <1>3, <1>4, <1>5, <1>6, <1>7, <1>8, <1>9, <1>10
     DEF Next, OwnerStep, vars, WriteFile, DeleteFile, RequestShutdown, ShutdownInterrupts,
         ShutdownJoins, Call, Return, ReturnReference, ForgetReference, Scanned, Loaded

LEMMA FreedFieldsKept ==
  ASSUME Inv, NEW o, NEW c, NEW q, NEW m \in Manager
  PROVE  /\ Freed(o, c, q, mgr)[m].pc = "running" => mgr[m].pc = "running"
         /\ mgr[m].work = "unscanned" => Freed(o, c, q, mgr)[m].work = "unscanned"
BY DEF Freed, FreeManager

LEMMA BeforeBootStep ==
  ASSUME Inv, BeforeBoot, [Next]_vars
  PROVE  BeforeBoot'
<1>1. ASSUME ~Booted' PROVE \A q \in Query : query'[q].pc # "call"
  <2>1. ~Booted /\ \A q \in Query : query[q].pc # "call"
    BY <1>1, StaysBooted DEF BeforeBoot, Booted
  <2>2. DOMAIN query = Query
    BY DEF Inv, TypeOK
  <2>3. CASE query' = query
    BY <2>1, <2>3
  <2>4. CASE \E q \in Query : Call(q) \/ Return(q) \/ ReturnReference(q)
    BY <2>1, <2>4 DEF Call, Return, ReturnReference
  <2>5. CASE \E q \in Query : ForgetReference(q)
    BY <2>1, <2>2, <2>5 DEF ForgetReference, Idle
  <2> QED
    BY <2>3, <2>4, <2>5 DEF Next, OwnerStep, vars, WriteFile, DeleteFile, BootInit, PollRemoved,
       PollModified, Cool, WatcherExit, RequestShutdown, ShutdownInterrupts, ShutdownJoins,
       ParseTime, ParseFails, BootParses, ReadyCount, MonitorNotReady, BootReady, Parses, Ready,
       Store, Rested, WatcherInterrupted, Scanned, Loaded
<1>2. ASSUME owner'.pc \in Unstarted
      PROVE  \A m \in Manager : mgr'[m].pc # "running" /\ mgr'[m].work = "unscanned"
  <2>1. /\ owner.pc \in Unstarted
        /\ \A m \in Manager : mgr[m].pc # "running" /\ mgr[m].work = "unscanned"
        /\ \A q \in Query : query[q].pc # "call"
    BY <1>2, StaysBooted DEF BeforeBoot, Booted, Booting, Unstarted
  <2>2. mgr \in [Manager -> ManagerState]
        /\ \A m \in Manager : DOMAIN mgr[m] = {"pc", "version", "modtime", "old", "work"}
    BY DEF Inv, TypeOK, ManagerState
  <2>3. CASE mgr' = mgr
    BY <2>1, <2>3
  <2>4. CASE ParseTime
    BY <2>1, <2>2, <2>4 DEF ParseTime
  <2>5. CASE BootParses
    BY <2>1, <2>2, <2>5 DEF BootParses
  <2>6. CASE ParseFails
    <3>1. mgr' = Freed(owner', current, query, mgr)
      BY <2>6 DEF ParseFails
    <3> QED
      BY <3>1, <2>1, FreedFieldsKept
  <2>7. CASE ShutdownJoins
    BY <2>1, <2>7 DEF ShutdownJoins, WatcherJoined, Unstarted
  <2>8. CASE BootInit
    <3>1. owner'.pc \in {"bootwait", "failed"}
      BY <2>8 DEF BootInit, Inv, TypeOK, OwnerState
    <3> QED
      BY <3>1, <1>2 DEF Unstarted
  <2>9. CASE \E m \in Manager : Scanned(m) \/ Loaded(m)
    BY <2>1, <2>9 DEF Scanned, Loaded
  <2>10. CASE \E q \in Query : Return(q) \/ ReturnReference(q)
    BY <2>1, <2>10 DEF Return, ReturnReference
  <2>11. CASE Parses \/ Ready \/ Rested \/ WatcherInterrupted
    BY <2>1, <2>11 DEF Parses, Ready, WaitEnds, Rested, WatcherInterrupted, Unstarted
  <2> QED
    BY <2>3, <2>4, <2>5, <2>6, <2>7, <2>8, <2>9, <2>10, <2>11
       DEF Next, OwnerStep, vars, WriteFile, DeleteFile, PollRemoved, PollModified, Cool, Store,
           WatcherExit, RequestShutdown, ShutdownInterrupts, ReadyCount, MonitorNotReady,
           BootReady, Call, ForgetReference
<1> QED
  BY <1>1, <1>2 DEF BeforeBoot

(* A manager that is in use keeps its settings when others are destroyed,  *)
(* and while the watcher makes another one.                                *)
LEMMA FreedKeepsUsed ==
  ASSUME Inv, NEW o, NEW q, NEW ms \in [Manager -> ManagerState], NEW m \in Manager,
         m = current \/ \E x \in Query : q[x].pc = "call" /\ q[x].m = m
  PROVE  Freed(o, current, q, ms)[m] = ms[m]
<1>1. m \in Pointers(o, current, q)
  BY NoneAssumption DEF Pointers
<1> QED
  BY <1>1, FreeingFacts

LEMMA NewIsNotUsed ==
  ASSUME Inv, owner.pc \in {"read", "wait", "counted"}
  PROVE  owner.new \in Manager /\ ~InUse(owner.new)
BY DEF Inv, NewIsPrivate, InUse, Locals, Building, TypeOK, OwnerState

(* The steps of the watcher that its callers do not see.                   *)
LEMMA WatcherUnseen ==
  ASSUME Inv, \/ ParseTime \/ ReadyCount \/ MonitorNotReady \/ BootReady
              \/ PollRemoved \/ PollModified \/ Cool \/ WatcherExit
              \/ ParseFails \/ Rested \/ WatcherInterrupted \/ Parses \/ Ready
  PROVE  UNCHANGED Service!vars
<1>1. current' = current /\ file' = file /\ shutdown' = shutdown /\ query' = query
  BY DEF ParseTime, ReadyCount, MonitorNotReady, BootReady, PollRemoved, PollModified, Cool,
     WatcherExit, ParseFails, Rested, WatcherInterrupted, Parses, Ready
<1>2. SameCalls
  BY <1>1 DEF SameCalls
<1>3. mgr \in [Manager -> ManagerState]
      /\ \A m \in Manager : DOMAIN mgr[m] = {"pc", "version", "modtime", "old", "work"}
  BY DEF Inv, TypeOK, ManagerState
<1>4. SameManagers
  <2>1. CASE ReadyCount \/ MonitorNotReady \/ BootReady
             \/ PollRemoved \/ PollModified \/ Cool \/ WatcherExit
    BY <2>1 DEF ReadyCount, MonitorNotReady, BootReady, PollRemoved, PollModified, Cool,
                WatcherExit, SameManagers
  <2>2. CASE ParseTime
    <3>1. PICK m \in Manager : mgr' = [mgr EXCEPT ![m].pc = "made", ![m].modtime = WriteTime]
      BY <2>2 DEF ParseTime
    <3>2. /\ \A n \in Manager : n # m => mgr'[n] = mgr[n]
          /\ mgr'[m].version = mgr[m].version /\ mgr'[m].work = mgr[m].work
      BY <3>1, <1>3
    <3> QED
      BY <3>2 DEF SameManagers
  <2>3. CASE ParseFails \/ Rested \/ WatcherInterrupted
    <3>1. mgr' = Freed(owner', current, query, mgr)
      BY <2>3 DEF ParseFails, Rested, WatcherInterrupted
    <3>2. \A m \in Manager : InUse(m) => Freed(owner', current, query, mgr)[m] = mgr[m]
      BY <1>3, FreedKeepsUsed DEF InUse
    <3> QED
      BY <3>1, <3>2 DEF SameManagers
  <2>4. CASE Parses
    <3>1. ~InUse(owner.new)
      BY <2>4, NewIsNotUsed DEF Parses
    <3>2. \A m \in Manager : m # owner.new => mgr'[m] = mgr[m]
      BY <2>4, <1>3 DEF Parses
    <3> QED
      BY <3>1, <3>2 DEF SameManagers
  <2>5. CASE Ready
    <3> DEFINE ms == [mgr EXCEPT ![owner.new].old = OldRemoved]
    <3>1. owner.new \in Manager /\ ~InUse(owner.new)
      BY <2>5, NewIsNotUsed DEF Ready, WaitEnds
    <3>2. mgr' = Freed(owner', current, query, ms)
      BY <2>5 DEF Ready
    <3>3. ms \in [Manager -> ManagerState]
      <4>1. OldRemoved \in Manager \cup {None}
        BY DEF OldRemoved
      <4> QED
        BY <3>1, <4>1, <1>3 DEF ManagerState
    <3>4. \A m \in Manager : m # owner.new => ms[m] = mgr[m]
      BY <1>3
    <3> HIDE DEF ms
    <3>5. \A m \in Manager : InUse(m) => Freed(owner', current, query, ms)[m] = ms[m]
      BY <3>3, FreedKeepsUsed DEF InUse
    <3> QED
      BY <3>1, <3>2, <3>4, <3>5 DEF SameManagers
  <2> QED
    BY <2>1, <2>2, <2>3, <2>4, <2>5
<1> QED
  BY <1>1, <1>2, <1>4, NothingSeen

(* The steps that they do see.                                             *)
LEMMA ServiceInit == Init => Service!Init
BY DEF Init, Idle, Service!Init

LEMMA StoreReplaces == Inv /\ Store => Service!Replace
<1> SUFFICES ASSUME Inv, Store PROVE Service!Replace
  OBVIOUS
<1>1. /\ owner.pc = "store" /\ current' = owner.new /\ owner.new \in Manager
      /\ current # None /\ current \in Manager
      /\ UNCHANGED <<file, mgr, shutdown, query>>
  BY DEF Store, Inv, Locals, Building, TypeOK, OwnerState
<1>2. /\ mgr[current].version \in Nat /\ mgr[owner.new].version \in Nat /\ file.version \in Nat
      /\ mgr[owner.new].version >= mgr[current].version
      /\ mgr[owner.new].version <= file.version
      /\ mgr[owner.new].work # "unscanned"
  BY <1>1, UsedAreManagers DEF Inv, ToBeStored
<1>3. mgr[owner.new].version \in mgr[current].version .. file.version
  BY <1>2
<1>4. shutdown # "done"
  BY <1>1 DEF Inv, Stopping
<1>5. current' # None
  BY <1>1, NoneAssumption
<1> QED
  BY <1>1, <1>2, <1>3, <1>4, <1>5 DEF Service!Replace

LEMMA BootParsesStarts == Inv /\ BeforeBoot /\ BootParses => Service!Start
<1> SUFFICES ASSUME Inv, BeforeBoot, BootParses PROVE Service!Start
  OBVIOUS
<1>1. /\ owner.pc = "bootread" /\ current = None /\ owner.new \in Manager
      /\ current' = owner.new /\ UNCHANGED <<file, shutdown, query>>
      /\ mgr' = [mgr EXCEPT ![owner.new].pc = "made", ![owner.new].version = file.version]
  BY DEF BootParses, Inv, Locals, Building, TypeOK, OwnerState
<1>2. (\A q \in Query : query[q].pc # "call") /\ mgr[owner.new].work = "unscanned"
  BY <1>1 DEF BeforeBoot, Booted, Booting, Unstarted
<1>3. mgr \in [Manager -> ManagerState]
      /\ DOMAIN mgr[owner.new] = {"pc", "version", "modtime", "old", "work"}
  BY <1>1 DEF Inv, TypeOK, ManagerState
<1>4. mgr'[owner.new].version = file.version /\ mgr'[owner.new].work = "unscanned"
  BY <1>1, <1>2, <1>3
<1>5. current' # None
  BY <1>1, NoneAssumption
<1>6. file.version \in 0 .. file.version
  BY UsedAreManagers
<1> QED
  BY <1>1, <1>2, <1>4, <1>5, <1>6 DEF Service!Start

(* A step of the manager in use, of which only the end of its first scan   *)
(* is seen.                                                                *)
LEMMA CurrentScans ==
  ASSUME Inv, current # None, UNCHANGED <<file, current, shutdown, query>>,
         shutdown = "done" => mgr[current].work # "unscanned" \/ mgr'[current].work = "unscanned",
         mgr[current].work # "unscanned" => mgr'[current].work # "unscanned",
         \A m \in Manager : mgr'[m].version = mgr[m].version
  PROVE  Service!Scan \/ UNCHANGED Service!vars
<1>1. mgr'[current].version = mgr[current].version
  BY UsedAreManagers
<1>2. [q \in Query |-> IF query'[q].pc = "call" THEN {mgr'[query'[q].m].version} ELSE {}]
        = [q \in Query |-> IF query[q].pc = "call" THEN {mgr[query[q].m].version} ELSE {}]
  BY UsedAreManagers
<1>3. CASE mgr[current].work = "unscanned" /\ mgr'[current].work # "unscanned"
  BY <1>1, <1>2, <1>3 DEF Service!Scan
<1>4. CASE ~(mgr[current].work = "unscanned" /\ mgr'[current].work # "unscanned")
  BY <1>1, <1>2, <1>4 DEF Service!vars
<1> QED
  BY <1>3, <1>4

LEMMA BootInitScans == Inv /\ BeforeBoot /\ BootInit => Service!Scan \/ UNCHANGED Service!vars
<1> SUFFICES ASSUME Inv, BeforeBoot, BootInit PROVE Service!Scan \/ UNCHANGED Service!vars
  OBVIOUS
<1>1. /\ owner.pc = "bootinit" /\ current # None /\ current \in Manager
      /\ UNCHANGED <<file, current, shutdown, query>> /\ shutdown # "done"
  BY UsedAreManagers DEF BootInit, Inv, Locals, Stopping
<1>2. mgr[current].work = "unscanned" /\ mgr \in [Manager -> ManagerState]
  BY <1>1, UsedAreManagers DEF BeforeBoot, Unstarted
<1>3. \A m \in Manager : mgr'[m].version = mgr[m].version
  BY <1>1, <1>2 DEF BootInit, ManagerState
<1> QED
  BY <1>1, <1>2, <1>3, CurrentScans

LEMMA ManagerScans ==
  ASSUME Inv, NEW m \in Manager, Scanned(m) \/ Loaded(m)
  PROVE  Service!Scan \/ UNCHANGED Service!vars
<1>1. /\ UNCHANGED <<file, current, shutdown, query>> /\ mgr[m].pc = "running"
      /\ \E work \in {"loading", "loaded"} : mgr' = [mgr EXCEPT ![m].work = work]
  BY DEF Scanned, Loaded
<1>2. /\ \A n \in Manager : mgr'[n].version = mgr[n].version
      /\ \A n \in Manager : n # m => mgr'[n] = mgr[n]
      /\ mgr'[m].work \in {"loading", "loaded"}
  BY <1>1, UsedAreManagers DEF ManagerState
<1>3. CASE m = current
  <2>1. current # None /\ shutdown # "done"
    BY <1>1, <1>3, NoneAssumption DEF Inv, Stopping
  <2> QED
    BY <1>1, <1>2, <1>3, <2>1, CurrentScans
<1>4. CASE m # current
  BY <1>1, <1>2, <1>4, NothingSeen DEF SameCalls, SameManagers
<1> QED
  BY <1>3, <1>4

LEMMA CallBegins == ASSUME Inv, NEW q \in Query, Call(q) PROVE Service!Begin(q)
<1>1. /\ current # None /\ UNCHANGED <<file, mgr, current, shutdown>>
      /\ query[q].pc = "idle"
      /\ query' = [query EXCEPT ![q] = [pc |-> "call", m |-> current]]
      /\ DOMAIN query = Query
  BY DEF Call, Booted, Booting, Inv, Locals, TypeOK, OwnerState
<1>2. query'[q].pc = "call" /\ query'[q].m = current
      /\ \A x \in Query : x # q => query'[x] = query[x]
  BY <1>1
<1> QED
  BY <1>1, <1>2 DEF Service!Begin

LEMMA CallEnds ==
  ASSUME Inv, NEW q \in Query, Return(q) \/ ReturnReference(q)
  PROVE  Service!End(q)
<1>1. /\ query[q].pc = "call" /\ UNCHANGED <<file, current, shutdown, owner>>
      /\ mgr' = Freed(owner, current, query', mgr)
      /\ DOMAIN query = Query /\ DOMAIN query[q] = {"pc", "m"}
  BY DEF Return, ReturnReference, Inv, TypeOK
<1>2. query'[q].pc # "call" /\ \A x \in Query : x # q => query'[x] = query[x]
  BY <1>1 DEF Return, ReturnReference, Idle
<1>3. current # None => mgr'[current] = mgr[current]
  BY <1>1, UsedAreManagers, FreedKeepsUsed
<1>4. \A x \in Query : x # q /\ query[x].pc = "call" => mgr'[query[x].m] = mgr[query[x].m]
  BY <1>1, <1>2, UsedAreManagers, FreedKeepsUsed
<1>5. [x \in Query |-> IF query'[x].pc = "call" THEN {mgr'[query'[x].m].version} ELSE {}]
        = [[x \in Query |-> IF query[x].pc = "call" THEN {mgr[query[x].m].version} ELSE {}]
             EXCEPT ![q] = {}]
  BY <1>2, <1>4
<1> QED
  BY <1>1, <1>3, <1>5 DEF Service!End

LEMMA ShutdownStops == Inv /\ ShutdownJoins => Service!Stop
<1> SUFFICES ASSUME Inv, ShutdownJoins PROVE Service!Stop
  OBVIOUS
<1>1. /\ mgr' = [mgr EXCEPT ![current].pc = "stopped"] /\ shutdown' = "done"
      /\ UNCHANGED <<file, current, query>>
  BY DEF ShutdownJoins
<1>2. \A m \in Manager : mgr'[m].version = mgr[m].version /\ mgr'[m].work = mgr[m].work
  BY <1>1, UsedAreManagers DEF ManagerState
<1>3. current # None => mgr'[current].version = mgr[current].version
                        /\ mgr'[current].work = mgr[current].work
  BY <1>2, UsedAreManagers
<1>4. [q \in Query |-> IF query'[q].pc = "call" THEN {mgr'[query'[q].m].version} ELSE {}]
        = [q \in Query |-> IF query[q].pc = "call" THEN {mgr[query[q].m].version} ELSE {}]
  BY <1>1, <1>2, UsedAreManagers
<1> QED
  BY <1>1, <1>3, <1>4 DEF Service!Stop

LEMMA WriteIsSeen == Inv /\ (\E kind \in Kind : WriteFile(kind)) => Service!Write
BY DEF WriteFile, Service!Write

LEMMA ServiceStep == Inv /\ BeforeBoot /\ [Next]_vars => [Service!Next]_Service!vars
<1> SUFFICES ASSUME Inv, BeforeBoot, [Next]_vars
             PROVE  Service!Next \/ UNCHANGED Service!vars
  OBVIOUS
<1>1. CASE \E kind \in Kind : WriteFile(kind)
  BY <1>1, WriteIsSeen DEF Service!Next
<1>2. CASE DeleteFile
  <2>1. file'.version = file.version /\ UNCHANGED <<mgr, current, shutdown, query>>
    BY <1>2 DEF DeleteFile, Inv, TypeOK, File
  <2> QED
    BY <2>1 DEF Service!vars
<1>3. CASE RequestShutdown \/ ShutdownInterrupts
  <2>1. UNCHANGED <<file, mgr, current, query>> /\ (shutdown' = "done" <=> shutdown = "done")
    BY <1>3 DEF RequestShutdown, ShutdownInterrupts
  <2> QED
    BY <2>1 DEF Service!vars
<1>4. CASE ShutdownJoins
  BY <1>4, ShutdownStops DEF Service!Next
<1>5. CASE \E q \in Query : Call(q)
  BY <1>5, CallBegins DEF Service!Next
<1>6. CASE \E q \in Query : Return(q) \/ ReturnReference(q)
  BY <1>6, CallEnds DEF Service!Next
<1>7. ASSUME NEW q \in Query, ForgetReference(q)
      PROVE  UNCHANGED Service!vars
  <2>1. /\ query[q].pc # "call" /\ query' = [query EXCEPT ![q] = Idle]
        /\ UNCHANGED <<file, mgr, current, shutdown>> /\ DOMAIN query = Query
    BY <1>7 DEF ForgetReference, Inv, TypeOK
  <2>2. SameCalls /\ SameManagers
    BY <2>1 DEF SameCalls, SameManagers, Idle
  <2> QED
    BY <2>1, <2>2, NothingSeen
<1>8. CASE OwnerStep
  BY <1>8, StoreReplaces, BootParsesStarts, BootInitScans, WatcherUnseen DEF OwnerStep, Service!Next
<1>9. CASE \E m \in Manager : Scanned(m) \/ Loaded(m)
  BY <1>9, ManagerScans DEF Service!Next
<1>10. CASE UNCHANGED vars
  BY <1>10 DEF vars, Service!vars
<1> QED
  BY <1>1, <1>2, <1>3, <1>4, <1>5, <1>6, <1>7, <1>8, <1>9, <1>10 DEF Next

(* The engine keeps its promise to its callers, through any number of      *)
(* reloads, failed or not, calls and a shutdown at any moment, also of a   *)
(* wait that the shutdown ends before the first scan has ended             *)
(* (EngineImpl::configFileWatch and the atomic itsRepoManager).            *)
THEOREM KeepsItsPromise == Spec => EnginePromised
<1>1. Spec => []BeforeBoot
  BY AlwaysInv, BeforeBootInit, BeforeBootStep, PTL DEF Spec
<1> QED
  BY <1>1, AlwaysInv, ServiceInit, ServiceStep, PTL DEF Spec, EnginePromised, Service!Spec
===============================================================================
