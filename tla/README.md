# A TLA+ model of the SmartMet querydata engine

The querydata engine (`querydata/`) keeps the newest forecast files of every
*producer* in memory and gives readers views (`Q`) of them. Files appear in
directories at any moment and are loaded by concurrent tasks; readers never stop;
the configuration file may be replaced while the server runs. This directory
holds a specification of that machinery, TLC configurations that check it on
small instances, and theorems, proved with TLAPS, for instances of every size.

## Contents

| file | what it is |
|---|---|
| `Repository.tla` | the collection of models of one producer and the operations of `Repository.cpp` on it, as functions |
| `ModelStore.tla` | the abstract specification: what readers of a repository are promised |
| `RepoManager.tla` | one `RepoManager` with all its threads: monitor, loading tasks, expiration, owner |
| `RepositoryFacts.tla` | lemmas about the operations of `Repository.tla` |
| `RepoManager_proofs.tla` | types, bounds, counter, admin table, refinement of `ModelStore`; deleted and modified files (`InOnePlace`); the newest files (`LoadsInOrder`, `NewestLoaded`) |
| `EngineReload.tla` | `EngineImpl`: the watcher of the configuration file, the swap and the lifetime of managers, the shutdown |
| `EngineService.tla` | the abstract specification: what the callers of the engine are promised |
| `EngineReload_proofs.tla` | who holds which manager at each step of a reload, the error reported, the shutdown; refinement of `EngineService` |
| `Handover.tla` | several managers over one directory, with models that one takes from another, and the settings of a producer (`Producer.cpp`) |
| `Handover_proofs.tla` | models handed over are as configured, and of fresh files but for two known races |
| `RepositoryQueries.tla` | what a repository answers to a client, with one call or two, while models come and go |
| `RepositoryQueries_proofs.tla` | what a view joins, and that what was promised is found |
| `MetadataQueries.tla` | `getRepoMetadata` with options, and the filters of `MetaQueryFilters.cpp` |
| `InfoPool.tla`, `InfoPool_proofs.tla` | the cursors that models pool and queries take, with the proofs that nobody shares one, that they start at the first position and that the pools stay bounded |
| `ValuesCache.tla` | the caches of futures in `EngineImpl`, and the hashes of models that are their keys |
| `WeatherSymbols.tla` | the tables of `Q.cpp`: SmartSymbol, WeatherNumber, wind compasses |
| `Values.tla` | what `QImpl::value` answers, with the search for the nearest valid grid point |
| `Values_proofs.tla` | the search for a valid point, the tables and the compasses (`Values`); computations have a waiting owner, and answers out of a cache are of the caller's own data (`ValuesCache`) |
| `Series.tla` | `QImpl` as its user sees it: a cursor, and calls for series, lists of places, matrices and samples |
| `Series_proofs.tla` | what every element of every call is read from, wherever the calls before it left the cursor |
| `MC*.tla`, `*.cfg` | instances of these for TLC |
| `PROJECT.json` | components, runs, mutants, map to the source lines, hazards, findings, theorems |

## Inventory of the system

**RepoManager** (`RepoManager.cpp`). State: the producers' settings, a
`Repository` under `itsMutex`, the counter `itsThreadCount`, the task group, the
pointer to the manager that is being replaced. Threads: the directory monitor
calls `update()` after each scan; `update()` removes models and schedules
`load()` tasks, waiting when there are too many; `load()` reads files without the
lock and publishes each model under it; the expiration thread removes old models;
the owner polls `ready()`, resets the old manager and shuts down. Hard: all of
them touch the same collections in any order, files change between a scan and the
load that it causes, exceptions leave `update()` half-way, and the pointer to the
old manager is not protected. Correct when: the counter is exact; no reader sees
more than `number_to_keep` models, or a newest time that goes back for no reason;
deleted files go away; the newest files are loaded; waiting and shutting down end.

**Repository** (`Repository.cpp`). State: for each producer a map from origin
time to model, the status rows of the admin tables. Operations: `add`, `remove`,
`resize`, `expire`, `getModel`, `getAllModels`, `updateProducerStatus`, and the
queries `find`, `get`, `getAll`, `originTimes`, `getRepoMetadata` and the tables.
Hard: which model survives two files with one origin time; which model an
operation by name finds; what `get` of a period joins. Correct when: a view has
one grid and the newest data; a query for a period gets the models that overlap
it; what `find`, `originTimes` or the metadata listed can be had.

**EngineImpl** (`EngineImpl.cpp`). State: an atomic shared pointer to the current
manager, to the parameter translations, two caches, the errno of the last
configuration. One thread watches the configuration file: when its modification
time changes it waits until it stops changing, builds a new manager that may
reuse models of the old one, waits for `ready()` and swaps the pointer. Queries
load the pointer and lock that manager. Hard: a swap between two loads of the
pointer, references that outlive the manager, shutdown during a reload, a broken
configuration file, two threads computing one cache entry. Correct when: only a
manager that has scanned its directories replaces another; the settings in use follow the file; the error
that is reported is true; replaced managers go away and none runs after the
shutdown; cached values are those of the caller's model.

**Model and Q** (`Model.cpp`, `Q.cpp`). A model owns the data of one file and a
pool of cursors (`NFmiFastQueryInfo`); `Q` takes cursors from the pools of its
models and gives them back when it is destroyed. A cursor is not thread-safe, so
it must never be held twice. `Q` also holds the pure functions: decision tables
for weather symbols, nearest valid point, selection of levels, interpolation in
time and pressure. Hard: leaks and double releases of cursors, the boundaries of
the tables, when the ring search may stop, and a position that every call, and
every element of a list, moves for the next one. Correct when: a cursor has one
holder and reads live data of its model; SmartSymbol and WeatherNumber agree; a
value of another point is of a valid one within the distance; a value is made of
the parameters, level, time and place that were asked for, and is given when the
data have it.

**Metadata queries** (`MetaData*`, `MetaQuery*`): filters over lists; no state.
Correct when the shortcut by producer and origin time loses nothing.
**Producer** parses a configuration group, and compares two of them: correct when
models are handed over only between managers that would make them alike. **Engine** is the facade that forwards
to `EngineImpl` or throws when disabled. The **directory monitor**, the **task
group**, the **cache** and newbase (`NFmi*`) are external libraries.

## How the model corresponds to the code

`Repository.tla`: a model is `[path, origin, modtime]`. Names and times are
naturals because the code only compares them; a path is its rank in the order of
the names. `Resize(models, limit)` is stated as its result, the `limit` newest, not
as the loop that erases the oldest; `RemoveAll` is the loop over all removed
files under one lock and `RemoveAllThrows` says when that loop ends in the
exception of `Repository::remove`.

`RepoManager.tla`: one action for each stretch of code between two points where
another thread can intervene.

| thread | code | actions |
|---|---|---|
| monitor | a scan (external); `update()`: status, removals under the lock, wait and schedule | `Scan`, `UpdateStatus`, `UpdateRemove`, `UpdateSchedule`, `MonitorExit` |
| task | `load()`: start, one file (reused, read, failed), publish, report, return | `LoadStart`, `LoadReuse`, `LoadRead`, `LoadFails`, `LoadDereferencesNull`, `LoadAdd`, `LoadLoopEnds`, `LoadFinish`, `LoadExit` |
| expiration | `expirationLoop()`, one producer per lock | `ExpireProducer`, `ExpirationExit` |
| owner | the wait for `ready()`, which has two reads; `removeOldManager`; `shutdown` | `ReadyCount`, `ReadyMonitor`, `ReadyAbandoned`, `RemoveOldManager`, `ShutdownStop`, `ShutdownJoin` |
| environment | files, clock, request to shut down | `WriteFile`, `DeleteFile`, `Tick`, `RequestShutdown` |

Waiting loops that poll (`update()` for a free task, `ready()`) are guards. The
read of a file and its publication are separate actions, since the file may
change, and other tasks may publish, in between.

What is assumed of external code: a scan compares names and modification times
with the previous scan of that directory; a callback gets the entry SCAN always
and with it created, deleted and modified files (the watch asks for CREATE,
DELETE and SCAN, and since SCAN is always due, MODIFY entries come along); an
exception in a callback does not end the monitor and the scan counts as done;
`ready()` of the monitor means that every directory has been scanned once. A
read of a file gets one version of it, and a corrupt or missing file throws.

Abstractions: the collection of the manager that is being replaced does not
change (`OldModels`), but a reuse may also fail to find the model
(`LoadRead` is always possible), so a model the old manager removed meanwhile is
covered and one it added is not. `next_scan_time`, the latlon cache and the
interruption of threads are left out. Reading and resetting the shared pointer
to the old manager are taken to be atomic.

`EngineReload.tla`: the thread that initialises the engine goes on as the
watcher, and is one process with a program counter. One action for each stretch
of `configFileWatch` between two points where the file may change, a call may
run or the server may begin to shut down: reading the modification time
(`ParseTime`), parsing (`ParseFails`, `BootParses`, `BootInit`, `Parses`), waiting for the
initial data, storing the new manager (`Store`), sleeping and
looking at the file again (`Rested`, `PollRemoved`, `PollModified`, `Cool`), and the
two ways in which the watcher ends. The wait polls `ready()`, which reads the count of
tasks (`ReadyCount`) before it asks the monitor (`MonitorNotReady`, or the end of the wait:
`BootReady`, `Ready`), while the manager's own threads go on: its first scan ends and
has made tasks or not (`Scanned`), and the tasks end (`Loaded`). A manager here is the
version of the file it was made from, its `configModTime`, the old manager it points to
and how far its first scan has got; `RepoManager`
says what one of them does inside, and `Handover` what two do together. It goes when the last pointer to it goes (`Freed`),
wherever that is. The file is valid, has a syntax error, or cannot be used; the
last differs from the second in the error that is reported.

`EngineService.tla` is that module as callers see it: the version of the file whose
settings are in use, whether their directories have been scanned, and the version from
which each call is answered. The mapping (`Service`) hides the managers, the watcher and its
errors; a store of the manager (`EngineImpl.cpp:372`) is `Replace`, the constructor and
`init` are `Start`, the end of the first manager's scan is `Scan`, a call is `Begin` and `End`, and all other steps are
invisible. A call that asks for references (`producers`) is no call in this sense, since
what it returns is not protected (see the findings). That the files found by the scan
have been loaded is not promised, because `ready()` does not tell (`StoredWhenLoaded`
below).

`Handover.tla`: the managers of successive configurations, each with a `Repository`,
a monitor and tasks as in `RepoManager`, for one producer, over one directory. A
scan with its callback is one action here, and so are a read of a file and the
reuse of a model (`LoadReuse`, `LoadRead`); whether to reuse is decided at
`LoadStart`, by comparing settings. The settings are a record with the fields and
defaults of `ProducerConfig`; `Parses` has the checks of `parse_producerinfo`, the
comparison is `SameSettings`, and `Copied` are the ones that a model keeps. Models
carry two fields more than in `Repository`: those copies, and whether their file
had changed when they were taken over (history). The old manager's pointer goes in
`RemoveOldManager`; the manager itself is freed later (`Destroy`), with its tasks left.
Expiration and shutdown are left to `RepoManager`, calls to `EngineReload`.

`RepositoryQueries.tla`: each query of the repository holds the read lock and is one
step; a client that asks twice (`find` and then `get`, `origintimes` and then `get`,
`hasProducer` and then `get` inside `getProducerTimePeriod`) takes two, and models
come, go and age in between. A file has a grid, a level type, a first and a last
valid time, and contains the client's point or not; the distance that decides
that is newbase's. Producers may be found by their name, or by an alias in one
of two orders: that of the map of settings or that of the settings file.
`MetadataQueries.tla` separates the choice of candidates, which is a shortcut,
from the filters.

`InfoPool.tla`: `Model::info` and `Model::release` are the two sections under the
pool's mutex and hence single actions (`Take`, `Release`); everything a query does
before, between and after is a step of its user. The users are those of the
code: a `Q` of one model (which takes two cursors and gives back one), a `Q` of
several, `Repository::contains`, `getRepoContents` and `sample`.

`ValuesCache.tla`: finding a future, starting one, inserting it, waiting and
answering are separate steps of a call, and the computation is a process. The
model's constructor reads the data in one step and the modification time in
another (`LoadData`, `LoadTime`), since the file may be replaced in between.

`WeatherSymbols.tla`: an interpolated value matters only by the limits it reaches,
so a value is the number of limits that are not above it; codes are any natural numbers.
Negative codes are left out, and NaN, which the code converts to an integer
(undefined behaviour that `docs/smartsymbol.md:190-203` describes). `Values.tla`: a request
is one of three kinds (a parameter of the data, a weather table, a compass), and
the two nested loops of `validPoint` are actions. The grid is a plane; distances
are Euclidean and compared by their squares, where the code has distances on
the globe.

`Series.tla`: the state is the position of `itsInfo` (parameter, level, time), the
caller's `lastpoint`, and the call under way. A value is the set of its readings
(which parameter, at which level, time and place), because which numbers newbase
interpolates from them is not this repository's business; a call is a sequence of
elements, places and times or levels and places, and each element one or more
actions, since each `param()` moves the cursor. `Value` and `WindAsIs` are the
parameters that are read directly, `Begin`, `ReadInput` and `Compute` the formulas and
the winds that are turned, `OfPlaceAndTime` and `OriginTime` the parameters that do not
depend on the data, `Matrix` the grids with the checks in `calculatedValues`; a sample
goes through all levels and leaves the cursor at the last. What is left out: data
are on grids, the time step is three hours, a climatology has one origin time,
pressures and heights behave alike, `validPoint` is a constant (`Values` has the
search), the sun, the moon, names and dates are represented by the elevation of the
sun, and the tables of `WeatherSymbols` are not computed again.

## Runs

| run | instance | what it shows |
|---|---|---|
| `safety` | 1 producer that keeps 1 model, 2 names with one origin time, 2 tasks, an old manager with one model, 2 writes or deletes, 2 seconds, `max_age` 1 | `KeepBound`, `StatusCovers`, `RemovedUnlessRaced`, `InOnePlace`, `NewestNeverRegresses`, `StorePromise` |
| `loads` | 1 producer that keeps 2 models, 3 names, one of them possibly corrupt, 3 tasks with a limit that admits 2, an old manager with one model, shutdown at any moment | `TypeOK`, `ThreadCountExact`, `NewestLoaded` |
| `live` | 2 producers, a limit that admits 1 task, shutdown at any moment, weak fairness | `NewestEventuallyLoaded`, `InitialWaitEnds`, `ShutdownCompletes` |
| `users` | 2 models with 3 cursors each, 2 users at a time, views of up to 2 models | `Exclusive`, `ReadsLiveData`, `StartsAtFirst`, `PoolBounded` |
| `reload` | 3 managers at once, 1 call, 2 changes of the configuration file, shutdown at any moment, weak fairness | `TypeOK`, `OldManagersFreed`, `ErrorIsTrue`, `StoppedAtEnd`, `EnginePromised`, `SettingsFollowFile` |
| `cache` | 2 calls, a cache of 1 entry, a file that is replaced twice, weak fairness | `AnswersOwnDataUnlessTorn`, `OwnerWaits`, `CallsEnd` |
| `queries` | a multifile with up to 3 models and a producer of single files that share an alias, 4 files, 3 seconds | `OneGrid`, `NewestAnswered`, `PeriodAnswered`, `MetadataAgrees`, `FollowUpsAgree` |
| `values` | 80,640 combinations of weather by day and night, some with codes that are no form or type of precipitation, every direction of three compasses, 9 locations with every two valid points of 25 | `NearestIsValid`, `ClosestFromGridPoint`, `NumberTellsSymbol`, `SymbolsDocumented`, `CompassNearest` |
| `series` | 5 data sets (two models with levels, surface data with a gap, climatologies of 1900, 2000 and 2024), 3 places, 47 calls, 3 of them one after another with moves of the cursor between them | `MadeAsAsked`, `AnsweredWhenAvailable` |
| `handover` | 2 managers with 2 tasks each, 2 files, 1 write or delete, 4 configurations (one that cannot be used, two that differ in one setting) | `FreshUnlessReused`, `ReusedAsConfigured` |
| `modified` | 1 file that is corrupt and then rewritten | the comment at `RepoManager.cpp:448-450` does not hold |
| `old` | 1 file, an old manager | the comment at `RepoManager.cpp:350` does not hold |

The bounds: two names that may hold one origin time are enough for every case of
`add` and `remove`; two tasks are the least that can overtake each other, and
three with a limit that admits two make `update()` wait; two changes let a file
be deleted or rewritten while a task has it and be seen by the next scan; two
seconds tell an expired model from a fresh one and a rewritten file from the
original (and include the rewrite within one second that the monitor cannot
see). Tasks, files and other model values are symmetric in runs of safety properties
only. For the other modules: three managers are the one in use, the one being
made and one that a call or another manager still holds, and two changes let the
file change again during the reload that the first one caused. Two users with
two models make every pair of holders of a cursor. Of the three cursors of a model one
user can take two, or two users one each, and the third is pooled or new; a second user
that needs two waits for one to come back, where the code would make a new one (with a
fourth, which takes four times as long, TLC finds no error either). In a cache
of one entry the future that a call waits for can be dropped or replaced by
another; three futures and two new versions give each call an old and a new
model. The files of `queries` have grids that change and change back, valid times
that touch in one point, level types and boxes that differ, and one origin time
that two producers have. For `values` every class of every parameter that a
table distinguishes occurs, codes that are no form or type among them, with each
parameter missing or absent, and two valid points are what a search for the nearest can confuse. In `series` one call
leaves the position that the next one finds, and a third sees what both have left;
parameters are missing from the data, at a place or at a time, and the years are
a common one and both kinds of leap years, of which one is divisible by 400. In `handover` one change of a file can come before, while and
after each manager scans, reads or reuses it; the configuration is edited any
number of times until the second manager has been made. `CHECK_DEADLOCK FALSE` is set where the system really stops: after a
shutdown, after the crash `LoadDereferencesNull`, when the bounds on changes
and time are reached, or when a request has been answered.

Fairness (`Fairness`): the monitor scans each directory again and again, as
`refresh_interval_secs` says, and scanning is strongly fair because one busy
directory does not keep the round-robin monitor from the others; the callback,
each task, the exit of the expiration thread and the owner's polling are threads
that the operating system runs, hence weakly fair. Nothing is assumed of files,
the clock, expiration or shutdowns. In `EngineReload` the owner's thread runs, calls
return, and each manager scans its directories and loads what it found, which is what
`InitialWaitEnds` of `RepoManager` shows of one manager; nothing is assumed of the file or
of shutdowns. In `ValuesCache` calls and computations run; nothing is assumed of
who calls or of files. These are threads of one process that nothing blocks
but what the guards say. The other modules have no liveness properties.

## Findings

* `modified`: a callback that reports a modified file of a producer with nothing
  in memory throws in `Repository::remove` and the file is not loaded, nor are
  the new files of the same scan.
* `old`: a task that decided to use the old manager dereferences the pointer
  after the owner has reset it.

Observations that no run makes, because the properties they break are about
one step, or are stated but refuted by a counterexample of the same kind as
those above (adding the name as an INVARIANT or PROPERTY to the run shows it):

* `ClosestFound` in `Values.tla`, run `values`: `validPoint` looks at both sides of the
  location in turns and ends a row (and the rows) at the first point that is too
  far, so that a valid point on the other side that is nearer is never seen,
  against the comment at `Model.cpp:343`.
* `ReadyMeansLoaded` in `RepoManager.tla`, with one file: `ready()` reads the counter
  of tasks before it asks the monitor, so the initial wait may end before the
  first files are loaded, against the comment at `EngineImpl.cpp:252`. For the same reason
  the watcher may store a manager that is still loading (`StoredWhenLoaded` in
  `EngineReload.tla`, run `reload`, against the comment at `EngineImpl.cpp:361`): until the
  tasks end, callers find less in it than in the manager it replaces. This is how
  the run `old` gets to its crash, and so does `LoadCrashes` in `Handover`.
* `ReusedUpToDate` in `Handover.tla`, run `handover`: a model is taken from the old
  manager by the name of its file; a file that was rewritten before the old manager
  noticed is served from its old contents by the new one, whose monitor has already
  seen the new file and will not report it again.
* `TasksUseLiveMembers` in `Handover.tla`, run `handover`: a manager is destroyed while
  tasks of it run (`RepoManager.cpp:127`).
* `WindsAtLevelAsked` in `Series.tla`, run `series`: `WindUMS` and `WindVMS`, when they are
  turned to true north, pass the maximum gap and the level to
  `interpolateAtPressure` and `interpolateAtHeight` in the wrong order (`Q.cpp:208`
  with `Q.h:128-135`), so that winds are those of level 360 whatever was asked.
* `FeelsLike` as a matrix is missing everywhere without radiation (`Q.cpp:2456`),
  while as a value it is computed ("We permit radiation to be missing", `Q.cpp:532`).
* Formulas and matrices read climatologies at the asked time, without the change of years
  that `dataValue` makes, and find nothing in another year, although "the data can be
  queried for any year" (`src/README.md:93`). `MadeAsAsked` and `AnsweredWhenAvailable` ask for
  the asked time too (`TimesExpected`), and so do not hold this against the code.
* `NearPointOfPlace` in `Series.tla`, run `series`: `NearLatLon` need not tell the location or
  the nearest valid point of it. Only values of data set `opt.lastpoint`, which is one point for
  all locations of a list (their options are made with the caller's, `Q.cpp:3776`): a list is
  told the point of its last location, a wind or a formula leaves that of the value before, and a caller
  that asks for it first is told what its own variable held.
* Parameters that do not depend on data want a level nevertheless (`Q.cpp:3311`) and
  throw after `metaData` or a `selectLevel` that found nothing.
* The hash of a sample has its time, box and resolution but not its parameter
  (`Q.cpp:3985`), so that two samples of one Q have one hash.
* The column "leveltype" of the producer table shows the type (`Repository.cpp:792`).
* `InfosReturned` in `InfoPool.tla`, run `users`: the constructor of a `Q` for one model
  takes two cursors (`Q.cpp:1145-1146`) and its destructor gives one back, though
  the comment at `Q.cpp:1124` says that it "releases the NFmiFastQueryInfo back into a
  pool"; `metaData` and `getRepoContents` keep one as well.
* `ReferencesValid` in `EngineReload.tla`, run `reload`: `producers()` and
  `getProducerConfig()` return references to members of a manager that a reload
  may destroy before the caller reads them, while `FEATURES.md:104-105` promises
  "readers always see a consistent snapshot".
* `AnswersOwnData` in `ValuesCache.tla`, run `cache`: the constructor of a model reads
  the data before the modification time, so a file replaced in between gives
  the old data the hash of the new file ("Unique hash value for this model",
  `Model.cpp:73`), and the cache answers for the new model with old values.
* A second write of the configuration file in the second in which the watcher
  recorded its time (`EngineImpl.cpp:389`) is never noticed: `SettingsFollowFile` needs
  `DistinctSeconds`. Parameter translations and cache sizes are never reloaded.
* A request by alias is not a request by name: `get(alias)` of a multifile gives the
  latest model only, `get(alias, period)` of a producer of single files joins its
  models although "the data is not a multifile" (`Repository.cpp:415`), aliases are
  searched in two different orders, and `originTimes` does not know them.
  `Repository.h:65` says "Must not use aliases for these!" of `get`, while `findProducer`
  looks for them.
* Metadata are asked for by exact name (`Repository.cpp:1062-1067`), so that
  `filterProducer`, which compares names without regard to case, never sees another
  case of the name.
* `Snow1h` returns whether the data have the parameter (`Q.cpp:663`), where the comment
  says "Use the actual Snow1h if it is present"; a sample of it stores nothing.
* `is_leap_year` (`Q.cpp:122`) takes the years that are divisible by 400 for common ones:
  a climatology of the year 2000 answers the 29th of February from the 28th, which
  `TimesExpected` allows. (In any other year it asks for the same day, or for the day before
  when the 29th does not exist.)
* `NumberTellsSymbol` is about codes and intensities that have a digit of their own
  (`HasDigits`). A fog intensity between 0 and 1 gives the symbol of fog but the digit 0 of
  `WeatherNumber`; a form, type or fog of 9 reads as missing, and a larger one runs into
  the next digit.
* Forms of precipitation from 9 on give symbols outside the table (`Q.cpp:877`), as
  `docs/smartsymbol.md:209-211` says; `SymbolsDocumented` allows them what the formula there
  allows. The document says "values >= 112", but form 9 also gives 111, the drizzle of the
  night.

## Proofs

Every theorem holds for all values of the constants that satisfy the assumptions of
its module: any number of producers, files, tasks, managers, queries, models and cache
entries. The assumptions are types, and finiteness where the code has a finite
collection that is counted: of tasks and files (`RepoManager`, `Handover`), managers
(`Handover`), cursors and users (`InfoPool`), and the files of a repository
(`RepositoryQueries`). Where a constant is a table of the environment (grids and times of
files in `RepositoryQueries`, data and calls in `Series`) its assumption says what such a table
holds, and TLC evaluates it for the instance it checks.

### RepoManager

* `TypeCorrect` and `KeepBoundHolds` are proved together (`TypeAndBound` is
  inductive). The bound is the fact `ExactlyNewest` about `Resize`, which is
  itself about finite sets of numbers: the elements with at most `n` elements above
  or equal to them are `n`, or all.
* `ThreadCountHolds`: `ThreadCountExact` is inductive with the types. The
  cardinality of the set of running tasks changes by one in `UpdateSchedule` and
  in `TaskEnds` and not at all elsewhere.
* `StoreImplemented`: the refinement mapping is `models <- itsProducers`. `LoadAdd`
  publishes (`AddAndResizePublishes`), `UpdateRemove` and `ExpireProducer`
  withdraw, and every other action stutters.
* `NewestNeverRegressesHolds` follows from types and bounds alone.
* `StatusCoversHolds` needs the invariant that only a task that is between its
  start and its report has successful loads (`NoDebt`).
* `RemovedUnlessRacedHolds` needs the invariant `InOnePlace` (`InOnePlaceHolds`):
  follow one file that was never removed while a task had it. It is in memory, or
  in one task, or about to be scheduled, never two of these, and in the monitor's
  snapshot unless its removal is under way. TLC checks `InOnePlace` in the run
  `safety`; the proof has one lemma for each group of actions that disturb it.
* `NewestLoadedHolds` is about managers to whose
  directories files are only added, with names that sort like origin times, and
  whose models do not expire; without that a load that stops after `number_to_keep`
  files, or a model withdrawn, leaves an older one in its place. The property names
  these hypotheses (`OnlyAdded`), which the constants of `loads` satisfy, and says
  nothing of other constants. Call a file *outdone* when `number_to_keep` newer
  models are in memory or on their way. `LoadsInOrder` says that every loadable file
  that the monitor has seen is in memory, in a task or about to be scheduled, or is
  outdone, and that whatever a task has dropped from its list is outdone by what
  the task itself has loaded: it goes through its files newest first, and counts a load also
  when `add` ignores it, because another file with that origin time is there. What
  keeps a file outdone is that publishing and resizing never leave fewer than
  `number_to_keep` of the models newer than a given time
  (`PublishingKeepsNewer`). When nothing is on its way any more (`CaughtUp`), what is
  not in memory is outdone in memory, which is `NewestLoaded`.

### Managers that replace each other

* `PointersAreValid`, `NothingLeftBehind`, `ReportsLastError`, `ShutdownStopsAll`
  (`EngineReload_proofs`): one invariant, `Inv`, says at each of the watcher's steps
  what its local pointers are (`Locals`), that only the manager it waits for has an old
  one, which is the current one (`OnlyNewHasOld`), that nobody but the watcher knows the
  new one until it is stored (`NewIsPrivate`, without which a call could hold a manager
  that a failed reload destroys), that every manager left is held by somebody (`Held`),
  how versions compare (`ToBeStored`) and what the last error was about (`ErrorsSoFar`).
  Steps that drop a pointer share one lemma (`DropStep`) on what the destruction of
  managers leaves: chains of old managers have length one.
* `KeepsItsPromise`: `EngineReload` implements `EngineService`. `Inv` tells what a store
  replaces and by what (`StoreReplaces`: `ToBeStored` makes the new version no older
  than the one in use), and that a call's manager is not destroyed under it, so that the
  version it works on does not change (`FreedKeepsUsed`), and that the one it stores has
  scanned its directories, since the wait ends otherwise only in a shutdown, after which
  `ToBeUsed` stores nothing (`ToBeStored`). Needed besides it is that nothing is scanned
  before the first manager has been initialised and nobody calls before (`BeforeBoot`), for
  otherwise that manager would not appear as `Start` and then `Scan`; later scans are seen
  only of the manager in use (`CurrentScans`, `ManagerScans`). The watcher's other steps only
  touch a manager that nobody uses (`NewIsNotUsed`, `WatcherUnseen`).
* `HandsOverAlike`, `ServesFreshFiles`, `OldManagerIsUsable` (`Handover_proofs`): a
  task that may take models over is one whose manager has the settings of its old
  one (`TakesAlike`), which matters only while the old one is there, so the pointer
  to it is to a running manager (`OldIsKept`), made before (`MadeInOrder`). Models in
  tasks and in memory are then as the manager would have made them (`AsConfigured`).
  For fresh files a model in a task or in memory is late, was removed under a task's
  hands, or is of its file as the monitor last saw it, if the file is still so.

### Cursors and cached values

* `ExclusiveHolds` and `ReadsLiveDataHolds` (`InfoPool_proofs`): the invariant is `Inv`,
  the types, the correspondence of a user's three lists (`Shape`: what it gives
  back is a prefix of what it took, each cursor taken of the model at the same
  index), `Exclusive` and `ReadsLiveData`. A release puts a cursor into the pool of
  the model it reads because the lists correspond; a model that is freed is in
  no user's list; a new cursor is free because nobody has its identity.
  `TypesAndShape` states the strengthening. The assumption is `InfoPoolAssumption`.
* `StartsAtFirstHolds`: with `Inv`, a cursor that has been moved is in no pool but its
  users', unless it has been put back at the first position (`AtFirst`).
* `PoolBoundedHolds`: the pools and the hands that hold cursors of one model are
  disjoint (`Exclusive`) and finite, since a user takes finitely many, and a new
  cursor is made only when the pool is empty (`Bounded`).
* `FuturesAreThere`, `ComputesWhileOwnerWaits`, `AnswersFromOwnData`
  (`Values_proofs`): a future is reached from the cache or from a call that waits, and
  its identity is used again when it has been collected. The invariant says that whoever
  reaches a future reaches one of its own key (`CacheKeyed`, `CallsAwait`, `GotKeyed`), that
  it has not been collected, and that one that runs belongs to a call. Two models with one key have read
  the file at the same time of modification, so they have the same data unless one is torn.

### Queries of a repository

* `ViewsHaveOneGrid`, `NewestIsAnswered`, `PeriodIsAnswered`, `ShortcutsAgree` and
  `PromisesAreKept` (`RepositoryQueries_proofs`). A view is a sequence that the code
  makes out of a set of models in the order of their origin times. `InOrderFacts` says of
  that sequence that it has each model once, the newest last, with no induction over data:
  the ranks of the elements of a finite set of numbers are `1` up to its size
  (`RanksGrow`, `EveryRank`). The longest end of it with one grid has these
  properties too (`LastRunFacts`, `RunIsView`), and ends with the newest model
  (`LastOfView`), so that `get` of a period answers with the newest one that
  overlaps it.
* The invariant adds what a client knows between its two calls: the producer that `find`
  told it suits the request (`FoundSuits`), and the origin times it was told were of
  models of that producer (`TimesSeen`). `PromisesAreKept` is then about
  the second call, when nothing has changed.
* `ShortcutsAgree` is about producers that are named as written in the settings: the
  metadata are looked for by the exact name but filtered by it in lower case.

### Series of values

* `ValuesAreMadeAsAsked` and `AvailableIsAnswered` (`Series_proofs`). Any call finds the cursor where the one before left it, and each
  element where the last reading left it. The invariant says where the level is at each
  step: where the user put it, or for a sample and while a formula is read, at the
  element's own (`LevelKept`); that all that has been read for a formula
  was read for the element under way (`ReadSoFar`), with the parameter selected before
  each reading. With it one answer is good when it is given (one lemma for each action: `PlainIsGood` for data,
  `ComputeKeeps` for formulas, `DataCell` and `ComputedCell` for grids), and it stays good
  because nothing that it is judged by changes before the next call (`SameQuestion`).
* Of dates the proofs use that a year and a day of it make one number
  (`DecimalDates`), and that the rule of `dataValue` gives a day that exists in the
  climatology's year, the asked one but for the exceptions of `TimesExpected` (`DateExpected`).

### One value

The theorems about `Values` (`Values_proofs`) rest on two assumptions on its constants,
which TLC evaluates in the run `values`: `GridAssumption` (grid points are pairs of integers with
`<<0, 0>>` among them, their spacing is positive, and a location is at most half a spacing
away from its grid point) and `WeatherAssumption` (an interpolated value is in one of the classes
that the limits of `Q.cpp:45-63` make, or any code, or missing, or absent).

* `ValuesComeFromValidPoints` and `SearchFindsClosest` are for every grid, radius and set
  of valid points. The invariant `SearchInv` says of the loops of `validPoint` what they know:
  the point found so far is valid, in reach, and at the distance that is recorded
  (`PointSoFar`); and for a location at a grid point, no valid point that the loops have
  passed is nearer (`ClosestSoFar`). The offsets turn from side to side, `0, -1, 1, -2, ...`
  (`ZigzagTurns`), and the distance from a grid point does not shrink from one turn to a
  later one (`LaterIsFarther`), so when the loop over a row, or over the rows, ends because a point is
  too far, all that are left are too far as well (`LaterColumn`, `LaterRow`). The last step
  is false for a location between grid points, which is the observation `ClosestFound` above.
* `NumberIsABasis` (`NumberTells`): the digits of `WeatherNumber` are taken apart again, and each
  rule of `calc_smart_symbol` depends on its weather only through them. The proof goes through
  the rules in the order of the code, with each parameter absent, missing or in a class; its
  hypothesis is that each code has a digit of its own (`HasDigits`).
  `OnlyDocumentedSymbols` follows the same rules for any code, and that the night adds 100
  (`DocumentedSymbol`, `NumberOfNight`).
* `CompassIsNearest` (`SectorIsNearest`): rounding half a sector up and taking the remainder gives the
  sector whose middle is at most half a sector away, around the north too.
* `ValueTypes` states the types for all these constants.

### Only model-checked

Liveness is beyond the prover (`ENABLED` and fairness): `NewestEventuallyLoaded`,
`InitialWaitEnds`, `ShutdownCompletes`, `SettingsFollowFile` and `CallsEnd`.
All invariants and action properties that the runs check are theorems, and so are the two
refinements. The violations are TLC counterexamples.

## Plan

The core (`RepoManager` over `Repository`, with its abstract store), the swap of
managers, the models they hand over, the queries, the cursors, the caches, the
tables and the values of `Q` are modelled, and everything that the runs check but
liveness is proved. What could be added: an abstract specification of the pool of
cursors (a cursor is free or has one holder) and one of the caches (a function of the
caller's model), each shown to be implemented; and locations on the globe for the
search of `validPoint`, with the distances newbase computes.

## Not modelled

Formatting and the tables for administrators; the conversions of libconfig;
interpolation inside newbase; the numbers that formulas compute; translated texts
and data of stations; the facade `Engine`, which forwards every call; accessors and
small value types. See `components` in `PROJECT.json` for each reason. The tests under
`src/examples` exercise the code and are no part of the engine.
