# TLA+ models of the MiniSkins launcher

MiniSkins is a C++/Qt launcher for Minecraft (a MultiMC descendant).  It keeps a
list of instances; each instance is a list of components (Minecraft, LWJGL, mod
loaders) whose meta data and files come from the network.  Nearly all of its
logic runs on one event loop, as handlers and callbacks; what makes it hard is not
parallelism but the order in which answers, timers, edits, aborts and crashes
reach handlers that hold indexes and pointers into state others change.

This directory models the part of the program where that order matters most, model
checks it with TLC and proves the core of it with TLAPS.  `PROJECT.json` maps every
definition to the source lines it stands for.

## 1. Inventory

Paths are below `src/launcher/`.

| Component | State | Operations | Interacts with | What makes it correct |
|---|---|---|---|---|
| Component list `minecraft/PackProfile.cpp`, `Component.cpp` | ordered list, map by uid, dirty flag, 5 s save timer, `mmc-pack.json`, patch files | load, save, reload, remove, move, enable, customize, revert, change version, install | version page (edits), update task (rewrites the list), meta data (files of components) | list, map, file and patches agree; no edit is lost silently; an unreadable file is not overwritten |
| Update task `minecraft/ComponentUpdateTask.cpp` | download slots with row numbers, success flag, recursion | load all, wait, gather requirements, remove, add, change, load again | list, meta data, network jobs (lambdas) | it ends; success means every requirement is met; the user's choices stay; answers reach the row they are for |
| Meta data `meta/*.cpp` | per entity: loaded or not, running download; local cache files | `load`, `getCurrentTask`, parse, merge | network job, HTTP cache | one download per entity at a time; offline never downloads |
| Network job `net/NetJob.cpp` | queue and three sets of parts, failure counters, abort flag, concurrency | add, start, abort, part answers | its actions, every task that downloads | no part lost or doubled, bounded retries, limit kept, honest verdict, it ends |
| Task base `tasks/Task.cpp`, `SequentialTask.cpp` | state machine | start, emit success or failure | all tasks | one end per start |
| Cached download `net/Download.cpp`, `FileSink.cpp`, `MetaCacheSink.cpp`, `HttpMetaCache.cpp` | reply, status, temporary file; shared cache entries, index file with 30 s save timer | resolve, start, data, error, redirect, finish, abort, evict | network job (retries), users of the file | success leaves a whole and current file; a trusted entry stands for a whole file; each start is answered |
| Lookup requests `minecraft/mod/ModFingerprintLookupTask.cpp`, `screenshots/ImgurUpload.cpp` | reply, finished flag, timer | start, error, finish, time out | network job restarts them from inside their error handler | an answer belongs to the request it is taken for |
| Accounts `minecraft/auth/AccountList.cpp`, `MinecraftAccount.cpp`, `AuthFlow.cpp`, `Usable.h` | list, default, refresh queue, two timers, activity count, use counts, token validity | add, remove, refresh, queue, log in | launch controller, launch step that claims an account, account page | an account in use by a game is not refreshed; activity is counted right; one task per account |
| Launch `LaunchController.cpp`, `launch/LaunchTask.cpp`, `LaunchStep.cpp`, `minecraft/launch/*` | login loop, step list, current step, state, process, boxes on the stack | decide account, log in, match Java, start, proceed, abort, kill, finalize | accounts, instance, game process, profiler | the game runs only with what the steps prepared; whatever ends a launch, nothing is left behind; an abort is final; a launch ends |
| Game files update `minecraft/MinecraftUpdate.cpp`, `minecraft/update/*` | list of subtasks, current one, abort and failure flags | start, next, abort | launch, component list, network jobs | it ends; no subtask starts after an abort |
| Instance list `InstanceList.cpp` | rows, groups and their file, staging directories, update flags | discover, group, delete, stage, commit, update in place | staged tasks, folder watcher, import | no instance is overwritten unasked; the list shows the folder; groups survive; each staging ends |
| Pack update `InstanceImportTask.cpp`, `modplatform/curseforge/FileResolvingTask.cpp` | mods folder, `.update_backup`, `mod.json`, files to fetch | compare, move away, fetch, roll back, commit, scan | server, instance list, background scan | no mod is lost before the new ones are there; a failure puts the old ones back; success installs the pack |
| Mods folder `minecraft/mod/ModFolderModel.cpp` | rows, index by id, reading thread, parse tickets, watcher | update, parse, enable, install, delete | worker threads, watcher, launch step | rows and index agree; at rest the list is the folder |
| Log buffer `launch/LogModel.cpp` | ring of lines | append, resize, clear, suspend | launch task | shows the newest lines in order |
| Settings, worlds, other mod platforms, updater, Java detection, services, interface, helpers, bundled libraries | see `PROJECT.json` | | | not modelled, with reasons in section 6 and there |

Hard behaviours, by kind:

* **Stale positions and pointers.** A download's answer is applied to the row number
  remembered when it was requested (`ComponentUpdateTask.cpp:652`), through lambdas
  that outlive the task they capture (`:192`).
* **Re-entrance.** A part that answers at once calls `startMoreParts()` from inside its
  own loop (`NetJob.cpp:163`); the resolver calls `loadComponents()` from inside a
  handler (`ComponentUpdateTask.cpp:629`).
* **Delayed saves and crashes.** The component list is saved 5 s late, the cache index
  30 s late, patch files and downloads at once.
* **Partial failure.** Patch files that cannot be deleted, writes and commits that
  fail, answers of which only a part arrives, files that are locked while a pack moves.
* **Shared objects.** Two downloads of one file share a cache entry; two stagings share
  the flag that says an update is going on (`InstanceList.cpp:903`).
* **Modal boxes** run event loops of their own, inside of which a launch goes on; what
  the box asked about may be over when it is answered (`LaunchController.cpp:409`).
* **Worker threads** answer about a folder or a file that has changed since
  (`ModFolderModel.cpp:174`, `InstanceList.cpp:1153`).
* **Retries and aborts** that cross each other and late answers.
* **Termination** of the resolver's loops, of redirects and of jobs.

`PROJECT.json` lists each at its line under `hazards`, with the properties that cover it.

## 2. Modules

| Module | Models |
|---|---|
| `Components` | the data of a component, its predicates and operations, saving and loading, and the resolver's pure functions: gathering, removals, additions, changes. No variables. |
| `PackProfile` | the component list, the update task, the meta data it waits for and the version page, as one state machine |
| `PackProfile_proofs` | the theorems about `PackProfile` and the lemmas about `Components` |
| `MCPackProfile`, `MCResolver` | two instances for TLC: a small world for edits, and a meta data set whose requirements agree, conflict, chain and change, started from every list of up to three components |
| `Job` | the abstract promise of a job of downloads |
| `NetJob` | the job as it is built; implements `Job` |
| `NetJob_proofs` | the theorems about `NetJob` |
| `CachedDownload` | downloads of one file, their sink and the cache entries they share |
| `MCCachedDownload` | symmetry for it |
| `CachedDownload_proofs` | the theorems about `CachedDownload` |
| `AccountUse` | accounts, their list with its background refreshes, the login loop of a launch and the claim of its account, composed |
| `MCAccountUse` | two accounts and a login that replaces the first, for TLC |
| `AccountUse_proofs` | the theorems about `AccountUse` |
| `GameLaunch` | a launch: its twelve steps, the update of the game's files, the processes, the profiler, the boxes and every way to stop it |
| `MCGameLaunch` | nine kinds of instances for TLC, so that every step and way of stopping occurs |
| `GameLaunch_proofs` | the theorems about `GameLaunch` |
| `InstanceList` | the list of instances, its groups, and stagings that commit with retries or over an instance that is updated |
| `InstanceList_proofs` | the theorems about `InstanceList` |
| `PackUpdate` | the update of an instance to another version of its CurseForge pack, as far as its mods go |
| `PackUpdate_proofs` | the theorems about `PackUpdate` |
| `ModFolder` | the list of the mods in a folder, with the threads that fill it |
| `ModFolder_proofs` | the theorems about `ModFolder` |

### PackProfile and Components

Variables and code: `components` and `componentIndex` are `d->components` and the keys
of `d->componentIndex`; `dirty`, `saveTimer`, `loaded` are the members of those names;
`task` is `d->m_updateTask` with its private data (`slots` is `remoteLoadStatusList`);
`disk` and `patches` are `mmc-pack.json` and the patch files.  Meta data entities are
sets: `ready` (in memory), `local` (in the local cache), `inFlight` (downloading).
`orphans` are the downloads still connected to a task that is gone: an answer for one
of them sets `fault` to "dangling", and a row number past the end sets it to "null".
After a fault nothing is modelled but a restart: the program's behaviour is undefined.

A handler that runs the resolver is several steps (`LoadComponents`, `RemoveObsolete`,
`ApplyChanges`, ...), because it loops; `phase` keeps other events out until it ends.
Every other action is a whole handler.  `RemoveComponent`, `ChangeVersion` and
`ReloadList` contain the reload or resolve that `VersionPage.cpp` makes after them.
Drawing a row is an action because it may start a download (`Component.cpp:232`).

Rows are taken out of a list, and dependencies go into one, in ascending order
(`Ascending`, `Select`, and a recursive function in `AddDependencies`).  The community
modules' `SortSeq`, `SelectSeq` and folds say the same, but no theorem of this prover's
library is about them.

Abstracted: uids and versions are small numbers; a version file is its version, its
requirements and its volatile flag.  Not modelled: the cached launch profile,
migration of instances older than components, jar mod files, names, conflicts.

### NetJob and Job

`todo`, `doing`, `done`, `failed`, `failures`, `aborted`, `concurrency` and `state` are
the members (`parts_progress` reduced to its counters).  `queued` is the call that
`executeTask()` posts, `scheduling` is "the loop of `startMoreParts()` runs";
`StartPart`, `Return` and `Verdict` are the turns and exits of that loop.  An answer
sets `scheduling` if the job runs, which is the call at the end of every handler.  A
part started by `StartPart` may answer at once.  In the code that re-enters the loop;
since the loop keeps no state of its own between turns, re-entering it and going on
with it are the same step.  `Abort(now)` splits the active parts into those whose reply
reports the cancellation at once, those that answer later (`stopping`), and those
without an `abort()`.  `starts` is a history variable.

`Job` says what a caller relies on: parts end well or badly and stay ended; the job ends
when none is pending, successfully exactly if none ended badly.  `Outcome` is the
refinement mapping: waiting and running parts are "pending".

Not modelled: the progress display, and the 6 used when the setting cannot be read
(one more value of the setting).

### CachedDownload

A file and what is written to a temporary file are sequences of pieces; a checksum is
the contents it was made from, an ETag is the server's version.  `current` says whether
an entry's time stamp is the file's.  `map` is the entry in `m_entries`, `entries` the
entry objects in memory (shared by pointer), `saved` the index file.  The stages of
`downloadFinished()` are one action, `Finished`; `Abort` is `QNetworkReply::abort()`
with the error and the end it reports at once.  `WriteFaults` says which writes may
fail: a chunk, the rest of the data in `downloadFinished()`, the commit.

Not modelled: `makeFile` and `makeByteArray`, checksum validators (a mismatch acts like a
commit that fails), the bodies of redirect replies, the retried request going to the
redirected address, aborting a download that has no reply and starting an aborted one
(no caller does), `expected_etag` (no caller gives one).  The three parts of the
`QNetworkReply` and the server that the code uses are marked external in the map.

### AccountUse

`accounts`, `default`, `queue`, `current`, `nextTimer`, `refreshTimer` and `activityCount`
are the members of `AccountList`; `id`, `state`, `validity`, `active` and `uses` are those
of each account (`active`: `MinecraftAccount::m_currentTask` is set).  `watched` are the
accounts whose task is connected to `authSucceeded()` and `authFailed()` of the list, a
connection that outlives the account's place in the list.  `launch` is a
`LaunchController`: `phase` is where its login loop, the Java check or the launch stands,
`claim` what `ClaimAccount` will lock.

A modal dialog is a phase: the user cannot use the rest of the program (`AtHand`), but
timers and the network go on.  `TryNext`, `Filled` and `RefreshEnds` are whole handlers;
`RefreshEnds` contains what the account, the list and a waiting dialog do with the
answer, in any of the ways the authentication steps can end.  `Alive` follows who holds an
account, because a task writes to its account when it ends (`AccountTask.cpp:59`) although
only the task may be alive: that step, and going on with a null account
(`LaunchController.cpp:263`), may set `crashed`, after which nothing happens.

Not modelled: `accounts.json`, profiles without a name and the dialog that sets one,
"Play Offline" in the progress dialog (it calls `abort()`, which these tasks do not have).

### GameLaunch

`settings` is what decides which steps `createLaunchTask()` appends; `task` and `state` are
`Task::m_state` and `LaunchTask::state`, `cur` is `currentStep`.  A step that ends starts
the next one from inside the same call: `chain` says that this call is on its way, and
while it is no event is delivered.  `frames` is the stack of boxes, dialogs and of the
`abort()` of a lookup; only the topmost can be answered, and the launch goes on below it.
`controller` is the `LaunchController`, which ends before the launch when it gives up.
`sub` and `subAbort` are the running subtask of `MinecraftUpdate` and `m_abort`; `proc`,
`killing` and `told` are the process of the step, `LoggedProcess::m_is_aborting` and what
was written to its input.  `account`, `jar` and `natives` are what steps take and give
back in `finalize()`.

Each `executeTask()` is an action (`CheckJavaStarts` ... `GameStarts`), and so is each
answer.  `Succeed` and `Fail` are `onStepFinished()`; `Finalize` is `finalizeSteps()`, in
which files may refuse to go.  `NativesStarts` has the loop of `ExtractNatives.cpp:106`
that goes on after a failure has already finalized the step.  `AnsweredTooLate` uses a
controller that is gone.  `blame` and `abortedAt` are history.

Not modelled: the log and its censoring, the arguments of the game, what a subtask
downloads, and the difference between Java checkers that fail.

### InstanceList

`folder` is the instance folder on disk: who put there what it holds.  `rows`, `known`,
`group`, `groupsLoaded` are `m_instances`, `instanceSet`, `m_instanceGroupIndex` and
`m_groupsLoaded`; `groupFile` is `instgroups.json`; `updating` and `target` are the two
globals of `Application`; `checking` is `MainWindow::m_id`.  A staging in `task` is an
`InstanceStaging` with its backoff timer.  `Commit` is the whole of
`commitStagedInstance()` with the reload of the list and the save of the groups that its
signals cause; `LoadList` is `loadList()` with the reading of the groups from inside
`loadInstance()`.  `outside`, `alone` and what is kept of a staging that ended are history.

Not modelled: names (each new instance asks for the same one), collapsed groups, play
time, the view, an instance folder that is moved.

### PackUpdate

A mod file is its project and version.  `mods`, `backup`, `stash` and `astray` are the mods
folder, `.update_backup`, a mods folder that was moved into it, and files that a rollback
put beside the mods folder.  `record` is `mod.json`, with or without file names.  `phase` is
what the chain of `InstanceImportTask` and `FileResolvingTask` waits for; `want`, `fetch`,
`homeless` and `backupSet` are `m_toProcess`, the files asked for, whether they have a
target folder, and `m_backupDir`.  `scans` are the threads of
`scanAndProcessBlacklistedModsAsync()`.

Each handler is one action: `ModInfo` compares, moves and asks; `FileInfo`, `FilesFetched`,
`FilesFail` and `Commit` follow.  `MoveRefused` is `backupFiles()` with a file that cannot be
moved and the rollback it causes.  `CutShort` and `CutCommit` end the process between two
moves of a handler.  `before`, `modsBefore`, `refused`, `planned` and `last` are history.

Left to `InstanceList`: the staging around it and other stagings.  Not modelled: overrides
of the pack, resource packs and worlds in it, the other platforms.

### ModFolder

`mods`, `index`, `active`, `update` and `scheduled` are `mods`, `modsIndex`, `activeTickets`,
`m_update` (nothing, reading, or what was read) and `scheduled_update`; `parses` are the
tasks that read details and what they have read.  `disk` is the folder and `changed` the
signal that `QFileSystemWatcher` still has to deliver.  `FinishUpdate` is `finishUpdate()`
with its three loops and the new reading at its end (`RowsLeft` is the second, a recursive
function over the rows from the last to the first); `FinishParse` is `finishModParse()`.
The order in which new rows are added is any order (it is a hash's).  `mishap` is a history
variable: "hasty" once a mod was switched while its details were read, which `setModStatus()`
does not check; "muddled" once a mod was switched to the id of another row or an answer came
under an id that no row has.  Where a muddled index leads (rows taken for others, `mods[0]` of
an empty list) is not followed: nothing happens after it.

Not modelled: `mod.json`, which the list writes along the way (`ModJsonManager`, the lookup
of fingerprints); mods that are folders; `interaction_disabled` and `isValid()`; a file that
is replaced by another with the same time stamp; the gap between `update()` and `addPath()`
in `startWatching()` (lines 74 and 76), one handler here.

## 3. Runs

Deadlock checking is off in all of them: the launcher may rest.

| Run | What it asks | Bounds and why they are enough |
|---|---|---|
| `pack_edits` | Do list, map, file and patches stay consistent over every edit, also during an update, with undeletable patches, exits, crashes? | 3 components with 2 versions, 2 edits, 1 crash; from a new folder, a saved instance, a hand-edited list with a doubled entry, a damaged file. Two edits are one that goes wrong and one that makes it visible; the update task and its answers are not counted. |
| `pack_resolver` | Does every answer reach the task and component it is for while the user leaves a waiting update alone? Does an update end? Does success mean that requirements are met, with dependencies first and the user's choices kept? | 4 components with 2 versions, every list of up to 3 of them in every order: a chain of requirements is then as long as the number of components |
| `netjob` | Are parts ever lost, doubled, retried too often, too many at once, or started for a job that is over? Does the job implement `Job`, and end? | up to 4 parts, some of which cannot be aborted, added at any time; restarts without bound. Four parts are two that run and two that wait. |
| `download_one` | Is a successful download whole and as new as the server's file, is "not modified" only believed when true, and is every start answered? | 1 download object, used again and again; 2 versions of 2 pieces, 2 redirects |
| `download_pair` | Do two downloads of the same file leave a whole file, and is a trusted entry's file whole? | 2 downloads, 2 versions |
| `account_login` | Over every outcome of a refresh and every turn of the login loop: is the default account in the list, is no profile doubled, and does a launch that waits have something to wait for? | 1 account and 1 later login to its profile, 1 launch at a time without limit, 1 click on "Refresh" |
| `account_refresh` | Do background refreshes go on, is the list active when an account is, and is every due account refreshed? | 2 accounts and a login that replaces one of them, 1 launch at a time; refreshes succeed or expire. Two accounts and a launch give two tasks at once, and a queue that is not empty when one ends. |
| `account_in_use` | A violation, see section 5 | |
| `launch` | Does the game run only with its files and its account? Is nothing left behind, whatever fails, is aborted, killed or answered too late? Is an abort final, and does a launch end? | 9 kinds of instances that contain each step, session, and profiler; 2 launches, 1 end of the launcher. The second launch meets what the first left. |
| `instances` | Is an instance overwritten only by an update that was asked for? Does the list show the folder and what a commit brought? Do groups survive? Does every staging end? | 2 stagings, 2 ids, 1 group, 1 change by another program, 1 restart, waits of 1 and 2 of the 16 in the code. Two stagings are enough for one to meet the flags of the other. |
| `pack_update` | Is a mod ever lost before the new ones are there? Does a failed update put them back, a successful one install the pack? Does every update end? | 1 project with 2 versions and a mod of the user's, 3 updates, 1 edit, 1 end of the process, any file may be locked. Three updates are one that leaves a mess, one that meets it and one that meets what the second made of it. |
| `mod_folder` | Do rows and index agree up to the two mishaps that muddle the index, and does the list, once at rest and without a mishap, show the folder with the details of its own files? | 2 mods, enabled or not or both, 2 files at a time, 3 dates in use at once, 2 changes of the folder, 2 visits. Two changes are one that a thread misses and one that comes while its answer waits, or a switch and what meets it. |
| `mod_folder_rest` | Does an open list come to rest once nothing changes? | 1 mod, enabled or not or both, and otherwise the same |
| `mod_folder_hasty` | A violation, see section 5 | |

Every property of a passing run has a mutant of the code in `PROJECT.json` that breaks
it; the mutants stand in the modules, before the definitions they replace.

Fairness.  `PackProfile`: the resolver's steps are weakly fair because they are one
handler; every download is answered, because `NetJob` and the network stack end (this
is `JobEnds` and `EveryStartAnswered` in their own models).  `NetJob`: the queued call is
delivered, the loop runs on, every running action answers.  `CachedDownload`: a request
is answered or fails, and its signals are delivered.  `AccountUse`: the
timers of the list expire and refreshes end (their requests have timeouts).  `GameLaunch`:
the event loop runs, the Java checker, the lookup, the network and the scan answer, and a
process that is killed or told to stop ends; nobody need answer a box, and a game need not
end.  `InstanceList`: timers expire and tasks of stagings end.  `PackUpdate`: a request is
answered or fails.  `ModFolder`: threads run to their end, and signals are delivered.  No
fairness is assumed of the user, of other programs, of the server's changes or of aborts.

`LaunchSettles` exempts one wait, `Stuck`: a launch whose account left the list while Java
was matched waits forever (`ClaimAccount.cpp:18`).  `LaunchSettles` and `AbortIsFinal` exempt
the lookup of the server, see section 5.`SuccessMeansInstalled` is
about updates whose `mod.json` told the truth and whose requests were answered in full.

`EveryStaleRefreshed` holds with at most one login at Microsoft, which is what the run
has: `MSAStep.cpp:58` assigns fresh data and empties `internalId`, so two such accounts
share an id and `tryNext()` only ever finds the first.  `CountCovers` is an inequality
because an account that is replaced while it is active is disconnected first and never
counted down.

`NetJob::addNetAction` also accepts an action that already runs, but puts it into no set
(`NetJob.cpp:220`), so a job would not wait for it; no caller in the repository adds one, and
`NetJob` has no such action.

What the run sets to FALSE or leaves out is where the code does not keep a property:
`PatchesMayStick` and `EditsDuringUpdate` in `pack_resolver`, `WritesMayFail` in `pack_edits`,
a failing "rest" in `download_pair`, `Twins` and `Hasty` in `mod_folder`.  Section 5 says
what happens there.

## 4. Proofs

Eight modules prove what holds for every value of the constants their assumptions allow.
Each main theorem rests on an inductive invariant `IInv`, which TLC checked before the
proof; what it adds to the property is what the argument is about.

`NetJob_proofs`, for every number of parts, set of abortable parts and set of concurrency
values allowed by `NetJobAssumption`:

| Theorem | States |
|---|---|
| `TypeCorrect` | `[]TypeOK` |
| `PartsInOnePlace` | `[]OnePlaceEach`: no part is lost, doubled or in two sets |
| `FourStartsAtMost` | `[]StartsBounded` |
| `LimitKept` | `[]ConcurrencyRespected` |
| `OverMeansQuiet` | `[]QuietWhenOver` |
| `SuccessIsComplete` | `SuccessMeansDone` |
| `PromiseKept` | `KeepsPromise`: `NetJob` implements `Job` |

`IInv == TypeOK /\ OnePlaceEach /\ StartsCounted /\ QuietWhenOver /\
ConcurrencyRespected`.  `StartsBounded` alone is not inductive: nothing in it says why a part
that waits has been started less than four times.  `StartsCounted` does, by tying starts
to failures: a part that waits was started as often as it failed, one that runs once
more, and an ended one at most `MaxFailures + 1` times.  `OnePlaceEach` is needed to know
that the head of the queue is not already running, and `QuietWhenOver` that a part is only
started, and a verdict only reached, while the job runs.  The lemmas about the queue
(`Enqueue`, `Dequeue`) say what appending and taking does to the set of waiting parts;
then there is one lemma for each handler.

`PackProfile_proofs`, for any finite set of components, meta data, files in the folder, number
of edits and of crashes (`ComponentsAssumption`, `PackProfileAssumption`):

| Theorem | States | Provided |
|---|---|---|
| `Invariance` | `[]IInv` | |
| `ListAndIndex` | `[]IndexMatchesList`, the types included | |
| `CustomIsBacked` | `[]CustomMatchesPatch` | |
| `UnreadableIsSafe` | `UnloadedListNotSaved` | |
| `ChoicesAreKept` | `UpdateKeepsUserChoices` | |
| `InjectionPrecedes` | `InjectedBeforeDependees` | |
| `CrashLosesNothing` | `[]NothingLostWhenClean` | `~WritesMayFail` |
| `SuccessIsResolved` | `SuccessMeansResolved` | `~EditsDuringUpdate` |
| `AnswersArrive` | `[]AnswersFindTheirRow` | `~EditsDuringUpdate`, no list is loaded offline |

Each proviso excludes a defect of section 5.

The first part is about data.  `AscendingProperties` says that a finite set of numbers has
one ascending sequence (`AscendingExists`, by the least counterexample; `AscendingUnique`),
`SelectProperties` and `InsertAtProperties` where the rows of a list go that is filtered or
inserted into, and a lemma for each operation of `Components` which fields it changes.
`LoadAgain` says that a list which is saved and read is the list, as far as the reader
restores it.  `AddDependenciesEnlarges` is the lemma about the loop that injects: after any
number of turns (`Iterates`) there is an embedding of the old rows into the new list that
keeps their order, every row outside of it is a new component, and each such row is before
all its dependees; `ChangesTurn` adds the change of versions.  `InjectionPrecedes` and
`ChoicesAreKept` are read off that embedding.

`IInv == ListInv /\ MetaInv /\ TaskInv /\ RestInv`.  `ListInv` is about the rows, the index and
the patches; `MetaInv` says that what is in memory or in the cache has been published, and
that what the task awaits is being downloaded; `RestInv` that only a list that was read is
loaded and only a loaded one has a save pending, because `scheduleSave()` refuses any other
and nothing unloads a list without dropping what it has to save.

`AnswerInv` is what the last two theorems add: a loaded row has its file, an own one or its
meta version's in memory, and a row with a meta version has no patch (`RowsSound`); an open
slot names the index or the row that waits for that entity (`AwaitingInv`); and as long as no
answer was a failure, a row has the requirements of its file or an open slot (`CurrentInv`),
so that all have them once the task resolves.  It holds because a list that nobody edits
keeps its rows in their places until the last answer (`RowsStay`).  `OnlineInv` adds that a
task never ends while a download is connected to it: loading fails only where something is
neither in memory nor requested, which does not happen online.

`CachedDownload_proofs`, for any number of downloads, versions and redirects:

| Theorem | States |
|---|---|
| `TypeCorrect` | `[]TypeOK` |
| `TrustJustified` | `[]TrustedFileIsWhole`, if `"rest"` is not in `WriteFaults` |
| `SuccessJustified` | `SuccessMeansWhole`, under the same assumption |
| `SuccessIsNew` | `SuccessIsCurrent`, under the same assumption, for a single download |

The assumption is the defect of section 5.  `IInv` adds to the types, and to what status a
running download may have, four facts about where contents come from: what a reply has
brought and has yet to bring is a whole file as long as no write failed (`RepliesFit`); a
checksum is that of a whole file (`ChecksumsWhole`); a time stamp that is the file's says
that the file is whole (`StampsWhole`); and whoever holds an entry that is not stale or has
an ETag, or asked the server whether the file changed, has a whole file (`HoldersWhole`).
The last makes a 304 answer to one download safe after the other replaced the file.  That
an entry object is always free for `addEntry()` is the pigeonhole lemma `EntryLeft`.

The last theorem needs to know not only that the file is whole but which version it is.
`Fresh` says that an entry with an ETag tells it: the checksum is that of this version, and
so is the file if it has the stamp (`EntriesTell`) or a download holds the entry
(`HoldersHave`); and that a running request asks for the version of its entry, and is
answered with one not older than the request (`RepliesFresh`).  With two downloads the last
is false: the other may replace file and entry while the first waits (section 5).

`AccountUse_proofs`, for all accounts, lists without doubled profiles, launches and outcomes
(`AccountUseAssumption`):

| Theorem | States |
|---|---|
| `ChainNeverStalls` | `[]ChainAlive`: a timer of the list runs, or a task does whose end starts one |
| `ListStaysConsistent` | `[]ListConsistent`: the default account is in the list, no profile is doubled |
| `NoVainWait` | `[]WaitsForLiveTask`: a launch that waits for an account waits for a task that runs |
| `CountIsEnough` | `[]CountCovers`: the list counts at least the tasks of its accounts that run |
| `TypesHold` | `[]TypeOK`; so no release takes a use count below zero |
| `UseCountIsExact` | `[]UsesFit`: the use count of an account is the number of games that play with it |

For the first, `IInv == ChainTypes /\ ChainAlive` is inductive: whatever ends a task the
list is connected to starts a timer, and a task it is not connected to is not the one
`ChainAlive` rests on (`EventStep`); `TryNextStep` says that `tryNext()` leaves the chain
alive even if its timer has just been used up; all else leaves the chain alone
(`AsideStep`).  For the second, `ListInv` adds only that the list is a list; the work is in
what removing a row (`DropKeepsConsistent`) and adding a login (`LogInKeepsConsistent`) do to
positions.  Without doubled profiles `findAccountByProfileId()` finds the row that must be
replaced, so the invariant is what makes `addAccount()` keep it.  The next two need
`TaskInv`: an account is only "Working" while its task runs, a launch in a progress dialog
has an active account, and an object that a login makes is new, so it has no task yet.
The types do not follow from the types alone: that `m_useCount` stays a natural number no
larger than the number of launches needs `UsesFit`, which says what it counts, and that
`fillQueue()` yields a queue of ids is an induction over the rows of the list
(`FilledToRows`, `FilledIsQueue`).  `TypeInv` is these together with `TaskInv`.

`GameLaunch_proofs`, for any set of instances, number of launches and way to stop them:

| Theorem | States |
|---|---|
| `TypeCorrect` | `[]TypeOK` |
| `GamePrepared` | `[]GameHasFiles` |
| `LeavesNothing` | `[]NothingLeftBehind` |
| `AbortFinal` | `[]AbortIsFinal` |

`IInv == TypeOK /\ Busy /\ HeldRight`.  What a launch holds is a function of the step it has
come to (`HeldRight`): beyond `ModJar` there is a fresh jar if the instance has jar mods, and
so on; short of it there is none unless there is someone to blame.  A step that succeeds
supplies what is held from then on; a step that ends the launch gives all of it back,
because the steps that supply it lie between the first and the current.  So a step lands
in one of two ways, `SucceedLands` and `FailLands` say that every step that ends does, and
`LandedKeeps` that landing is enough; `Busy` keeps processes and subtasks inside the step
that owns them.

`AbortFinal` needs `StopInv == Stops /\ Aborts /\ Boxes`.  A launch that its controller gave
up, or whose abort was accepted at a process, is `Doomed`: it is being killed or was told to
stop (`Stops`, `Aborts`).  Where `abort()` does nothing because the launch "counts as aborted"
already, that is so for one of these reasons.  What is left are the boxes: an abort that
came in a box is seen by the code that opened the box only after it was answered, possibly
under others.  `Boxes` says what can lie on what: a profiler's box only where the game runs
or is over, the dialog of the update only on top while there is an update, and a question
about killing or aborting only at the bottom.

`InstanceList_proofs`, for any number of stagings, ids, groups, changes by other programs
and restarts:

| Theorem | States |
|---|---|
| `TypeCorrect` | `[]TypeOK` |
| `ListShowsFolder` | `[]ListMatchesDisk` |
| `NothingOverwrittenUnasked` | `OverwrittenOnlyWhenAsked` |
| `UndisturbedIsRight` | `UndisturbedHitsTarget` |
| `CommitIsInList` | `CommitShowsResult` |

`IInv` adds two facts.  `ListHasOwn`: what the watcher has not reported yet was put there by
another program, so that a reload finds in the index the group of every other instance.
`FlagsFit`: while the flags of an update are set there is a staging that was asked for that
update and is under way or failed, and a staging that has the launcher to itself has the
flags that belong to it.  `OnlyCommits` says that nothing but a commit brings anything into
the folder, at the target of an update or at an id that is free; that there is one, and a
smallest, is `SmallestId`, from the library's theorem on well-founded orders.

`PackUpdate_proofs`, for any pack, answers and locked files:

| Theorem | States |
|---|---|
| `TypeCorrect` | `[]TypeOK` |
| `NothingLost` | `[]NothingLostUntilFetched` |
| `FailureRestores` | `[]FailedUpdateRestores` |
| `SuccessInstalls` | `SuccessMeansInstalled` |

`Restorable` says where the mods of before the update are while it waits for the server: in
the mods folder, or partly in a backup whose place is known, which is what a rollback
needs.  `Installing` says that the folder lacks what was planned to go and that what the
manifest wants is in the folder or on its way, until the commit.

`ModFolder_proofs`, for any mods, dates, changes and visits, any folder, also with mods that are
there both enabled and disabled, and a user who switches any mod at any time:

| Theorem | States |
|---|---|
| `Invariance` | `[]IInv` |
| `ListAndIndex` | `[]IndexFits`, which contains the types, until the index is muddled |
| `ListShowsFolder` | `[]ShowsFolder`, if no mod was switched while its details were read or to the id of another row |

`RowsBrought` says what the three loops of `finishUpdate()` make of the rows: one for each
file that was read, the old one if it has the date of the file and a new one otherwise.  For
the second loop this needs the index to be right, since it takes out as many rows as the
index has ids for a position (`CutsProperties`); that the index is right afterwards is what
keeps the third.  `TicketsFit` pairs rows that still wait for details with the tickets that
count: an answer then goes to the row it was read for, and what is dropped with a row that
goes or is replaced is its ticket and no other's.  `Synced` is the chain behind the list at
rest: as long as the watcher has nothing to report, what was read is the folder or is read
again, and what is shown is the folder.  `DetailsFit` speaks only of files that still have
the date of their row, because a thread reads whatever file has the name by then.

Every invariant and every action property that the passing runs check is stated by one of
these theorems.  Only model-checked is liveness (`UpdateTerminates`, `JobEnds`,
`EveryStartAnswered`, `EveryStaleRefreshed`, `LaunchSettles`, `EveryStagingEnds`,
`UpdateEnds`, `ComesToRest`), which this prover does not handle.  The `TypeOK` of `NetJob`,
`CachedDownload`, `GameLaunch`, `InstanceList` and `PackUpdate` are proved and therefore no
run's property.  No module declares a `RECURSIVE` operator.

## 5. What the checks found

* **`account_in_use`.** Only `fillQueue()` asks whether an account should be refreshed
  (`AccountList.cpp:738`).  One that waits in the queue while a launch refreshes and claims it is
  refreshed again when its turn comes (`:784`), during the game, against the comment at
  `MinecraftAccount.cpp:210`.

Also met; each is a constant that the runs leave at the value where the code keeps its
promises, or a behaviour that a property exempts by name.

*Component list.*  A failed save clears the dirty flag (`PackProfile.cpp:269`), so the edits are
dropped at the next reload: with `WritesMayFail = TRUE`, `NothingLostWhenClean` fails.
`PackProfile::resolve()` replaces a running update task (`PackProfile.cpp:355`), although a
comment says of one that "It is in control" (`:326`), and the answer for the first then
reaches a destroyed object: with `EditsDuringUpdate = TRUE`, `AnswersFindTheirRow` fails.  The
same comes of a task that fails to load: it ends (`ComponentUpdateTask.cpp:271`) with the
downloads it has just connected still running.  That takes a list that is reloaded offline,
lacks one version file, and has another in flight because its row was drawn: with both
`Netmodes` and `MaxEdits = 2`, `AnswersFindTheirRow` fails, while the one edit of `pack_resolver`
does not come that far.  Dependencies are injected before what required them when the
requirements were gathered; a component whose version is changed in the same turn can come
to require one that went in behind it, against the comment at `ComponentUpdateTask.cpp:510`
(with three edits), and `InjectedBeforeDependees` is stated without such requirements.  A
removal the list refuses makes the resolver's loop endless (`ComponentUpdateTask.cpp:539`):
with `PatchesMayStick = TRUE`, `UpdateTerminates` fails.  `cachedVolatile` is written but
`volatile` is read (`PackProfile.cpp:96`, `:117`).  The comment at `ComponentUpdateTask.cpp:508`
calls a non-matching exact version a hard error, while the resolver sets the version
(`:622`).

*Downloads.*  The status of the last write of a download is overwritten
(`Download.cpp:431`): when it fails, an empty file is committed and success reported; with
`"rest"` in `WriteFaults`, `SuccessMeansWhole` fails.  A 304 that is handled after another
download replaced the file gives the new file the old ETag (`FileSink.cpp:96`).  A `NetJob`
restarted after a failure fails again, since `m_failed` and `m_aborted` are never reset
(`NetJob.cpp:134`).  The fingerprint lookup restarts a request inside its own error
handler, before the old reply reports `finished()`: two of the four tries are real
(`ModFingerprintLookupTask.cpp:67`).

*Launch.*  A launch waits forever when its account is removed while Java is matched
(`ClaimAccount.cpp:18`; `Stuck`).  Aborting the lookup of the server lets the step succeed and
the launch go on (`LookupServerAddress.cpp:40`, `:54`).

*Instances.*  A failed update leaves its flags, so the next import, of whatever pack,
overwrites the instance (`InstanceList.cpp:903`); `OverwrittenOnlyWhenAsked` speaks of updates
that did not succeed for that reason.  After the longest wait a commit that is still
blocked is given up and what was staged stays in `_LAUNCHER_TEMP`, against
`InstanceList.h:136`.  The first instance created in an empty list loses its group if there
is a file of groups: it is read after the group was entered (`InstanceList.cpp:983`).

*Packs.*  The `mod.json` that an import writes has no file names (`InstanceImportTask.cpp:540`)
until the scan has run.  An update before that moves the whole mods folder into
`.update_backup`, and a failure does not bring it back (`FileResolvingTask.cpp:159`, `:166`,
`:357`; `stash`).  Answers that lack files are not noticed, and the update succeeds without
them.  After a failed lookup `mod.json` is empty, and the next update leaves the old
versions beside the new.  Mods that the user added are recorded by the scan and removed by
the next update.

*Mods folder.*  A mod can be switched while its details are read (`ModFolderModel.cpp:584`
does not ask).  The answer then comes under the old id (`:318`): `mod_folder_hasty` shows an
answer under way for an id that no row has, against the comment "preserve the row, but change
its ID" (`:612`).  If the id is no row's when the answer is handled, it goes to the first row
and into the index; if another file has come there, its row gets the answer, and the mod that
was switched never has details.  Of a mod that is there both enabled and disabled, one can be
switched to the id of the other's row when the other file is gone (`:629`), whose row is then
found no longer.  After either `IndexFits` or `ShowsFolder` says nothing.
The list, the download page and the scan each keep `mod.json` in memory and
overwrite each other's.

## 6. Plan

Done: `PackProfile`, `NetJob`, `CachedDownload`, `AccountUse`, `GameLaunch`, `InstanceList`,
`PackUpdate`, `ModFolder`, and proofs about each.

Next, in this order:

1. `LogBuffer`: the ring of `LogModel` refining the sequence of its newest lines; proof.
2. `LookupRequest`: an action restarted from inside its error handler, under `NetJob`.
3. `WorldList` and `RecursiveFileSystemWatcher`: as `ModFolder`, without threads.
4. `LauncherUpdate`: the list of file operations of the updater, done and undone.

The bounds of new runs follow the ones above: two or three actors, one crash, every
operation at least twice.

### Not modelled

The map covers what decides about order, failure and shared state.  Most of the remaining
lines have no behaviour of that kind.  Half of the implementation is bundled libraries
(hoedown, tomlc99, xz and others) and windows and dialogs; much of the other half is tables,
and parsers and writers of version files, packs and settings, which the repository tests
by example.  The authentication steps, the other pack platforms and the web services are
chains of requests, each with one outcome, without state that others share; modules
`AccountUse` and `PackUpdate` take their outcomes as inputs.  Two hazards in
`PROJECT.json` have no property: a task that writes to an account nobody keeps alive, which
the code does not exclude (`AccountUse` has it as a step that may end the program), and
the fingerprint lookup, step 2 of the plan.
