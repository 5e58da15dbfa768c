# Bettertricks in TLA+

Bettertricks installs Windows components ("recipes") into Wine prefixes. This
directory holds TLA+ models of the parts of it whose correctness depends on order,
interleaving or failure, the instances of them that TLC checks, and proofs that the
most important properties hold for every instance. Paths below are relative to the
repository's root (`core` stands for `crates/bettertricks-core/src`).

1. [Inventory](#inventory): the system's components
2. [Modules](#modules): which module models what, and how it corresponds to the code
3. [Runs](#runs): what TLC checks, the bounds, the fairness
4. [Proofs](#proofs)
5. [Findings](#findings)
6. [Not modelled](#not-modelled) and [Plan](#plan)

## Inventory

### Operation engine (`core/operation.rs`)
- *State*, per process: `cancellations` (a flag per operation), `prompts` (a one-shot
  sender per open question), `prefix_locks` and `cache_locks` (created on demand).
  Shared by all processes: the database rows and the files of the prefixes.
- *Operations*: `start` (desktop) and `run` (command line) take a reviewed plan;
  `run_plan` waits for the prefix's lock, checks inputs, preflight, tools, then
  initialises the prefix or takes a restore point, then executes one recipe after the
  other; `cancel`, `respond`.
- *Interactions*: reads recipes from the catalog, writes `OperationRecord`s to the
  store, calls `RecoveryManager::create`, emits events to the frontend.
- *Hard*: tasks interleave at every `.await`; the user cancels and answers at any
  time; child processes hang; any database write can fail; the process can die; a
  second process (the command line, a second window) has locks of its own.
- *Correct if*: one operation at a time changes a prefix; a failing recipe costs its
  dependants and nobody else; `winetricks.log` never names a recipe before what it
  needs; a cancelled operation ends; a question can always be answered; history,
  events and prefix agree in the end.

### Recovery manager (`core/recovery.rs`)
- *State*: payloads in the backup directory (a reflinked tree or an archive), hidden
  `.partial` and `.restore` staging paths, the `restore_points` rows, one recovery
  lock per process (`Store::lock_recovery`).
- *Operations*: `create`, `restore`, `clear`.
- *Hard*: payload and row are two writes; removing a tree is many; `clear` decides by
  the record of an operation that runs meanwhile; prefixes come and go.
- *Correct if*: a point an operation may still need is kept whole; a restore never
  replaces a prefix, and publishes all of the snapshot; nothing is left behind.

### Store (`core/store.rs`)
SQLite tables `operations`, `restore_points`, `catalog_versions`, `prefixes`,
`settings` behind one connection. Every method is one statement or one transaction.
Other components' modules contain their tables as variables. *Correct if* what is
read back is what was last written; what matters is the order in which others write.

### Catalog (`core/catalog.rs`) and planner (`core/planner.rs`)
- *State*: the recipes in memory, behind a read-write lock that is taken for one `get`.
- *Operations*: `load`/`reload` parse and validate a directory; `get`, `search`;
  `Planner::plan` resolves a request into an ordered list of recipes and describes
  their steps; `import_manual_file` puts a user's file into the download cache.
- *Hard*: recursion over a graph that a file supplies; the catalog may be replaced
  between two `get`s of one plan, and between planning and execution.
- *Correct if*: exactly the usable catalogs are accepted; a plan lists what is needed,
  once, dependencies first; planning from an accepted catalog does not fail.

### Step execution (`core/operation.rs`)
- *State*: what is in the prefix: files, the two views of the registry, links out of it,
  Wine Mono, `winetricks.log`.
- *Operations*: `execute_step` and `native_action`, a handler for each kind of step.
- *Hard*: a handler makes several changes, each of which can fail or be killed; nothing
  is undone, and the user attempts the recipe again; two recipes install one file, or set
  one registry value.
- *Correct if*: a recipe that the log names has had its effects and keeps those that no
  other recipe sets anew, and what a cut off attempt leaves stops no later one.

### Download cache (`core/operation.rs`, `catalog.rs`, desktop backend)
- *State*: files in the cache directory, `.part` files, one lock per file and process.
- *Operations*: download from several sources, import of a user's file, clear.
- *Hard*: two operations want one file; the cache is cleared below a download; a
  checksum does not match; a cached file was pinned by another catalog; another process
  has locks of its own.
- *Correct if*: only verified content is ever used, a process fetches a file once, no
  partial file is left without a reason.

### Catalog updater (`core/catalog_update.rs`)
- *State*: version directories, the `catalog_versions` rows with one active, the
  catalog in memory.
- *Operations*: check for a release, install it, roll back, the choice at startup.
- *Hard*: three places hold the version and are written one after the other, by two
  programs; a package replaces the shipped catalog below the row that names it.
- *Correct if*: memory and database agree when nobody is at work, wherever a process
  ended the next one finds a whole catalog, and older ones stay available.

### Prefix discovery (`core/prefix.rs`)
- *State*: the snapshot in memory and the rows of registered places; everything else is
  on the disk and in the files of Steam, Lutris, Bottles and Heroic.
- *Operations*: `discover`, `by_id`, `register_manual`, `unregister_manual`; around them
  the backend's commands that create, register, forget and trash a prefix, or plan for it.
- *Hard*: commands run at once and lock nothing; creating takes minutes between a look at
  the place and the rename; launchers change the disk; a provider may fail.
- *Correct if*: nothing that is there is replaced, plans tell the truth, and the snapshot
  agrees with the disk in the end.

### Legacy verb host (`core/legacy.rs`)
- *State*: one published script, the staging files of calls that install it.
- *Operations*: install it (verified, renamed into place), choose a binary for a
  catalog's baseline, run a recipe with it and collect its output.
- *Hard*: it is replaced while others choose or run it; a descendant of the child keeps
  its pipes open; full pipes and a full channel hold writers up; cancellation.
- *Correct if*: a recipe is run by the version its catalog names, its output is accounted
  for, and the run ends when the child does or the user cancels.

### Desktop backend (`apps/desktop/src-tauri/src/lib.rs`)
The commands of the frontend. `start_operation` plans again from discovery before it
calls `start`; `clear_operation_history`, `clear_restore_points`, `restore_prefix`,
`trash_prefix`, `clear_cache` act on what the engine and the recovery manager use,
without a prefix lock. No lock keeps a second window from being opened.

### Desktop frontend (`apps/desktop/src`)
- *State*: the records it has read, the events it has heard, the operation in the drawer,
  the calls on their way.
- *Operations*: start an operation, hear an event, refresh, answer a prompt, close the
  drawer, clear the activity, reload.
- *Hard*: the terminal event precedes the record it announces, or never comes; answers
  arrive in any order; events that nobody hears are not sent again; no dialog stays in the
  way of anything while its call is under way; other processes write the records too.
- *Correct if*: once all is quiet the window shows what is recorded, and the drawer has
  every event of its operation, but for the listed ways to miss something.

### Command line tool (`crates/bettertricks-cli`)
Plans and runs operations with `run`, in a process of its own; it answers no prompts,
asks for no restore point and refuses conflicting plans itself.

### System inspection, catalog tool, scripts
`core/system.rs` and `core/paths.rs` read the environment; the catalog tool and
`scripts/generate-catalog.mjs` run at build time.

## Modules

| Module | Models | Lines of the code |
| --- | --- | --- |
| `OperationEngine` | the engine, with the user, failing writes and dying processes | `operation.rs` 49-1205 and helpers, `store.rs` 216-242, 302-311, 374-395 |
| `OperationLifecycle` | what an observer may rely on; the abstract specification of the engine | the diagram in `docs/architecture.md`, `OperationState` |
| `RestorePoints` | what operations and the recovery manager owe each other; the abstract specification of both | `store.rs` 84-94, 374-395, `recovery.rs` 30-124, 218-252 |
| `Recovery` | `create`, `restore`, `clear`, one statement that others can come between per action | `recovery.rs` 30-370 |
| `RecipePlanner` | validating a catalog and planning: the same recursion twice | `catalog.rs` 36-61, 349-438, `planner.rs` 33-262, `src-tauri/src/lib.rs` 711-735 |
| `CatalogUpdate` | version directories, rows, memory and start of several processes | `catalog.rs` 349-360, `catalog_update.rs` 25-31, 145-426, `store.rs` 405-465, `src-tauri/src/lib.rs` 627-744 |
| `StepExecution` | what the steps of native recipes change, in their order, cut off anywhere and attempted again | `operation.rs` 400-446, 593-685, 984-1006, 1475-2364, `domain.rs` 797-830 |
| `DownloadCache` | downloads, imports, their locks, clearing of the cache | `operation.rs` 593-620, 840-912, 1888-1900, `catalog.rs` 191-294, `src-tauri/src/lib.rs` 398-412 |
| `LegacyHost` | installing the managed host, choosing a binary twice, running it | `legacy.rs` 20-395 |
| `LegacyRun` | one run of it: pipes, reader tasks, the bounded channel, the polling loop | `operation.rs` 477-562, 1208-1258 |
| `PrefixDiscovery` | discoveries and the commands that add, remove and plan for prefixes | `prefix.rs` 33-637, `src-tauri/src/lib.rs` 137-352, 555-592, `store.rs` 160-189 |
| `ActivityFeed` | events, records and calls as the window sees them | `app.tsx` 56-495, `dialogs.tsx` 163-478, `activity-view.tsx` 48-58, `operation.rs` 74-114, 247-287, `store.rs` 302-311 |
| `OperationEngineProofs`, `RecipePlannerProofs`, `DownloadCacheProofs`, `LegacyProofs`, `StepExecutionProofs`, `RecoveryProofs`, `CatalogUpdateProofs`, `DesktopProofs` | theorems and proofs | |
| `MCOperationEngine`, `MCRecovery`, `MCRecipePlanner`, `MCCatalogUpdate`, `MCExecution`, `MCDesktop` | constants of the instances TLC checks; the last two compose modules | |

How they fit together: `OperationEngine` assumes of plans what `RecipePlanner` shows
(`PlanAssumption` is `DependenciesFirst` there), and sees of the recovery manager two
atomic actions (`CreateSnapshot`, `ClearSnapshots`); `Recovery` is what is behind
these two, and sees of the engine the one fact `clear` asks for, whether the record of
a point's operation is terminal. `RestorePoints` is the interface: `kept`, the points that are
listed and whole, and the `phase` of the operations that own them. The engine implements it
with `points` and what its records say, `Recovery` with the rows whose payload is whole and
`operation`; so what either takes for granted of the other is what the other does.
`OperationEngine` implements `OperationLifecycle` under the refinement mapping that keeps
`record` and `shown` and maps `closed` to the operations whose task is through. What the
engine calls a step is refined by four modules that share no state with each other:
`StepExecution` (its effects on the prefix), `DownloadCache` (its files), `LegacyHost` and
`LegacyRun` (recipes that are Winetricks'). `MCExecution` extends the four and lets one of
them move in every behaviour, which is sound because no action of one reads what another
writes. `ActivityFeed` takes from the engine the order in which it emits events and writes
records (`RecordsTellTheTruth` says what that order is), and `PrefixDiscovery` is where a
plan's idea of its prefix comes from; `MCDesktop` extends both in the same way.

### OperationEngine
A task is `pc[o]`; its values are the stretches of `run_plan` between two `.await`s or
two writes others can see:

| `pc` | in `operation.rs` |
| --- | --- |
| `idle`, `spawned`, `queued` | before `start`/`run` (74-114); before and at `prefix_lock.lock().await` (164) |
| `admitted`, `preflight` | `plan_recipe_map`, `validate_plan_inputs` (166-180); conflicts, hosts, tools (189-245) |
| `initialize`, `snapshot`, `begin` | `initialize_prefix` (247), `RecoveryManager::create` (253-264), the Running record (266-280) |
| `recipe`, `step`, `working` | the loops of `run_plan` (283-360) and `execute_recipe` (400-445), a step under way |
| `prompting`, `awaiting` | `prompt` before (921-956) and at (968) `receiver.await` |
| `closing`, `returned` | between the terminal event and its record (`finish_error`, `finish_cancelled`), before the guard is dropped |
| `done`, `dead`, `refused` | over; its process died; `start` returned the database's error |

`record` is the `operations` table, `shown` the last event, `cancellable`, `flag` and
`prompts` the maps of the engine, `answer` what a one-shot receiver holds, `holder` and
`waiters` the fair `tokio::sync::Mutex` of every prefix and process, `points` the
`restore_points` rows that belong to operations, `installed` `winetricks.log`.
`sawPrefix` keeps what the plan said of the prefix (`plan.prefix.exists`), which was
read when the plan was made.

Every write to the database may fail (`PersistFails`, at most `MaxDbErrors` times),
with the consequence it has at that place: `start` refuses, `run_plan` returns by `?`
without a terminal event (`Abandon`), inside `execute_recipe` the operation fails, in
`finish_*` the record stays as it was. A process may die at any moment (`Crash`, at
most `MaxCrashes` times).

The effect of a step is abstracted to its kind: `process` (a child or a download,
killed when the flag is set), `file` (runs to its end), `prompt`, `verify` (carried out
without looking at the flag and without a record). Preflight's verdict is left open.
A step that only concerns 64-bit prefixes is one step with the steps inside it.

### Recovery
A job is one call of `create`, `restore` or `clear`. `payload`, `partial` and `staging` say
what is on disk, as `whole` or `torn` content; a tree is torn from the first file
`remove_dir_all` takes until the last one is gone, an archive goes at once. `cp` reads what
is there: when the tree changed while it was copied, what it staged may be torn. A staging
path of an earlier call may be there: a tree may not let itself be removed, or may still be
written by another process, as the name is the point's and the lock the process's. A restore
of a tree then goes on into what is there, one of an archive fails. Faults are failing
removals and database writes. `MoveAside` and `Appear` are other actors' changes of
prefixes.

### RecipePlanner
The frames of the recursion are a stack, one action for each statement that looks at a
recipe. `catalog` is a function from recipes to the recipes they name; validation
starts from all recipes in any order, because the code iterates over a hash map.
`Reload` replaces the catalog in the middle of a request by another one that was
validated. `Required` and `Sound` say set-theoretically what the walk computes. Behind the walk
`Assemble` looks at the values of inputs: one given to an input that no required recipe has
is an error, and so is one, given or from the environment, that is too long or of more than
one line (`Unsupported`). Which recipes have an input (`Asking`) is alike in all catalogs of
an instance.

### CatalogUpdate
`content` is what is at each place, the directory of a version or that of the shipped
catalog; `path` and `active` are the rows, and `older` is the order of their `installed_at`,
as pairs of versions; `memory` is a process's catalog, with the version it is called by and
the version its recipes are of. A start is three actions (`Start`: the active row is read;
`LoadCatalog`: it or the shipped catalog is loaded; `RecordStart`: it is made the active
row). A task is one update or rollback: `offered` (checked, being downloaded), `staged`
(unpacked), `placed` (in its directory), `reloaded` (in memory, not in the table); an update
of a version that has a directory (`Reuse`) and a rollback (`PickPrevious`) join at
`placed`. Reading a manifest and loading the recipes below it is one step. A catalog loads
only under the version its recipes are of (`LoadsAs`: each names the tag it is loaded with);
a start takes the version from the manifest of the place, a rollback from the row. A staging
directory that cannot be removed stays (`undeleted`). Two activations never have the same
`installed_at`. `overtaken` is no variable of the code: it collects the processes that
another process's write to the table, another task between memory and table, or a failed
write of their own has left behind, so that `AgreesUnlessOvertaken` can say what holds for
all others.

### StepExecution
`begun` counts the steps of the attempt that have begun. When one begins it is expanded into
the changes that its handler makes, a sequence `todo` of small changes (`import`, `need`,
`write`, `replace`, `move`, `unlink`, ...), each an action; isolating HOME takes one link after
another in any order. A group of steps for 64-bit prefixes is its steps, each of which asks
(`only64`): what a prefix is does not change between two steps of an attempt. `Interrupt`
ends the attempt in front of any change or in its middle, as a failure, a kill or a crash
does. Expanding reads the state as the handler does: `Invocations` takes
the architecture the plan assumed, `Is64Bit` asks the disk as well, `RemoveMono` does
nothing without an entry in the uninstaller's list. A file is `absent`, `half` or `whole`.
`registry` says what each value is in each view; an import sets some values and deletes
others, in the views its architecture has, and an interrupted one does a part of that. A font
is registered by a value under its own name. `win64` is a prefix without the 32-bit half,
which has no 32-bit `regedit` either: an import for that view fails.
Four history variables say what the code has no answer to and the properties leave out:
`torn` (files whose replacement was cut off), `overwritten` (values of an installed recipe
that another one has set or deleted since), `blind` (recipes installed by a plan that did not
know the prefix's architecture) and `monoCut` (a removal of Mono that was cut off).
A recipe that sets values anew takes back what `winetricks.log` says of another: settings like
`graphics=x11` and `graphics=mac` do so on purpose, and the log keeps both names.
A value that both views share counts as one in each, and what removing Mono deletes of .NET's
keys is left out, as no native recipe has a value there.

`StepAssumption` says of the recipes what the two properties rest on and the shipped ones do:
no recipe sets one value to different data in two steps;
a step uses a file only behind a step that left it, which is meant for the prefix if the using
one is, and with nothing between them that takes it away; no step of any recipe takes away a
font or what a step of another copies or moves into place. In the shipped catalog every
`install_fonts` reads a directory that the recipe has downloaded to or extracted before, and
every verification names a font or a file that the recipe has made; no shipped recipe has a
`copy`, `move`, `remove` or 64-bit group yet, which `RecipeStep` offers. A recipe that names
one font file twice installs the first, as `install_fonts` skips the others; `fonts` is the
list without them. Five recipes of the instance have the shapes of shipped ones: two that
install the same font, Mono, a sandbox that deletes a value, and a setting that sets this
value anew and deletes the one of the sixth. That is a library, which has the file actions and
the 64-bit group that a recipe may have and no shipped one has yet.

### DownloadCache
A job is a download step with the later step that uses its file, or an import. `at[j]` is
where it stands: `queued` at `cache_lock.lock().await` (855), `looking` and `checking` at a
cached file (862), `asking`, `fetching`, `verifying`, `renaming` in `download_url`,
`have` between the download and the step that uses it, which does not look at the checksum
again; `preparing`, `opening`, `copying`, `importing` in `import_manual_file`. `cached`,
`part` and `dir` are the disk, `publisher` (who put a file there) and `disturbed` (jobs
below which a clearing took something) are history. A clearing takes one entry at a time
out of the directories it listed. A process that ends takes its jobs and locks with it.

### LegacyHost and LegacyRun
`LegacyHost` has a file at the managed host's place, the system's Winetricks, one staging
file per installation, and runs that choose a binary at preflight and again when they
execute; `ReplaceBinary` is anybody else. `LegacyRun` has two pipes of bounded size,
a reader task for each, the bounded channel, and `loop`, the operation's place in
`run_legacy_recipe`: it empties the channel, looks at the flag, polls the child, waits,
and, once the child has ended, collects what is left until the readers are through or its
time is up. A descendant of the child may hold the pipes for ever.

### PrefixDiscovery
A command is one call of the backend; `stage` is where it stands between two statements
that others can see, with what its discovery has found so far (`found`), what it saw when
it inspected (`saw`) and the staging directory of a creation, which a creation that gives
up may fail to remove (`left`). `disk` holds what is at each
place, `rows` the registered places, `known` the snapshot. Launchers, the user and failing
providers are actions of their own. `overtaken` and `unread` remember that a snapshot
replaced a later one, or that the discovery behind a change was never made.

### ActivityFeed
`wire` carries events in their order, `ask` the calls on their way with what they have
read; a call reads the table at one moment and is answered at another. `earlier` relates
two calls that have read, in the order they did, and `late` has those that read before one
whose answer is there. The window's dialogs can all be left while the call they made is under way,
so none keeps the user from anything. Operations of a command line or of a second window
(`RunElsewhere`, `ClearElsewhere`) change records and are never heard of; one of this process
may be refused (`RefuseStart`), or be left by `?` without a terminal event (`Abandon`).

Four history variables mark what the window may miss, and `ViewIsTruthful` leaves out exactly
these. When nothing is under way that would tell it, the window has every record as it is
- unless an answer came behind a later one (`outdated`),
- except for the operations in `unseen`: their record changed, or their task ended, when no
  reading was due (it was written behind the reading that its event caused, by another process,
  or by an operation that was abandoned), or the last reading failed, which marks all.

The drawer has every event of its operation, unless one was emitted before the listener was
there, or dropped by the answer of `start_operation` or of a clearing that was asked for
before the operation had the drawer (`lost`). An operation that waits for the user has the
drawer, unless its start has no answer yet or it lost the drawer to another operation or a
reload (`orphaned`).

## Runs

Each property of a passing run is also checked to be sensitive: `PROJECT.json` names,
for every one, a faulty variant of a definition (kept in the modules next to the
definition, used by no specification) under which TLC finds the property violated.

| Run | Instance | Shows |
| --- | --- | --- |
| `engine_safety` | the desktop application and the command line on one prefix; a chain of three dependent recipes with every kind of step beside a plan that shares its base; one failed write, one crash | `FailureIsolation`, `DependenciesInstalled`, `RestorePointKept`, `AwaitingIsAnswerable`, `RecordsTellTheTruth`, `UnfinishedNeedsFault`, refinement of `OperationLifecycle` and of `RestorePoints` |
| `engine_liveness` | two operations of one process with shorter scripts, on a prefix that is not there at first; fairness, one failed write, one crash | `OneMutatorPerPrefix`, `EveryOperationEnds`, `CancelStops` |
| `engine_cross_process`, `engine_lost_cancel`, `engine_stale_plan` | as above | violations, see Findings |
| `recovery` | two concurrent jobs on a tree that an operation owns and an archive, of one prefix, in one process and in two; one fault, one crash, fairness | `NeededPointsAreWhole`, `UndisturbedRestoresAreWhole`, `NothingStray`, `NeverReplaced`, refinement of `RestorePoints`, `EveryJobEnds` |
| `recovery_torn` | two jobs of one process, one crash | a violation, see Findings |
| `catalog_update` | the desktop program with two tasks, each an update or a rollback, and the command line starting beside it; one release, two packages, one of them with the version of the release; one exit, one damaged directory, one failed write, one staging directory that cannot be removed | `TypeOK`, `StorageIsSound`, `StartsFindCatalog`, `NoStrayStaging`, `AgreesUnlessOvertaken` |
| `catalog_package` | the desktop program alone, no damage, no failed write | a violation, see Findings |
| `planner` | all catalogs of three recipes with up to two references each, one of them possibly missing, and the empty one; all requests of at most two recipes, and some with values, usable or not, given to an input that is required or to none or set by the environment; one reload | `AcceptsExactlySound`, `NeverPanics`, `DependenciesFirst`, `PlanIsExact`, `LoadedCatalogsResolve`, `WalksEnd` |
| `execution` | two downloads of one file with different pins in one process and an import of it in another, one clearing, one exit; a run with two lines on each stream, one of them blank; two runs and one installation of the host with one change by others; three attempts of six recipes; fairness | `ExecutionTypeOK`, `OnlyPinnedIsUsed`, `NeverFetchedTwice`, `PartialsAreAccountedFor`, `OutputIsAccountedFor`, `BaselineRuns`, `InstalledMeansApplied`, `LeftoversDoNoHarm`, `EverythingEnds` |
| `desktop` | two commands of every kind on a place that two providers name, with one change by others; a window with two operations, here or in another process, and a prompt, two calls on their way, one reload, clearing or refresh, by the user or elsewhere | `NothingReplaced`, `CallsKeepTheirWord`, `ViewIsTruthful` |

*Bounds.* Two operations of one prefix are enough for every race the engine has: the prefix
lock, a prompt's sender and a record each have at most two parties, and a third operation
would wait in the same queue. The chain of three recipes has a dependant of a dependant,
which is where "direct and indirect" differ, and `lone` is independent. One failed write and
one crash reach every error path and every state a restart finds; two of a kind only repeat
them, since nothing is retried. For recovery two jobs are the two parties of its lock, and
the two points differ in everything `clear` and `restore` tell apart. For catalogs three
versions are an active one, the one before it and one that is neither, which is all a
rollback distinguishes, and two tasks meet at every step of an update; they are
interchangeable, hence the symmetry. Commands, operations and calls of `desktop` are
interchangeable too, and it checks no liveness. For the planner three recipes have all
shapes of cycles, shared dependencies and missing references that a step of the recursion
can meet. For the cache three jobs are what it takes: two that share a lock and want
different contents, and one that shares neither the process nor the way a file gets there. A
pipe and a channel of one line are full at once, which is when the order of the loop
matters, and two lines follow one another; `LiveLines` is one, so that a second line is an
omitted one. Three attempts are a recipe that is cut off, another one that shares its font,
file or value, and the retry. One staging directory that cannot be removed is enough, as no
step looks at it again. The value of one input stands for any: what `Assemble` looks at is
where it belongs and whether it is usable. Two commands, and two operations with two calls,
are every pair that can meet. Where the bounds of a run could matter, the proofs below do
without.

*Fairness.* `FairTasks` assumes that the runtime polls a task that can go on (weak
fairness of `Proceed`: tokio's scheduler and its fair mutex, whose queue is modelled),
that steps on files and verifications end, and that `wineboot` ends. It does *not*
assume that a child process ends or that the user answers: `CancelStops` holds without,
and `EveryOperationEnds` takes both as its premise `Cooperation`. In `Recovery`, `cp`,
`tar` and deletions end (`WF` of `Proceed`), and the recovery lock, a fair mutex, is
granted to a job that finds it free again and again (`SF` of `Begin`). The planner's
recursion is a plain function call. `CacheFairness` assumes that a task is polled again
and that a source which neither sends nor fails runs into the client's timeout or the size
limit; nobody has to clear or to end. `RunFairness` is about the operation's loop and its
two readers only: the child may neither write nor end and its descendant may hold the
pipes, which is why `RunEnds` starts from a child that ended or a cancellation.

*Deadlock* is checked in the engine's, the recovery manager's and the planner's runs;
operations that are all over stutter explicitly (`AllOver`). It is not checked where the
system may rest: programs with nothing to update or to roll back to (`CatalogUpdate`), a
window or a backend without a call under way (`desktop`), jobs and attempts that are all
made, and a child that neither writes nor ends (`execution`); there `EverythingEnds` says
what must not stop.

## Proofs

`OperationEngineProofs`, `RecipePlannerProofs`, `DownloadCacheProofs`, `LegacyProofs`,
`StepExecutionProofs`, `RecoveryProofs`, `CatalogUpdateProofs` and `DesktopProofs` prove the
following for any sets of operations, processes, prefixes, recipes, files, jobs, versions,
commands, calls and installations, any scripts, steps, plans, catalogs, pins, providers and any
number of faults, from the named assumptions on the constants
(`EngineAssumption`, `PlanAssumption`, `PlannerAssumption`, `CacheAssumption`,
`HostAssumption`, `RunAssumption`, `StepAssumption`, `RecoveryAssumption`, `CatalogAssumption`,
`DiscoveryAssumption`, `FeedAssumption`), which type the constants and keep the values apart
that stand for nothing; `PlanAssumption` says what the planner's theorem proves, and
`StepAssumption` what recipes do (see StepExecution above). Each proof
shows that an invariant holds initially and is kept by every action; the lemma about the step
has one case per action.

| Theorem | Property | Inductive invariant |
| --- | --- | --- |
| `OperationEngineProofs!TypeCorrect` | `TypeOK` | `TypeInv`: typing alone is not inductive. A task inside a recipe has an index inside its plan, and one that is `closing` has announced a conclusion, which is what it records |
| `MutualExclusion` | `OneMutatorPerPrefix` | `LockInv`: a task that is in `run_plan` with the guard *is* the holder of its lock; two holders of one lock are then one |
| `SnapshotOutlivesOperation` | `RestorePointKept` | `GuardInv`: from `preflight` on the record is one that protects the point, and the point is there once it was made; a task that initialises its prefix had not seen one |
| `PromptsAreAnswerable` | `AwaitingIsAnswerable` | itself |
| `FailuresAreIsolated` | `FailureIsolation` | `IsolationInv`: exactly the recipes before the task's place have an outcome, an ok one depends on ok ones only, the recipe being carried out on no unsuccessful one, and every unsuccessful one is doomed. Once the plan is gone through, the unsuccessful ones are closed under "depends on a member" and therefore are all the doomed ones |
| `DependenciesComeFirst` | `DependenciesInstalled` | itself with `IsolationInv`, which also says that what a task counts as ok is in its prefix's log; by `PlanAssumption` everything a recipe depends on was before it in the plan. The log only grows, so no lock is used in the argument: it holds across processes and crashes |
| `HistoryIsTrue` | `RecordsTellTheTruth` | `RecordInv`, with `TypeInv` and `IsolationInv`. `Fits`: where a task stands decides what its last event and its record can be. `Succeeded`: a success is announced when the plan is gone through and nothing in it was unsuccessful, and then, by `IsolationInv`, all of it is in the log |
| `EveryEndIsRecorded` | `UnfinishedNeedsFault` | `RecordInv`, its part `Concluded`: without a failed write and without a dead process no task is refused or dead, and one that ended has announced and recorded a conclusion, unless the history was cleared |
| `EngineImplementsLifecycle` | `ImplementsLifecycle` | `RecordInv`: by `Fits`, each action's change of record, event and task is a step of `OperationLifecycle` or changes none of them. The lemmas `Abstract...` have one case per abstract action, `LifecycleStep` one per action of the engine |
| `EngineImplementsRestorePoints` | `ImplementsRestorePoints` | `RecordInv` and `PointInv`: an operation with a point has shown something. Points change in two actions only (`PointsChange`), which show and record nothing; all other steps are steps of `OperationLifecycle` by `LifecycleStep`, and each of its actions takes the phase of one operation further or of none (`PhaseStep`) |
| `RecipePlannerProofs!TypeCorrect` | `TypeOK` | `Shape`: the calls in progress are the recipes in `visiting`, each once, and none is finished |
| `PlansAreOrdered` | `DependenciesFirst` | `Calls`: what a call has read is finished, still on its list, or the call above it; `Closing`: what is finished depends on finished recipes; `Listed`: the list is what is finished. It discharges the engine's `PlanAssumption` |
| `ValidationIsExact`, `ValidationNeverPanics` | `AcceptsExactlySound`, `NeverPanics` | `Fresh`: the walk saw what the catalog holds; `Rooted`: nothing it started from is lost; `WellFounded`: no set of finished recipes depends on itself. The calls above a recipe that is found in `visiting` form the cycle |
| `PlansAreExact` | `PlanIsExact` | the same and `Minimal`: only what is required is called |
| `PlanningSucceeds` | `LoadedCatalogsResolve` | the same, and that the catalog is a sound one: as long as it stays, planning fails *exactly* for an empty request, an unknown recipe, a value of no required input, or one that no step may use. A cycle is no reason |
| `DownloadCacheProofs!CacheTypeCorrect` | `CacheTypeOK` (part of `ExecutionTypeOK`) | `TypeInv`: a job that fetches has a source left, and what is about to be renamed is whole or gone |
| `PinsAreKept` | `OnlyPinnedIsUsed` | `PinInv`: what is published is what a job that has begun pins for that path; a job that is sure of a file nobody published has seen its own pin. The checksum is not looked at again when the file is used, so the argument has to follow the file and not the job |
| `FetchedOnce` | `NeverFetchedTwice` | `FetchInv`: two jobs with one lock do not both hold it, and while one fetches, only an import of the other may have been published. Needs `PinInv`: a path without a file has no publisher |
| `PartialsAccounted` | `PartialsAreAccountedFor` | `PartialInv`: at every place of a job, a file or directory that it knows of and that is not there was taken by a clearing |
| `LegacyProofs!BaselinesAreKept` | `BaselineRuns` | `HostInv`: a staging file that is runnable is the managed version and exists only inside its call; a run that is not unsettled would still choose what its preflight saw. Installing replaces the host at once and only by a better one, so no order of calls disturbs a choice |
| `LegacyProofs!RunTypeCorrect` | `RunTypeOK` (part of `ExecutionTypeOK`) | `RunInv`: how far the child, the loop, the readers and the channel can be at once (`Conduct`), and that a reader never is ahead of its stream (`Reading`) |
| `OutputIsKept` | `OutputIsAccountedFor` | `RunInvariant`. `Ordered`: what is recorded, in the channel and in a reader's hand are the lines of a stream in their order; `NothingMissing`: a line that was sent is in one of the first two, blank lines aside, as long as the run does not give up; `Counted`: shown and suppressed lines add up to the recorded ones, whose end is the tail. The sizes of pipes and channel do not occur in the argument |
| `StepExecutionProofs!StepTypeCorrect` | `StepTypeOK` (part of `ExecutionTypeOK`) | `ShapeInv`: what is left of a step has the form its handler gave it (`Form`), what takes a file away is what the current step says (`Fitting`), and an attempt knows its prefix or initialises it first (`Architecture`) |
| `InstalledWasApplied` | `InstalledMeansApplied` | `StepInv`. The property says nothing of an attempt under way, so `Promised` does: each step begun has its promise kept (`Honoured`), or what is left of the current step will write, import, unlink or isolate what it lacks. When the last step has nothing left, the promise is kept and becomes that of an installed recipe; later steps only unlink, write over files or are marked in `torn`, and set a value of it anew only if they are marked in `overwritten`; by `StepAssumption` none takes a file away, and no step of the recipe itself sets its values to something else. `Shimmed`: shims outlive Mono only while their removal is left, or by a removal that was cut off |
| `LeftoversAreHarmless` | `LeftoversDoNoHarm` | `StepInv`. `Backed`: fonts are registered behind their files, as the imports of a step come after all its writes (`Form`). `SourcesWhole`: what the rest of the step reads is whole; it follows when the step begins from `Supplied`: what earlier steps have left is there, or coming, or was taken away by a step in between, which `StepAssumption` excludes for what is used. An attempt relies on nothing that an earlier attempt has left |
| `ExecutionTypeCorrect` | `ExecutionTypeOK` | the type invariants of the four parts. `PartsAreTheirOwn`: a behaviour of the composition is one of each part, as its actions leave the variables of the others alone |
| `RecoveryProofs!TypeCorrect` | `TypeOK` | `TypeInv`: what a job has in its hands follows from where it stands, and a job is inside exactly while it holds its process's lock |
| `NeededPointsAreKept` | `NeededPointsAreWhole` | `KeptInv` and `CreationInv`: what is taken apart or forgotten is not needed, and stays so, as a record never becomes unfinished again; a point that is being created belongs to one job. The lock of a process is not enough, since another process has its own |
| `NothingIsStray` | `NothingStray` | `TidyInv`: while nothing failed, each difference between row, payload and staging is the doing of one job that stands where it makes that difference |
| `UndisturbedRestores` | `UndisturbedRestoresAreWhole` | `RestoreInv`: in one process, what is staged is whole until it is published |
| `RecoveryImplementsRestorePoints` | `ImplementsRestorePoints` | `CreationInv`, `KeptInv` and `AskedInv`: an operation does not end before its point is created. It says more than `NeededPointsAreWhole`, which a row that is lost does not violate. Copying, failing and staging change nothing that is listed and whole; the row makes the point appear at once; taking a tree apart or forgetting a row makes one disappear that nobody needs (`VisibleClear`) |
| `RestoresNeverReplace` | `NeverReplaced` | `TypeInv`; an action property; `Publish` is the one action that puts a tree at a place, and it looks before |
| `CatalogUpdateProofs!TypeCorrect` | `TypeOK` | `TypeInv`: the rows stay totally ordered when one is recorded (`ActivateOrders`) |
| `StagingIsRemoved` | `NoStrayStaging` | `WorkInv`: a staging directory belongs to a task that is at work in a process that is up, or could not be removed |
| `StartsSucceed` | `StartsFindCatalog` | `TypeInv`: the shipped catalog loads |
| `StorageStaysSound` | `StorageIsSound` | `SoundInv`: what a start loaded or a task is about to record loads under its version, as nothing is renamed over a directory that is there. A row of the shipped catalog is left out once a package has put another there: that place still loads, but not as the row's version |
| `MemoryAgreesWithTable` | `AgreesUnlessOvertaken` | `AgreedInv`: a task between memory and table is alone in its process, unless that counts as overtaken. It is the recipes in memory that are of the active version, not only their label: a load under another tag is refused, whatever packages do |
| `DesktopProofs!CreationsReplaceNothing` | `NothingReplaced` | `ShapeInv`: which command a call is follows from where it stands |
| `CallsAreTrue` | `CallsKeepTheirWord` | `TruthInv`: what a call saw was so since it began. `SnapshotInv`: a discovery under way, and the one that was published last, found what is so now (`Fresh`), or a command that changed it has its own discovery still to make (`Owing`), is making it, or was marked (`unread`, `overtaken`) |
| `WindowIsTruthful` | `ViewIsTruthful` | `WindowInv`, `DrawerInv`: what is on its way was emitted, once, and the drawer lacks only that. `Watched`: a difference between records and window is due (it will be announced, or will be read), or coming (the call that read last has the records as they are now and no later one was answered), or marked. An answer hands this on to the call that read after it |
| `DesktopTypeCorrect` | `DesktopTypeOK` | `ShapeInv` and `WindowInv`, in the composition of the run |

Several models were changed so that they could be reasoned about, with the same states for
TLC: the order of the rows of `CatalogUpdate` and of the readings of `ActivityFeed` are
relations, where they were sequences. In `StepExecution` the steps of a group ask for
themselves whether the prefix is a 64-bit one, where a recursive operator opened the group.

The type invariants of the engine, the planner, the recovery manager and the desktop are
proved and therefore no property of a run. Every safety property of a run that passes is
proved. Only model-checked: liveness (`EveryOperationEnds`, `CancelStops`, `EveryJobEnds`,
`WalksEnd`, `EverythingEnds`), which is out of the proof system's reach like everything
with ENABLED.

## Findings

Each is a run that TLC ends with a counterexample.

- `engine_cross_process`. `docs/architecture.md` says only one operation can mutate a
  prefix at a time. The lock is in one engine's memory; the desktop application and the
  command line can change one prefix at once.
- `engine_lost_cancel`. A cancellation that arrives after the check in front of a
  prompt step and before `prompt` has registered its sender is lost: the operation
  waits for the user, who has already cancelled it.
- `engine_stale_plan`. Whether a prefix exists is read when the plan is made. A plan of
  a new prefix that waited behind another operation on it takes no restore point before
  it changes what the first one installed.
- `recovery_torn`. `clear` takes a tree apart in place before it removes the row. If it
  dies or fails in between, the row stays listed and a later `restore` publishes the
  rest of the tree as the prefix.
- `catalog_package`. `docs/architecture.md` says that older catalogs remain available for
  rollback. The row of a shipped catalog holds the path of the shipped directory. After a
  package update the recipes there have another tag; a rollback still picks the row, as the
  path is a directory and the version is the newest inactive one, and is refused by the tag
  check of `Catalog::load`. So is every later one, although an older catalog that loads is
  recorded behind that row.

Found while modelling, and left out of the properties by a named exception or of the
model altogether:

*Engine.* A database error in `start` leaves its entry in `cancellations`. Records of
operations whose process died are never concluded, so their restore points stay protected
for good. A cancellation is not noticed while an operation waits for a lock, and `wineboot`
that is cancelled counts as a failure (`operation.rs` 1822-1827). `child.output().await` in
native actions, `cp` and `require_baseline` do not look at it either. Killing the direct
child leaves its descendants changing the prefix after the lock is released. Legacy verbs
run without the prefix lock, with a restore point that nothing protects.

*Steps.* A plan of a prefix that does not exist yet has architecture Unknown, so registry
values go to one view only although `initialize_prefix` makes a 64-bit prefix (2213-2216;
`blind`). `remove_mono` that is cut off between uninstalling and cleaning up finds no entry
when it is retried, and leaves the shims (1529-1532; `monoCut`). `install_fonts` removes the
font it replaces before it copies (1977-1991): a cut off repeat leaves a font registered and
logged that is not there (`torn`). The containment check of a removal names `paths.cache`
where others name `winetricks_cache` (677). A `winetricks.log` without a last newline
swallows the next name.

*Legacy host.* Preflight asks for the baseline of the first metadata-only recipe only
(211-221). `binary_for_baseline` falls back to the unchecked system binary if the managed file
vanishes behind the preflight (`unsettled`). The check of the flag waits while output keeps
arriving.

*Recovery.* Payloads that a crash left without a row are never removed. Two processes that
restore one point share one staging directory, and one may publish the half copy of the other
(`recovery.rs` 155-203). `RestoresAreWhole` fails by it without any fault in an instance with
two processes and one archive (the second begins between the first one's extraction and its
rename); `UndisturbedRestoresAreWhole` says that one process alone does not do this.

*Catalogs.* An update and a rollback at once can leave memory and table on different versions
until the next start. A release that was checked before another one was installed still
installs, and so lowers the version. A version directory that does not load is never unpacked
again, so its release cannot be installed any more. A rollback activates the newest version
that is not active, so two of them return to where they started (`catalog_update.rs` 207).

*Prefixes.* The path of a place that does not exist is not canonical, so its id and the key of
its lock change once it exists below a symbolic link (`docs/architecture.md` 31-32). The command
line makes the id of a new prefix from another namespace. Registering a launcher's prefix
replaces its source and drops its warnings (`docs/architecture.md` 37). `trash_prefix` takes no
prefix lock and ignores a failing unregistration (`lib.rs` 581). A creation whose registration
fails behind the rename returns without a discovery (`unread`). Of discoveries at once the
older may be published last (`overtaken`).

*Window.* The answer of `start_operation` drops the events that came before it, so an early
failure or question is not shown (`app.tsx` 456-462), and the answer of a clearing drops
those of an operation that got the drawer meanwhile, as the review dialog can be cancelled
while its call goes on (`dialogs.tsx` 224-278; `lost`). Only the active operation's question
can be answered: a second operation or a reload hides a waiting one (`orphaned`). Answers
out of order leave older records (`outdated`), the terminal event precedes its record, an
operation that `run_plan` leaves by `?` has none, and nothing tells the window what a
command line or a second window records (`unseen`). The refresh joins prefixes and history,
so a discovery that fails drops the records too. `handlePrefixComplete` takes the last
prefix of a list that is sorted by source and name for the newest.

## Not modelled

- `run()` and `run_custom_verb` of the legacy host: one external process that gets a whole
  command line; nothing of it is the program's.
- What Wine, Winetricks and archive tools do inside a child: a step that runs one ends,
  fails or is killed, and `StepExecution` has the changes that the program itself makes.
- How the providers read the files of other launchers, beyond whether they name a place; the
  checks of a catalog that depend on neither its graph nor its tags (conflicts, shared cache
  paths); parsing, formatting, searching, display.
- `system.rs`, `paths.rs`, the catalog tool and the scripts: no state, no concurrency.
- Three details of writes: `finish_error` logs before it concludes, which emits one more
  `Running` event in front of `Failed` (`operation.rs` 1153); it changes nothing that an
  observer is promised, as the operation still is running then. Removals whose error the code
  ignores are taken to succeed where nothing else uses the name: the partial file of a download,
  which only the next source of the same operation overwrites (`operation.rs` 907, 912), and the
  staging file of the managed host, whose name is new in every call (`legacy.rs` 359). What the programs that recipes start write in the registry is theirs.
- Canonical paths are taken for granted; the findings on them above are from reading.

## Plan

Done: `OperationEngine`, the proofs of its invariants and of its refinement of
`OperationLifecycle`; `RecipePlanner` with the proof of the engine's assumption on plans;
`Recovery`, `CatalogUpdate`, `DownloadCache`, `LegacyHost`, `LegacyRun`, `PrefixDiscovery`,
`ActivityFeed` and `StepExecution`, with proofs of every safety property that a run checks.
Left, in this order:

1. A composition of the engine with `CatalogUpdate`, for plans executed from another
   catalog than they were made of.
2. An abstract specification of the prefix list, which `PrefixDiscovery` implements where
   discoveries do not overtake each other.
