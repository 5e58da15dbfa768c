--------------------------- MODULE OperationEngine ---------------------------
(***************************************************************************)
(* The operation engine of bettertricks-core (operation.rs): what happens  *)
(* to a reviewed plan between start()/run() and the end of its task.       *)
(*                                                                         *)
(* An operation is a task.  It waits for its prefix's lock, passes         *)
(* preflight, initialises the prefix or takes a restore point, executes    *)
(* its recipes one step at a time and records how it ended.  Around it run *)
(* the user (cancel, respond, clear the history or the restore points),    *)
(* other operations, failing database writes and processes that die.       *)
(*                                                                         *)
(* The desktop application and the command line tool are processes of      *)
(* their own: locks, cancellation flags and prompts live in one process,   *)
(* the database and the prefixes on disk are shared by all of them.        *)
(*                                                                         *)
(* Actions named LockIgnored, LeaveLocked, ClearAllHistory and the like    *)
(* are faulty variants of the definition they precede.  No specification   *)
(* uses them: they show that the properties below notice such a fault.     *)
(***************************************************************************)
EXTENDS Naturals, Sequences, FiniteSets

CONSTANTS
  Operations,     \* plans that may be handed to an engine
  Prefixes,
  Recipes,
  Processes,      \* instances of the program with an engine of their own
  Desktop,        \* the processes that use start(), cancel() and respond()
  ProcessOf,      \* the process an operation is handed to
  PrefixOf,       \* plan.prefix
  Plan,           \* plan.resolved_recipes
  DependsOn,      \* recipe_dependency_ids
  Script,         \* the kinds of a recipe's steps, in order
  WantsSnapshot,  \* plans with options.create_restore_point
  Initialized,    \* prefixes that exist at first
  MaxDbErrors,    \* bound on database writes that fail
  MaxCrashes,     \* bound on processes that die
  NoOperation     \* the owner of a free lock

StepKinds ==      \* how a step reacts to the cancellation flag:
  { "process",    \*   a child process or a download, killed when it is set
    "file",       \*   a change of files that runs to its end
    "prompt",     \*   a question to the user
    "verify" }    \*   a verification step, run without looking at the flag

Terminal    == {"succeeded", "failed", "cancelled"}
RecordState == {"planned", "preflight", "running", "waiting_for_user"} \cup Terminal
Outcome     == {"pending", "ok", "failed", "skipped"}
Locks       == Processes \X Prefixes

Holding ==        \* a task at one of these owns its prefix's lock
  { "admitted", "preflight", "initialize", "snapshot", "begin", "recipe", "step",
    "working", "prompting", "awaiting", "closing", "returned" }
Phase == {"idle", "spawned", "queued", "done", "dead", "refused"} \cup Holding

ASSUME EngineAssumption ==
  /\ NoOperation \notin Operations
  /\ Desktop \subseteq Processes
  /\ ProcessOf \in [Operations -> Processes]
  /\ PrefixOf \in [Operations -> Prefixes]
  /\ Plan \in [Operations -> Seq(Recipes)]
  /\ DependsOn \in [Recipes -> SUBSET Recipes]
  /\ Script \in [Recipes -> Seq(StepKinds)]
  /\ WantsSnapshot \subseteq Operations
  /\ Initialized \subseteq Prefixes
  /\ MaxDbErrors \in Nat
  /\ MaxCrashes \in Nat

\* What Planner::resolve promises of a plan: dependencies first, nothing twice.
ASSUME PlanAssumption ==
  \A o \in Operations :
    /\ \A i, j \in DOMAIN Plan[o] : Plan[o][i] = Plan[o][j] => i = j
    /\ \A i \in DOMAIN Plan[o] :
         DependsOn[Plan[o][i]] \subseteq {Plan[o][j] : j \in 1..(i - 1)}

VARIABLES
  pc,           \* where each operation's task stands
  at,           \* index in the plan of the recipe it is at
  step,         \* index in that recipe's script of its next step
  outcome,      \* what became of each recipe, per operation
  sawPrefix,    \* operations whose plan was made of a prefix that existed
  shown,        \* state of the last event emitted
  cancellable,  \* operations in the engine's cancellations map
  flag,         \* operations whose cancellation flag is set
  prompts,      \* operations with a sender in the prompts map
  answer,       \* what the receiving end of a prompt holds
  holder,       \* owner of each prefix lock of each process
  waiters,      \* tasks queued on each lock, first come first served
  record,       \* operations table: the persisted state
  points,       \* restore_points table: operations with a restore point
  exists,       \* prefixes that exist on disk
  installed,    \* winetricks.log of each prefix
  dbErrors, crashes

task  == <<pc, at, step, outcome, sawPrefix>>
talk  == <<cancellable, flag, prompts, answer>>
locks == <<holder, waiters>>
disk  == <<exists, installed>>
vars  == <<task, shown, talk, locks, record, points, disk, dbErrors, crashes>>

LockOf(o) == <<ProcessOf[o], PrefixOf[o]>>
Current(o) == Plan[o][at[o]]
Kind(o) == Script[Current(o)][step[o]]
Planned(o) == {Plan[o][i] : i \in DOMAIN Plan[o]}

Init ==
  /\ pc = [o \in Operations |-> "idle"]
  /\ at = [o \in Operations |-> 1]
  /\ step = [o \in Operations |-> 1]
  /\ outcome = [o \in Operations |-> [r \in Recipes |-> "pending"]]
  /\ sawPrefix = {}
  /\ shown = [o \in Operations |-> "none"]
  /\ cancellable = {}
  /\ flag = {}
  /\ prompts = {}
  /\ answer = [o \in Operations |-> "none"]
  /\ holder = [l \in Locks |-> NoOperation]
  /\ waiters = [l \in Locks |-> <<>>]
  /\ record = [o \in Operations |-> "absent"]
  /\ points = {}
  /\ exists = Initialized
  /\ installed = [p \in Prefixes |-> {}]
  /\ dbErrors = 0
  /\ crashes = 0

-----------------------------------------------------------------------------
(* Statements that several actions share.                                  *)

Goto(o, phase) == pc' = [pc EXCEPT ![o] = phase]

Emit(o, state) == shown' = [shown EXCEPT ![o] = state]

\* update_record: one upsert into the operations table.
Persist(o, state) ==
  /\ record' = [record EXCEPT ![o] = state]
  /\ UNCHANGED dbErrors

\* The same upsert, failing: nothing is written.
PersistFails ==
  /\ dbErrors < MaxDbErrors
  /\ dbErrors' = dbErrors + 1
  /\ UNCHANGED record

\* finish_error and finish_cancelled up to their update_record: the terminal
\* event goes out before the record is written.
Finish(o, state) ==
  /\ Goto(o, "closing")
  /\ Emit(o, state)

\* A `?` on update_record in run_plan itself: the task ends there, with no
\* terminal event and the record as it was.
Abandon(o) ==
  /\ PersistFails
  /\ Goto(o, "returned")
  /\ UNCHANGED <<at, step, outcome, sawPrefix, shown>>

-----------------------------------------------------------------------------
(* Being handed a plan.                                                    *)

\* start(): the flag is registered, the record written and the task spawned.
\* The plan was made from what discovery saw of the prefix.
Start(o) ==
  /\ pc[o] = "idle" /\ ProcessOf[o] \in Desktop
  /\ cancellable' = cancellable \cup {o}
  /\ sawPrefix' = IF PrefixOf[o] \in exists THEN sawPrefix \cup {o} ELSE sawPrefix
  /\ \/ /\ Persist(o, "planned")
        /\ Goto(o, "spawned")
     \/ /\ PersistFails                      \* the entry of the map stays behind
        /\ Goto(o, "refused")
  /\ UNCHANGED <<at, step, outcome, shown, flag, prompts, answer, locks, points,
                 disk, crashes>>

\* run(), the command line's entry: no record before preflight.
Run(o) ==
  /\ pc[o] = "idle" /\ ProcessOf[o] \notin Desktop
  /\ cancellable' = cancellable \cup {o}
  /\ sawPrefix' = IF PrefixOf[o] \in exists THEN sawPrefix \cup {o} ELSE sawPrefix
  /\ Goto(o, "spawned")
  /\ UNCHANGED <<at, step, outcome, shown, flag, prompts, answer, locks, record,
                 points, disk, dbErrors, crashes>>

\* prefix_lock.lock().await: the task joins the lock's queue ...
RequestLock(o) ==
  /\ pc[o] = "spawned"
  /\ waiters' = [waiters EXCEPT ![LockOf(o)] = Append(@, o)]
  /\ Goto(o, "queued")
  /\ UNCHANGED <<at, step, outcome, sawPrefix, shown, talk, holder, record, points,
                 disk, dbErrors, crashes>>

LockIgnored(l) == TRUE
LockFree(l) == holder[l] = NoOperation

\* ... and gets it when it is first and the lock is free.  The flag is not
\* looked at before or after.
AcquireLock(o) ==
  LET l == LockOf(o) IN
  /\ pc[o] = "queued"
  /\ LockFree(l)
  /\ waiters[l] # <<>> /\ Head(waiters[l]) = o
  /\ holder' = [holder EXCEPT ![l] = o]
  /\ waiters' = [waiters EXCEPT ![l] = Tail(@)]
  /\ Goto(o, "admitted")
  /\ UNCHANGED <<at, step, outcome, sawPrefix, shown, talk, record, points, disk,
                 dbErrors, crashes>>

-----------------------------------------------------------------------------
(* Before the first recipe.                                                *)

\* The catalog no longer has a recipe of the plan, or an input is not what its
\* recipe asks for: no Preflight record is ever written.
RejectPlan(o) ==
  /\ pc[o] = "admitted"
  /\ Finish(o, "failed")
  /\ UNCHANGED <<at, step, outcome, sawPrefix, talk, locks, record, points, disk,
                 dbErrors, crashes>>

BeginPreflightUnrecorded(o) ==
  /\ pc[o] = "admitted"
  /\ Emit(o, "preflight")
  /\ Goto(o, "preflight")
  /\ UNCHANGED <<at, step, outcome, sawPrefix, talk, locks, record, points, disk,
                 dbErrors, crashes>>

BeginPreflight(o) ==
  /\ pc[o] = "admitted"
  /\ \/ /\ Persist(o, "preflight")
        /\ Emit(o, "preflight")
        /\ Goto(o, "preflight")
        /\ UNCHANGED <<at, step, outcome, sawPrefix>>
     \/ Abandon(o)
  /\ UNCHANGED <<talk, locks, points, disk, crashes>>

\* Conflicts without force, a recipe broken upstream, a compatibility host of
\* another baseline, a tool that is not installed: which plans are refused is
\* left open.
RefusePreflight(o) ==
  /\ pc[o] = "preflight"
  /\ Finish(o, "failed")
  /\ UNCHANGED <<at, step, outcome, sawPrefix, talk, locks, record, points, disk,
                 dbErrors, crashes>>

\* What comes next is decided by the plan's picture of the prefix.
PassPreflight(o) ==
  /\ pc[o] = "preflight"
  /\ Goto(o, CASE o \notin sawPrefix -> "initialize"
               [] o \in sawPrefix /\ o \in WantsSnapshot -> "snapshot"
               [] OTHER -> "begin")
  /\ UNCHANGED <<at, step, outcome, sawPrefix, shown, talk, locks, record, points,
                 disk, dbErrors, crashes>>

\* initialize_prefix: wineboot runs to its end whatever the flag says, and a
\* flag set meanwhile makes a failure of it.
InitializePrefix(o) ==
  /\ pc[o] = "initialize"
  /\ \/ /\ o \notin flag
        /\ exists' = exists \cup {PrefixOf[o]}
        /\ Goto(o, "begin")
        /\ UNCHANGED shown
     \/ /\ exists' \in {exists, exists \cup {PrefixOf[o]}}
        /\ Finish(o, "failed")
  /\ UNCHANGED <<at, step, outcome, sawPrefix, talk, locks, record, points,
                 installed, dbErrors, crashes>>

\* RecoveryManager::create for this operation.
CreateSnapshot(o) ==
  /\ pc[o] = "snapshot"
  /\ \/ /\ points' = points \cup {o}
        /\ Goto(o, "begin")
        /\ Emit(o, "preflight")
     \/ /\ Finish(o, "failed")
        /\ UNCHANGED points
  /\ UNCHANGED <<at, step, outcome, sawPrefix, talk, locks, record, disk, dbErrors,
                 crashes>>

BeginRunning(o) ==
  /\ pc[o] = "begin"
  /\ \/ /\ Persist(o, "running")
        /\ Emit(o, "running")
        /\ Goto(o, "recipe")
        /\ UNCHANGED <<at, step, outcome, sawPrefix>>
     \/ Abandon(o)
  /\ UNCHANGED <<talk, locks, points, disk, crashes>>

-----------------------------------------------------------------------------
(* The recipes of the plan.                                                *)

FailedOnly(o) == {r \in Recipes : outcome[o][r] = "failed"}
Unsuccessful(o) == {r \in Recipes : outcome[o][r] \in {"failed", "skipped"}}

\* The current recipe ends unsuccessfully and the loop goes on: the failure is
\* logged, emitted and pushed before the record that shows it is written.
GiveUpRecipe(o, how) ==
  /\ outcome' = [outcome EXCEPT ![o][Current(o)] = how]
  /\ at' = [at EXCEPT ![o] = @ + 1]
  /\ step' = [step EXCEPT ![o] = 1]
  /\ Emit(o, "running")
  /\ \/ /\ Persist(o, "running")
        /\ Goto(o, "recipe")
     \/ /\ PersistFails
        /\ Goto(o, "returned")
  /\ UNCHANGED sawPrefix

SkipRecipe(o) ==
  /\ pc[o] = "recipe" /\ at[o] <= Len(Plan[o])
  /\ DependsOn[Current(o)] \cap Unsuccessful(o) # {}
  /\ GiveUpRecipe(o, "skipped")
  /\ UNCHANGED <<talk, locks, points, disk, crashes>>

EnterRecipe(o) ==
  /\ pc[o] = "recipe" /\ at[o] <= Len(Plan[o])
  /\ DependsOn[Current(o)] \cap Unsuccessful(o) = {}
  /\ Goto(o, "step")
  /\ UNCHANGED <<at, step, outcome, sawPrefix, shown, talk, locks, record, points,
                 disk, dbErrors, crashes>>

FinishPlanAsSuccess(o) ==
  /\ pc[o] = "recipe" /\ at[o] > Len(Plan[o])
  /\ Finish(o, "succeeded")
  /\ UNCHANGED <<at, step, outcome, sawPrefix, talk, locks, record, points, disk,
                 dbErrors, crashes>>

\* After the last recipe.  Cancellation is not looked at any more.
FinishPlan(o) ==
  /\ pc[o] = "recipe" /\ at[o] > Len(Plan[o])
  /\ Finish(o, IF Unsuccessful(o) = {} THEN "succeeded" ELSE "failed")
  /\ UNCHANGED <<at, step, outcome, sawPrefix, talk, locks, record, points, disk,
                 dbErrors, crashes>>

MoreSteps(o) == step[o] <= Len(Script[Current(o)])

\* The check of the flag in front of every step but the verifying ones.
StopBeforeStep(o) ==
  /\ pc[o] = "step" /\ MoreSteps(o) /\ Kind(o) # "verify"
  /\ o \in flag
  /\ Finish(o, "cancelled")
  /\ UNCHANGED <<at, step, outcome, sawPrefix, talk, locks, record, points, disk,
                 dbErrors, crashes>>

\* The step is announced and recorded.  A failing write is a database error of
\* execute_recipe, which is fatal: the operation fails.
StartStep(o) ==
  /\ pc[o] = "step" /\ MoreSteps(o) /\ Kind(o) # "verify"
  /\ o \notin flag
  /\ \/ /\ Persist(o, "running")
        /\ Emit(o, "running")
        /\ Goto(o, IF Kind(o) = "prompt" THEN "prompting" ELSE "working")
     \/ /\ PersistFails
        /\ Finish(o, "failed")
  /\ UNCHANGED <<at, step, outcome, sawPrefix, talk, locks, points, disk, crashes>>

StartVerification(o) ==
  /\ pc[o] = "step" /\ MoreSteps(o) /\ Kind(o) = "verify"
  /\ Emit(o, "running")
  /\ Goto(o, "working")
  /\ UNCHANGED <<at, step, outcome, sawPrefix, talk, locks, record, points, disk,
                 dbErrors, crashes>>

StepSucceeds(o) ==
  /\ pc[o] = "working"
  /\ step' = [step EXCEPT ![o] = @ + 1]
  /\ Goto(o, "step")
  /\ UNCHANGED <<at, outcome, sawPrefix, shown, talk, locks, record, points, disk,
                 dbErrors, crashes>>

\* An error of the recipe: the installer failed, a source could not be
\* downloaded, verification found something else.
StepFails(o) ==
  /\ pc[o] = "working"
  /\ GiveUpRecipe(o, "failed")
  /\ UNCHANGED <<talk, locks, points, disk, crashes>>

\* operation_execution_error_is_fatal: security, storage and catalog errors.
StepIsFatal(o) ==
  /\ pc[o] = "working" /\ Kind(o) # "verify"
  /\ Finish(o, "failed")
  /\ UNCHANGED <<at, step, outcome, sawPrefix, talk, locks, record, points, disk,
                 dbErrors, crashes>>

NeverKillStep(o) == FALSE

KillStepAndReturn(o) ==
  /\ pc[o] = "working" /\ Kind(o) = "process"
  /\ o \in flag
  /\ Goto(o, "returned")
  /\ UNCHANGED <<at, step, outcome, sawPrefix, shown, talk, locks, record, points,
                 disk, dbErrors, crashes>>

\* The loop around a child process, and the one around a download, look at the
\* flag: the child is killed and reaped.
KillStep(o) ==
  /\ pc[o] = "working" /\ Kind(o) = "process"
  /\ o \in flag
  /\ Finish(o, "cancelled")
  /\ UNCHANGED <<at, step, outcome, sawPrefix, talk, locks, record, points, disk,
                 dbErrors, crashes>>

\* append_installed_log ends the recipe; it fails like a step does.
CompleteRecipe(o) ==
  /\ pc[o] = "step" /\ ~MoreSteps(o)
  /\ installed' = [installed EXCEPT ![PrefixOf[o]] = @ \cup {Current(o)}]
  /\ outcome' = [outcome EXCEPT ![o][Current(o)] = "ok"]
  /\ at' = [at EXCEPT ![o] = @ + 1]
  /\ step' = [step EXCEPT ![o] = 1]
  /\ Goto(o, "recipe")
  /\ UNCHANGED <<sawPrefix, shown, talk, locks, record, points, exists, dbErrors,
                 crashes>>

LogFails(o) ==
  /\ pc[o] = "step" /\ ~MoreSteps(o)
  /\ GiveUpRecipe(o, "failed")
  /\ UNCHANGED <<talk, locks, points, disk, crashes>>

\* prompt(): the sender is registered before the record and the event.  The
\* flag is not looked at again, and a failing write leaves the sender behind.
OpenPrompt(o) ==
  /\ pc[o] = "prompting"
  /\ prompts' = prompts \cup {o}
  /\ answer' = [answer EXCEPT ![o] = "none"]
  /\ \/ /\ Persist(o, "waiting_for_user")
        /\ Emit(o, "waiting_for_user")
        /\ Goto(o, "awaiting")
     \/ /\ PersistFails
        /\ Finish(o, "failed")
  /\ UNCHANGED <<at, step, outcome, sawPrefix, cancellable, flag, locks, points,
                 disk, crashes>>

\* receiver.await: the record stays waiting_for_user until the next step.
TakeAnswer(o) ==
  /\ pc[o] = "awaiting" /\ answer[o] # "none"
  /\ \/ /\ answer[o] = "continue"
        /\ step' = [step EXCEPT ![o] = @ + 1]
        /\ Goto(o, "step")
        /\ UNCHANGED shown
     \/ /\ answer[o] = "cancel"
        /\ Finish(o, "cancelled")
        /\ UNCHANGED step
  /\ UNCHANGED <<at, outcome, sawPrefix, talk, locks, record, points, disk,
                 dbErrors, crashes>>

-----------------------------------------------------------------------------
(* The end of a task.                                                      *)

\* update_record with the state whose event is already out.
Close(o) ==
  /\ pc[o] = "closing"
  /\ \/ Persist(o, shown[o])
     \/ PersistFails
  /\ Goto(o, "returned")
  /\ UNCHANGED <<at, step, outcome, sawPrefix, shown, talk, locks, points, disk,
                 crashes>>

LeaveLocked(o) ==
  /\ pc[o] = "returned"
  /\ cancellable' = cancellable \ {o}
  /\ Goto(o, "done")
  /\ UNCHANGED <<at, step, outcome, sawPrefix, shown, flag, prompts, answer, locks,
                 record, points, disk, dbErrors, crashes>>

\* The guard is dropped with run_plan's frame, then the flag is unregistered.
Leave(o) ==
  /\ pc[o] = "returned"
  /\ holder' = [holder EXCEPT ![LockOf(o)] = NoOperation]
  /\ cancellable' = cancellable \ {o}
  /\ Goto(o, "done")
  /\ UNCHANGED <<at, step, outcome, sawPrefix, shown, flag, prompts, answer, waiters,
                 record, points, disk, dbErrors, crashes>>

-----------------------------------------------------------------------------
(* The user.                                                               *)

CancelWithoutAnswer(o) ==
  /\ ProcessOf[o] \in Desktop /\ o \in cancellable
  /\ flag' = flag \cup {o}
  /\ prompts' = prompts \ {o}
  /\ UNCHANGED <<task, shown, cancellable, answer, locks, record, points, disk,
                 dbErrors, crashes>>

\* cancel(): the flag is set, then an open prompt is answered.  What the task
\* does between the two it could as well do before or after both.
Cancel(o) ==
  /\ ProcessOf[o] \in Desktop /\ o \in cancellable
  /\ flag' = flag \cup {o}
  /\ prompts' = prompts \ {o}
  /\ answer' = IF o \in prompts THEN [answer EXCEPT ![o] = "cancel"] ELSE answer
  /\ UNCHANGED <<task, shown, cancellable, locks, record, points, disk, dbErrors,
                 crashes>>

\* respond(): whoever takes the sender out of the map is the one who answers.
Respond(o, choice) ==
  /\ ProcessOf[o] \in Desktop /\ o \in prompts
  /\ prompts' = prompts \ {o}
  /\ answer' = [answer EXCEPT ![o] = choice]
  /\ UNCHANGED <<task, shown, cancellable, flag, locks, record, points, disk,
                 dbErrors, crashes>>

ClearAllHistory ==
  /\ record' = [o \in Operations |-> "absent"]
  /\ UNCHANGED <<task, shown, talk, locks, points, disk, dbErrors, crashes>>

\* clear_operation_history, from either process.
ClearHistory ==
  /\ \E o \in Operations : record[o] \in Terminal
  /\ record' = [o \in Operations |-> IF record[o] \in Terminal THEN "absent"
                                                               ELSE record[o]]
  /\ UNCHANGED <<task, shown, talk, locks, points, disk, dbErrors, crashes>>

ProtectedWhileRunning(o) == record[o] = "running"

\* restore_point_is_protected
Protected(o) == record[o] \notin Terminal \cup {"absent"}

\* RecoveryManager::clear: a storage error ends it early.
ClearSnapshots ==
  /\ points # {}
  /\ \E cleared \in SUBSET {o \in points : ~Protected(o)} : points' = points \ cleared
  /\ UNCHANGED <<task, shown, talk, locks, record, disk, dbErrors, crashes>>

-----------------------------------------------------------------------------
(* A process dies: what it held in memory is gone, the database and the    *)
(* prefixes stay.  Its next instance is handed plans not handed out yet;   *)
(* nothing repairs the records it finds.                                   *)

Crash(p) ==
  LET lost == {o \in Operations : ProcessOf[o] = p /\ pc[o] # "idle"} IN
  /\ crashes < MaxCrashes
  /\ crashes' = crashes + 1
  /\ pc' = [o \in Operations |-> IF o \in lost /\ pc[o] # "done" THEN "dead"
                                                                ELSE pc[o]]
  /\ cancellable' = cancellable \ lost
  /\ flag' = flag \ lost
  /\ prompts' = prompts \ lost
  /\ answer' = [o \in Operations |-> IF o \in lost THEN "none" ELSE answer[o]]
  /\ holder' = [l \in Locks |-> IF l[1] = p THEN NoOperation ELSE holder[l]]
  /\ waiters' = [l \in Locks |-> IF l[1] = p THEN <<>> ELSE waiters[l]]
  /\ UNCHANGED <<at, step, outcome, sawPrefix, shown, record, points, disk,
                 dbErrors>>

-----------------------------------------------------------------------------
\* What a task does of its own accord: a child process that hangs is left out.
Proceed(o) ==
  \/ RequestLock(o) \/ AcquireLock(o)
  \/ RejectPlan(o) \/ BeginPreflight(o) \/ RefusePreflight(o) \/ PassPreflight(o)
  \/ InitializePrefix(o) \/ CreateSnapshot(o) \/ BeginRunning(o)
  \/ SkipRecipe(o) \/ EnterRecipe(o) \/ FinishPlan(o)
  \/ StopBeforeStep(o) \/ StartStep(o) \/ StartVerification(o) \/ KillStep(o)
  \/ CompleteRecipe(o) \/ LogFails(o) \/ OpenPrompt(o) \/ TakeAnswer(o)
  \/ Close(o) \/ Leave(o)

StepEnds(o) == StepSucceeds(o) \/ StepFails(o) \/ StepIsFatal(o)

Answered(o) == \E choice \in {"continue", "cancel"} : Respond(o, choice)

\* Every task has run to its end; the history may still be cleared.
AllOver ==
  /\ \A o \in Operations : pc[o] \in {"done", "dead", "refused"}
  /\ UNCHANGED vars

Next ==
  \/ \E o \in Operations :
       \/ Start(o) \/ Run(o)
       \/ Proceed(o) \/ StepEnds(o)
       \/ Cancel(o) \/ Answered(o)
  \/ ClearHistory \/ ClearSnapshots
  \/ \E p \in Processes : Crash(p)
  \/ AllOver

Spec == Init /\ [][Next]_vars

\* The runtime polls every task, steps on files end, and wineboot ends; but a
\* child process may hang and the user may never answer a prompt.
FairTasks ==
  \A o \in Operations :
    /\ WF_vars(Proceed(o))
    /\ WF_vars(pc[o] = "working" /\ Kind(o) # "process" /\ StepEnds(o))
FairSpec == Spec /\ FairTasks

-----------------------------------------------------------------------------
(* Properties.                                                             *)

\* Every variable keeps its type.
TypeOK ==
  /\ pc \in [Operations -> Phase]
  /\ at \in [Operations -> Nat]
  /\ step \in [Operations -> Nat]
  /\ outcome \in [Operations -> [Recipes -> Outcome]]
  /\ sawPrefix \subseteq Operations
  /\ shown \in [Operations -> {"none"} \cup RecordState]
  /\ cancellable \subseteq Operations
  /\ flag \subseteq Operations
  /\ prompts \subseteq Operations
  /\ answer \in [Operations -> {"none", "continue", "cancel"}]
  /\ holder \in [Locks -> Operations \cup {NoOperation}]
  /\ waiters \in [Locks -> Seq(Operations)]
  /\ record \in [Operations -> {"absent"} \cup RecordState]
  /\ points \subseteq Operations
  /\ exists \subseteq Prefixes
  /\ installed \in [Prefixes -> SUBSET Recipes]
  /\ dbErrors \in Nat
  /\ crashes \in Nat

Gone(o) == pc[o] \in {"done", "dead", "refused"}

\* From the moment run_plan has the guard until it returns, no other operation
\* of the same process is inside run_plan with the same prefix.
OneMutatorPerPrefix ==
  \A o1, o2 \in Operations :
    pc[o1] \in Holding /\ pc[o2] \in Holding /\ LockOf(o1) = LockOf(o2) => o1 = o2

\* Operations whose task is writing to its prefix right now.
Mutating == {o \in Operations : pc[o] \in {"initialize", "working"}}

\* docs/architecture.md:60, "Only one operation can mutate a prefix at a time",
\* taken at its word: whichever process the operations belong to.
OneMutatorAnywhere ==
  \A o1, o2 \in Mutating : PrefixOf[o1] = PrefixOf[o2] => o1 = o2

\* The recipes that failed and everything of the plan that depends on one of
\* them, directly or not: the least set closed under "depends on a member".
Doomed(o) ==
  LET Closed(S) == /\ FailedOnly(o) \subseteq S
                   /\ \A r \in Planned(o) : DependsOn[r] \cap S # {} => r \in S
  IN  {r \in Planned(o) : \A S \in SUBSET Recipes : Closed(S) => r \in S}

\* A failing recipe costs its dependants and nobody else: once a task has gone
\* through its plan, the doomed recipes are the unsuccessful ones and every
\* other recipe was carried out ("finishes every independent recipe").
FailureIsolation ==
  \A o \in Operations :
    at[o] > Len(Plan[o]) =>
      /\ Unsuccessful(o) = Doomed(o)
      /\ \A r \in Planned(o) \ Doomed(o) : outcome[o][r] = "ok"

\* winetricks.log never names a recipe before what it depends on, however the
\* operations that wrote it failed, were cancelled or died.
DependenciesInstalled ==
  \A p \in Prefixes : \A r \in installed[p] : DependsOn[r] \subseteq installed[p]

Executing ==
  {"begin", "recipe", "step", "working", "prompting", "awaiting"}

\* While an operation that asked for a restore point executes, clearing the
\* restore points or the history does not take that point away.
RestorePointKept ==
  \A o \in WantsSnapshot \cap sawPrefix : pc[o] \in Executing => o \in points

\* README.md:9, "creates reflink or compressed restore points before risky
\* changes": an operation that asked for one does not touch a prefix with
\* somebody else's recipes in it before it has one.
RestorePointBeforeChanges ==
  \A o \in WantsSnapshot :
    pc[o] = "working" /\ (\E r \in installed[PrefixOf[o]] : outcome[o][r] # "ok")
      => o \in points

\* A waiting task can be answered or has been: exactly one of cancel() and
\* respond() gets its sender, and getting it means sending.
AwaitingIsAnswerable ==
  \A o \in Operations :
    pc[o] = "awaiting" => (o \in prompts <=> answer[o] = "none")

\* docs/architecture.md:70, "cancellation ... failures stop the operation": a
\* cancelled operation does not sit waiting for the user.
CancelledNeverWaits ==
  \A o \in flag : pc[o] = "awaiting" => answer[o] # "none"

\* A concluded record repeats the announced conclusion, its task is through,
\* and one that says "succeeded" has every planned recipe in winetricks.log.
RecordsTellTheTruth ==
  \A o \in Operations :
    /\ record[o] \in Terminal =>
         record[o] = shown[o] /\ pc[o] \in {"returned", "done", "dead"}
    /\ record[o] = "succeeded" => Planned(o) \subseteq installed[PrefixOf[o]]

\* An operation left "active" in the history, or ended without announcing a
\* conclusion, is the trace of a failed write or a dead process; nothing else
\* leaves one, and nothing repairs one.
UnfinishedNeedsFault ==
  dbErrors + crashes = 0 =>
    \A o \in Operations :
      Gone(o) => /\ record[o] \in Terminal \cup {"absent"}
                 /\ shown[o] \in Terminal

\* The lifecycle an observer relies on is what the engine implements.
Lifecycle == INSTANCE OperationLifecycle WITH
  closed <- {o \in Operations : Gone(o) \/ pc[o] = "returned"}
ImplementsLifecycle == Lifecycle!Spec

\* The restore points of operations are what the recovery manager takes them for:
\* asked for by an operation with a record, and kept until that is concluded
\* (operation.rs 172-280, 1139-1205, store.rs 374-395).
PointPhase ==
  [o \in Operations |->
     IF record[o] \notin Terminal \cup {"absent"} THEN "unfinished"
     ELSE IF shown[o] = "none" THEN "none" ELSE "over"]
Snapshots == INSTANCE RestorePoints WITH
  Points <- Operations, Owned <- Operations, kept <- points, phase <- PointPhase
ImplementsRestorePoints == Snapshots!Spec

\* If children end by themselves and the user answers, every operation handed
\* to the engine ends: no lost wake-up, no circular wait, no starvation at a
\* prefix's lock.
Cooperation == \A o \in Operations : WF_vars(StepEnds(o)) /\ WF_vars(Answered(o))
EveryOperationEnds ==
  Cooperation => \A o \in Operations : pc[o] = "spawned" ~> Gone(o)

\* A cancellation the task is in a position to hear: it has the prefix, and if
\* it asks the user something, the sender was there when cancel() looked.
Heard(o) ==
  /\ o \in flag /\ pc[o] \in Holding \ {"prompting"}
  /\ pc[o] = "awaiting" => answer[o] = "cancel"

\* Such a cancellation ends the operation even if its child process hangs and
\* nobody answers prompts.
CancelStops == \A o \in Operations : Heard(o) ~> Gone(o)

=============================================================================
