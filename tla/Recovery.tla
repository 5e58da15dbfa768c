------------------------------- MODULE Recovery -------------------------------
(***************************************************************************)
(* Restore points (recovery.rs): a point is a payload in the backup        *)
(* directory, a copy-on-write tree or an archive, and a row of the         *)
(* restore_points table.  Jobs create points, restore prefixes from them   *)
(* and clear them; operations, the trash and other programs change the     *)
(* prefixes meanwhile, and a process may die between any two steps.        *)
(*                                                                         *)
(* OperationEngine sees of this an atomic CreateSnapshot and a             *)
(* ClearSnapshots; here they are what the code does, statement by          *)
(* statement, and RestorePoints is what both have in common.               *)
(*                                                                         *)
(* LockIgnored, QuitLocked, PublishReplacing, ProtectedWhileCreating,      *)
(* ForgetFirst and ForgetAll are faulty variants of the definition they    *)
(* precede, which no specification uses.                                   *)
(***************************************************************************)
EXTENDS Naturals, FiniteSets

CONSTANTS
  Points,       \* restore points, by their fresh identifiers
  Prefixes,
  Processes,    \* instances of the program, each with its recovery lock
  Jobs,         \* calls of create(), restore() and clear() in flight
  Placements,   \* ways in which the jobs are spread over the processes
  SnapshotOf,   \* point.prefix_path
  CreatedIn,    \* the process that creates the point
  Reflinked,    \* points whose payload is a tree; the others are archives
  Owned,        \* points taken by an operation: operation_id is set
  MaxFaults,    \* bound on removals and database writes that fail
  MaxCrashes,   \* bound on processes that die
  NoJob, NoPoint

ASSUME RecoveryAssumption ==
  /\ Placements \subseteq [Jobs -> Processes]
  /\ SnapshotOf \in [Points -> Prefixes]
  /\ CreatedIn \in [Points -> Processes]
  /\ Reflinked \subseteq Points
  /\ Owned \subseteq Points
  /\ MaxFaults \in Nat
  /\ MaxCrashes \in Nat
  /\ NoJob \notin Jobs
  /\ NoPoint \notin Points

Waiting == {"create", "restore", "clear"}
Inside  == { "copying", "inserting", "extracting", "publishing", "sweeping", "deleting",
             "forgetting" }

\* What a directory or an archive holds: all of the snapshot, or what an
\* interrupted deletion left of it.
Content == {"whole", "torn"}

VARIABLES
  pc,         \* where each job stands
  point,      \* the restore point it is at
  todo,       \* rows a clearing job has read and not yet dealt with
  holder,     \* owner of each process's recovery lock
  rows,       \* the restore_points table
  partial,    \* points with a hidden .partial payload
  payload,    \* what is at a point's storage_path
  staging,    \* what is in the staging directory next to a point's prefix
  prefix,     \* what is at a prefix's path
  operation,  \* the record of the operation that owns a point
  faults,
  crashes,
  runsIn      \* the process of each job, which never changes

jobs  == <<pc, point, todo, holder>>
files == <<partial, payload, staging>>
setting == <<crashes, runsIn>>
vars  == <<jobs, rows, files, prefix, operation, faults, setting>>

Init ==
  /\ pc = [j \in Jobs |-> "idle"]
  /\ point = [j \in Jobs |-> NoPoint]
  /\ todo = [j \in Jobs |-> {}]
  /\ holder = [q \in Processes |-> NoJob]
  /\ rows = {}
  /\ partial = {}
  /\ payload = [x \in Points |-> "none"]
  /\ staging = [x \in Points |-> "none"]
  /\ prefix = [p \in Prefixes |-> "live"]
  /\ operation = [x \in Points |-> "none"]
  /\ faults = 0
  /\ crashes = 0
  /\ runsIn \in Placements

-----------------------------------------------------------------------------
LockIgnored(j) == TRUE
LockFree(j) == holder[runsIn[j]] = NoJob

Enter(j, phase) ==
  /\ LockFree(j)
  /\ holder' = [holder EXCEPT ![runsIn[j]] = j]
  /\ pc' = [pc EXCEPT ![j] = phase]

Goto(j, phase) ==
  /\ pc' = [pc EXCEPT ![j] = phase]
  /\ UNCHANGED holder

QuitLocked(j) ==
  /\ pc' = [pc EXCEPT ![j] = "idle"]
  /\ point' = [point EXCEPT ![j] = NoPoint]
  /\ todo' = [todo EXCEPT ![j] = {}]
  /\ UNCHANGED holder

\* The call returns and its guard is dropped, if it had one.
Quit(j) ==
  /\ pc' = [pc EXCEPT ![j] = "idle"]
  /\ point' = [point EXCEPT ![j] = NoPoint]
  /\ todo' = [todo EXCEPT ![j] = {}]
  /\ holder' = [q \in Processes |-> IF holder[q] = j THEN NoJob ELSE holder[q]]

Fault ==
  /\ faults < MaxFaults
  /\ faults' = faults + 1

\* remove_path on the staging directory; its errors are ignored.
RemoveStaging(x) ==
  \/ staging' = [staging EXCEPT ![x] = "none"] /\ UNCHANGED faults
  \/ staging[x] # "none" /\ staging' = [staging EXCEPT ![x] = "torn"] /\ Fault

-----------------------------------------------------------------------------
(* create()                                                                *)

\* Identifiers are random: a new point has left no trace anywhere.
Fresh(x) ==
  /\ x \notin rows /\ x \notin partial
  /\ payload[x] = "none" /\ staging[x] = "none" /\ operation[x] = "none"
  /\ \A j \in Jobs : point[j] # x /\ x \notin todo[j]

RequestCreate(j, x) ==
  /\ pc[j] = "idle" /\ runsIn[j] = CreatedIn[x] /\ Fresh(x)
  /\ Goto(j, "create")
  /\ point' = [point EXCEPT ![j] = x]
  /\ operation' = [operation EXCEPT ![x] = IF x \in Owned THEN "running" ELSE @]
  /\ UNCHANGED <<todo, rows, files, prefix, faults, setting>>

BeginCreate(j) ==
  LET x == point[j] IN
  /\ pc[j] = "create"
  /\ \/ /\ prefix[SnapshotOf[x]] = "absent"
        /\ LockFree(j)
        /\ Quit(j)
        /\ UNCHANGED partial
     \/ /\ prefix[SnapshotOf[x]] # "absent"
        /\ Enter(j, "copying")
        /\ partial' = partial \cup {x}
        /\ UNCHANGED <<point, todo>>
  /\ UNCHANGED <<rows, payload, staging, prefix, operation, faults, setting>>

\* cp or tar ends, and the payload is renamed to its storage path.
EndCopy(j) ==
  LET x == point[j] IN
  /\ pc[j] = "copying"
  /\ \/ /\ partial' = partial \ {x}
        /\ payload' = [payload EXCEPT ![x] = "whole"]
        /\ Goto(j, "inserting")
        /\ UNCHANGED <<point, todo, faults>>
     \/ /\ \/ partial' = partial \ {x} /\ UNCHANGED faults
           \/ Fault /\ UNCHANGED partial
        /\ Quit(j)
        /\ UNCHANGED payload
  /\ UNCHANGED <<rows, staging, prefix, operation, setting>>

\* add_restore_point; when it fails the payload is removed again, and an error
\* of that is ignored.
InsertRow(j) ==
  LET x == point[j] IN
  /\ pc[j] = "inserting"
  /\ \/ rows' = rows \cup {x} /\ UNCHANGED <<payload, faults>>
     \/ /\ Fault
        /\ \E left \in {"none", payload[x]} : payload' = [payload EXCEPT ![x] = left]
        /\ UNCHANGED rows
  /\ Quit(j)
  /\ UNCHANGED <<partial, staging, prefix, operation, setting>>

-----------------------------------------------------------------------------
(* restore()                                                               *)

\* restore_prefix looks the point up before restore() takes the lock.
RequestRestore(j, x) ==
  /\ pc[j] = "idle" /\ x \in rows
  /\ Goto(j, "restore")
  /\ point' = [point EXCEPT ![j] = x]
  /\ UNCHANGED <<todo, rows, files, prefix, operation, faults, setting>>

\* The target must not exist and validated_storage_path must find the payload.
\* Old staging data is removed; `staging` is what cp or tar begins to read.  Of data
\* that cannot be removed, or that another process is still writing, cp makes a
\* mixture, and an archive gets no directory.
BeginRestore(j) ==
  LET x == point[j] IN
  /\ pc[j] = "restore"
  /\ \/ /\ prefix[SnapshotOf[x]] # "absent" \/ payload[x] = "none"
        /\ LockFree(j)
        /\ Quit(j)
        /\ UNCHANGED <<staging, faults>>
     \/ /\ prefix[SnapshotOf[x]] = "absent" /\ payload[x] \in Content
        /\ Enter(j, "extracting")
        /\ staging' = [staging EXCEPT ![x] = payload[x]]
        /\ UNCHANGED <<point, todo, faults>>
     \/ /\ prefix[SnapshotOf[x]] = "absent" /\ payload[x] \in Content
        /\ \/ staging[x] # "none" /\ Fault
           \/ UNCHANGED faults /\ \E k \in Jobs \ {j} : point[k] = x /\ pc[k] = "extracting"
        /\ staging' = [staging EXCEPT ![x] = "torn"]
        /\ IF x \in Reflinked
           THEN Enter(j, "extracting") /\ UNCHANGED <<point, todo>>
           ELSE LockFree(j) /\ Quit(j)
  /\ UNCHANGED <<rows, partial, payload, prefix, operation, setting>>

\* cp does not notice that a directory it walks was emptied meanwhile; tar has
\* the archive open, whatever happens to its name.  Both fail when another process
\* has removed or published what they write: its staging directory is the same.
EndExtract(j) ==
  LET x == point[j] IN
  /\ pc[j] = "extracting"
  /\ \/ /\ staging[x] # "none"
        /\ \/ UNCHANGED staging
           \/ /\ x \in Reflinked /\ payload[x] # staging[x]
              /\ staging' = [staging EXCEPT ![x] = "torn"]
        /\ Goto(j, "publishing")
        /\ UNCHANGED <<point, todo, faults>>
     \/ RemoveStaging(x) /\ Quit(j)
  /\ UNCHANGED <<rows, partial, payload, prefix, operation, setting>>

PublishReplacing(j) ==
  LET x == point[j] IN
  /\ pc[j] = "publishing" /\ staging[x] # "none"
  /\ prefix' = [prefix EXCEPT ![SnapshotOf[x]] = staging[x]]
  /\ RemoveStaging(x)
  /\ Quit(j)
  /\ UNCHANGED <<rows, partial, payload, operation, setting>>

\* What is in the staging directory: a job of another process that restores the
\* same point may have begun to fill it anew.
Staged(j) ==
  LET x == point[j] IN
  {staging[x]} \cup
    IF \E k \in Jobs \ {j} : point[k] = x /\ pc[k] = "extracting" THEN {"torn"} ELSE {}

\* rename_noreplace: the target may have appeared since BeginRestore.  An archive
\* leaves the directory that its tree was in.
Publish(j) ==
  LET x == point[j]
      p == SnapshotOf[x] IN
  /\ pc[j] = "publishing"
  /\ \/ /\ prefix[p] = "absent" /\ staging[x] # "none"
        /\ \E content \in Staged(j) : prefix' = [prefix EXCEPT ![p] = content]
        /\ IF x \in Reflinked
           THEN staging' = [staging EXCEPT ![x] = "none"] /\ UNCHANGED faults
           ELSE RemoveStaging(x)
     \/ /\ prefix[p] # "absent" \/ staging[x] = "none"
        /\ RemoveStaging(x)
        /\ UNCHANGED prefix
  /\ Quit(j)
  /\ UNCHANGED <<rows, partial, payload, operation, setting>>

-----------------------------------------------------------------------------
(* clear()                                                                 *)

ProtectedWhileCreating(x) == x \in Owned /\ \E j \in Jobs : point[j] = x

\* restore_point_is_protected: the operation's record is not terminal.
Protected(x) == x \in Owned /\ operation[x] \in {"running", "stranded"}

RequestClear(j) ==
  /\ pc[j] = "idle"
  /\ Goto(j, "clear")
  /\ UNCHANGED <<point, todo, rows, files, prefix, operation, faults, setting>>

BeginClear(j) ==
  /\ pc[j] = "clear"
  /\ Enter(j, "sweeping")
  /\ todo' = [todo EXCEPT ![j] = rows]
  /\ UNCHANGED <<point, rows, files, prefix, operation, faults, setting>>

Pass(j, x) ==
  /\ pc[j] = "sweeping" /\ x \in todo[j]
  /\ Protected(x)
  /\ todo' = [todo EXCEPT ![j] = @ \ {x}]
  /\ UNCHANGED <<pc, point, holder, rows, files, prefix, operation, faults, setting>>

ForgetFirst(j, x) ==
  /\ pc[j] = "sweeping" /\ x \in todo[j]
  /\ ~Protected(x)
  /\ rows' = rows \ {x}
  /\ IF x \in Reflinked /\ payload[x] \in Content
     THEN payload' = [payload EXCEPT ![x] = "torn"] /\ Goto(j, "deleting")
     ELSE UNCHANGED payload /\ Goto(j, "forgetting")
  /\ point' = [point EXCEPT ![j] = x]
  /\ UNCHANGED <<todo, partial, staging, prefix, operation, faults, setting>>

\* An archive is unlinked at once, a tree is taken apart; a payload that is
\* not there leaves a stale row to forget.
Discard(j, x) ==
  /\ pc[j] = "sweeping" /\ x \in todo[j]
  /\ ~Protected(x)
  /\ IF x \in Reflinked /\ payload[x] \in Content
     THEN payload' = [payload EXCEPT ![x] = "torn"] /\ Goto(j, "deleting")
     ELSE payload' = [payload EXCEPT ![x] = "none"] /\ Goto(j, "forgetting")
  /\ point' = [point EXCEPT ![j] = x]
  /\ UNCHANGED <<todo, rows, partial, staging, prefix, operation, faults, setting>>

\* The archive cannot be unlinked: clear() returns the error.
DiscardFails(j, x) ==
  /\ pc[j] = "sweeping" /\ x \in todo[j]
  /\ ~Protected(x) /\ payload[x] \in Content
  /\ Fault
  /\ Quit(j)
  /\ UNCHANGED <<rows, files, prefix, operation, setting>>

\* remove_dir_all ends, or stops halfway with an error that clear() returns.
\* It also stops when another process is taking the same tree apart.
EndDelete(j) ==
  LET x == point[j] IN
  /\ pc[j] = "deleting"
  /\ \/ /\ payload' = [payload EXCEPT ![x] = "none"]
        /\ Goto(j, "forgetting")
        /\ UNCHANGED <<point, todo, faults>>
     \/ /\ \/ Fault
           \/ payload[x] = "none" /\ UNCHANGED faults
        /\ Quit(j)
        /\ UNCHANGED payload
  /\ UNCHANGED <<rows, partial, staging, prefix, operation, setting>>

ForgetAll(j) ==
  /\ pc[j] = "forgetting"
  /\ rows' = rows \ ({point[j]} \cup todo[j])
  /\ Quit(j)
  /\ UNCHANGED <<files, prefix, operation, faults, setting>>

\* remove_restore_point
Forget(j) ==
  LET x == point[j] IN
  /\ pc[j] = "forgetting"
  /\ \/ /\ rows' = rows \ {x}
        /\ todo' = [todo EXCEPT ![j] = @ \ {x}]
        /\ point' = [point EXCEPT ![j] = NoPoint]
        /\ Goto(j, "sweeping")
        /\ UNCHANGED faults
     \/ /\ Fault
        /\ Quit(j)
        /\ UNCHANGED rows
  /\ UNCHANGED <<files, prefix, operation, setting>>

EndClear(j) ==
  /\ pc[j] = "sweeping" /\ todo[j] = {}
  /\ Quit(j)
  /\ UNCHANGED <<rows, files, prefix, operation, faults, setting>>

-----------------------------------------------------------------------------
(* What goes on around the jobs.                                           *)

\* trash_prefix, or the user moving the directory aside: no lock is taken.
MoveAside(p) ==
  /\ prefix[p] # "absent"
  /\ prefix' = [prefix EXCEPT ![p] = "absent"]
  /\ UNCHANGED <<jobs, rows, files, operation, faults, setting>>

\* initialize_prefix, create_prefix or another program makes a new prefix.
Appear(p) ==
  /\ prefix[p] = "absent"
  /\ prefix' = [prefix EXCEPT ![p] = "live"]
  /\ UNCHANGED <<jobs, rows, files, operation, faults, setting>>

Creating(x) ==
  \E j \in Jobs : point[j] = x /\ pc[j] \in {"create", "copying", "inserting"}

\* The operation that asked for the point gets a terminal record.
OperationEnds(x) ==
  /\ operation[x] = "running" /\ ~Creating(x)
  /\ operation' = [operation EXCEPT ![x] = "over"]
  /\ UNCHANGED <<jobs, rows, files, prefix, faults, setting>>

\* A process dies: its jobs are gone, their files and rows stay, and the
\* records of its operations are never concluded.
Crash(q) ==
  LET lost == {j \in Jobs : runsIn[j] = q} IN
  /\ crashes < MaxCrashes
  /\ crashes' = crashes + 1
  /\ pc' = [j \in Jobs |-> IF j \in lost THEN "idle" ELSE pc[j]]
  /\ point' = [j \in Jobs |-> IF j \in lost THEN NoPoint ELSE point[j]]
  /\ todo' = [j \in Jobs |-> IF j \in lost THEN {} ELSE todo[j]]
  /\ holder' = [holder EXCEPT ![q] = NoJob]
  /\ operation' = [x \in Points |->
                     IF CreatedIn[x] = q /\ operation[x] = "running"
                     THEN "stranded" ELSE operation[x]]
  /\ UNCHANGED <<rows, files, prefix, faults, runsIn>>

Begin(j) == BeginCreate(j) \/ BeginRestore(j) \/ BeginClear(j)

Proceed(j) ==
  \/ EndCopy(j) \/ InsertRow(j)
  \/ EndExtract(j) \/ Publish(j)
  \/ \E x \in Points : Pass(j, x) \/ Discard(j, x) \/ DiscardFails(j, x)
  \/ EndDelete(j) \/ Forget(j) \/ EndClear(j)

Next ==
  \/ \E j \in Jobs :
       \/ \E x \in Points : RequestCreate(j, x) \/ RequestRestore(j, x)
       \/ RequestClear(j)
       \/ Begin(j) \/ Proceed(j)
  \/ \E p \in Prefixes : MoveAside(p) \/ Appear(p)
  \/ \E x \in Points : OperationEnds(x)
  \/ \E q \in Processes : Crash(q)

Spec == Init /\ [][Next]_vars

\* cp, tar and deletions end, and the recovery lock is granted in the order it
\* was asked for: a job that finds it free again and again gets it.
FairSpec == Spec /\ \A j \in Jobs : WF_vars(Proceed(j)) /\ SF_vars(Begin(j))

-----------------------------------------------------------------------------
(* Properties.                                                             *)

\* Every variable keeps its type.
TypeOK ==
  /\ pc \in [Jobs -> {"idle"} \cup Waiting \cup Inside]
  /\ point \in [Jobs -> Points \cup {NoPoint}]
  /\ todo \in [Jobs -> SUBSET Points]
  /\ \A j \in Jobs : pc[j] = "idle" => point[j] = NoPoint /\ todo[j] = {}
  /\ holder \in [Processes -> Jobs \cup {NoJob}]
  /\ rows \subseteq Points
  /\ partial \subseteq Points
  /\ payload \in [Points -> {"none"} \cup Content]
  /\ staging \in [Points -> {"none"} \cup Content]
  /\ prefix \in [Prefixes -> {"absent", "live"} \cup Content]
  /\ operation \in [Points -> {"none", "running", "stranded", "over"}]
  /\ faults \in Nat
  /\ crashes \in Nat
  /\ runsIn \in Placements

\* An operation that was not concluded may still need its point.
Needed(x) == x \in Owned /\ operation[x] \in {"running", "stranded"}

\* "Restore points in use by active operations will be kept" (the dialog of
\* settings-view.tsx): a row whose operation has not been concluded has its
\* whole payload, whatever is cleared or dies, in whichever process.
NeededPointsAreWhole ==
  \A x \in rows : Needed(x) => payload[x] = "whole"

\* A restore never replaces a prefix, not even one that appeared while it was
\* staged: a directory at a prefix's path changes hands only by being moved.
NeverReplaced ==
  [][\A p \in Prefixes : prefix[p] # "absent" => prefix'[p] \in {prefix[p], "absent"}]_vars

\* CHANGELOG.md:16, "fail-safe restoration": a restore that succeeds publishes
\* the whole snapshot.
RestoresAreWhole == \A p \in Prefixes : prefix[p] # "torn"

\* Within one process and without failed removals or crashes it does: the
\* recovery lock keeps clear() from taking apart what restore() is copying.
UndisturbedRestoresAreWhole ==
  faults + crashes = 0 /\ (\A i, j \in Jobs : runsIn[i] = runsIn[j]) => RestoresAreWhole

\* Rows and payloads part only through a failure: without one, each exists
\* with the other except in the hands of the job that is creating or clearing
\* the point, and nothing staged outlives the job that staged it.
NothingStray ==
  faults + crashes = 0 =>
    \A x \in Points :
      LET At(phases) == \E j \in Jobs : point[j] = x /\ pc[j] \in phases IN
      /\ x \in rows /\ payload[x] # "whole" => At({"deleting", "forgetting"})
      /\ x \notin rows /\ payload[x] # "none" => At({"inserting"})
      /\ x \in partial => At({"copying"})
      /\ staging[x] # "none" => At({"extracting", "publishing"})

\* To the engine, creating a point and clearing are single steps.  However many
\* jobs interleave, fail or die: a point appears at once and whole, while its
\* operation is unfinished, and from then on until the operation is concluded
\* neither its row nor its payload goes (recovery.rs 30-124, 218-252).
PointPhase ==
  [x \in Points |-> IF Needed(x) THEN "unfinished"
                    ELSE IF x \in Owned /\ operation[x] = "over" THEN "over" ELSE "none"]
Snapshots == INSTANCE RestorePoints WITH
  kept <- {x \in rows : payload[x] = "whole"}, phase <- PointPhase
ImplementsRestorePoints == Snapshots!Spec

\* Every call returns: no job waits for the recovery lock for ever, and no
\* path out of create(), restore() or clear() keeps it.
EveryJobEnds == \A j \in Jobs : pc[j] # "idle" ~> pc[j] = "idle"

=============================================================================
