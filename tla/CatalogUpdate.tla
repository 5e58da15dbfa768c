----------------------------- MODULE CatalogUpdate -----------------------------
(***************************************************************************)
(* Versions of the recipe catalog (catalog_update.rs, store.rs and the     *)
(* start of both programs).  A release is unpacked next to its directory,  *)
(* checked, renamed into place and activated; activating replaces the      *)
(* catalog in memory and then, without a lock around the two, the active   *)
(* row of the catalog_versions table.  A rollback activates another row,   *)
(* and a start loads the active one or the catalog shipped with the        *)
(* program.  The programs share the disk and the table; each has its own   *)
(* memory, may be gone after any step, and a new package may replace the   *)
(* shipped catalog where it is.                                            *)
(*                                                                         *)
(* A catalog that is loaded under a version has to be of it: its recipes   *)
(* name the upstream tag the version is called after.  A start takes the   *)
(* version from the place itself.                                          *)
(*                                                                         *)
(* LoadOrFail, UnpackInPlace, PlaceAndLeave, LoadUnchecked and LoadAnyTag  *)
(* are faulty variants of the definition they precede, which no            *)
(* specification uses.                                                     *)
(***************************************************************************)
EXTENDS Naturals, FiniteSets

CONSTANTS
  Versions,     \* catalog versions; numbers, for the code compares the strings
  Released,     \* versions an update index may come to list
  Packaged,     \* versions a package of the program may come to ship
  FirstShipped, \* the one that is shipped at first
  Shipped,      \* the place of the shipped catalog
  Processes,    \* instances of the desktop program and of the command line
  Tasks,        \* updates and rollbacks in flight
  RunsIn,       \* the process of a task
  Absent,       \* no directory, no row
  Broken,       \* a directory that does not load as a catalog
  MaxExits, MaxDamages, MaxDbErrors, MaxUndeleted  \* bounds on what goes wrong

ASSUME CatalogAssumption ==
  /\ Versions \subseteq Nat
  /\ Released \subseteq Versions /\ Packaged \subseteq Versions
  /\ FirstShipped \in Versions
  /\ RunsIn \in [Tasks -> Processes] /\ IsFiniteSet(Tasks)
  /\ {Absent, Broken, Shipped} \cap Versions = {} /\ Absent \notin {Broken, Shipped}
  /\ {MaxExits, MaxDamages, MaxDbErrors, MaxUndeleted} \subseteq Nat

\* A release of version v is installed at paths.catalogs.join(v).
Places == Versions \cup {Shipped}

VARIABLES
  content,    \* what is at each place
  published,  \* versions listed by the update index
  older,      \* pairs of recorded versions, the one with the older installed_at first
  path,       \* the path of each row
  active,     \* versions whose row is active
  stage,      \* how far each process has started
  picked,     \* the place it starts from
  memory,     \* its catalog: the version it is called and the one it is
  job,        \* where each task stands, with the version and place it activates
  staging,    \* tasks that have a staging directory
  stray,      \* staging directories whose process is gone
  undeleted,  \* staging directories that could not be removed
  overtaken,  \* processes whose selection others may have replaced
  exits, damages, dbErrors

storage == <<content, published>>
rows    == <<older, path, active>>
procs   == <<stage, picked, memory>>
dirs    == <<staging, stray, undeleted>>
tasks   == <<job, dirs>>
faults  == <<exits, damages, dbErrors>>
vars    == <<storage, rows, procs, tasks, overtaken, faults>>

Idle == [at |-> "idle", version |-> Absent, place |-> Absent]
Nothing == [label |-> Absent, content |-> Absent]

IsDir(place) == content[place] # Absent
Loads(place) == content[place] \in Versions

\* Every recipe names the tag that the catalog is loaded with.
LoadsAs(place, v) == content[place] = v
Recorded == {v \in Versions : path[v] # Absent}

\* The newest of a set of recorded versions.
IsNewest(v, S) == v \in S /\ \A w \in S \ {v} : <<w, v>> \in older

\* The other processes that are up: a write to the table passes them by.
Others(p) == {q \in Processes \ {p} : stage[q] = "on"}

Init ==
  /\ content = [x \in Places |-> IF x = Shipped THEN FirstShipped ELSE Absent]
  /\ published = {}
  /\ older = {} /\ path = [v \in Versions |-> Absent] /\ active = {}
  /\ stage = [p \in Processes |-> "off"]
  /\ picked = [p \in Processes |-> Shipped]
  /\ memory = [p \in Processes |-> Nothing]
  /\ job = [t \in Tasks |-> Idle]
  /\ staging = {} /\ stray = 0 /\ undeleted = 0
  /\ overtaken = {}
  /\ exits = 0 /\ damages = 0 /\ dbErrors = 0

-----------------------------------------------------------------------------
(* The table.                                                              *)

\* One transaction: every row inactive, then this one inserted or updated,
\* with a new installed_at.
Activate(v, place) ==
  /\ older' = {e \in older : v \notin {e[1], e[2]}} \cup (Recorded \ {v}) \X {v}
  /\ path' = [path EXCEPT ![v] = place]
  /\ active' = {v}
  /\ UNCHANGED dbErrors

ActivateFails ==
  /\ dbErrors < MaxDbErrors
  /\ dbErrors' = dbErrors + 1
  /\ UNCHANGED rows

-----------------------------------------------------------------------------
(* Starting a process.                                                     *)

\* active_catalog_version(): an active row whose directory is gone does not count.
Start(p) ==
  LET usable == {v \in active : IsDir(path[v])} IN
  /\ stage[p] = "off"
  /\ stage' = [stage EXCEPT ![p] = "selected"]
  /\ \/ usable = {} /\ picked' = [picked EXCEPT ![p] = Shipped]
     \/ \E v \in usable : IsNewest(v, usable) /\ picked' = [picked EXCEPT ![p] = path[v]]
  /\ UNCHANGED <<storage, rows, memory, tasks, overtaken, faults>>

LoadOrFail(p) ==
  /\ stage[p] = "selected"
  /\ stage' = [stage EXCEPT ![p] = IF Loads(picked[p]) THEN "loaded" ELSE "failed"]
  /\ memory' = [memory EXCEPT ![p] =
                  [label |-> content[picked[p]], content |-> content[picked[p]]]]
  /\ UNCHANGED <<storage, rows, picked, tasks, overtaken, faults>>

\* The version is what the manifest at the place says.  A catalog that does not
\* load gives way to the shipped one.
LoadCatalog(p) ==
  LET place == IF Loads(picked[p]) THEN picked[p] ELSE Shipped IN
  /\ stage[p] = "selected"
  /\ stage' = [stage EXCEPT ![p] = IF Loads(place) THEN "loaded" ELSE "failed"]
  /\ picked' = [picked EXCEPT ![p] = place]
  /\ memory' = [memory EXCEPT ![p] =
                  [label |-> content[place], content |-> content[place]]]
  /\ UNCHANGED <<storage, rows, tasks, overtaken, faults>>

\* What was loaded is recorded as active; without that the start fails.
RecordStart(p) ==
  /\ stage[p] = "loaded"
  /\ \/ /\ Activate(memory[p].label, picked[p])
        /\ stage' = [stage EXCEPT ![p] = "on"]
        /\ overtaken' = Others(p)
        /\ UNCHANGED memory
     \/ /\ ActivateFails
        /\ stage' = [stage EXCEPT ![p] = "off"]
        /\ memory' = [memory EXCEPT ![p] = Nothing]
        /\ UNCHANGED overtaken
  /\ picked' = [picked EXCEPT ![p] = Shipped]
  /\ UNCHANGED <<storage, tasks, exits, damages>>

-----------------------------------------------------------------------------
(* Installing a release.                                                   *)

Enter(t, at, v, place) == job' = [job EXCEPT ![t] = [at |-> at, version |-> v, place |-> place]]

\* The guard of StagingCleanup goes out of scope when the task returns.  It says
\* nothing of a directory that it cannot remove.
Return(t) ==
  /\ job' = [job EXCEPT ![t] = Idle]
  /\ staging' = staging \ {t}
  /\ \/ UNCHANGED undeleted
     \/ /\ t \in staging /\ undeleted < MaxUndeleted
        /\ undeleted' = undeleted + 1
  /\ UNCHANGED stray

\* latest_after(): the update offered is the newest release, if it is newer
\* than the catalog in memory.  The download and its verification change nothing.
Check(t) ==
  /\ stage[RunsIn[t]] = "on" /\ job[t] = Idle
  /\ \E v \in published :
       /\ \A w \in published : v >= w
       /\ v > memory[RunsIn[t]].label
       /\ Enter(t, "offered", v, v)
  /\ UNCHANGED <<storage, rows, procs, dirs, overtaken, faults>>

\* A version that has a directory is not unpacked again.
Reuse(t) ==
  LET v == job[t].version IN
  /\ job[t].at = "offered" /\ IsDir(v)
  /\ \/ LoadsAs(v, v) /\ Enter(t, "placed", v, v)
     \/ ~LoadsAs(v, v) /\ Enter(t, "idle", Absent, Absent)
  /\ UNCHANGED <<storage, rows, procs, dirs, overtaken, faults>>

UnpackInPlace(t) ==
  LET v == job[t].version IN
  /\ job[t].at = "offered" /\ ~IsDir(v)
  /\ Enter(t, "staged", v, v)
  /\ content' = [content EXCEPT ![v] = Broken]
  /\ UNCHANGED <<published, rows, procs, dirs, overtaken, faults>>

Unpack(t) ==
  LET v == job[t].version IN
  /\ job[t].at = "offered" /\ ~IsDir(v)
  /\ Enter(t, "staged", v, v)
  /\ staging' = staging \cup {t}
  /\ UNCHANGED <<storage, rows, procs, stray, undeleted, overtaken, faults>>

\* The archive, its manifest, its recipes or their number are not as signed.
Refuse(t) ==
  /\ job[t].at = "staged"
  /\ Return(t)
  /\ UNCHANGED <<storage, rows, procs, overtaken, faults>>

PlaceAndLeave(t) ==
  LET v == job[t].version IN
  /\ job[t].at = "staged"
  /\ IF IsDir(v)
       THEN /\ Enter(t, "idle", Absent, Absent)
            /\ UNCHANGED <<content, dirs>>
       ELSE /\ content' = [content EXCEPT ![v] = v]
            /\ Enter(t, "placed", v, v)
            /\ staging' = staging \ {t}
            /\ UNCHANGED <<stray, undeleted>>
  /\ UNCHANGED <<published, rows, procs, overtaken, faults>>

\* A rename into a version directory made meanwhile fails.  The staging directory
\* is renamed, or only the catalog directory the archive has in it.
Place(t) ==
  LET v == job[t].version IN
  /\ job[t].at = "staged"
  /\ \/ /\ IsDir(v)
        /\ Return(t)
        /\ UNCHANGED content
     \/ /\ ~IsDir(v)
        /\ content' = [content EXCEPT ![v] = v]
        /\ Enter(t, "placed", v, v)
        /\ staging' \in {staging, staging \ {t}}
        /\ UNCHANGED <<stray, undeleted>>
  /\ UNCHANGED <<published, rows, procs, overtaken, faults>>

-----------------------------------------------------------------------------
(* Rolling back, and activating.                                           *)

\* rollback_catalog(): the newest inactive row whose path is a directory.
PickPrevious(t) ==
  LET available == {v \in Recorded \ active : IsDir(path[v])} IN
  /\ stage[RunsIn[t]] = "on" /\ job[t] = Idle
  /\ \E v \in available : IsNewest(v, available) /\ Enter(t, "placed", v, path[v])
  /\ UNCHANGED <<storage, rows, procs, dirs, overtaken, faults>>

\* Another task of the process that has replaced the memory and not yet the row.
Beside(t) == \E u \in Tasks \ {t} : RunsIn[u] = RunsIn[t] /\ job[u].at = "reloaded"

LoadUnchecked(t) ==
  LET p == RunsIn[t]
      place == job[t].place IN
  /\ job[t].at = "placed"
  /\ memory' = [memory EXCEPT ![p] = [label |-> job[t].version, content |-> content[place]]]
  /\ Enter(t, "reloaded", job[t].version, place)
  /\ overtaken' = IF Beside(t) THEN overtaken \cup {p} ELSE overtaken \ {p}
  /\ UNCHANGED <<storage, rows, stage, picked, dirs, faults>>

LoadAnyTag(t) ==
  LET p == RunsIn[t]
      place == job[t].place IN
  /\ job[t].at = "placed" /\ Loads(place)
  /\ memory' = [memory EXCEPT ![p] = [label |-> job[t].version, content |-> content[place]]]
  /\ Enter(t, "reloaded", job[t].version, place)
  /\ overtaken' = IF Beside(t) THEN overtaken \cup {p} ELSE overtaken \ {p}
  /\ UNCHANGED <<storage, rows, stage, picked, dirs, faults>>

\* activate_existing(): what loads under the tag of the row or release replaces
\* the catalog in memory.
Load(t) ==
  LET p == RunsIn[t]
      place == job[t].place IN
  /\ job[t].at = "placed"
  /\ \/ /\ LoadsAs(place, job[t].version)
        /\ memory' = [memory EXCEPT ![p] =
                        [label |-> job[t].version, content |-> content[place]]]
        /\ Enter(t, "reloaded", job[t].version, place)
        /\ overtaken' = IF Beside(t) THEN overtaken \cup {p} ELSE overtaken \ {p}
        /\ UNCHANGED dirs
     \/ /\ ~LoadsAs(place, job[t].version)
        /\ Return(t)
        /\ UNCHANGED <<memory, overtaken>>
  /\ UNCHANGED <<storage, rows, stage, picked, faults>>

Record(t) ==
  LET p == RunsIn[t] IN
  /\ job[t].at = "reloaded"
  /\ \/ /\ Activate(job[t].version, job[t].place)
        /\ overtaken' = overtaken \cup Others(p)
     \/ /\ ActivateFails
        /\ overtaken' = overtaken \cup {p}
  /\ Return(t)
  /\ UNCHANGED <<storage, procs, exits, damages>>

-----------------------------------------------------------------------------
(* The world around.                                                       *)

Publish(v) ==
  /\ v \in Released /\ \A w \in published : v > w
  /\ published' = published \cup {v}
  /\ UNCHANGED <<content, rows, procs, tasks, overtaken, faults>>

\* A package is installed over the old one.
Upgrade(v) ==
  /\ v \in Packaged /\ v > content[Shipped]
  /\ content' = [content EXCEPT ![Shipped] = v]
  /\ UNCHANGED <<published, rows, procs, tasks, overtaken, faults>>

\* A version directory is removed, or holds nothing a program can load any more.
Damage(v) ==
  /\ damages < MaxDamages /\ Loads(v)
  /\ \E rest \in {Absent, Broken} : content' = [content EXCEPT ![v] = rest]
  /\ damages' = damages + 1
  /\ UNCHANGED <<published, rows, procs, tasks, overtaken, exits, dbErrors>>

\* A process ends, wherever its tasks are.
Exit(p) ==
  LET own == {t \in Tasks : RunsIn[t] = p} IN
  /\ stage[p] # "off" /\ exits < MaxExits
  /\ exits' = exits + 1
  /\ stage' = [stage EXCEPT ![p] = "off"]
  /\ picked' = [picked EXCEPT ![p] = Shipped]
  /\ memory' = [memory EXCEPT ![p] = Nothing]
  /\ job' = [t \in Tasks |-> IF t \in own THEN Idle ELSE job[t]]
  /\ staging' = staging \ own
  /\ stray' = stray + Cardinality(staging \cap own)
  /\ UNCHANGED undeleted
  /\ overtaken' = overtaken \ {p}
  /\ UNCHANGED <<storage, rows, damages, dbErrors>>

Next ==
  \/ \E p \in Processes : Start(p) \/ LoadCatalog(p) \/ RecordStart(p) \/ Exit(p)
  \/ \E t \in Tasks :
       \/ Check(t) \/ Reuse(t) \/ Unpack(t) \/ Refuse(t) \/ Place(t)
       \/ PickPrevious(t) \/ Load(t) \/ Record(t)
  \/ \E v \in Versions : Publish(v) \/ Upgrade(v) \/ Damage(v)

Spec == Init /\ [][Next]_vars

-----------------------------------------------------------------------------
(* Properties.                                                             *)

\* Every variable has its type; a process has a catalog in memory from the time it
\* has loaded one, and only what loads ever gets there.
TypeOK ==
  /\ content \in [Places -> Versions \cup {Absent, Broken}]
  /\ published \subseteq Released
  /\ path \in [Versions -> Places \cup {Absent}]
  /\ older \subseteq Recorded \X Recorded
  /\ \A v, w \in Recorded : <<v, w>> \in older <=> v # w /\ <<w, v>> \notin older
  /\ active \subseteq Recorded
  /\ stage \in [Processes -> {"off", "selected", "loaded", "on", "failed"}]
  /\ picked \in [Processes -> Places]
  /\ memory \in [Processes -> {Nothing} \cup [label : Versions, content : Versions]]
  /\ \A p \in Processes : stage[p] \in {"loaded", "on"} => memory[p] # Nothing
  /\ job \in [Tasks -> {Idle} \cup [at : {"offered", "staged", "placed", "reloaded"},
                                   version : Versions, place : Places]]
  /\ staging \subseteq Tasks /\ stray \in Nat /\ undeleted \in Nat
  /\ overtaken \subseteq Processes

\* Wherever a process ends between unpacking, renaming and recording, what the
\* next start or the next attempt finds is whole: exactly one row is active, the
\* one that was activated last by whichever process and task, a version directory
\* holds that version, and so does the path of every row, unless it was damaged
\* from outside or is that of the shipped catalog and a package put another there.
StorageIsSound ==
  /\ Recorded # {} => \E v \in Recorded : active = {v} /\ IsNewest(v, Recorded)
  /\ damages = 0 =>
       /\ \A v \in Versions : content[v] \in {Absent, v}
       /\ \A v \in Recorded :
            LoadsAs(path[v], v) \/ (path[v] = Shipped /\ Loads(Shipped))

\* Whatever became of the active version, a start finds a catalog.
StartsFindCatalog == \A p \in Processes : stage[p] # "failed"

\* A staging directory outlives its task only if its process ended with it or it
\* could not be removed, on every path out of an update, the rename lost to another
\* one included.
NoStrayStaging ==
  /\ \A t \in staging : job[t] # Idle
  /\ stray # 0 => exits # 0

\* The recipes a process uses are those of the version the table has as active,
\* whatever packages put in place of a catalog that has a row, unless another
\* process, an update and a rollback at once, or a failed write came between.
AgreesUnlessOvertaken ==
  \A p \in Processes \ overtaken :
    stage[p] = "on" /\ (\A t \in Tasks : RunsIn[t] = p => job[t].at # "reloaded")
      => active = {memory[p].content}

\* "Older catalogs remain available for rollback." (docs/architecture.md:112): a
\* rollback is refused only if no older catalog loads any more, unless one was
\* damaged from outside.
OlderRemainAvailable ==
  damages = 0 =>
    \A t \in Tasks :
      job[t].at = "placed" /\ ~LoadsAs(job[t].place, job[t].version) =>
        \A v \in Recorded \ active : ~LoadsAs(path[v], v)

=============================================================================
