-------------------------- MODULE CatalogUpdateProofs --------------------------
(***************************************************************************)
(* What holds of catalog versions for any versions, processes and tasks,   *)
(* and any number of ends, damages and failed writes.                      *)
(***************************************************************************)
EXTENDS CatalogUpdate, FiniteSetTheorems, TLAPS

-----------------------------------------------------------------------------
(* The inductive invariant.                                                *)

\* The recorded versions are ordered, and the active ones are among them.
RowsOK ==
  /\ path \in [Versions -> Places \cup {Absent}]
  /\ older \subseteq Recorded \X Recorded
  /\ \A v, w \in Recorded : <<v, w>> \in older <=> v # w /\ <<w, v>> \notin older
  /\ active \subseteq Recorded

\* No start has failed, and what is in memory is of the version it is called.
ProcsOK ==
  /\ stage \in [Processes -> {"off", "selected", "loaded", "on"}]
  /\ picked \in [Processes -> Places]
  /\ memory \in [Processes -> {Nothing} \cup [label : Versions, content : Versions]]
  /\ \A p \in Processes : stage[p] \in {"loaded", "on"} => memory[p] # Nothing
  /\ \A p \in Processes : memory[p].label = memory[p].content
  /\ overtaken \subseteq Processes

TasksOK ==
  /\ job \in [Tasks -> {Idle} \cup [at : {"offered", "staged", "placed", "reloaded"},
                                   version : Versions, place : Places]]
  /\ staging \subseteq Tasks /\ stray \in Nat /\ undeleted \in Nat

\* The shipped catalog loads.
WorldOK ==
  /\ content \in [Places -> Versions \cup {Absent, Broken}]
  /\ content[Shipped] \in Versions
  /\ published \subseteq Released
  /\ exits \in Nat /\ damages \in Nat /\ dbErrors \in Nat

TypeInv == RowsOK /\ ProcsOK /\ TasksOK /\ WorldOK

\* A task works in a process that is up, and has a staging directory from the
\* unpacking on.
Working(t) ==
  /\ job[t] # Idle => stage[RunsIn[t]] = "on"
  /\ t \in staging => job[t].at \in {"staged", "placed", "reloaded"}

WorkInv == (\A t \in Tasks : Working(t)) /\ (stray # 0 => exits # 0)

\* Of the recorded versions the active one was recorded last.
ActiveIsNewest ==
  Recorded # {} => \E v \in Recorded : active = {v} /\ IsNewest(v, Recorded)

\* A place holds a version, or is that of the shipped catalog and holds another.
Kept(place, v) == LoadsAs(place, v) \/ (place = Shipped /\ Loads(Shipped))

\* What is at a version's place is that version, and so is what is recorded, about
\* to be, or loaded by a start, unless a package replaced it.
Undamaged ==
  /\ \A v \in Versions : content[v] \in {Absent, v}
  /\ \A v \in Recorded : Kept(path[v], v)
  /\ \A p \in Processes : stage[p] = "loaded" => Kept(picked[p], memory[p].label)
  /\ \A t \in Tasks : job[t].at = "reloaded" => Kept(job[t].place, job[t].version)

Written == UNCHANGED rows \/ \E v \in Versions, place \in Places : Activate(v, place)

SoundInv == ActiveIsNewest /\ (damages = 0 => Undamaged)

\* A process that nobody has overtaken uses the active version, or is about to make
\* active the one that it uses.
Agreed(p) ==
  p \notin overtaken /\ stage[p] = "on" =>
    /\ (\A t \in Tasks : RunsIn[t] = p => job[t].at # "reloaded") => active = {memory[p].label}
    /\ \A t \in Tasks : RunsIn[t] = p /\ job[t].at = "reloaded" =>
         job[t].version = memory[p].label /\ ~Beside(t)

AgreedInv == \A p \in Processes : Agreed(p)

-----------------------------------------------------------------------------
(* Types.                                                                  *)

\* Activating a version makes it the newest recorded one.
LEMMA ActivateOrders ==
  ASSUME RowsOK, NEW v \in Versions, NEW place \in Places, Activate(v, place)
  PROVE  /\ RowsOK'
         /\ Recorded' = Recorded \cup {v}
         /\ path'[v] = place /\ \A w \in Versions \ {v} : path'[w] = path[w]
         /\ active' = {v} /\ IsNewest(v, Recorded)'
         /\ UNCHANGED dbErrors
<1> USE DEF RowsOK
<1>1. path' = [path EXCEPT ![v] = place] /\ active' = {v} /\ UNCHANGED dbErrors
  BY DEF Activate
<1>2. place # Absent
  BY CatalogAssumption DEF Places
<1>3. Recorded' = Recorded \cup {v}
  BY <1>1, <1>2 DEF Recorded
<1>4. ASSUME NEW a, NEW b
      PROVE  <<a, b>> \in older' <=> \/ <<a, b>> \in older /\ a # v /\ b # v
                                     \/ a \in Recorded \ {v} /\ b = v
  BY DEF Activate
<1>5. older' \subseteq Recorded' \X Recorded'
  BY <1>3 DEF Activate
<1>6. \A a, b \in Recorded' : <<a, b>> \in older' <=> a # b /\ <<b, a>> \notin older'
  BY <1>3, <1>4
<1>7. IsNewest(v, Recorded)'
  BY <1>3, <1>4 DEF IsNewest
<1> QED
  BY <1>1, <1>3, <1>5, <1>6, <1>7

\* Whoever does not write to the table leaves the rows as they are.
LEMMA RowsStay ==
  ASSUME RowsOK, UNCHANGED rows
  PROVE  RowsOK' /\ Recorded' = Recorded
BY DEF RowsOK, rows, Recorded

\* A task that is under way has a version and a place.
LEMMA TaskTarget ==
  ASSUME TasksOK, NEW t \in Tasks, job[t].at # "idle"
  PROVE  job[t].version \in Versions /\ job[t].place \in Places
BY DEF TasksOK, Idle

\* Nothing is recorded and nothing is up at first.
LEMMA InitTypes == Init => TypeInv
BY CatalogAssumption
   DEF Init, TypeInv, RowsOK, ProcsOK, TasksOK, WorldOK, Recorded, Places, Idle, Nothing

\* Each step keeps the types, and every start finds a catalog.
LEMMA TypeStep == TypeInv /\ [Next]_vars => TypeInv'
<1> SUFFICES ASSUME TypeInv, [Next]_vars
             PROVE  TypeInv'
  OBVIOUS
<1> USE CatalogAssumption DEF TypeInv, dirs, LoadsAs
<1>1. ASSUME NEW p \in Processes, Start(p) PROVE TypeInv'
  <2>1. RowsOK'
    BY <1>1, RowsStay DEF Start
  <2>2. ProcsOK'
    BY <1>1 DEF ProcsOK, RowsOK, Start, Nothing, Places, Recorded, IsDir, IsNewest, faults,
       rows, storage, tasks
  <2>3. TasksOK'
    BY <1>1 DEF TasksOK, Start, Idle, Places, IsDir, IsNewest, faults, rows, storage, tasks
  <2>4. WorldOK'
    BY <1>1 DEF WorldOK, Start, Places, IsDir, IsNewest, faults, rows, storage, tasks
  <2> QED
    BY <2>1, <2>2, <2>3, <2>4
<1>2. ASSUME NEW p \in Processes, LoadCatalog(p) PROVE TypeInv'
  <2>1. RowsOK'
    BY <1>2, RowsStay DEF LoadCatalog
  <2>2. ProcsOK'
    BY <1>2 DEF ProcsOK, WorldOK, LoadCatalog, Nothing, Places, Loads, faults, rows, storage,
       tasks
  <2>3. TasksOK'
    BY <1>2 DEF TasksOK, LoadCatalog, Idle, Places, Loads, faults, rows, storage, tasks
  <2>4. WorldOK'
    BY <1>2 DEF WorldOK, LoadCatalog, Places, Loads, faults, rows, storage, tasks
  <2> QED
    BY <2>1, <2>2, <2>3, <2>4
<1>3. ASSUME NEW p \in Processes, RecordStart(p) PROVE TypeInv'
  <2>1. RowsOK'
    BY <1>3, RowsStay, ActivateOrders DEF RecordStart, ActivateFails, ProcsOK, Nothing
  <2>2. ProcsOK'
    BY <1>3 DEF ProcsOK, RecordStart, Nothing, Places, ActivateFails, Others, storage, tasks,
       rows
  <2>3. TasksOK'
    BY <1>3 DEF TasksOK, RecordStart, Idle, Places, ActivateFails, Nothing, Others, storage,
       tasks, rows
  <2>4. WorldOK'
    BY <1>3 DEF WorldOK, RecordStart, Places, Activate, ActivateFails, Nothing, Others,
       storage, tasks, Recorded, rows
  <2> QED
    BY <2>1, <2>2, <2>3, <2>4
<1>4. ASSUME NEW p \in Processes, Exit(p) PROVE TypeInv'
  <2>1. RowsOK'
    BY <1>4, RowsStay DEF Exit
  <2>2. ProcsOK'
    BY <1>4 DEF ProcsOK, Exit, Nothing, Places, Idle, rows, storage
  <2>3. TasksOK'
    <3>1. Cardinality(staging \cap {t \in Tasks : RunsIn[t] = p}) \in Nat
      BY FS_Subset, FS_CardinalityType DEF TasksOK
    <3> QED
      BY <1>4, <3>1 DEF TasksOK, Exit
  <2>4. WorldOK'
    BY <1>4 DEF WorldOK, Exit, Places, Idle, Nothing, rows, storage
  <2> QED
    BY <2>1, <2>2, <2>3, <2>4
<1>5. ASSUME NEW t \in Tasks, Check(t) PROVE TypeInv'
  <2>1. RowsOK'
    BY <1>5, RowsStay DEF Check
  <2>2. ProcsOK'
    BY <1>5 DEF ProcsOK, Check, Nothing, Places, Enter, Idle, faults, procs, rows, storage
  <2>3. TasksOK'
    BY <1>5 DEF TasksOK, WorldOK, Check, Idle, Places, Enter, faults, procs, rows, storage
  <2>4. WorldOK'
    BY <1>5 DEF WorldOK, Check, Places, Enter, Idle, faults, procs, rows, storage
  <2> QED
    BY <2>1, <2>2, <2>3, <2>4
<1>6. ASSUME NEW t \in Tasks, Reuse(t) PROVE TypeInv'
  <2>1. RowsOK'
    BY <1>6, RowsStay DEF Reuse
  <2>2. ProcsOK'
    BY <1>6 DEF ProcsOK, Reuse, Nothing, Places, Enter, IsDir, Loads, faults, procs, rows,
       storage
  <2>3. TasksOK'
    BY <1>6 DEF TasksOK, Reuse, Idle, Places, Enter, IsDir, Loads, faults, procs, rows, storage
  <2>4. WorldOK'
    BY <1>6 DEF WorldOK, Reuse, Places, Enter, IsDir, Loads, faults, procs, rows, storage
  <2> QED
    BY <2>1, <2>2, <2>3, <2>4
<1>7. ASSUME NEW t \in Tasks, Unpack(t) PROVE TypeInv'
  <2>1. RowsOK'
    BY <1>7, RowsStay DEF Unpack
  <2>2. ProcsOK'
    BY <1>7 DEF ProcsOK, Unpack, Nothing, Places, Enter, IsDir, faults, procs, rows, storage
  <2>3. TasksOK'
    BY <1>7 DEF TasksOK, Unpack, Idle, Places, Enter, IsDir, faults, procs, rows, storage
  <2>4. WorldOK'
    BY <1>7 DEF WorldOK, Unpack, Places, Enter, IsDir, faults, procs, rows, storage
  <2> QED
    BY <2>1, <2>2, <2>3, <2>4
<1>8. ASSUME NEW t \in Tasks, Refuse(t) PROVE TypeInv'
  <2>1. RowsOK'
    BY <1>8, RowsStay DEF Refuse
  <2>2. ProcsOK'
    BY <1>8 DEF ProcsOK, Refuse, Nothing, Places, Return, faults, procs, rows, storage, Idle
  <2>3. TasksOK'
    BY <1>8 DEF TasksOK, Refuse, Idle, Places, Return, faults, procs, rows, storage
  <2>4. WorldOK'
    BY <1>8 DEF WorldOK, Refuse, Places, Return, faults, procs, rows, storage, Idle
  <2> QED
    BY <2>1, <2>2, <2>3, <2>4
<1>9. ASSUME NEW t \in Tasks, Place(t) PROVE TypeInv'
  <2>1. RowsOK'
    BY <1>9, RowsStay DEF Place
  <2>2. ProcsOK'
    BY <1>9 DEF ProcsOK, Place, Nothing, Places, Enter, IsDir, Return, faults, procs, rows,
       Idle
  <2>3. TasksOK'
    BY <1>9 DEF TasksOK, Place, Idle, Places, Enter, IsDir, Return, faults, procs, rows
  <2>4. WorldOK'
    BY <1>9, TaskTarget DEF WorldOK, Place, Places, Enter, IsDir, Return, faults, procs, rows,
       Idle
  <2> QED
    BY <2>1, <2>2, <2>3, <2>4
<1>10. ASSUME NEW t \in Tasks, PickPrevious(t) PROVE TypeInv'
  <2>1. RowsOK'
    BY <1>10, RowsStay DEF PickPrevious
  <2>2. ProcsOK'
    BY <1>10 DEF ProcsOK, PickPrevious, Nothing, Places, Enter, Idle, IsDir, IsNewest, Recorded,
       faults, procs, rows, storage
  <2>3. TasksOK'
    BY <1>10 DEF TasksOK, RowsOK, PickPrevious, Idle, Places, Recorded, Enter, IsDir, IsNewest,
       faults, procs, rows, storage
  <2>4. WorldOK'
    BY <1>10 DEF WorldOK, PickPrevious, Places, Enter, Idle, IsDir, IsNewest, Recorded, faults,
       procs, rows, storage
  <2> QED
    BY <2>1, <2>2, <2>3, <2>4
<1>11. ASSUME NEW t \in Tasks, Load(t) PROVE TypeInv'
  <2>1. RowsOK'
    BY <1>11, RowsStay DEF Load
  <2>2. ProcsOK'
    <3> DEFINE p == RunsIn[t]
               v == job[t].version
    <3>1. /\ v \in Versions /\ p \in Processes
          /\ stage' = stage /\ picked' = picked
          /\ overtaken' \subseteq overtaken \cup {p}
          /\ \/ memory' = memory
             \/ memory' = [memory EXCEPT ![p] = [label |-> v, content |-> v]]
      BY <1>11, TaskTarget DEF Load
    <3> HIDE DEF p, v
    <3> QED
      BY <3>1 DEF ProcsOK, Nothing
  <2>3. TasksOK'
    BY <1>11 DEF TasksOK, Load, Idle, Places, Beside, Enter, Loads, Return, faults, rows,
       storage
  <2>4. WorldOK'
    BY <1>11 DEF WorldOK, Load, Places, Beside, Enter, Loads, Return, faults, rows, storage,
       Idle
  <2> QED
    BY <2>1, <2>2, <2>3, <2>4
<1>12. ASSUME NEW t \in Tasks, Record(t) PROVE TypeInv'
  <2>1. RowsOK'
    BY <1>12, RowsStay, ActivateOrders, TaskTarget DEF Record, ActivateFails
  <2>2. ProcsOK'
    BY <1>12 DEF ProcsOK, TasksOK, Record, Nothing, Places, Idle, ActivateFails, Others, Return,
       procs, storage, rows
  <2>3. TasksOK'
    BY <1>12 DEF TasksOK, Record, Idle, Places, ActivateFails, Others, Return, procs, storage,
       rows
  <2>4. WorldOK'
    BY <1>12 DEF WorldOK, Record, Places, Activate, ActivateFails, Others, Return, procs,
       storage, Recorded, rows, Idle
  <2> QED
    BY <2>1, <2>2, <2>3, <2>4
<1>13. ASSUME NEW v \in Versions, Publish(v) PROVE TypeInv'
  <2>1. RowsOK'
    BY <1>13, RowsStay DEF Publish
  <2>2. ProcsOK'
    BY <1>13 DEF ProcsOK, Publish, Nothing, Places, faults, procs, rows, tasks
  <2>3. TasksOK'
    BY <1>13 DEF TasksOK, Publish, Idle, Places, faults, procs, rows, tasks
  <2>4. WorldOK'
    BY <1>13 DEF WorldOK, Publish, Places, faults, procs, rows, tasks
  <2> QED
    BY <2>1, <2>2, <2>3, <2>4
<1>14. ASSUME NEW v \in Versions, Upgrade(v) PROVE TypeInv'
  <2>1. RowsOK'
    BY <1>14, RowsStay DEF Upgrade
  <2>2. ProcsOK'
    BY <1>14 DEF ProcsOK, Upgrade, Nothing, Places, faults, procs, rows, tasks
  <2>3. TasksOK'
    BY <1>14 DEF TasksOK, Upgrade, Idle, Places, faults, procs, rows, tasks
  <2>4. WorldOK'
    BY <1>14 DEF WorldOK, Upgrade, Places, faults, procs, rows, tasks
  <2> QED
    BY <2>1, <2>2, <2>3, <2>4
<1>15. ASSUME NEW v \in Versions, Damage(v) PROVE TypeInv'
  <2>1. RowsOK'
    BY <1>15, RowsStay DEF Damage
  <2>2. ProcsOK'
    BY <1>15 DEF ProcsOK, Damage, Nothing, Places, Loads, procs, rows, tasks
  <2>3. TasksOK'
    BY <1>15 DEF TasksOK, Damage, Idle, Places, Loads, procs, rows, tasks
  <2>4. WorldOK'
    BY <1>15 DEF WorldOK, Damage, Places, Loads, procs, rows, tasks
  <2> QED
    BY <2>1, <2>2, <2>3, <2>4
<1>16. ASSUME UNCHANGED vars PROVE TypeInv'
  <2>1. RowsOK'
    BY <1>16, RowsStay DEF vars
  <2>2. ProcsOK'
    BY <1>16 DEF ProcsOK, vars, Nothing, Places, faults, procs, rows, storage, tasks
  <2>3. TasksOK'
    BY <1>16 DEF TasksOK, vars, Idle, Places, faults, procs, rows, storage, tasks
  <2>4. WorldOK'
    BY <1>16 DEF WorldOK, vars, Places, faults, procs, rows, storage, tasks
  <2> QED
    BY <2>1, <2>2, <2>3, <2>4
<1> QED
  BY <1>1, <1>2, <1>3, <1>4, <1>5, <1>6, <1>7, <1>8, <1>9, <1>10, <1>11, <1>12, <1>13,
     <1>14, <1>15, <1>16 DEF Next

\* Every variable keeps its type.
THEOREM TypeCorrect == Spec => []TypeOK
<1>1. TypeInv => TypeOK
  BY DEF TypeInv, RowsOK, ProcsOK, TasksOK, WorldOK, TypeOK
<1> QED
  BY InitTypes, TypeStep, <1>1, PTL DEF Spec

-----------------------------------------------------------------------------
(* Staging directories.                                                    *)

LEMMA InitWork == Init => WorkInv
BY DEF Init, WorkInv, Working, Idle

\* A task keeps its staging directory at most until it returns.
LEMMA WorkStep == TypeInv /\ WorkInv /\ [Next]_vars => WorkInv'
<1> SUFFICES ASSUME TypeInv, WorkInv, [Next]_vars
             PROVE  WorkInv'
  OBVIOUS
<1> USE CatalogAssumption
    DEF TypeInv, TasksOK, ProcsOK, WorldOK, WorkInv, Working, Idle, dirs, LoadsAs
<1>1. ASSUME NEW p \in Processes, Start(p) PROVE WorkInv'
  BY <1>1 DEF Start, IsDir, IsNewest, faults, rows, storage, tasks
<1>2. ASSUME NEW p \in Processes, LoadCatalog(p) PROVE WorkInv'
  BY <1>2 DEF LoadCatalog, Loads, faults, rows, storage, tasks
<1>3. ASSUME NEW p \in Processes, RecordStart(p) PROVE WorkInv'
  BY <1>3 DEF RecordStart, Activate, ActivateFails, Nothing, Others, storage, tasks, Recorded,
     rows
<1>4. ASSUME NEW p \in Processes, Exit(p) PROVE WorkInv'
  BY <1>4 DEF Exit, Nothing, rows, storage
<1>5. ASSUME NEW t \in Tasks, Check(t) PROVE WorkInv'
  BY <1>5 DEF Check, Enter, faults, procs, rows, storage
<1>6. ASSUME NEW t \in Tasks, Reuse(t) PROVE WorkInv'
  BY <1>6 DEF Reuse, Enter, IsDir, Loads, faults, procs, rows, storage
<1>7. ASSUME NEW t \in Tasks, Unpack(t) PROVE WorkInv'
  BY <1>7 DEF Unpack, Enter, IsDir, faults, procs, rows, storage
<1>8. ASSUME NEW t \in Tasks, Refuse(t) PROVE WorkInv'
  BY <1>8 DEF Refuse, Return, faults, procs, rows, storage
<1>9. ASSUME NEW t \in Tasks, Place(t) PROVE WorkInv'
  BY <1>9 DEF Place, Enter, IsDir, Return, faults, procs, rows
<1>10. ASSUME NEW t \in Tasks, PickPrevious(t) PROVE WorkInv'
  BY <1>10 DEF PickPrevious, Enter, IsDir, IsNewest, Recorded, faults, procs, rows, storage
<1>11. ASSUME NEW t \in Tasks, Load(t) PROVE WorkInv'
  BY <1>11 DEF Load, Beside, Enter, Loads, Return, faults, rows, storage
<1>12. ASSUME NEW t \in Tasks, Record(t) PROVE WorkInv'
  BY <1>12 DEF Record, Activate, ActivateFails, Others, Return, procs, storage, Recorded, rows
<1>13. ASSUME NEW v \in Versions, Publish(v) PROVE WorkInv'
  BY <1>13 DEF Publish, faults, procs, rows, tasks
<1>14. ASSUME NEW v \in Versions, Upgrade(v) PROVE WorkInv'
  BY <1>14 DEF Upgrade, faults, procs, rows, tasks
<1>15. ASSUME NEW v \in Versions, Damage(v) PROVE WorkInv'
  BY <1>15 DEF Damage, Loads, procs, rows, tasks
<1>16. ASSUME UNCHANGED vars PROVE WorkInv'
  BY <1>16 DEF vars, faults, procs, rows, storage, tasks
<1> QED
  BY <1>1, <1>2, <1>3, <1>4, <1>5, <1>6, <1>7, <1>8, <1>9, <1>10, <1>11, <1>12, <1>13,
     <1>14, <1>15, <1>16 DEF Next

\* A staging directory outlives its task only if its process ended with it or it could not
\* be removed, on every path out of an update (catalog_update.rs 284-322, 418-426).
THEOREM StagingIsRemoved == Spec => []NoStrayStaging
<1>1. TypeInv /\ WorkInv => NoStrayStaging
  BY DEF TypeInv, TasksOK, WorkInv, Working, NoStrayStaging, Idle
<1> QED
  BY InitTypes, TypeStep, InitWork, WorkStep, <1>1, PTL DEF Spec

\* Whatever became of the active version, a start finds a catalog
\* (catalog.rs 95-190, src-tauri/src/lib.rs 698-744).
THEOREM StartsSucceed == Spec => []StartsFindCatalog
<1>1. TypeInv => StartsFindCatalog
  BY DEF TypeInv, ProcsOK, StartsFindCatalog
<1> QED
  BY InitTypes, TypeStep, <1>1, PTL DEF Spec

-----------------------------------------------------------------------------
(* Directories and rows.                                                   *)

LEMMA InitSound == Init => SoundInv
<1> SUFFICES ASSUME Init PROVE SoundInv
  OBVIOUS
<1> USE CatalogAssumption DEF Init
<1>1. Recorded = {}
  BY DEF Recorded
<1>2. \A t \in Tasks : job[t].at # "reloaded"
  BY DEF Idle
<1> QED
  BY <1>1, <1>2 DEF SoundInv, ActiveIsNewest, Undamaged, Places

\* Activating is the only way to write to the table.
LEMMA OneWriter == TypeInv /\ [Next]_vars => Written
<1> SUFFICES ASSUME TypeInv, [Next]_vars
             PROVE  Written
  OBVIOUS
<1> USE CatalogAssumption
    DEF TypeInv, Written, dirs
<1>1. ASSUME NEW p \in Processes, Start(p) PROVE Written
  BY <1>1 DEF Start, IsDir, IsNewest, faults, rows, storage, tasks
<1>2. ASSUME NEW p \in Processes, LoadCatalog(p) PROVE Written
  BY <1>2 DEF LoadCatalog, Loads, faults, rows, storage, tasks
<1>3. ASSUME NEW p \in Processes, RecordStart(p) PROVE Written
  BY <1>3 DEF RecordStart, ActivateFails, ProcsOK, Nothing
<1>4. ASSUME NEW p \in Processes, Exit(p) PROVE Written
  BY <1>4 DEF Exit, Idle, Nothing, rows, storage
<1>5. ASSUME NEW t \in Tasks, Check(t) PROVE Written
  BY <1>5 DEF Check, Enter, Idle, faults, procs, rows, storage
<1>6. ASSUME NEW t \in Tasks, Reuse(t) PROVE Written
  BY <1>6 DEF Reuse, Enter, IsDir, Loads, faults, procs, rows, storage
<1>7. ASSUME NEW t \in Tasks, Unpack(t) PROVE Written
  BY <1>7 DEF Unpack, Enter, IsDir, faults, procs, rows, storage
<1>8. ASSUME NEW t \in Tasks, Refuse(t) PROVE Written
  BY <1>8 DEF Refuse, Return, faults, procs, rows, storage, Idle
<1>9. ASSUME NEW t \in Tasks, Place(t) PROVE Written
  BY <1>9 DEF Place, Enter, IsDir, Return, faults, procs, rows, Idle
<1>10. ASSUME NEW t \in Tasks, PickPrevious(t) PROVE Written
  BY <1>10 DEF PickPrevious, Enter, Idle, IsDir, IsNewest, Recorded, faults, procs, rows,
     storage
<1>11. ASSUME NEW t \in Tasks, Load(t) PROVE Written
  BY <1>11 DEF Load, Beside, Enter, Loads, Return, faults, rows, storage, Idle
<1>12. ASSUME NEW t \in Tasks, Record(t) PROVE Written
  BY <1>12, TaskTarget DEF Record, ActivateFails
<1>13. ASSUME NEW v \in Versions, Publish(v) PROVE Written
  BY <1>13 DEF Publish, faults, procs, rows, tasks
<1>14. ASSUME NEW v \in Versions, Upgrade(v) PROVE Written
  BY <1>14 DEF Upgrade, faults, procs, rows, tasks
<1>15. ASSUME NEW v \in Versions, Damage(v) PROVE Written
  BY <1>15 DEF Damage, Loads, procs, rows, tasks
<1>16. ASSUME UNCHANGED vars PROVE Written
  BY <1>16 DEF vars, faults, procs, rows, storage, tasks
<1> QED
  BY <1>1, <1>2, <1>3, <1>4, <1>5, <1>6, <1>7, <1>8, <1>9, <1>10, <1>11, <1>12, <1>13,
     <1>14, <1>15, <1>16 DEF Next

LEMMA NewestStep == TypeInv /\ ActiveIsNewest /\ [Next]_vars => ActiveIsNewest'
<1> SUFFICES ASSUME TypeInv, ActiveIsNewest, [Next]_vars
             PROVE  ActiveIsNewest'
  OBVIOUS
<1>1. CASE UNCHANGED rows
  BY <1>1, RowsStay DEF TypeInv, ActiveIsNewest, IsNewest, rows
<1>2. ASSUME NEW v \in Versions, NEW place \in Places, Activate(v, place)
      PROVE  ActiveIsNewest'
  BY <1>2, ActivateOrders DEF TypeInv, ActiveIsNewest
<1> QED
  BY <1>1, <1>2, OneWriter DEF Written

\* Nothing that does not load is recorded, placed or loaded.
LEMMA UndamagedStep == TypeInv /\ WorkInv /\ Undamaged /\ [Next]_vars => (damages' = 0 => Undamaged')
<1> SUFFICES ASSUME TypeInv, WorkInv, Undamaged, [Next]_vars, damages' = 0
             PROVE  Undamaged'
  OBVIOUS
<1> USE CatalogAssumption
    DEF TypeInv, Undamaged, Loads, LoadsAs, Kept, dirs
<1>1. ASSUME NEW p \in Processes, Start(p) PROVE Undamaged'
  <2>1. \A w \in Versions : content'[w] \in {Absent, w}
    BY <1>1 DEF Start, IsDir, IsNewest, faults, rows, storage, tasks
  <2>2. \A w \in Recorded' : Kept(path[w], w)'
    BY <1>1, RowsStay DEF RowsOK, Start, Places, Recorded, IsDir, IsNewest, faults, rows,
       storage, tasks
  <2>3. \A q \in Processes : stage'[q] = "loaded" => Kept(picked[q], memory[q].label)'
    BY <1>1 DEF ProcsOK, Start, Nothing, Places, IsDir, IsNewest, faults, rows, storage, tasks
  <2>4. \A u \in Tasks : job'[u].at = "reloaded" => Kept(job[u].place, job[u].version)'
    BY <1>1, TaskTarget DEF TasksOK, Start, Idle, Places, IsDir, IsNewest, faults, rows,
       storage, tasks
  <2> QED
    BY <2>1, <2>2, <2>3, <2>4
<1>2. ASSUME NEW p \in Processes, LoadCatalog(p) PROVE Undamaged'
  <2>1. \A w \in Versions : content'[w] \in {Absent, w}
    BY <1>2 DEF LoadCatalog, Loads, faults, rows, storage, tasks
  <2>2. \A w \in Recorded' : Kept(path[w], w)'
    BY <1>2, RowsStay DEF RowsOK, LoadCatalog, Places, Recorded, Loads, faults, rows, storage,
       tasks
  <2>3. \A q \in Processes : stage'[q] = "loaded" => Kept(picked[q], memory[q].label)'
    BY <1>2 DEF ProcsOK, LoadCatalog, Nothing, Places, Loads, faults, rows, storage, tasks
  <2>4. \A u \in Tasks : job'[u].at = "reloaded" => Kept(job[u].place, job[u].version)'
    BY <1>2, TaskTarget DEF TasksOK, LoadCatalog, Idle, Places, Loads, faults, rows, storage,
       tasks
  <2> QED
    BY <2>1, <2>2, <2>3, <2>4
<1>3. ASSUME NEW p \in Processes, RecordStart(p) PROVE Undamaged'
  <2>1. \A w \in Versions : content'[w] \in {Absent, w}
    BY <1>3 DEF RecordStart, ActivateFails, Nothing, Others, storage, tasks, rows
  <2>2. \A w \in Recorded' : Kept(path[w], w)'
    <3> DEFINE v0 == memory[p].label
               place == picked[p]
    <3>1. v0 \in Versions /\ place \in Places /\ Kept(place, v0) /\ content' = content
      BY <1>3 DEF RecordStart, ProcsOK, Nothing, storage
    <3>2. CASE UNCHANGED rows
      BY <3>1, <3>2, RowsStay DEF rows
    <3>3. CASE Activate(v0, place)
      <4> HIDE DEF v0, place
      <4>1. /\ Recorded' = Recorded \cup {v0} /\ path'[v0] = place
            /\ \A w \in Versions \ {v0} : path'[w] = path[w]
        BY <3>1, <3>3, ActivateOrders
      <4> QED
        BY <3>1, <4>1 DEF Recorded
    <3> QED
      BY <1>3, <3>2, <3>3 DEF RecordStart, ActivateFails
  <2>3. \A q \in Processes : stage'[q] = "loaded" => Kept(picked[q], memory[q].label)'
    BY <1>3 DEF ProcsOK, RecordStart, Nothing, Places, ActivateFails, Others, storage, tasks,
       rows
  <2>4. \A u \in Tasks : job'[u].at = "reloaded" => Kept(job[u].place, job[u].version)'
    BY <1>3, TaskTarget DEF TasksOK, RecordStart, Idle, Places, ActivateFails, Nothing, Others,
       storage, tasks, rows
  <2> QED
    BY <2>1, <2>2, <2>3, <2>4
<1>4. ASSUME NEW p \in Processes, Exit(p) PROVE Undamaged'
  <2>1. \A w \in Versions : content'[w] \in {Absent, w}
    BY <1>4 DEF Exit, Idle, Nothing, rows, storage
  <2>2. \A w \in Recorded' : Kept(path[w], w)'
    BY <1>4, RowsStay DEF RowsOK, Exit, Places, Recorded, Idle, Nothing, rows, storage
  <2>3. \A q \in Processes : stage'[q] = "loaded" => Kept(picked[q], memory[q].label)'
    BY <1>4 DEF ProcsOK, Exit, Nothing, Places, Idle, rows, storage
  <2>4. \A u \in Tasks : job'[u].at = "reloaded" => Kept(job[u].place, job[u].version)'
    BY <1>4, TaskTarget DEF TasksOK, Exit, Idle, Places, Nothing, rows, storage
  <2> QED
    BY <2>1, <2>2, <2>3, <2>4
<1>5. ASSUME NEW t \in Tasks, Check(t) PROVE Undamaged'
  <2>1. \A w \in Versions : content'[w] \in {Absent, w}
    BY <1>5 DEF Check, Enter, Idle, faults, procs, rows, storage
  <2>2. \A w \in Recorded' : Kept(path[w], w)'
    BY <1>5, RowsStay DEF RowsOK, Check, Places, Recorded, Enter, Idle, faults, procs, rows,
       storage
  <2>3. \A q \in Processes : stage'[q] = "loaded" => Kept(picked[q], memory[q].label)'
    BY <1>5 DEF ProcsOK, Check, Nothing, Places, Enter, Idle, faults, procs, rows, storage
  <2>4. \A u \in Tasks : job'[u].at = "reloaded" => Kept(job[u].place, job[u].version)'
    BY <1>5, TaskTarget DEF TasksOK, Check, Idle, Places, Enter, faults, procs, rows, storage
  <2> QED
    BY <2>1, <2>2, <2>3, <2>4
<1>6. ASSUME NEW t \in Tasks, Reuse(t) PROVE Undamaged'
  <2>1. \A w \in Versions : content'[w] \in {Absent, w}
    BY <1>6 DEF Reuse, Enter, IsDir, Loads, faults, procs, rows, storage
  <2>2. \A w \in Recorded' : Kept(path[w], w)'
    BY <1>6, RowsStay DEF RowsOK, Reuse, Places, Recorded, Enter, IsDir, Loads, faults, procs,
       rows, storage
  <2>3. \A q \in Processes : stage'[q] = "loaded" => Kept(picked[q], memory[q].label)'
    BY <1>6 DEF ProcsOK, Reuse, Nothing, Places, Enter, IsDir, Loads, faults, procs, rows,
       storage
  <2>4. \A u \in Tasks : job'[u].at = "reloaded" => Kept(job[u].place, job[u].version)'
    BY <1>6, TaskTarget DEF TasksOK, Reuse, Idle, Places, Enter, IsDir, Loads, faults, procs,
       rows, storage
  <2> QED
    BY <2>1, <2>2, <2>3, <2>4
<1>7. ASSUME NEW t \in Tasks, Unpack(t) PROVE Undamaged'
  <2>1. \A w \in Versions : content'[w] \in {Absent, w}
    BY <1>7 DEF Unpack, Enter, IsDir, faults, procs, rows, storage
  <2>2. \A w \in Recorded' : Kept(path[w], w)'
    BY <1>7, RowsStay DEF RowsOK, Unpack, Places, Recorded, Enter, IsDir, faults, procs, rows,
       storage
  <2>3. \A q \in Processes : stage'[q] = "loaded" => Kept(picked[q], memory[q].label)'
    BY <1>7 DEF ProcsOK, Unpack, Nothing, Places, Enter, IsDir, faults, procs, rows, storage
  <2>4. \A u \in Tasks : job'[u].at = "reloaded" => Kept(job[u].place, job[u].version)'
    BY <1>7, TaskTarget DEF TasksOK, Unpack, Idle, Places, Enter, IsDir, faults, procs, rows,
       storage
  <2> QED
    BY <2>1, <2>2, <2>3, <2>4
<1>8. ASSUME NEW t \in Tasks, Refuse(t) PROVE Undamaged'
  <2>1. \A w \in Versions : content'[w] \in {Absent, w}
    BY <1>8 DEF Refuse, Return, faults, procs, rows, storage, Idle
  <2>2. \A w \in Recorded' : Kept(path[w], w)'
    BY <1>8, RowsStay DEF RowsOK, Refuse, Places, Recorded, Return, faults, procs, rows,
       storage, Idle
  <2>3. \A q \in Processes : stage'[q] = "loaded" => Kept(picked[q], memory[q].label)'
    BY <1>8 DEF ProcsOK, Refuse, Nothing, Places, Return, faults, procs, rows, storage, Idle
  <2>4. \A u \in Tasks : job'[u].at = "reloaded" => Kept(job[u].place, job[u].version)'
    BY <1>8, TaskTarget DEF TasksOK, Refuse, Idle, Places, Return, faults, procs, rows, storage
  <2> QED
    BY <2>1, <2>2, <2>3, <2>4
<1>9. ASSUME NEW t \in Tasks, Place(t) PROVE Undamaged'
  <2>1. \A w \in Versions : content'[w] \in {Absent, w}
    BY <1>9 DEF WorldOK, Place, Places, Enter, IsDir, Return, faults, procs, rows, Idle
  <2>2. \A w \in Recorded' : Kept(path[w], w)'
    BY <1>9, RowsStay DEF WorldOK, RowsOK, Place, Places, Recorded, Enter, IsDir, Return,
       faults, procs, rows, Idle
  <2>3. \A q \in Processes : stage'[q] = "loaded" => Kept(picked[q], memory[q].label)'
    BY <1>9 DEF ProcsOK, WorldOK, Place, Nothing, Places, Enter, IsDir, Return, faults, procs,
       rows, Idle
  <2>4. \A u \in Tasks : job'[u].at = "reloaded" => Kept(job[u].place, job[u].version)'
    <3>1. job[t].version \in Versions
      BY <1>9, TaskTarget DEF Place
    <3> SUFFICES ASSUME NEW u \in Tasks, job'[u].at = "reloaded"
                 PROVE  Kept(job[u].place, job[u].version)'
      OBVIOUS
    <3>2. job'[u] = job[u] /\ job[u].place \in Places /\ job[u].version \in Versions
      BY <1>9, TaskTarget DEF Place, Return, Enter, TasksOK, Idle
    <3>3. Kept(job[u].place, job[u].version)
      BY <3>2
    <3>4. \A x \in Places : content[x] # Absent => content'[x] = content[x]
      BY <1>9, <3>1 DEF Place, IsDir, WorldOK
    <3> QED
      BY <3>2, <3>3, <3>4
  <2> QED
    BY <2>1, <2>2, <2>3, <2>4
<1>10. ASSUME NEW t \in Tasks, PickPrevious(t) PROVE Undamaged'
  <2>1. \A w \in Versions : content'[w] \in {Absent, w}
    BY <1>10 DEF PickPrevious, Enter, Idle, IsDir, IsNewest, Recorded, faults, procs, rows,
       storage
  <2>2. \A w \in Recorded' : Kept(path[w], w)'
    BY <1>10, RowsStay DEF RowsOK, PickPrevious, Places, Recorded, Enter, Idle, IsDir, IsNewest,
       faults, procs, rows, storage
  <2>3. \A q \in Processes : stage'[q] = "loaded" => Kept(picked[q], memory[q].label)'
    BY <1>10 DEF ProcsOK, PickPrevious, Nothing, Places, Enter, Idle, IsDir, IsNewest, Recorded,
       faults, procs, rows, storage
  <2>4. \A u \in Tasks : job'[u].at = "reloaded" => Kept(job[u].place, job[u].version)'
    BY <1>10, TaskTarget DEF TasksOK, PickPrevious, Idle, Places, Enter, IsDir, IsNewest,
       Recorded, faults, procs, rows, storage
  <2> QED
    BY <2>1, <2>2, <2>3, <2>4
<1>11. ASSUME NEW t \in Tasks, Load(t) PROVE Undamaged'
  <2>1. \A w \in Versions : content'[w] \in {Absent, w}
    BY <1>11 DEF Load, Beside, Enter, Loads, Return, faults, rows, storage, Idle
  <2>2. \A w \in Recorded' : Kept(path[w], w)'
    BY <1>11, RowsStay DEF RowsOK, Load, Places, Recorded, Beside, Enter, Loads, Return, faults,
       rows, storage, Idle
  <2>3. \A q \in Processes : stage'[q] = "loaded" => Kept(picked[q], memory[q].label)'
    <3>1. stage[RunsIn[t]] = "on"
      BY <1>11 DEF Load, WorkInv, Working, Idle
    <3>2. stage' = stage /\ picked' = picked /\ content' = content
          /\ \A q \in Processes : q # RunsIn[t] => memory'[q] = memory[q]
      BY <1>11 DEF Load, storage, ProcsOK
    <3> QED
      BY <3>1, <3>2
  <2>4. \A u \in Tasks : job'[u].at = "reloaded" => Kept(job[u].place, job[u].version)'
    BY <1>11, TaskTarget DEF TasksOK, Load, Idle, Places, Beside, Enter, Loads, Return, faults,
       rows, storage
  <2> QED
    BY <2>1, <2>2, <2>3, <2>4
<1>12. ASSUME NEW t \in Tasks, Record(t) PROVE Undamaged'
  <2>1. \A w \in Versions : content'[w] \in {Absent, w}
    BY <1>12 DEF Record, ActivateFails, Others, Return, procs, storage, rows, Idle
  <2>2. \A w \in Recorded' : Kept(path[w], w)'
    <3> DEFINE v0 == job[t].version
               place == job[t].place
    <3>1. v0 \in Versions /\ place \in Places /\ Kept(place, v0) /\ content' = content
      BY <1>12, TaskTarget DEF Record, storage
    <3>2. CASE UNCHANGED rows
      BY <3>1, <3>2, RowsStay DEF rows
    <3>3. CASE Activate(v0, place)
      <4> HIDE DEF v0, place, Kept
      <4>1. /\ Recorded' = Recorded \cup {v0} /\ path'[v0] = place
            /\ \A w \in Versions \ {v0} : path'[w] = path[w]
        BY <3>1, <3>3, ActivateOrders DEF TypeInv
      <4> USE DEF Kept
      <4> QED
        BY <3>1, <4>1 DEF Recorded
    <3> QED
      BY <1>12, <3>2, <3>3 DEF Record, ActivateFails
  <2>3. \A q \in Processes : stage'[q] = "loaded" => Kept(picked[q], memory[q].label)'
    BY <1>12 DEF ProcsOK, Record, Nothing, Places, ActivateFails, Others, Return, procs,
       storage, rows, Idle
  <2>4. \A u \in Tasks : job'[u].at = "reloaded" => Kept(job[u].place, job[u].version)'
    BY <1>12, TaskTarget DEF TasksOK, Record, Idle, Places, ActivateFails, Others, Return,
       procs, storage, rows
  <2> QED
    BY <2>1, <2>2, <2>3, <2>4
<1>13. ASSUME NEW v \in Versions, Publish(v) PROVE Undamaged'
  <2>1. \A w \in Versions : content'[w] \in {Absent, w}
    BY <1>13 DEF Publish, faults, procs, rows, tasks
  <2>2. \A w \in Recorded' : Kept(path[w], w)'
    BY <1>13, RowsStay DEF RowsOK, Publish, Places, Recorded, faults, procs, rows, tasks
  <2>3. \A q \in Processes : stage'[q] = "loaded" => Kept(picked[q], memory[q].label)'
    BY <1>13 DEF ProcsOK, Publish, Nothing, Places, faults, procs, rows, tasks
  <2>4. \A u \in Tasks : job'[u].at = "reloaded" => Kept(job[u].place, job[u].version)'
    BY <1>13, TaskTarget DEF TasksOK, Publish, Idle, Places, faults, procs, rows, tasks
  <2> QED
    BY <2>1, <2>2, <2>3, <2>4
<1>14. ASSUME NEW v \in Versions, Upgrade(v) PROVE Undamaged'
  <2>1. \A w \in Versions : content'[w] \in {Absent, w}
    BY <1>14 DEF WorldOK, Upgrade, Places, faults, procs, rows, tasks
  <2>2. \A w \in Recorded' : Kept(path[w], w)'
    BY <1>14, RowsStay DEF WorldOK, RowsOK, Upgrade, Places, Recorded, faults, procs, rows,
       tasks
  <2>3. \A q \in Processes : stage'[q] = "loaded" => Kept(picked[q], memory[q].label)'
    BY <1>14 DEF ProcsOK, WorldOK, Upgrade, Nothing, Places, faults, procs, rows, tasks
  <2>4. \A u \in Tasks : job'[u].at = "reloaded" => Kept(job[u].place, job[u].version)'
    BY <1>14, TaskTarget DEF TasksOK, WorldOK, Upgrade, Idle, Places, faults, procs, rows, tasks
  <2> QED
    BY <2>1, <2>2, <2>3, <2>4
<1>15. ASSUME NEW v \in Versions, Damage(v) PROVE Undamaged'
  <2>1. \A w \in Versions : content'[w] \in {Absent, w}
    BY <1>15 DEF WorldOK, Damage, Places, Loads, procs, rows, tasks
  <2>2. \A w \in Recorded' : Kept(path[w], w)'
    BY <1>15, RowsStay DEF WorldOK, RowsOK, Damage, Places, Recorded, Loads, procs, rows, tasks
  <2>3. \A q \in Processes : stage'[q] = "loaded" => Kept(picked[q], memory[q].label)'
    BY <1>15 DEF ProcsOK, WorldOK, Damage, Nothing, Places, Loads, procs, rows, tasks
  <2>4. \A u \in Tasks : job'[u].at = "reloaded" => Kept(job[u].place, job[u].version)'
    BY <1>15, TaskTarget DEF TasksOK, WorldOK, Damage, Idle, Places, Loads, procs, rows, tasks
  <2> QED
    BY <2>1, <2>2, <2>3, <2>4
<1>16. ASSUME UNCHANGED vars PROVE Undamaged'
  <2>1. \A w \in Versions : content'[w] \in {Absent, w}
    BY <1>16 DEF vars, faults, procs, rows, storage, tasks
  <2>2. \A w \in Recorded' : Kept(path[w], w)'
    BY <1>16, RowsStay DEF RowsOK, vars, Places, Recorded, faults, procs, rows, storage, tasks
  <2>3. \A q \in Processes : stage'[q] = "loaded" => Kept(picked[q], memory[q].label)'
    BY <1>16 DEF ProcsOK, vars, Nothing, Places, faults, procs, rows, storage, tasks
  <2>4. \A u \in Tasks : job'[u].at = "reloaded" => Kept(job[u].place, job[u].version)'
    BY <1>16, TaskTarget DEF TasksOK, vars, Idle, Places, faults, procs, rows, storage, tasks
  <2> QED
    BY <2>1, <2>2, <2>3, <2>4
<1> QED
  BY <1>1, <1>2, <1>3, <1>4, <1>5, <1>6, <1>7, <1>8, <1>9, <1>10, <1>11, <1>12, <1>13,
     <1>14, <1>15, <1>16 DEF Next

\* Whatever activates a version leaves the table and the directories whole.
LEMMA SoundStep == TypeInv /\ WorkInv /\ SoundInv /\ [Next]_vars => SoundInv'
<1> SUFFICES ASSUME TypeInv, WorkInv, SoundInv, [Next]_vars
             PROVE  SoundInv'
  OBVIOUS
<1>1. ActiveIsNewest'
  BY NewestStep DEF SoundInv
<1>2. damages' = 0 => damages = 0
  <2>1. ASSUME NEW p \in Processes, Start(p) PROVE damages' = 0 => damages = 0
    BY <2>1 DEF Start, TypeInv, WorldOK, faults, ActivateFails, Activate
  <2>2. ASSUME NEW p \in Processes, LoadCatalog(p) PROVE damages' = 0 => damages = 0
    BY <2>2 DEF LoadCatalog, TypeInv, WorldOK, faults, ActivateFails, Activate
  <2>3. ASSUME NEW p \in Processes, RecordStart(p) PROVE damages' = 0 => damages = 0
    BY <2>3 DEF RecordStart, TypeInv, WorldOK, faults, ActivateFails, Activate
  <2>4. ASSUME NEW p \in Processes, Exit(p) PROVE damages' = 0 => damages = 0
    BY <2>4 DEF Exit, TypeInv, WorldOK, faults, ActivateFails, Activate
  <2>5. ASSUME NEW t \in Tasks, Check(t) PROVE damages' = 0 => damages = 0
    BY <2>5 DEF Check, TypeInv, WorldOK, faults, ActivateFails, Activate
  <2>6. ASSUME NEW t \in Tasks, Reuse(t) PROVE damages' = 0 => damages = 0
    BY <2>6 DEF Reuse, TypeInv, WorldOK, faults, ActivateFails, Activate
  <2>7. ASSUME NEW t \in Tasks, Unpack(t) PROVE damages' = 0 => damages = 0
    BY <2>7 DEF Unpack, TypeInv, WorldOK, faults, ActivateFails, Activate
  <2>8. ASSUME NEW t \in Tasks, Refuse(t) PROVE damages' = 0 => damages = 0
    BY <2>8 DEF Refuse, TypeInv, WorldOK, faults, ActivateFails, Activate
  <2>9. ASSUME NEW t \in Tasks, Place(t) PROVE damages' = 0 => damages = 0
    BY <2>9 DEF Place, TypeInv, WorldOK, faults, ActivateFails, Activate
  <2>10. ASSUME NEW t \in Tasks, PickPrevious(t) PROVE damages' = 0 => damages = 0
    BY <2>10 DEF PickPrevious, TypeInv, WorldOK, faults, ActivateFails, Activate
  <2>11. ASSUME NEW t \in Tasks, Load(t) PROVE damages' = 0 => damages = 0
    BY <2>11 DEF Load, TypeInv, WorldOK, faults, ActivateFails, Activate
  <2>12. ASSUME NEW t \in Tasks, Record(t) PROVE damages' = 0 => damages = 0
    BY <2>12 DEF Record, TypeInv, WorldOK, faults, ActivateFails, Activate
  <2>13. ASSUME NEW v \in Versions, Publish(v) PROVE damages' = 0 => damages = 0
    BY <2>13 DEF Publish, TypeInv, WorldOK, faults, ActivateFails, Activate
  <2>14. ASSUME NEW v \in Versions, Upgrade(v) PROVE damages' = 0 => damages = 0
    BY <2>14 DEF Upgrade, TypeInv, WorldOK, faults, ActivateFails, Activate
  <2>15. ASSUME NEW v \in Versions, Damage(v) PROVE damages' = 0 => damages = 0
    BY <2>15 DEF Damage, TypeInv, WorldOK, faults, ActivateFails, Activate
  <2>16. ASSUME UNCHANGED vars PROVE damages' = 0 => damages = 0
    BY <2>16 DEF vars, faults
  <2> QED
    BY <2>1, <2>2, <2>3, <2>4, <2>5, <2>6, <2>7, <2>8, <2>9, <2>10, <2>11, <2>12, <2>13,
       <2>14, <2>15, <2>16 DEF Next
<1>3. damages' = 0 => Undamaged'
  BY <1>2, UndamagedStep DEF SoundInv
<1> QED
  BY <1>1, <1>3 DEF SoundInv

\* Wherever a process ends between unpacking, renaming and recording, the active row is
\* the one that was recorded last, and the path of every row holds its version, unless it
\* was damaged from outside or a package replaced the shipped catalog
\* (catalog_update.rs 253-353, store.rs 405-465).
THEOREM StorageStaysSound == Spec => []StorageIsSound
<1>1. SoundInv => StorageIsSound
  BY DEF SoundInv, ActiveIsNewest, Undamaged, Kept, StorageIsSound
<1> QED
  BY InitTypes, TypeStep, InitWork, WorkStep, InitSound, SoundStep, <1>1, PTL DEF Spec

-----------------------------------------------------------------------------
(* The catalog in memory and the active row.                               *)

LEMMA InitAgreed == Init => AgreedInv
BY DEF Init, AgreedInv, Agreed

\* What Agreed says of a process depends on its part of the state only.
LEMMA AgreedStays ==
  ASSUME NEW p \in Processes, Agreed(p),
         stage'[p] = "on" => stage[p] = "on" /\ memory'[p] = memory[p],
         p \in overtaken => p \in overtaken' \/ stage'[p] # "on",
         active' = active,
         \A t \in Tasks : RunsIn[t] = p =>
           \/ job'[t] = job[t]
           \/ job[t].at # "reloaded" /\ job'[t].at # "reloaded"
  PROVE  Agreed(p)'
BY DEF Agreed, Beside

\* Whoever writes to the table overtakes the others, and at once what it has itself.
LEMMA AgreedStep == TypeInv /\ WorkInv /\ AgreedInv /\ [Next]_vars => AgreedInv'
<1> SUFFICES ASSUME TypeInv, WorkInv, AgreedInv, [Next]_vars
             PROVE  AgreedInv'
  OBVIOUS
<1> USE CatalogAssumption
    DEF TypeInv
<1>1. ASSUME NEW p \in Processes, Start(p) PROVE AgreedInv'
  <2> SUFFICES ASSUME NEW q \in Processes PROVE Agreed(q)'
    BY DEF AgreedInv
  <2>1. active' = active
    BY <1>1 DEF Start, rows, Activate
  <2>2. q \in overtaken => q \in overtaken' \/ stage'[q] # "on"
    BY <1>1 DEF Start, ProcsOK
  <2>3. stage'[q] = "on" => stage[q] = "on" /\ memory'[q] = memory[q]
    BY <1>1 DEF Start, ProcsOK
  <2>4. \A t \in Tasks : job'[t] = job[t] \/ (RunsIn[t] = p /\ stage'[p] = "off")
    BY <1>1 DEF Start, tasks, ProcsOK
  <2>5. CASE q = p
    BY <2>5, <1>1 DEF Start, Agreed, ProcsOK
  <2>6. CASE q # p
    BY <2>1, <2>2, <2>3, <2>4, <2>6, AgreedStays DEF AgreedInv
  <2> QED
    BY <2>5, <2>6
<1>2. ASSUME NEW p \in Processes, LoadCatalog(p) PROVE AgreedInv'
  <2> SUFFICES ASSUME NEW q \in Processes PROVE Agreed(q)'
    BY DEF AgreedInv
  <2>1. active' = active
    BY <1>2 DEF LoadCatalog, rows, Activate
  <2>2. q \in overtaken => q \in overtaken' \/ stage'[q] # "on"
    BY <1>2 DEF LoadCatalog, ProcsOK
  <2>3. stage'[q] = "on" => stage[q] = "on" /\ memory'[q] = memory[q]
    BY <1>2 DEF LoadCatalog, ProcsOK
  <2>4. \A t \in Tasks : job'[t] = job[t] \/ (RunsIn[t] = p /\ stage'[p] = "off")
    BY <1>2 DEF LoadCatalog, tasks, ProcsOK
  <2>5. CASE q = p
    BY <2>5, <1>2 DEF LoadCatalog, Agreed, ProcsOK
  <2>6. CASE q # p
    BY <2>1, <2>2, <2>3, <2>4, <2>6, AgreedStays DEF AgreedInv
  <2> QED
    BY <2>5, <2>6
<1>3. ASSUME NEW p \in Processes, RecordStart(p) PROVE AgreedInv'
  <2> SUFFICES ASSUME NEW q \in Processes PROVE Agreed(q)'
    BY DEF AgreedInv
  <2>1. stage[p] = "loaded" /\ job' = job
    BY <1>3 DEF RecordStart, tasks
  <2>2. CASE Activate(memory[p].label, picked[p]) /\ stage' = [stage EXCEPT ![p] = "on"]
             /\ overtaken' = Others(p) /\ UNCHANGED memory
    <3>1. CASE q = p
      <4>1. \A t \in Tasks : RunsIn[t] = p => job'[t].at # "reloaded"
        BY <2>1 DEF WorkInv, Working, Idle
      <4>2. active' = {memory'[p].label}
        BY <2>2 DEF Activate
      <4> QED
        BY <3>1, <4>1, <4>2 DEF Agreed
    <3>2. CASE q # p
      BY <2>2, <3>2 DEF Agreed, Others, ProcsOK
    <3> QED
      BY <3>1, <3>2
  <2>3. CASE ActivateFails /\ stage' = [stage EXCEPT ![p] = "off"]
             /\ memory' = [memory EXCEPT ![p] = Nothing] /\ UNCHANGED overtaken
    <3>1. CASE q = p
      BY <2>3, <3>1 DEF Agreed, ProcsOK
    <3>2. CASE q # p
      BY <2>1, <2>3, <3>2, AgreedStays DEF AgreedInv, ProcsOK, ActivateFails, rows
    <3> QED
      BY <3>1, <3>2
  <2> QED
    BY <1>3, <2>2, <2>3 DEF RecordStart
<1>4. ASSUME NEW p \in Processes, Exit(p) PROVE AgreedInv'
  <2> SUFFICES ASSUME NEW q \in Processes PROVE Agreed(q)'
    BY DEF AgreedInv
  <2>1. active' = active
    BY <1>4 DEF Exit, rows, Activate
  <2>2. q \in overtaken => q \in overtaken' \/ stage'[q] # "on"
    BY <1>4 DEF Exit, ProcsOK
  <2>3. stage'[q] = "on" => stage[q] = "on" /\ memory'[q] = memory[q]
    BY <1>4 DEF Exit, ProcsOK
  <2>4. \A t \in Tasks : job'[t] = job[t] \/ (RunsIn[t] = p /\ stage'[p] = "off")
    BY <1>4 DEF Exit, tasks, ProcsOK
  <2>5. CASE q = p
    BY <2>5, <1>4 DEF Exit, Agreed, ProcsOK
  <2>6. CASE q # p
    BY <2>1, <2>2, <2>3, <2>4, <2>6, AgreedStays DEF AgreedInv
  <2> QED
    BY <2>5, <2>6
<1>5. ASSUME NEW t \in Tasks, Check(t) PROVE AgreedInv'
  <2>1. UNCHANGED <<rows, procs, overtaken>>
    BY <1>5 DEF Check
  <2>2. \A u \in Tasks : job'[u] = job[u] \/ (job[u].at # "reloaded" /\ job'[u].at # "reloaded")
    BY <1>5 DEF Check, Enter, Return, TasksOK, Idle
  <2> QED
    BY <2>1, <2>2, AgreedStays DEF AgreedInv, rows, procs
<1>6. ASSUME NEW t \in Tasks, Reuse(t) PROVE AgreedInv'
  <2>1. UNCHANGED <<rows, procs, overtaken>>
    BY <1>6 DEF Reuse
  <2>2. \A u \in Tasks : job'[u] = job[u] \/ (job[u].at # "reloaded" /\ job'[u].at # "reloaded")
    BY <1>6 DEF Reuse, Enter, Return, TasksOK, Idle
  <2> QED
    BY <2>1, <2>2, AgreedStays DEF AgreedInv, rows, procs
<1>7. ASSUME NEW t \in Tasks, Unpack(t) PROVE AgreedInv'
  <2>1. UNCHANGED <<rows, procs, overtaken>>
    BY <1>7 DEF Unpack
  <2>2. \A u \in Tasks : job'[u] = job[u] \/ (job[u].at # "reloaded" /\ job'[u].at # "reloaded")
    BY <1>7 DEF Unpack, Enter, Return, TasksOK, Idle
  <2> QED
    BY <2>1, <2>2, AgreedStays DEF AgreedInv, rows, procs
<1>8. ASSUME NEW t \in Tasks, Refuse(t) PROVE AgreedInv'
  <2>1. UNCHANGED <<rows, procs, overtaken>>
    BY <1>8 DEF Refuse
  <2>2. \A u \in Tasks : job'[u] = job[u] \/ (job[u].at # "reloaded" /\ job'[u].at # "reloaded")
    BY <1>8 DEF Refuse, Enter, Return, TasksOK, Idle
  <2> QED
    BY <2>1, <2>2, AgreedStays DEF AgreedInv, rows, procs
<1>9. ASSUME NEW t \in Tasks, Place(t) PROVE AgreedInv'
  <2>1. UNCHANGED <<rows, procs, overtaken>>
    BY <1>9 DEF Place
  <2>2. \A u \in Tasks : job'[u] = job[u] \/ (job[u].at # "reloaded" /\ job'[u].at # "reloaded")
    BY <1>9 DEF Place, Enter, Return, TasksOK, Idle
  <2> QED
    BY <2>1, <2>2, AgreedStays DEF AgreedInv, rows, procs
<1>10. ASSUME NEW t \in Tasks, PickPrevious(t) PROVE AgreedInv'
  <2>1. UNCHANGED <<rows, procs, overtaken>>
    BY <1>10 DEF PickPrevious
  <2>2. \A u \in Tasks : job'[u] = job[u] \/ (job[u].at # "reloaded" /\ job'[u].at # "reloaded")
    BY <1>10 DEF PickPrevious, Enter, Return, TasksOK, Idle
  <2> QED
    BY <2>1, <2>2, AgreedStays DEF AgreedInv, rows, procs
<1>11. ASSUME NEW t \in Tasks, Load(t) PROVE AgreedInv'
  <2> DEFINE p == RunsIn[t]
             place == job[t].place
  <2> SUFFICES ASSUME NEW q \in Processes PROVE Agreed(q)'
    BY DEF AgreedInv
  <2>1. job[t].at = "placed" /\ p \in Processes /\ UNCHANGED <<rows, stage>>
    BY <1>11 DEF Load
  <2>2. CASE /\ memory' = [memory EXCEPT ![p] =
                             [label |-> job[t].version, content |-> content[place]]]
             /\ Enter(t, "reloaded", job[t].version, place)
             /\ overtaken' = IF Beside(t) THEN overtaken \cup {p} ELSE overtaken \ {p}
    <3>1. job'[t].at = "reloaded" /\ job'[t].version = job[t].version
          /\ \A u \in Tasks \ {t} : job'[u] = job[u]
      BY <2>2 DEF Enter, TasksOK
    <3>2. CASE q = p
      <4>1. memory'[p].label = job[t].version
        BY <2>1, <2>2 DEF ProcsOK
      <4>2. Beside(t)' <=> Beside(t)
        BY <3>1 DEF Beside
      <4>3. CASE Beside(t)
        BY <2>2, <3>2, <4>3 DEF Agreed
      <4>4. CASE ~Beside(t)
        <5>1. \A u \in Tasks \ {t} : RunsIn[u] = p => job'[u].at # "reloaded"
          BY <3>1, <4>4 DEF Beside
        <5> QED
          BY <3>1, <3>2, <4>1, <4>2, <4>4, <5>1 DEF Agreed
      <4> QED
        BY <4>3, <4>4
    <3>3. CASE q # p
      <4>1. memory'[q] = memory[q] /\ (q \in overtaken' <=> q \in overtaken)
        BY <2>2, <3>3 DEF ProcsOK
      <4>2. \A u \in Tasks : RunsIn[u] = q => job'[u] = job[u]
        BY <3>1, <3>3
      <4> QED
        BY <2>1, <4>1, <4>2, AgreedStays DEF AgreedInv, rows
    <3> QED
      BY <3>2, <3>3
  <2>3. CASE Return(t) /\ UNCHANGED <<memory, overtaken>>
    <3>1. \A u \in Tasks : job'[u] = job[u] \/ (job[u].at # "reloaded" /\ job'[u].at # "reloaded")
      BY <2>1, <2>3 DEF Return, TasksOK, Idle
    <3> QED
      BY <2>1, <2>3, <3>1, AgreedStays DEF AgreedInv, rows
  <2> QED
    BY <1>11, <2>2, <2>3 DEF Load
<1>12. ASSUME NEW t \in Tasks, Record(t) PROVE AgreedInv'
  <2> DEFINE p == RunsIn[t]
  <2> SUFFICES ASSUME NEW q \in Processes PROVE Agreed(q)'
    BY DEF AgreedInv
  <2>1. job[t].at = "reloaded" /\ p \in Processes /\ UNCHANGED procs
    BY <1>12 DEF Record
  <2>2. stage[p] = "on"
    BY <2>1 DEF WorkInv, Working, Idle
  <2>3. job'[t].at # "reloaded" /\ \A u \in Tasks \ {t} : job'[u] = job[u]
    BY <1>12 DEF Record, Return, TasksOK, Idle
  <2>4. CASE Activate(job[t].version, job[t].place) /\ overtaken' = overtaken \cup Others(p)
    <3>1. CASE q = p
      <4> SUFFICES ASSUME q \notin overtaken' PROVE Agreed(q)'
        BY DEF Agreed
      <4>1. job[t].version = memory[p].label /\ ~Beside(t)
        BY <2>1, <2>2, <2>4, <3>1 DEF AgreedInv, Agreed
      <4>2. active' = {memory'[p].label}
        BY <2>1, <2>4, <4>1 DEF Activate, procs
      <4>3. \A u \in Tasks : RunsIn[u] = p => job'[u].at # "reloaded"
        BY <2>3, <4>1 DEF Beside
      <4> QED
        BY <3>1, <4>2, <4>3 DEF Agreed
    <3>2. CASE q # p
      BY <2>1, <2>4, <3>2 DEF Agreed, Others, procs
    <3> QED
      BY <3>1, <3>2
  <2>5. CASE ActivateFails /\ overtaken' = overtaken \cup {p}
    <3>1. CASE q = p
      BY <2>5, <3>1 DEF Agreed
    <3>2. CASE q # p
      BY <2>1, <2>3, <2>5, <3>2, AgreedStays DEF AgreedInv, ActivateFails, rows, procs
    <3> QED
      BY <3>1, <3>2
  <2> QED
    BY <1>12, <2>4, <2>5 DEF Record
<1>13. ASSUME NEW v \in Versions, Publish(v) PROVE AgreedInv'
  BY <1>13, AgreedStays DEF Publish, AgreedInv, rows, procs, tasks
<1>14. ASSUME NEW v \in Versions, Upgrade(v) PROVE AgreedInv'
  BY <1>14, AgreedStays DEF Upgrade, AgreedInv, rows, procs, tasks
<1>15. ASSUME NEW v \in Versions, Damage(v) PROVE AgreedInv'
  BY <1>15, AgreedStays DEF Damage, AgreedInv, rows, procs, tasks
<1>16. ASSUME UNCHANGED vars PROVE AgreedInv'
  BY <1>16, AgreedStays DEF AgreedInv, rows, procs, tasks, vars
<1> QED
  BY <1>1, <1>2, <1>3, <1>4, <1>5, <1>6, <1>7, <1>8, <1>9, <1>10, <1>11, <1>12, <1>13,
     <1>14, <1>15, <1>16 DEF Next

\* A process uses the recipes of the version the table has as active, unless another process, an update
\* and a rollback at once, or a failed write came between (catalog_update.rs 324-353).
THEOREM MemoryAgreesWithTable == Spec => []AgreesUnlessOvertaken
<1>1. TypeInv /\ AgreedInv => AgreesUnlessOvertaken
  BY DEF TypeInv, ProcsOK, AgreedInv, Agreed, AgreesUnlessOvertaken
<1> QED
  BY InitTypes, TypeStep, InitWork, WorkStep, InitAgreed, AgreedStep, <1>1, PTL DEF Spec

=============================================================================
