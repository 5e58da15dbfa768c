----------------------------- MODULE RecoveryProofs -----------------------------
(***************************************************************************)
(* What holds of restore points for any number of points, prefixes,        *)
(* processes and jobs, and any number of failures and crashes.             *)
(***************************************************************************)
EXTENDS Recovery, TLAPS

-----------------------------------------------------------------------------
(* The inductive invariant.                                                *)

AtPoint == {"create", "restore"} \cup (Inside \ {"sweeping"})

\* What a job has in its hands, by where it stands; and the recovery lock of its
\* process is its own exactly while it is inside.
Placed(j) ==
  /\ point[j] \in Points <=> pc[j] \in AtPoint
  /\ todo[j] # {} => pc[j] \in {"sweeping", "deleting", "forgetting"}
  /\ pc[j] \in Inside <=> holder[runsIn[j]] = j
  /\ \A q \in Processes : holder[q] = j => runsIn[j] = q

TypeInv == TypeOK /\ \A j \in Jobs : Placed(j)

\* The payload of a point that is being created, by how far that is.
Growing(x, phase) ==
  /\ x \notin rows
  /\ payload[x] = IF phase = "inserting" THEN "whole" ELSE "none"

\* A point that is being created belongs to the job that creates it.
Exclusive(j) ==
  LET x == point[j] IN
  pc[j] \in {"create", "copying", "inserting"} =>
    /\ Growing(x, pc[j])
    /\ \A k \in Jobs \ {j} : point[k] # x /\ x \notin todo[k]

CreationInv == \A j \in Jobs : Exclusive(j)

\* A needed point is whole once it is recorded; what is taken apart or forgotten
\* is not needed, and stays so.
Kept(x) ==
  /\ x \in rows /\ Needed(x) => payload[x] = "whole"
  /\ \A j \in Jobs : point[j] = x /\ pc[j] \in {"deleting", "forgetting"} => ~Needed(x)

KeptInv == \A x \in Points : Kept(x)

At(x, phases) == \E j \in Jobs : point[j] = x /\ pc[j] \in phases

\* Rows, payloads and staged trees, as long as nothing failed.
Tidy(x) ==
  /\ At(x, {"forgetting"}) => payload[x] = "none"
  /\ x \in rows /\ payload[x] = "none" => At(x, {"forgetting"})
  /\ payload[x] = "torn" => At(x, {"deleting"})
  /\ x \notin rows /\ payload[x] # "none" => At(x, {"inserting"})
  /\ x \in partial => At(x, {"copying"})
  /\ staging[x] # "none" => At(x, {"extracting", "publishing"})

TidyInv == faults + crashes = 0 => \A x \in Points : Tidy(x)

OneProcess == \A i, j \in Jobs : runsIn[i] = runsIn[j]

\* In a single process nobody touches what a restore reads and writes.
Undisturbed(j) ==
  LET x == point[j] IN
  /\ pc[j] = "extracting" => staging[x] = "whole" /\ payload[x] = "whole"
  /\ pc[j] = "publishing" => staging[x] = "whole"

RestoreInv ==
  faults + crashes = 0 /\ OneProcess => RestoresAreWhole /\ \A j \in Jobs : Undisturbed(j)

-----------------------------------------------------------------------------
(* Types, and what a job has in its hands.                                 *)

\* Nothing is under way at first.
LEMMA InitTypes == Init => TypeInv
BY RecoveryAssumption DEF Init, TypeInv, TypeOK, Placed, AtPoint, Waiting, Inside, Content

\* Each step keeps the types.
LEMMA TypeStep == TypeInv /\ [Next]_vars => TypeInv'
<1> SUFFICES ASSUME TypeInv, [Next]_vars
             PROVE  TypeInv'
  OBVIOUS
<1> USE RecoveryAssumption
    DEF TypeInv, TypeOK, Placed, AtPoint, Waiting, Inside, Content, LockFree, Enter, Goto,
        Quit, Fault, RemoveStaging, jobs, files, setting
<1>1. ASSUME NEW j \in Jobs, RequestClear(j) PROVE TypeInv'
  BY <1>1 DEF RequestClear
<1>2. ASSUME NEW j \in Jobs, BeginCreate(j) PROVE TypeInv'
  <2>1. /\ pc' \in [Jobs -> {"idle"} \cup Waiting \cup Inside]
        /\ point' \in [Jobs -> Points \cup {NoPoint}]
        /\ todo' \in [Jobs -> SUBSET Points]
        /\ holder' \in [Processes -> Jobs \cup {NoJob}]
    BY <1>2, SMTT(30) DEF BeginCreate
  <2>2. \A k \in Jobs : pc'[k] = "idle" => point'[k] = NoPoint /\ todo'[k] = {}
    BY <1>2 DEF BeginCreate
  <2>3. /\ rows' \subseteq Points /\ partial' \subseteq Points
        /\ payload' \in [Points -> {"none"} \cup Content]
        /\ staging' \in [Points -> {"none"} \cup Content]
        /\ prefix' \in [Prefixes -> {"absent", "live"} \cup Content]
        /\ operation' \in [Points -> {"none", "running", "stranded", "over"}]
        /\ faults' \in Nat /\ crashes' \in Nat /\ runsIn' \in Placements
    BY <1>2 DEF BeginCreate
  <2>4. ASSUME NEW k \in Jobs PROVE Placed(k)'
    BY <1>2 DEF BeginCreate
  <2> QED
    BY <2>1, <2>2, <2>3, <2>4
<1>3. ASSUME NEW j \in Jobs, BeginRestore(j) PROVE TypeInv'
  <2>1. /\ pc' \in [Jobs -> {"idle"} \cup Waiting \cup Inside]
        /\ point' \in [Jobs -> Points \cup {NoPoint}]
        /\ todo' \in [Jobs -> SUBSET Points]
        /\ holder' \in [Processes -> Jobs \cup {NoJob}]
    BY <1>3, SMTT(30) DEF BeginRestore
  <2>2. \A k \in Jobs : pc'[k] = "idle" => point'[k] = NoPoint /\ todo'[k] = {}
    BY SMTT(30), <1>3 DEF BeginRestore
  <2>3. /\ rows' \subseteq Points /\ partial' \subseteq Points
        /\ payload' \in [Points -> {"none"} \cup Content]
        /\ staging' \in [Points -> {"none"} \cup Content]
        /\ prefix' \in [Prefixes -> {"absent", "live"} \cup Content]
        /\ operation' \in [Points -> {"none", "running", "stranded", "over"}]
        /\ faults' \in Nat /\ crashes' \in Nat /\ runsIn' \in Placements
    BY SMTT(30), <1>3 DEF BeginRestore
  <2>4. ASSUME NEW k \in Jobs PROVE Placed(k)'
    BY <1>3 DEF BeginRestore
  <2> QED
    BY <2>1, <2>2, <2>3, <2>4
<1>4. ASSUME NEW j \in Jobs, BeginClear(j) PROVE TypeInv'
  BY <1>4 DEF BeginClear
<1>5. ASSUME NEW j \in Jobs, EndCopy(j) PROVE TypeInv'
  <2>1. /\ pc' \in [Jobs -> {"idle"} \cup Waiting \cup Inside]
        /\ point' \in [Jobs -> Points \cup {NoPoint}]
        /\ todo' \in [Jobs -> SUBSET Points]
        /\ holder' \in [Processes -> Jobs \cup {NoJob}]
    BY <1>5, SMTT(30) DEF EndCopy
  <2>2. \A k \in Jobs : pc'[k] = "idle" => point'[k] = NoPoint /\ todo'[k] = {}
    BY <1>5 DEF EndCopy
  <2>3. /\ rows' \subseteq Points /\ partial' \subseteq Points
        /\ payload' \in [Points -> {"none"} \cup Content]
        /\ staging' \in [Points -> {"none"} \cup Content]
        /\ prefix' \in [Prefixes -> {"absent", "live"} \cup Content]
        /\ operation' \in [Points -> {"none", "running", "stranded", "over"}]
        /\ faults' \in Nat /\ crashes' \in Nat /\ runsIn' \in Placements
    BY <1>5 DEF EndCopy
  <2>4. ASSUME NEW k \in Jobs PROVE Placed(k)'
    BY <1>5 DEF EndCopy
  <2> QED
    BY <2>1, <2>2, <2>3, <2>4
<1>6. ASSUME NEW j \in Jobs, InsertRow(j) PROVE TypeInv'
  BY SMTT(30), <1>6 DEF InsertRow
<1>7. ASSUME NEW j \in Jobs, EndExtract(j) PROVE TypeInv'
  BY SMTT(30), <1>7 DEF EndExtract
<1>8. ASSUME NEW j \in Jobs, Publish(j) PROVE TypeInv'
  <2>1. /\ pc' \in [Jobs -> {"idle"} \cup Waiting \cup Inside]
        /\ point' \in [Jobs -> Points \cup {NoPoint}]
        /\ todo' \in [Jobs -> SUBSET Points]
        /\ holder' \in [Processes -> Jobs \cup {NoJob}]
    BY <1>8, SMTT(30) DEF Publish, Staged
  <2>2. \A k \in Jobs : pc'[k] = "idle" => point'[k] = NoPoint /\ todo'[k] = {}
    BY <1>8 DEF Publish, Staged
  <2>3. /\ rows' \subseteq Points /\ partial' \subseteq Points
        /\ payload' \in [Points -> {"none"} \cup Content]
        /\ staging' \in [Points -> {"none"} \cup Content]
        /\ prefix' \in [Prefixes -> {"absent", "live"} \cup Content]
        /\ operation' \in [Points -> {"none", "running", "stranded", "over"}]
        /\ faults' \in Nat /\ crashes' \in Nat /\ runsIn' \in Placements
    BY SMTT(30), <1>8 DEF Publish, Staged
  <2>4. ASSUME NEW k \in Jobs PROVE Placed(k)'
    BY <1>8 DEF Publish, Staged
  <2> QED
    BY <2>1, <2>2, <2>3, <2>4
<1>9. ASSUME NEW j \in Jobs, EndDelete(j) PROVE TypeInv'
  BY SMTT(30), <1>9 DEF EndDelete
<1>10. ASSUME NEW j \in Jobs, Forget(j) PROVE TypeInv'
  BY SMTT(30), <1>10 DEF Forget
<1>11. ASSUME NEW j \in Jobs, EndClear(j) PROVE TypeInv'
  BY <1>11 DEF EndClear
<1>12. ASSUME NEW j \in Jobs, NEW x \in Points, RequestCreate(j, x) PROVE TypeInv'
  BY <1>12 DEF RequestCreate
<1>13. ASSUME NEW j \in Jobs, NEW x \in Points, RequestRestore(j, x) PROVE TypeInv'
  BY <1>13 DEF RequestRestore
<1>14. ASSUME NEW j \in Jobs, NEW x \in Points, Pass(j, x) PROVE TypeInv'
  BY <1>14 DEF Pass
<1>15. ASSUME NEW j \in Jobs, NEW x \in Points, Discard(j, x) PROVE TypeInv'
  BY <1>15 DEF Discard
<1>16. ASSUME NEW j \in Jobs, NEW x \in Points, DiscardFails(j, x) PROVE TypeInv'
  BY <1>16 DEF DiscardFails
<1>17. ASSUME NEW p \in Prefixes, MoveAside(p) PROVE TypeInv'
  BY <1>17 DEF MoveAside
<1>18. ASSUME NEW p \in Prefixes, Appear(p) PROVE TypeInv'
  BY <1>18 DEF Appear
<1>19. ASSUME NEW x \in Points, OperationEnds(x) PROVE TypeInv'
  BY <1>19 DEF OperationEnds
<1>20. ASSUME NEW q \in Processes, Crash(q) PROVE TypeInv'
  BY <1>20 DEF Crash
<1>21. ASSUME UNCHANGED vars PROVE TypeInv'
  BY <1>21 DEF vars
<1> HIDE DEF TypeInv
<1> QED
  BY <1>1, <1>2, <1>3, <1>4, <1>5, <1>6, <1>7, <1>8, <1>9, <1>10, <1>11, <1>12, <1>13,
     <1>14, <1>15, <1>16, <1>17, <1>18, <1>19, <1>20, <1>21 DEF Next, Begin, Proceed

\* Every variable keeps its type, for any numbers of everything (Recovery!TypeOK).
THEOREM TypeCorrect == Spec => []TypeOK
<1>1. TypeInv => TypeOK
  BY DEF TypeInv
<1> QED
  BY InitTypes, TypeStep, <1>1, PTL DEF Spec

-----------------------------------------------------------------------------
(* Points that are needed.                                                 *)

\* There are no jobs at first.
LEMMA InitCreation == Init => CreationInv
BY DEF Init, CreationInv, Exclusive

\* Nobody comes upon a point before it has its row.
LEMMA CreationStep == TypeInv /\ CreationInv /\ [Next]_vars => CreationInv'
<1> SUFFICES ASSUME TypeInv, CreationInv, [Next]_vars, NEW i \in Jobs
             PROVE  Exclusive(i)'
  BY DEF CreationInv
<1> USE RecoveryAssumption
    DEF TypeInv, TypeOK, Placed, AtPoint, Waiting, Inside, Content, LockFree, Enter, Goto,
       Quit, Fault, RemoveStaging, jobs, files, setting, CreationInv, Exclusive, Growing
<1>1. ASSUME NEW j \in Jobs, RequestClear(j) PROVE Exclusive(i)'
  BY <1>1 DEF RequestClear
<1>2. ASSUME NEW j \in Jobs, BeginCreate(j) PROVE Exclusive(i)'
  BY <1>2 DEF BeginCreate
<1>3. ASSUME NEW j \in Jobs, BeginRestore(j) PROVE Exclusive(i)'
  <2>1. CASE i = j
    BY <1>3, <2>1 DEF BeginRestore
  <2>2. CASE i # j
    BY <1>3, <2>2 DEF BeginRestore
  <2> QED
    BY <2>1, <2>2
<1>4. ASSUME NEW j \in Jobs, BeginClear(j) PROVE Exclusive(i)'
  BY <1>4 DEF BeginClear
<1>5. ASSUME NEW j \in Jobs, EndCopy(j) PROVE Exclusive(i)'
  BY <1>5 DEF EndCopy
<1>6. ASSUME NEW j \in Jobs, InsertRow(j) PROVE Exclusive(i)'
  BY <1>6 DEF InsertRow
<1>7. ASSUME NEW j \in Jobs, EndExtract(j) PROVE Exclusive(i)'
  BY <1>7 DEF EndExtract
<1>8. ASSUME NEW j \in Jobs, Publish(j) PROVE Exclusive(i)'
  BY <1>8 DEF Publish
<1>9. ASSUME NEW j \in Jobs, EndDelete(j) PROVE Exclusive(i)'
  BY <1>9 DEF EndDelete
<1>10. ASSUME NEW j \in Jobs, Forget(j) PROVE Exclusive(i)'
  BY <1>10 DEF Forget
<1>11. ASSUME NEW j \in Jobs, EndClear(j) PROVE Exclusive(i)'
  BY <1>11 DEF EndClear
<1>12. ASSUME NEW j \in Jobs, NEW x \in Points, RequestCreate(j, x) PROVE Exclusive(i)'
  BY <1>12 DEF RequestCreate, Fresh
<1>13. ASSUME NEW j \in Jobs, NEW x \in Points, RequestRestore(j, x) PROVE Exclusive(i)'
  BY <1>13 DEF RequestRestore
<1>14. ASSUME NEW j \in Jobs, NEW x \in Points, Pass(j, x) PROVE Exclusive(i)'
  BY <1>14 DEF Pass
<1>15. ASSUME NEW j \in Jobs, NEW x \in Points, Discard(j, x) PROVE Exclusive(i)'
  BY <1>15 DEF Discard
<1>16. ASSUME NEW j \in Jobs, NEW x \in Points, DiscardFails(j, x) PROVE Exclusive(i)'
  BY <1>16 DEF DiscardFails
<1>17. ASSUME NEW p \in Prefixes, MoveAside(p) PROVE Exclusive(i)'
  BY <1>17 DEF MoveAside
<1>18. ASSUME NEW p \in Prefixes, Appear(p) PROVE Exclusive(i)'
  BY <1>18 DEF Appear
<1>19. ASSUME NEW x \in Points, OperationEnds(x) PROVE Exclusive(i)'
  BY <1>19 DEF OperationEnds
<1>20. ASSUME NEW q \in Processes, Crash(q) PROVE Exclusive(i)'
  BY <1>20 DEF Crash
<1>21. ASSUME UNCHANGED vars PROVE Exclusive(i)'
  BY <1>21 DEF vars
<1> QED
  BY <1>1, <1>2, <1>3, <1>4, <1>5, <1>6, <1>7, <1>8, <1>9, <1>10, <1>11, <1>12, <1>13,
     <1>14, <1>15, <1>16, <1>17, <1>18, <1>19, <1>20, <1>21 DEF Next, Begin, Proceed

\* There are no rows at first.
LEMMA InitKept == Init => KeptInv
BY RecoveryAssumption DEF Init, KeptInv, Kept

\* What is needed stays whole: a clearing job does not begin to take it apart, and
\* what it has begun with does not come to be needed.
LEMMA KeptStep == TypeInv /\ CreationInv /\ KeptInv /\ [Next]_vars => KeptInv'
<1> SUFFICES ASSUME TypeInv, CreationInv, KeptInv, [Next]_vars, NEW y \in Points
             PROVE  Kept(y)'
  BY DEF KeptInv
<1> USE RecoveryAssumption
    DEF TypeInv, TypeOK, Placed, AtPoint, Waiting, Inside, Content, LockFree, Enter, Goto,
       Quit, Fault, RemoveStaging, jobs, files, setting, KeptInv, Kept, Needed, CreationInv,
       Exclusive, Growing
<1>1. ASSUME NEW j \in Jobs, RequestClear(j) PROVE Kept(y)'
  BY <1>1 DEF RequestClear
<1>2. ASSUME NEW j \in Jobs, BeginCreate(j) PROVE Kept(y)'
  BY <1>2 DEF BeginCreate
<1>3. ASSUME NEW j \in Jobs, BeginRestore(j) PROVE Kept(y)'
  BY <1>3 DEF BeginRestore
<1>4. ASSUME NEW j \in Jobs, BeginClear(j) PROVE Kept(y)'
  BY <1>4 DEF BeginClear
<1>5. ASSUME NEW j \in Jobs, EndCopy(j) PROVE Kept(y)'
  BY <1>5 DEF EndCopy
<1>6. ASSUME NEW j \in Jobs, InsertRow(j) PROVE Kept(y)'
  BY <1>6 DEF InsertRow
<1>7. ASSUME NEW j \in Jobs, EndExtract(j) PROVE Kept(y)'
  BY <1>7 DEF EndExtract
<1>8. ASSUME NEW j \in Jobs, Publish(j) PROVE Kept(y)'
  BY <1>8 DEF Publish
<1>9. ASSUME NEW j \in Jobs, EndDelete(j) PROVE Kept(y)'
  BY <1>9 DEF EndDelete
<1>10. ASSUME NEW j \in Jobs, Forget(j) PROVE Kept(y)'
  BY SMTT(30), <1>10 DEF Forget
<1>11. ASSUME NEW j \in Jobs, EndClear(j) PROVE Kept(y)'
  BY <1>11 DEF EndClear
<1>12. ASSUME NEW j \in Jobs, NEW x \in Points, RequestCreate(j, x) PROVE Kept(y)'
  BY <1>12 DEF RequestCreate, Fresh
<1>13. ASSUME NEW j \in Jobs, NEW x \in Points, RequestRestore(j, x) PROVE Kept(y)'
  BY <1>13 DEF RequestRestore
<1>14. ASSUME NEW j \in Jobs, NEW x \in Points, Pass(j, x) PROVE Kept(y)'
  BY <1>14 DEF Pass
<1>15. ASSUME NEW j \in Jobs, NEW x \in Points, Discard(j, x) PROVE Kept(y)'
  BY <1>15 DEF Discard, Protected
<1>16. ASSUME NEW j \in Jobs, NEW x \in Points, DiscardFails(j, x) PROVE Kept(y)'
  BY <1>16 DEF DiscardFails
<1>17. ASSUME NEW p \in Prefixes, MoveAside(p) PROVE Kept(y)'
  BY <1>17 DEF MoveAside
<1>18. ASSUME NEW p \in Prefixes, Appear(p) PROVE Kept(y)'
  BY <1>18 DEF Appear
<1>19. ASSUME NEW x \in Points, OperationEnds(x) PROVE Kept(y)'
  BY <1>19 DEF OperationEnds, Creating
<1>20. ASSUME NEW q \in Processes, Crash(q) PROVE Kept(y)'
  BY <1>20 DEF Crash
<1>21. ASSUME UNCHANGED vars PROVE Kept(y)'
  BY <1>21 DEF vars
<1> QED
  BY <1>1, <1>2, <1>3, <1>4, <1>5, <1>6, <1>7, <1>8, <1>9, <1>10, <1>11, <1>12, <1>13,
     <1>14, <1>15, <1>16, <1>17, <1>18, <1>19, <1>20, <1>21 DEF Next, Begin, Proceed

\* A row whose operation is not concluded has its whole payload, whatever is cleared,
\* fails or dies in whichever process (recovery.rs 30-124, 218-252).
THEOREM NeededPointsAreKept == Spec => []NeededPointsAreWhole
<1>1. TypeInv /\ KeptInv => NeededPointsAreWhole
  BY DEF TypeInv, TypeOK, KeptInv, Kept, NeededPointsAreWhole
<1> QED
  BY InitTypes, TypeStep, InitCreation, CreationStep, InitKept, KeptStep, <1>1, PTL DEF Spec

-----------------------------------------------------------------------------
(* Rows, payloads and staged trees without failures.                       *)

\* Nothing is there at first.
LEMMA InitTidy == Init => TidyInv
BY DEF Init, TidyInv, Tidy

\* Without a failure a job leaves a point as it should be, and while it is not a
\* job is at it.
LEMMA TidyStep == TypeInv /\ CreationInv /\ TidyInv /\ [Next]_vars => TidyInv'
<1> SUFFICES ASSUME TypeInv, CreationInv, TidyInv, [Next]_vars, faults' + crashes' = 0,
                    NEW y \in Points
             PROVE  Tidy(y)'
  BY DEF TidyInv
<1> USE RecoveryAssumption
    DEF TypeInv, TypeOK, Placed, AtPoint, Waiting, Inside, Content, LockFree, Enter, Goto,
       Quit, Fault, RemoveStaging, jobs, files, setting, TidyInv, Tidy, At, CreationInv,
       Exclusive, Growing
<1>1. ASSUME NEW j \in Jobs, RequestClear(j) PROVE Tidy(y)'
  BY <1>1 DEF RequestClear
<1>2. ASSUME NEW j \in Jobs, BeginCreate(j) PROVE Tidy(y)'
  <2>1. At(y, {"forgetting"})' => payload'[y] = "none"
    BY <1>2 DEF BeginCreate
  <2>2. y \in rows' /\ payload'[y] = "none" => At(y, {"forgetting"})'
    BY <1>2 DEF BeginCreate
  <2>3. payload'[y] = "torn" => At(y, {"deleting"})'
    BY <1>2 DEF BeginCreate
  <2>4. y \notin rows' /\ payload'[y] # "none" => At(y, {"inserting"})'
    BY <1>2 DEF BeginCreate
  <2>5. y \in partial' => At(y, {"copying"})'
    BY <1>2 DEF BeginCreate
  <2>6. staging'[y] # "none" => At(y, {"extracting", "publishing"})'
    BY <1>2 DEF BeginCreate
  <2> QED
    BY <2>1, <2>2, <2>3, <2>4, <2>5, <2>6
<1>3. ASSUME NEW j \in Jobs, BeginRestore(j) PROVE Tidy(y)'
  BY SMTT(30), <1>3 DEF BeginRestore
<1>4. ASSUME NEW j \in Jobs, BeginClear(j) PROVE Tidy(y)'
  BY <1>4 DEF BeginClear
<1>5. ASSUME NEW j \in Jobs, EndCopy(j) PROVE Tidy(y)'
  <2>1. At(y, {"forgetting"})' => payload'[y] = "none"
    BY <1>5 DEF EndCopy
  <2>2. y \in rows' /\ payload'[y] = "none" => At(y, {"forgetting"})'
    BY <1>5 DEF EndCopy
  <2>3. payload'[y] = "torn" => At(y, {"deleting"})'
    BY <1>5 DEF EndCopy
  <2>4. y \notin rows' /\ payload'[y] # "none" => At(y, {"inserting"})'
    BY <1>5 DEF EndCopy
  <2>5. y \in partial' => At(y, {"copying"})'
    BY <1>5 DEF EndCopy
  <2>6. staging'[y] # "none" => At(y, {"extracting", "publishing"})'
    BY <1>5 DEF EndCopy
  <2> QED
    BY <2>1, <2>2, <2>3, <2>4, <2>5, <2>6
<1>6. ASSUME NEW j \in Jobs, InsertRow(j) PROVE Tidy(y)'
  BY <1>6 DEF InsertRow
<1>7. ASSUME NEW j \in Jobs, EndExtract(j) PROVE Tidy(y)'
  <2>1. At(y, {"forgetting"})' => payload'[y] = "none"
    BY <1>7 DEF EndExtract
  <2>2. y \in rows' /\ payload'[y] = "none" => At(y, {"forgetting"})'
    BY <1>7 DEF EndExtract
  <2>3. payload'[y] = "torn" => At(y, {"deleting"})'
    BY <1>7 DEF EndExtract
  <2>4. y \notin rows' /\ payload'[y] # "none" => At(y, {"inserting"})'
    BY <1>7 DEF EndExtract
  <2>5. y \in partial' => At(y, {"copying"})'
    BY <1>7 DEF EndExtract
  <2>6. staging'[y] # "none" => At(y, {"extracting", "publishing"})'
    <3>1. CASE y = point[j]
      BY <1>7, <3>1 DEF EndExtract
    <3>2. CASE y # point[j]
      BY <1>7, <3>2 DEF EndExtract
    <3> QED
      BY <3>1, <3>2
  <2> QED
    BY <2>1, <2>2, <2>3, <2>4, <2>5, <2>6
<1>8. ASSUME NEW j \in Jobs, Publish(j) PROVE Tidy(y)'
  BY <1>8 DEF Publish
<1>9. ASSUME NEW j \in Jobs, EndDelete(j) PROVE Tidy(y)'
  <2>1. At(y, {"forgetting"})' => payload'[y] = "none"
    BY <1>9 DEF EndDelete
  <2>2. y \in rows' /\ payload'[y] = "none" => At(y, {"forgetting"})'
    BY <1>9 DEF EndDelete
  <2>3. payload'[y] = "torn" => At(y, {"deleting"})'
    BY <1>9 DEF EndDelete
  <2>4. y \notin rows' /\ payload'[y] # "none" => At(y, {"inserting"})'
    BY <1>9 DEF EndDelete
  <2>5. y \in partial' => At(y, {"copying"})'
    BY <1>9 DEF EndDelete
  <2>6. staging'[y] # "none" => At(y, {"extracting", "publishing"})'
    BY <1>9 DEF EndDelete
  <2> QED
    BY <2>1, <2>2, <2>3, <2>4, <2>5, <2>6
<1>10. ASSUME NEW j \in Jobs, Forget(j) PROVE Tidy(y)'
  <2>1. At(y, {"forgetting"})' => payload'[y] = "none"
    BY <1>10 DEF Forget
  <2>2. y \in rows' /\ payload'[y] = "none" => At(y, {"forgetting"})'
    BY <1>10 DEF Forget
  <2>3. payload'[y] = "torn" => At(y, {"deleting"})'
    BY <1>10 DEF Forget
  <2>4. y \notin rows' /\ payload'[y] # "none" => At(y, {"inserting"})'
    BY <1>10 DEF Forget
  <2>5. y \in partial' => At(y, {"copying"})'
    BY <1>10 DEF Forget
  <2>6. staging'[y] # "none" => At(y, {"extracting", "publishing"})'
    BY <1>10 DEF Forget
  <2> QED
    BY <2>1, <2>2, <2>3, <2>4, <2>5, <2>6
<1>11. ASSUME NEW j \in Jobs, EndClear(j) PROVE Tidy(y)'
  BY <1>11 DEF EndClear
<1>12. ASSUME NEW j \in Jobs, NEW x \in Points, RequestCreate(j, x) PROVE Tidy(y)'
  BY <1>12 DEF RequestCreate, Fresh
<1>13. ASSUME NEW j \in Jobs, NEW x \in Points, RequestRestore(j, x) PROVE Tidy(y)'
  BY <1>13 DEF RequestRestore
<1>14. ASSUME NEW j \in Jobs, NEW x \in Points, Pass(j, x) PROVE Tidy(y)'
  BY <1>14 DEF Pass
<1>15. ASSUME NEW j \in Jobs, NEW x \in Points, Discard(j, x) PROVE Tidy(y)'
  BY SMTT(30), <1>15 DEF Discard, Protected
<1>16. ASSUME NEW j \in Jobs, NEW x \in Points, DiscardFails(j, x) PROVE Tidy(y)'
  BY <1>16 DEF DiscardFails
<1>17. ASSUME NEW p \in Prefixes, MoveAside(p) PROVE Tidy(y)'
  BY <1>17 DEF MoveAside
<1>18. ASSUME NEW p \in Prefixes, Appear(p) PROVE Tidy(y)'
  BY <1>18 DEF Appear
<1>19. ASSUME NEW x \in Points, OperationEnds(x) PROVE Tidy(y)'
  BY <1>19 DEF OperationEnds, Creating
<1>20. ASSUME NEW q \in Processes, Crash(q) PROVE Tidy(y)'
  BY <1>20 DEF Crash
<1>21. ASSUME UNCHANGED vars PROVE Tidy(y)'
  BY <1>21 DEF vars
<1> QED
  BY <1>1, <1>2, <1>3, <1>4, <1>5, <1>6, <1>7, <1>8, <1>9, <1>10, <1>11, <1>12, <1>13,
     <1>14, <1>15, <1>16, <1>17, <1>18, <1>19, <1>20, <1>21 DEF Next, Begin, Proceed

\* Rows and payloads part, and staged trees stay, only through a failure
\* (recovery.rs 30-252).
THEOREM NothingIsStray == Spec => []NothingStray
<1>1. TypeInv /\ TidyInv => NothingStray
  BY DEF TypeInv, TypeOK, TidyInv, Tidy, At, NothingStray, Content
<1> QED
  BY InitTypes, TypeStep, InitCreation, CreationStep, InitTidy, TidyStep, <1>1, PTL DEF Spec

-----------------------------------------------------------------------------
(* Restores.                                                               *)

\* No prefix is torn at first.
LEMMA InitRestore == Init => RestoreInv
BY DEF Init, RestoreInv, RestoresAreWhole, Undisturbed

\* Of the jobs of one process one is inside.
LEMMA OneInside ==
  ASSUME TypeInv, OneProcess, NEW j \in Jobs, NEW k \in Jobs,
         pc[j] \in Inside, LockFree(k) \/ pc[k] \in Inside
  PROVE  j = k
BY RecoveryAssumption DEF TypeInv, TypeOK, Placed, OneProcess, LockFree

\* While none is inside, what is there to be restored is whole.
LEMMA NothingTorn ==
  ASSUME TypeInv, TidyInv, faults + crashes = 0, OneProcess,
         NEW k \in Jobs, LockFree(k), NEW x \in Points
  PROVE  payload[x] # "torn"
<1> SUFFICES ASSUME payload[x] = "torn" PROVE FALSE
  OBVIOUS
<1>1. PICK j \in Jobs : pc[j] = "deleting"
  BY DEF TidyInv, Tidy, At
<1>2. j = k
  BY <1>1, OneInside DEF Inside
<1> QED
  BY <1>1, <1>2, RecoveryAssumption DEF TypeInv, TypeOK, Placed, LockFree, Inside

\* Failures are counted, and no job changes its process.
LEMMA NothingForgotten ==
  ASSUME TypeInv, [Next]_vars
  PROVE  /\ runsIn' = runsIn
         /\ faults' + crashes' = 0 => faults + crashes = 0
<1> DEFINE Onward == runsIn' = runsIn /\ (faults' + crashes' = 0 => faults + crashes = 0)
<1> USE DEF TypeInv, TypeOK, Fault, RemoveStaging, setting
<1>1. ASSUME NEW j \in Jobs, RequestClear(j) PROVE Onward
  BY <1>1 DEF RequestClear
<1>2. ASSUME NEW j \in Jobs, BeginCreate(j) PROVE Onward
  BY <1>2 DEF BeginCreate
<1>3. ASSUME NEW j \in Jobs, BeginRestore(j) PROVE Onward
  BY <1>3 DEF BeginRestore
<1>4. ASSUME NEW j \in Jobs, BeginClear(j) PROVE Onward
  BY <1>4 DEF BeginClear
<1>5. ASSUME NEW j \in Jobs, EndCopy(j) PROVE Onward
  BY <1>5 DEF EndCopy
<1>6. ASSUME NEW j \in Jobs, InsertRow(j) PROVE Onward
  BY <1>6 DEF InsertRow
<1>7. ASSUME NEW j \in Jobs, EndExtract(j) PROVE Onward
  BY <1>7 DEF EndExtract
<1>8. ASSUME NEW j \in Jobs, Publish(j) PROVE Onward
  BY <1>8 DEF Publish
<1>9. ASSUME NEW j \in Jobs, EndDelete(j) PROVE Onward
  BY <1>9 DEF EndDelete
<1>10. ASSUME NEW j \in Jobs, Forget(j) PROVE Onward
  BY <1>10 DEF Forget
<1>11. ASSUME NEW j \in Jobs, EndClear(j) PROVE Onward
  BY <1>11 DEF EndClear
<1>12. ASSUME NEW j \in Jobs, NEW x \in Points, RequestCreate(j, x) PROVE Onward
  BY <1>12 DEF RequestCreate
<1>13. ASSUME NEW j \in Jobs, NEW x \in Points, RequestRestore(j, x) PROVE Onward
  BY <1>13 DEF RequestRestore
<1>14. ASSUME NEW j \in Jobs, NEW x \in Points, Pass(j, x) PROVE Onward
  BY <1>14 DEF Pass
<1>15. ASSUME NEW j \in Jobs, NEW x \in Points, Discard(j, x) PROVE Onward
  BY <1>15 DEF Discard
<1>16. ASSUME NEW j \in Jobs, NEW x \in Points, DiscardFails(j, x) PROVE Onward
  BY <1>16 DEF DiscardFails
<1>17. ASSUME NEW p \in Prefixes, MoveAside(p) PROVE Onward
  BY <1>17 DEF MoveAside
<1>18. ASSUME NEW p \in Prefixes, Appear(p) PROVE Onward
  BY <1>18 DEF Appear
<1>19. ASSUME NEW x \in Points, OperationEnds(x) PROVE Onward
  BY <1>19 DEF OperationEnds
<1>20. ASSUME NEW q \in Processes, Crash(q) PROVE Onward
  BY <1>20 DEF Crash
<1>21. ASSUME UNCHANGED vars PROVE Onward
  BY <1>21 DEF vars
<1> QED
  BY <1>1, <1>2, <1>3, <1>4, <1>5, <1>6, <1>7, <1>8, <1>9, <1>10, <1>11, <1>12, <1>13,
     <1>14, <1>15, <1>16, <1>17, <1>18, <1>19, <1>20, <1>21 DEF Next, Begin, Proceed

\* In a process by itself a restore reads a whole payload into its staged tree.
LEMMA UndisturbedStep == TypeInv /\ TidyInv /\ RestoreInv /\ [Next]_vars =>
  (faults' + crashes' = 0 /\ OneProcess => \A i \in Jobs : Undisturbed(i)')
<1> SUFFICES ASSUME TypeInv, TidyInv, RestoreInv, [Next]_vars,
                    faults + crashes = 0, faults' + crashes' = 0, OneProcess, NEW i \in Jobs
             PROVE  Undisturbed(i)'
  BY NothingForgotten DEF OneProcess
<1> USE RecoveryAssumption
    DEF TypeInv, TypeOK, Placed, AtPoint, Waiting, Inside, Content, LockFree, Enter, Goto,
       Quit, Fault, RemoveStaging, jobs, files, setting, RestoreInv, Undisturbed
<1>1. ASSUME NEW j \in Jobs, RequestClear(j) PROVE Undisturbed(i)'
  BY <1>1 DEF RequestClear
<1>2. ASSUME NEW j \in Jobs, BeginCreate(j) PROVE Undisturbed(i)'
  BY <1>2 DEF BeginCreate
<1>3. ASSUME NEW j \in Jobs, BeginRestore(j) PROVE Undisturbed(i)'
  <2>1. CASE i = j
    <3>1. LockFree(j) => \A k \in Jobs : pc[k] \notin Inside
      BY <1>3, OneInside DEF BeginRestore
    <3> QED
      BY <1>3, <2>1, <3>1, NothingTorn DEF BeginRestore
  <2>2. CASE i # j
    <3>1. pc[i] \notin Inside
      BY <1>3, <2>2, OneInside DEF BeginRestore
    <3> QED
      BY <1>3, <2>2, <3>1 DEF BeginRestore
  <2> QED
    BY <2>1, <2>2
<1>4. ASSUME NEW j \in Jobs, BeginClear(j) PROVE Undisturbed(i)'
  BY <1>4 DEF BeginClear
<1>5. ASSUME NEW j \in Jobs, EndCopy(j) PROVE Undisturbed(i)'
  BY <1>5 DEF EndCopy
<1>6. ASSUME NEW j \in Jobs, InsertRow(j) PROVE Undisturbed(i)'
  <2>1. CASE i = j
    BY <1>6, <2>1 DEF InsertRow
  <2>2. CASE i # j
    <3>1. pc[i] \notin Inside
      BY <1>6, <2>2, OneInside DEF InsertRow
    <3> QED
      BY <1>6, <2>2, <3>1 DEF InsertRow
  <2> QED
    BY <2>1, <2>2
<1>7. ASSUME NEW j \in Jobs, EndExtract(j) PROVE Undisturbed(i)'
  <2>1. CASE i = j
    BY <1>7, <2>1 DEF EndExtract
  <2>2. CASE i # j
    <3>1. pc[i] \notin Inside
      BY <1>7, <2>2, OneInside DEF EndExtract
    <3> QED
      BY <1>7, <2>2, <3>1 DEF EndExtract
  <2> QED
    BY <2>1, <2>2
<1>8. ASSUME NEW j \in Jobs, Publish(j) PROVE Undisturbed(i)'
  <2>1. CASE i = j
    BY <1>8, <2>1 DEF Publish
  <2>2. CASE i # j
    <3>1. pc[i] \notin Inside
      BY <1>8, <2>2, OneInside DEF Publish
    <3> QED
      BY <1>8, <2>2, <3>1 DEF Publish
  <2> QED
    BY <2>1, <2>2
<1>9. ASSUME NEW j \in Jobs, EndDelete(j) PROVE Undisturbed(i)'
  <2>1. CASE i = j
    BY <1>9, <2>1 DEF EndDelete
  <2>2. CASE i # j
    <3>1. pc[i] \notin Inside
      BY <1>9, <2>2, OneInside DEF EndDelete
    <3> QED
      BY <1>9, <2>2, <3>1 DEF EndDelete
  <2> QED
    BY <2>1, <2>2
<1>10. ASSUME NEW j \in Jobs, Forget(j) PROVE Undisturbed(i)'
  BY <1>10 DEF Forget
<1>11. ASSUME NEW j \in Jobs, EndClear(j) PROVE Undisturbed(i)'
  BY <1>11 DEF EndClear
<1>12. ASSUME NEW j \in Jobs, NEW x \in Points, RequestCreate(j, x) PROVE Undisturbed(i)'
  BY <1>12 DEF RequestCreate
<1>13. ASSUME NEW j \in Jobs, NEW x \in Points, RequestRestore(j, x) PROVE Undisturbed(i)'
  BY <1>13 DEF RequestRestore
<1>14. ASSUME NEW j \in Jobs, NEW x \in Points, Pass(j, x) PROVE Undisturbed(i)'
  BY <1>14 DEF Pass
<1>15. ASSUME NEW j \in Jobs, NEW x \in Points, Discard(j, x) PROVE Undisturbed(i)'
  <2>1. CASE i = j
    BY <1>15, <2>1 DEF Discard
  <2>2. CASE i # j
    <3>1. pc[i] \notin Inside
      BY <1>15, <2>2, OneInside DEF Discard
    <3> QED
      BY <1>15, <2>2, <3>1 DEF Discard
  <2> QED
    BY <2>1, <2>2
<1>16. ASSUME NEW j \in Jobs, NEW x \in Points, DiscardFails(j, x) PROVE Undisturbed(i)'
  BY <1>16 DEF DiscardFails
<1>17. ASSUME NEW p \in Prefixes, MoveAside(p) PROVE Undisturbed(i)'
  BY <1>17 DEF MoveAside
<1>18. ASSUME NEW p \in Prefixes, Appear(p) PROVE Undisturbed(i)'
  BY <1>18 DEF Appear
<1>19. ASSUME NEW x \in Points, OperationEnds(x) PROVE Undisturbed(i)'
  BY <1>19 DEF OperationEnds
<1>20. ASSUME NEW q \in Processes, Crash(q) PROVE Undisturbed(i)'
  BY <1>20 DEF Crash
<1>21. ASSUME UNCHANGED vars PROVE Undisturbed(i)'
  BY <1>21 DEF vars
<1> QED
  BY <1>1, <1>2, <1>3, <1>4, <1>5, <1>6, <1>7, <1>8, <1>9, <1>10, <1>11, <1>12, <1>13,
     <1>14, <1>15, <1>16, <1>17, <1>18, <1>19, <1>20, <1>21 DEF Next, Begin, Proceed

\* It publishes what it has staged.
LEMMA WholeStep == TypeInv /\ RestoreInv /\ [Next]_vars =>
  (faults' + crashes' = 0 /\ OneProcess => RestoresAreWhole')
<1> SUFFICES ASSUME TypeInv, RestoreInv, [Next]_vars, faults + crashes = 0, OneProcess
             PROVE  RestoresAreWhole'
  BY NothingForgotten DEF OneProcess
<1> USE RecoveryAssumption
    DEF TypeInv, TypeOK, Placed, AtPoint, Waiting, Inside, Content, LockFree, Enter, Goto,
       Quit, Fault, RemoveStaging, jobs, files, setting, RestoreInv, Undisturbed,
       RestoresAreWhole
<1>1. ASSUME NEW j \in Jobs, RequestClear(j) PROVE RestoresAreWhole'
  BY <1>1 DEF RequestClear
<1>2. ASSUME NEW j \in Jobs, BeginCreate(j) PROVE RestoresAreWhole'
  BY <1>2 DEF BeginCreate
<1>3. ASSUME NEW j \in Jobs, BeginRestore(j) PROVE RestoresAreWhole'
  BY <1>3 DEF BeginRestore
<1>4. ASSUME NEW j \in Jobs, BeginClear(j) PROVE RestoresAreWhole'
  BY <1>4 DEF BeginClear
<1>5. ASSUME NEW j \in Jobs, EndCopy(j) PROVE RestoresAreWhole'
  BY <1>5 DEF EndCopy
<1>6. ASSUME NEW j \in Jobs, InsertRow(j) PROVE RestoresAreWhole'
  BY <1>6 DEF InsertRow
<1>7. ASSUME NEW j \in Jobs, EndExtract(j) PROVE RestoresAreWhole'
  BY <1>7 DEF EndExtract
<1>8. ASSUME NEW j \in Jobs, Publish(j) PROVE RestoresAreWhole'
  <2>1. Staged(j) = {"whole"} \/ staging[point[j]] = "none"
    BY <1>8, OneInside DEF Publish, Staged
  <2> QED
    BY <1>8, <2>1 DEF Publish
<1>9. ASSUME NEW j \in Jobs, EndDelete(j) PROVE RestoresAreWhole'
  BY <1>9 DEF EndDelete
<1>10. ASSUME NEW j \in Jobs, Forget(j) PROVE RestoresAreWhole'
  BY <1>10 DEF Forget
<1>11. ASSUME NEW j \in Jobs, EndClear(j) PROVE RestoresAreWhole'
  BY <1>11 DEF EndClear
<1>12. ASSUME NEW j \in Jobs, NEW x \in Points, RequestCreate(j, x) PROVE RestoresAreWhole'
  BY <1>12 DEF RequestCreate
<1>13. ASSUME NEW j \in Jobs, NEW x \in Points, RequestRestore(j, x) PROVE RestoresAreWhole'
  BY <1>13 DEF RequestRestore
<1>14. ASSUME NEW j \in Jobs, NEW x \in Points, Pass(j, x) PROVE RestoresAreWhole'
  BY <1>14 DEF Pass
<1>15. ASSUME NEW j \in Jobs, NEW x \in Points, Discard(j, x) PROVE RestoresAreWhole'
  BY <1>15 DEF Discard
<1>16. ASSUME NEW j \in Jobs, NEW x \in Points, DiscardFails(j, x) PROVE RestoresAreWhole'
  BY <1>16 DEF DiscardFails
<1>17. ASSUME NEW p \in Prefixes, MoveAside(p) PROVE RestoresAreWhole'
  BY <1>17 DEF MoveAside
<1>18. ASSUME NEW p \in Prefixes, Appear(p) PROVE RestoresAreWhole'
  BY <1>18 DEF Appear
<1>19. ASSUME NEW x \in Points, OperationEnds(x) PROVE RestoresAreWhole'
  BY <1>19 DEF OperationEnds
<1>20. ASSUME NEW q \in Processes, Crash(q) PROVE RestoresAreWhole'
  BY <1>20 DEF Crash
<1>21. ASSUME UNCHANGED vars PROVE RestoresAreWhole'
  BY <1>21 DEF vars
<1> QED
  BY <1>1, <1>2, <1>3, <1>4, <1>5, <1>6, <1>7, <1>8, <1>9, <1>10, <1>11, <1>12, <1>13,
     <1>14, <1>15, <1>16, <1>17, <1>18, <1>19, <1>20, <1>21 DEF Next, Begin, Proceed

LEMMA RestoreStep == TypeInv /\ TidyInv /\ RestoreInv /\ [Next]_vars => RestoreInv'
BY UndisturbedStep, WholeStep, NothingForgotten DEF RestoreInv, OneProcess

\* Within one process and without failures a restore that succeeds publishes the
\* whole snapshot (recovery.rs 126-214).
THEOREM UndisturbedRestores == Spec => []UndisturbedRestoresAreWhole
<1>1. RestoreInv => UndisturbedRestoresAreWhole
  BY DEF RestoreInv, OneProcess, UndisturbedRestoresAreWhole
<1> QED
  BY InitTypes, TypeStep, InitCreation, CreationStep, InitTidy, TidyStep, InitRestore,
     RestoreStep, <1>1, PTL DEF Spec

\* No step puts anything over what is at a prefix's path.
LEMMA NothingPutOver ==
  ASSUME TypeInv, [Next]_vars, NEW p \in Prefixes, prefix[p] # "absent"
  PROVE  prefix'[p] \in {prefix[p], "absent"}
<1> DEFINE Stays == prefix'[p] \in {prefix[p], "absent"}
<1> USE DEF TypeInv, TypeOK
<1>1. ASSUME NEW j \in Jobs, RequestClear(j) PROVE Stays
  BY <1>1 DEF RequestClear
<1>2. ASSUME NEW j \in Jobs, BeginCreate(j) PROVE Stays
  BY <1>2 DEF BeginCreate
<1>3. ASSUME NEW j \in Jobs, BeginRestore(j) PROVE Stays
  BY <1>3 DEF BeginRestore
<1>4. ASSUME NEW j \in Jobs, BeginClear(j) PROVE Stays
  BY <1>4 DEF BeginClear
<1>5. ASSUME NEW j \in Jobs, EndCopy(j) PROVE Stays
  BY <1>5 DEF EndCopy
<1>6. ASSUME NEW j \in Jobs, InsertRow(j) PROVE Stays
  BY <1>6 DEF InsertRow
<1>7. ASSUME NEW j \in Jobs, EndExtract(j) PROVE Stays
  BY <1>7 DEF EndExtract
<1>8. ASSUME NEW j \in Jobs, Publish(j) PROVE Stays
  BY <1>8 DEF Publish
<1>9. ASSUME NEW j \in Jobs, EndDelete(j) PROVE Stays
  BY <1>9 DEF EndDelete
<1>10. ASSUME NEW j \in Jobs, Forget(j) PROVE Stays
  BY <1>10 DEF Forget
<1>11. ASSUME NEW j \in Jobs, EndClear(j) PROVE Stays
  BY <1>11 DEF EndClear
<1>12. ASSUME NEW j \in Jobs, NEW x \in Points, RequestCreate(j, x) PROVE Stays
  BY <1>12 DEF RequestCreate
<1>13. ASSUME NEW j \in Jobs, NEW x \in Points, RequestRestore(j, x) PROVE Stays
  BY <1>13 DEF RequestRestore
<1>14. ASSUME NEW j \in Jobs, NEW x \in Points, Pass(j, x) PROVE Stays
  BY <1>14 DEF Pass
<1>15. ASSUME NEW j \in Jobs, NEW x \in Points, Discard(j, x) PROVE Stays
  BY <1>15 DEF Discard
<1>16. ASSUME NEW j \in Jobs, NEW x \in Points, DiscardFails(j, x) PROVE Stays
  BY <1>16 DEF DiscardFails
<1>17. ASSUME NEW o \in Prefixes, MoveAside(o) PROVE Stays
  BY <1>17 DEF MoveAside
<1>18. ASSUME NEW o \in Prefixes, Appear(o) PROVE Stays
  BY <1>18 DEF Appear
<1>19. ASSUME NEW x \in Points, OperationEnds(x) PROVE Stays
  BY <1>19 DEF OperationEnds
<1>20. ASSUME NEW q \in Processes, Crash(q) PROVE Stays
  BY <1>20 DEF Crash
<1>21. ASSUME UNCHANGED vars PROVE Stays
  BY <1>21 DEF vars
<1> QED
  BY <1>1, <1>2, <1>3, <1>4, <1>5, <1>6, <1>7, <1>8, <1>9, <1>10, <1>11, <1>12, <1>13,
     <1>14, <1>15, <1>16, <1>17, <1>18, <1>19, <1>20, <1>21 DEF Next, Begin, Proceed

\* A restore never replaces a prefix, not even one that appeared while it was staged
\* (recovery.rs 126-214, 283-312).
THEOREM RestoresNeverReplace == Spec => NeverReplaced
<1>1. TypeInv /\ [Next]_vars =>
        [\A p \in Prefixes : prefix[p] # "absent" => prefix'[p] \in {prefix[p], "absent"}]_vars
  BY NothingPutOver
<1> QED
  BY InitTypes, TypeStep, <1>1, PTL DEF Spec, NeverReplaced

-----------------------------------------------------------------------------
(* Creating and clearing are what the engine takes them for.               *)

Usable == {x \in rows : payload[x] = "whole"}
Visible == <<Usable, PointPhase>>

\* The operation of a point that is being created is not concluded.
AskedFor(j) ==
  pc[j] \in {"create", "copying", "inserting"} /\ point[j] \in Owned => Needed(point[j])

AskedInv == \A j \in Jobs : AskedFor(j)

\* Nothing is created at first.
LEMMA InitAsked == Init => AskedInv
BY DEF Init, AskedInv, AskedFor

\* An operation does not end before its point is created.
LEMMA AskedStep == TypeInv /\ AskedInv /\ [Next]_vars => AskedInv'
<1> SUFFICES ASSUME TypeInv, AskedInv, [Next]_vars, NEW k \in Jobs
             PROVE  AskedFor(k)'
  BY DEF AskedInv
<1> USE RecoveryAssumption
    DEF TypeInv, TypeOK, Placed, AtPoint, Waiting, Inside, Content, LockFree, Enter, Goto,
        Quit, Fault, RemoveStaging, jobs, files, setting, AskedInv, AskedFor, Needed
<1>1. ASSUME NEW j \in Jobs, RequestClear(j) PROVE AskedFor(k)'
  BY <1>1 DEF RequestClear
<1>2. ASSUME NEW j \in Jobs, BeginCreate(j) PROVE AskedFor(k)'
  BY <1>2 DEF BeginCreate
<1>3. ASSUME NEW j \in Jobs, BeginRestore(j) PROVE AskedFor(k)'
  BY <1>3 DEF BeginRestore
<1>4. ASSUME NEW j \in Jobs, BeginClear(j) PROVE AskedFor(k)'
  BY <1>4 DEF BeginClear
<1>5. ASSUME NEW j \in Jobs, EndCopy(j) PROVE AskedFor(k)'
  BY <1>5 DEF EndCopy
<1>6. ASSUME NEW j \in Jobs, InsertRow(j) PROVE AskedFor(k)'
  BY <1>6 DEF InsertRow
<1>7. ASSUME NEW j \in Jobs, EndExtract(j) PROVE AskedFor(k)'
  BY <1>7 DEF EndExtract
<1>8. ASSUME NEW j \in Jobs, Publish(j) PROVE AskedFor(k)'
  BY <1>8 DEF Publish
<1>9. ASSUME NEW j \in Jobs, EndDelete(j) PROVE AskedFor(k)'
  BY <1>9 DEF EndDelete
<1>10. ASSUME NEW j \in Jobs, Forget(j) PROVE AskedFor(k)'
  BY <1>10 DEF Forget
<1>11. ASSUME NEW j \in Jobs, EndClear(j) PROVE AskedFor(k)'
  BY <1>11 DEF EndClear
<1>12. ASSUME NEW j \in Jobs, NEW x \in Points, RequestCreate(j, x) PROVE AskedFor(k)'
  BY <1>12 DEF RequestCreate, Fresh
<1>13. ASSUME NEW j \in Jobs, NEW x \in Points, RequestRestore(j, x) PROVE AskedFor(k)'
  BY <1>13 DEF RequestRestore
<1>14. ASSUME NEW j \in Jobs, NEW x \in Points, Pass(j, x) PROVE AskedFor(k)'
  BY <1>14 DEF Pass
<1>15. ASSUME NEW j \in Jobs, NEW x \in Points, Discard(j, x) PROVE AskedFor(k)'
  BY <1>15 DEF Discard
<1>16. ASSUME NEW j \in Jobs, NEW x \in Points, DiscardFails(j, x) PROVE AskedFor(k)'
  BY <1>16 DEF DiscardFails
<1>17. ASSUME NEW p \in Prefixes, MoveAside(p) PROVE AskedFor(k)'
  BY <1>17 DEF MoveAside
<1>18. ASSUME NEW p \in Prefixes, Appear(p) PROVE AskedFor(k)'
  BY <1>18 DEF Appear
<1>19. ASSUME NEW x \in Points, OperationEnds(x) PROVE AskedFor(k)'
  BY <1>19 DEF OperationEnds, Creating
<1>20. ASSUME NEW q \in Processes, Crash(q) PROVE AskedFor(k)'
  BY <1>20 DEF Crash
<1>21. ASSUME UNCHANGED vars PROVE AskedFor(k)'
  BY <1>21 DEF vars
<1> QED
  BY <1>1, <1>2, <1>3, <1>4, <1>5, <1>6, <1>7, <1>8, <1>9, <1>10, <1>11, <1>12, <1>13,
     <1>14, <1>15, <1>16, <1>17, <1>18, <1>19, <1>20, <1>21 DEF Next, Begin, Proceed

\* Under the refinement mapping, which keeps the points that are listed and whole, and
\* how far their operations are: a point is taken.
LEMMA VisibleTake ==
  ASSUME NEW x \in Points, x \in Owned => Needed(x), x \notin Usable,
         Usable' = Usable \cup {x}, operation' = operation
  PROVE  Snapshots!Next
<1>1. x \in Owned => PointPhase[x] = "unfinished"
  BY DEF PointPhase
<1>2. PointPhase' = PointPhase
  BY DEF PointPhase, Needed
<1>3. Snapshots!Take(x)
  BY <1>1, <1>2 DEF Usable, Snapshots!Take
<1> QED
  BY <1>3 DEF Snapshots!Next

\* One that nobody needs is gone.
LEMMA VisibleClear ==
  ASSUME NEW x \in Points, ~Needed(x), Usable' = Usable \ {x}, operation' = operation
  PROVE  Snapshots!Next
<1>1. PointPhase[x] # "unfinished"
  BY DEF PointPhase
<1>2. PointPhase' = PointPhase
  BY DEF PointPhase, Needed
<1>3. Snapshots!Clear
  BY <1>1, <1>2 DEF Usable, Snapshots!Clear
<1> QED
  BY <1>3 DEF Snapshots!Next

\* Nobody can tell the difference.
LEMMA VisibleStutter ==
  ASSUME rows' = rows, payload' = payload, operation' = operation
  PROVE  UNCHANGED Visible
BY DEF Visible, Usable, PointPhase, Needed

\* Every step of the recovery manager and around it is one that the engine knows, or
\* one that it cannot see.
LEMMA RestorePointsStep ==
  TypeInv /\ CreationInv /\ KeptInv /\ AskedInv /\ [Next]_vars => [Snapshots!Next]_Visible
<1> SUFFICES ASSUME TypeInv, CreationInv, KeptInv, AskedInv, [Next]_vars
             PROVE  Snapshots!Next \/ UNCHANGED Visible
  OBVIOUS
<1> USE RecoveryAssumption DEF Enter, Goto, Quit, jobs, files, setting
<1>t. /\ payload \in [Points -> {"none"} \cup Content] /\ rows \subseteq Points
      /\ operation \in [Points -> {"none", "running", "stranded", "over"}]
      /\ \A j \in Jobs : pc[j] \in Inside \ {"sweeping"} => point[j] \in Points
  BY DEF TypeInv, TypeOK, Placed, AtPoint
<1>g. \A j \in Jobs : pc[j] \in {"copying", "inserting"} =>
        point[j] \notin rows /\ (pc[j] = "inserting" => payload[point[j]] = "whole")
  BY DEF CreationInv, Exclusive, Growing
<1>k. \A j \in Jobs : pc[j] \in {"deleting", "forgetting"} => ~Needed(point[j])
  BY <1>t DEF KeptInv, Kept, Inside
<1>o. \A j \in Jobs : pc[j] = "inserting" /\ point[j] \in Owned => Needed(point[j])
  BY DEF AskedInv, AskedFor
<1>1. ASSUME NEW j \in Jobs, RequestClear(j) PROVE Snapshots!Next \/ UNCHANGED Visible
  BY <1>1, VisibleStutter DEF RequestClear
<1>2. ASSUME NEW j \in Jobs, BeginCreate(j) PROVE Snapshots!Next \/ UNCHANGED Visible
  BY <1>2, VisibleStutter DEF BeginCreate
<1>3. ASSUME NEW j \in Jobs, BeginRestore(j) PROVE Snapshots!Next \/ UNCHANGED Visible
  BY <1>3, VisibleStutter DEF BeginRestore
<1>4. ASSUME NEW j \in Jobs, BeginClear(j) PROVE Snapshots!Next \/ UNCHANGED Visible
  BY <1>4, VisibleStutter DEF BeginClear
<1>5. ASSUME NEW j \in Jobs, EndCopy(j) PROVE Snapshots!Next \/ UNCHANGED Visible
  <2>1. rows' = rows /\ operation' = operation /\ point[j] \notin rows
    BY <1>5, <1>g DEF EndCopy
  <2>2. \A x \in rows : payload'[x] = payload[x]
    BY <1>5, <1>t, <2>1 DEF EndCopy
  <2> QED
    BY <2>1, <2>2 DEF Visible, Usable, PointPhase, Needed
<1>6. ASSUME NEW j \in Jobs, InsertRow(j) PROVE Snapshots!Next \/ UNCHANGED Visible
  <2>1. /\ point[j] \in Points /\ point[j] \notin rows /\ operation' = operation
        /\ payload[point[j]] = "whole" /\ (point[j] \in Owned => Needed(point[j]))
    BY <1>6, <1>t, <1>g, <1>o DEF InsertRow, Inside
  <2>2. CASE rows' = rows \cup {point[j]} /\ payload' = payload
    BY <2>1, <2>2, VisibleTake DEF Usable
  <2>3. CASE rows' = rows /\ \E left \in {"none", "whole"} : payload' = [payload EXCEPT ![point[j]] = left]
    <3>1. \A x \in rows : payload'[x] = payload[x]
      BY <1>t, <2>1, <2>3
    <3> QED
      BY <2>1, <2>3, <3>1 DEF Visible, Usable, PointPhase, Needed
  <2> QED
    BY <1>6, <2>1, <2>2, <2>3 DEF InsertRow
<1>7. ASSUME NEW j \in Jobs, EndExtract(j) PROVE Snapshots!Next \/ UNCHANGED Visible
  BY <1>7, VisibleStutter DEF EndExtract
<1>8. ASSUME NEW j \in Jobs, Publish(j) PROVE Snapshots!Next \/ UNCHANGED Visible
  BY <1>8, VisibleStutter DEF Publish
<1>9. ASSUME NEW j \in Jobs, EndDelete(j) PROVE Snapshots!Next \/ UNCHANGED Visible
  <2>1. point[j] \in Points /\ ~Needed(point[j]) /\ rows' = rows /\ operation' = operation
    BY <1>9, <1>t, <1>k DEF EndDelete, Inside
  <2>2. CASE payload' = [payload EXCEPT ![point[j]] = "none"]
    <3>1. Usable' = Usable \ {point[j]}
      BY <1>t, <2>1, <2>2 DEF Usable
    <3> QED
      BY <2>1, <3>1, VisibleClear
  <2>3. CASE payload' = payload
    BY <2>1, <2>3, VisibleStutter
  <2> QED
    BY <1>9, <2>2, <2>3 DEF EndDelete
<1>10. ASSUME NEW j \in Jobs, Forget(j) PROVE Snapshots!Next \/ UNCHANGED Visible
  <2>1. /\ point[j] \in Points /\ ~Needed(point[j])
        /\ payload' = payload /\ operation' = operation
    BY <1>10, <1>t, <1>k DEF Forget, Inside
  <2>2. CASE rows' = rows \ {point[j]}
    <3>1. Usable' = Usable \ {point[j]}
      BY <2>1, <2>2 DEF Usable
    <3> QED
      BY <2>1, <3>1, VisibleClear
  <2>3. CASE rows' = rows
    BY <2>1, <2>3, VisibleStutter
  <2> QED
    BY <1>10, <2>2, <2>3 DEF Forget
<1>11. ASSUME NEW j \in Jobs, EndClear(j) PROVE Snapshots!Next \/ UNCHANGED Visible
  BY <1>11, VisibleStutter DEF EndClear
<1>12. ASSUME NEW j \in Jobs, NEW x \in Points, RequestCreate(j, x) PROVE Snapshots!Next \/ UNCHANGED Visible
  <2>1. rows' = rows /\ payload' = payload /\ x \notin rows /\ operation[x] = "none"
    BY <1>12 DEF RequestCreate, Fresh
  <2>2. CASE x \in Owned
    <3>1. operation' = [operation EXCEPT ![x] = "running"]
      BY <1>12, <2>2 DEF RequestCreate
    <3>2. PointPhase' = [PointPhase EXCEPT ![x] = "unfinished"] /\ PointPhase[x] = "none"
      BY <1>t, <2>1, <2>2, <3>1 DEF PointPhase, Needed
    <3>3. Snapshots!Ask(x)
      BY <2>1, <2>2, <3>2 DEF Snapshots!Ask
    <3> QED
      BY <3>3 DEF Snapshots!Next
  <2>3. CASE x \notin Owned
    <3>1. operation' = operation
      BY <1>12, <1>t, <2>3 DEF RequestCreate
    <3> QED
      BY <2>1, <3>1, VisibleStutter
  <2> QED
    BY <2>2, <2>3
<1>13. ASSUME NEW j \in Jobs, NEW x \in Points, RequestRestore(j, x) PROVE Snapshots!Next \/ UNCHANGED Visible
  BY <1>13, VisibleStutter DEF RequestRestore
<1>14. ASSUME NEW j \in Jobs, NEW x \in Points, Pass(j, x) PROVE Snapshots!Next \/ UNCHANGED Visible
  BY <1>14, VisibleStutter DEF Pass
<1>15. ASSUME NEW j \in Jobs, NEW x \in Points, Discard(j, x) PROVE Snapshots!Next \/ UNCHANGED Visible
  <2>1. /\ rows' = rows /\ operation' = operation /\ ~Needed(x)
        /\ \E left \in {"none", "torn"} : payload' = [payload EXCEPT ![x] = left]
    BY <1>15 DEF Discard, Protected, Needed
  <2>2. Usable' = Usable \ {x}
    BY <1>t, <2>1 DEF Usable
  <2> QED
    BY <2>1, <2>2, VisibleClear
<1>16. ASSUME NEW j \in Jobs, NEW x \in Points, DiscardFails(j, x) PROVE Snapshots!Next \/ UNCHANGED Visible
  BY <1>16, VisibleStutter DEF DiscardFails
<1>17. ASSUME NEW p \in Prefixes, MoveAside(p) PROVE Snapshots!Next \/ UNCHANGED Visible
  BY <1>17, VisibleStutter DEF MoveAside
<1>18. ASSUME NEW p \in Prefixes, Appear(p) PROVE Snapshots!Next \/ UNCHANGED Visible
  BY <1>18, VisibleStutter DEF Appear
<1>19. ASSUME NEW x \in Points, OperationEnds(x) PROVE Snapshots!Next \/ UNCHANGED Visible
  <2>1. /\ rows' = rows /\ payload' = payload /\ operation[x] = "running"
        /\ operation' = [operation EXCEPT ![x] = "over"]
    BY <1>19 DEF OperationEnds
  <2>2. CASE x \in Owned
    <3>1. PointPhase' = [PointPhase EXCEPT ![x] = "over"] /\ PointPhase[x] # "over"
      BY <1>t, <2>1, <2>2 DEF PointPhase, Needed
    <3>2. Snapshots!Conclude(x)
      BY <2>1, <2>2, <3>1 DEF Snapshots!Conclude
    <3> QED
      BY <3>2 DEF Snapshots!Next
  <2>3. CASE x \notin Owned
    BY <1>t, <2>1, <2>3 DEF Visible, Usable, PointPhase, Needed
  <2> QED
    BY <2>2, <2>3
<1>20. ASSUME NEW q \in Processes, Crash(q) PROVE Snapshots!Next \/ UNCHANGED Visible
  <2>1. rows' = rows /\ payload' = payload
    BY <1>20 DEF Crash
  <2>2. \A x \in Points : /\ Needed(x)' <=> Needed(x)
                          /\ operation'[x] = "over" <=> operation[x] = "over"
    BY <1>20, <1>t DEF Crash, Needed
  <2> QED
    BY <2>1, <2>2 DEF Visible, Usable, PointPhase
<1>21. ASSUME UNCHANGED vars PROVE Snapshots!Next \/ UNCHANGED Visible
  BY <1>21, VisibleStutter DEF vars
<1> QED
  BY <1>1, <1>2, <1>3, <1>4, <1>5, <1>6, <1>7, <1>8, <1>9, <1>10, <1>11, <1>12, <1>13,
     <1>14, <1>15, <1>16, <1>17, <1>18, <1>19, <1>20, <1>21 DEF Next, Begin, Proceed

\* The engine may take creating a point and clearing for single steps, by which a point
\* is listed and whole from its creation until its operation is concluded.
THEOREM RecoveryImplementsRestorePoints == Spec => ImplementsRestorePoints
<1>1. Init => Snapshots!Init
  BY DEF Init, PointPhase, Needed, Snapshots!Init
<1>2. TypeInv /\ CreationInv /\ KeptInv /\ AskedInv /\ [Next]_vars => [Snapshots!Next]_Visible
  BY RestorePointsStep
<1> QED
  BY InitTypes, TypeStep, InitCreation, CreationStep, InitKept, KeptStep, InitAsked, AskedStep,
     <1>1, <1>2, PTL
     DEF Spec, ImplementsRestorePoints, Snapshots!Spec, Visible, Usable

=============================================================================
