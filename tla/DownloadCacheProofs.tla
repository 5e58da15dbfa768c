-------------------------- MODULE DownloadCacheProofs --------------------------
(***************************************************************************)
(* What holds of the files of recipes for any jobs, processes, paths and   *)
(* pins, and any bounds on clearings and exits.                            *)
(***************************************************************************)
EXTENDS DownloadCache, TLAPS

-----------------------------------------------------------------------------
(* Type correctness.                                                       *)

Place == {"idle", "queued", "have", "preparing", "opening", "copying", "importing"}
           \cup Holding \cup Ended

\* The job is where it was sent, no other job moved, and only the end of the job
\* makes it forget that a clearing was below it.
LEMMA GotoMoves ==
  ASSUME CacheTypeOK, NEW j \in Jobs, NEW place \in Place, Goto(j, place)
  PROVE  /\ at' \in [Jobs -> Place] /\ at'[j] = place
         /\ \A k \in Jobs : k # j => at'[k] = at[k]
         /\ tried' \in [Jobs -> 0 .. Sources]
         /\ disturbed' \subseteq Jobs
         /\ \A k \in Jobs : k # j => (k \in disturbed' <=> k \in disturbed)
         /\ place \notin Ended \ {"gone"} => disturbed' = disturbed
<1>1. 0 \in 0 .. Sources
  BY CacheAssumption
<1>2. at \in [Jobs -> Place] /\ tried \in [Jobs -> 0 .. Sources] /\ disturbed \subseteq Jobs
  BY DEF CacheTypeOK, Place
<1>3. disturbed' = IF place \in Ended \ {"gone"} THEN disturbed \ {j} ELSE disturbed
  BY DEF Goto
<1>4. at' = [at EXCEPT ![j] = place]
  BY DEF Goto
<1>5. tried' = [tried EXCEPT ![j] = IF place \in Ended THEN 0 ELSE @]
  BY DEF Goto
<1> QED
  BY <1>1, <1>2, <1>3, <1>4, <1>5

\* Typing is not inductive by itself: a job that fetches has a source left, and
\* what it renames is whole, or gone.
Grounded(j) ==
  /\ at[j] = "fetching" => tried[j] < Sources
  /\ at[j] \in {"renaming", "importing"} => part[j] \in {Absent, Pin[j]}
TypeInv == CacheTypeOK /\ \A j \in Jobs : Grounded(j)

\* The initial state has every variable in its type.
LEMMA InitType == CacheInit => TypeInv
BY CacheAssumption DEF CacheInit, CacheTypeOK, TypeInv, Grounded

\* What a job that moves has to see to, for the types to be kept.
LEMMA MoveKeepsType ==
  ASSUME TypeInv, NEW j \in Jobs, NEW place \in Place, Goto(j, place),
         UNCHANGED around,
         cached' \in [Paths -> Contents \cup {Absent}],
         publisher' \in [Paths -> Jobs \cup {Nobody}],
         dir' \subseteq Paths,
         part' \in [Jobs -> Contents \cup {Absent, Half}],
         used' \in [Jobs -> Contents \cup {Absent}],
         \A k \in Jobs : k # j => part'[k] = part[k],
         place = "fetching" => tried[j] < Sources,
         place \in {"renaming", "importing"} => part'[j] \in {Absent, Pin[j]}
  PROVE  TypeInv'
<1>1. at' \in [Jobs -> Place] /\ tried' \in [Jobs -> 0 .. Sources] /\ disturbed' \subseteq Jobs
  BY GotoMoves DEF TypeInv
<1>2. up' \subseteq Processes /\ clearing' \subseteq Paths /\ clears' \in 0 .. MaxClears
  BY DEF TypeInv, CacheTypeOK, around
<1>3. CacheTypeOK'
  BY <1>1, <1>2 DEF CacheTypeOK, Place
<1>4. at'[j] = place /\ \A k \in Jobs : k # j => at'[k] = at[k]
  BY GotoMoves DEF TypeInv
<1>5. /\ place = "fetching" => tried'[j] = tried[j]
      /\ \A k \in Jobs : k # j => tried'[k] = tried[k]
  BY DEF Goto, TypeInv, CacheTypeOK, Ended
<1>6. ASSUME NEW k \in Jobs PROVE Grounded(k)'
  BY <1>4, <1>5 DEF TypeInv, Grounded
<1> QED
  BY <1>3, <1>6 DEF TypeInv

\* Every step keeps every variable in its type.
LEMMA TypeStep == TypeInv /\ [CacheNext]_cacheVars => TypeInv'
<1> SUFFICES ASSUME TypeInv, [CacheNext]_cacheVars
             PROVE  TypeInv'
  OBVIOUS
<1> USE CacheAssumption
    DEF TypeInv, CacheTypeOK, Place, Holding, Fetching, Ended, files, around, Partial
<1>1. ASSUME NEW j \in Jobs, Request(j) PROVE TypeInv'
  BY <1>1, MoveKeepsType DEF Request
<1>2. ASSUME NEW j \in Jobs, Lock(j) PROVE TypeInv'
  BY <1>2, MoveKeepsType DEF Lock
<1>3. ASSUME NEW j \in Jobs, FindCached(j) PROVE TypeInv'
  BY <1>3, MoveKeepsType DEF FindCached
<1>4. ASSUME NEW j \in Jobs, CheckCached(j) PROVE TypeInv'
  BY <1>4, MoveKeepsType DEF CheckCached
<1>5. ASSUME NEW j \in Jobs, NeedManual(j) PROVE TypeInv'
  BY <1>5, MoveKeepsType DEF NeedManual
<1>6. ASSUME NEW j \in Jobs, Prepare(j) PROVE TypeInv'
  BY <1>6, MoveKeepsType DEF Prepare
<1>7. ASSUME NEW j \in Jobs, GiveUp(j) PROVE TypeInv'
  BY <1>7, MoveKeepsType DEF GiveUp
<1>8. ASSUME NEW j \in Jobs, Answer(j) PROVE TypeInv'
  BY <1>8, MoveKeepsType DEF Answer
<1>9. ASSUME NEW j \in Jobs, SourceFails(j) PROVE TypeInv'
  <2>1. CacheTypeOK'
    BY <1>9 DEF SourceFails, Grounded
  <2>2. ASSUME NEW k \in Jobs PROVE Grounded(k)'
    BY <1>9 DEF SourceFails, Grounded
  <2> QED
    BY <2>1, <2>2
<1>10. ASSUME NEW j \in Jobs, StopFetching(j) PROVE TypeInv'
  BY <1>10, MoveKeepsType DEF StopFetching
<1>11. ASSUME NEW j \in Jobs, FinishFetching(j) PROVE TypeInv'
  BY <1>11, MoveKeepsType DEF FinishFetching
<1>12. ASSUME NEW j \in Jobs, VerifyPartial(j) PROVE TypeInv'
  BY <1>12, MoveKeepsType DEF VerifyPartial
<1>13. ASSUME NEW j \in Jobs, Rename(j) PROVE TypeInv'
  <2>1. part[j] # Half
    BY <1>13 DEF Rename, Grounded
  <2>2. cached' \in [Paths -> Contents \cup {Absent}]
    BY <1>13, <2>1 DEF Rename
  <2>3. publisher' \in [Paths -> Jobs \cup {Nobody}]
    BY <1>13 DEF Rename
  <2> QED
    BY <1>13, <2>2, <2>3, MoveKeepsType DEF Rename
<1>14. ASSUME NEW j \in Jobs, Use(j) PROVE TypeInv'
  BY <1>14, MoveKeepsType DEF Use
<1>15. ASSUME NEW j \in Jobs, ImportInPlace(j) PROVE TypeInv'
  BY <1>15, MoveKeepsType DEF ImportInPlace
<1>16. ASSUME NEW j \in Jobs, PrepareImport(j) PROVE TypeInv'
  BY <1>16, MoveKeepsType DEF PrepareImport
<1>17. ASSUME NEW j \in Jobs, OpenImport(j) PROVE TypeInv'
  BY <1>17, MoveKeepsType DEF OpenImport
<1>18. ASSUME NEW j \in Jobs, CopyImport(j) PROVE TypeInv'
  BY <1>18, MoveKeepsType DEF CopyImport
<1>19. ASSUME NEW j \in Jobs, RefuseImport(j) PROVE TypeInv'
  BY <1>19, MoveKeepsType DEF RefuseImport
<1>20. ASSUME BeginClear PROVE TypeInv'
  BY <1>20 DEF BeginClear, jobs, Grounded
<1>21. ASSUME AbortClear PROVE TypeInv'
  BY <1>21 DEF AbortClear, jobs, Grounded
<1>22. ASSUME NEW p \in Paths, ClearFile(p) PROVE TypeInv'
  BY <1>22 DEF ClearFile, Disturb, jobs, Grounded
<1>23. ASSUME NEW p \in Paths, ClearDirectory(p) PROVE TypeInv'
  BY <1>23 DEF ClearDirectory, Disturb, jobs, Grounded
<1>24. ASSUME NEW p \in Processes, Exit(p) PROVE TypeInv'
  BY <1>24 DEF Exit, Disturb, jobs, Grounded
<1>25. ASSUME UNCHANGED cacheVars PROVE TypeInv'
  BY <1>25 DEF cacheVars, jobs, Grounded
<1> QED
  BY <1>1, <1>2, <1>3, <1>4, <1>5, <1>6, <1>7, <1>8, <1>9, <1>10, <1>11, <1>12, <1>13, <1>14, <1>15, <1>16, <1>17, <1>18, <1>19, <1>20, <1>21, <1>22, <1>23, <1>24, <1>25 DEF CacheNext, Work, Clear

\* Every variable keeps its type: a source, a lock, a checksum or a clearing never
\* brings the files of a recipe into a state that the code has no name for.
THEOREM CacheTypeCorrect == CacheSpec => []CacheTypeOK
<1>1. TypeInv => CacheTypeOK
  BY DEF TypeInv
<1> QED
  BY InitType, TypeStep, <1>1, PTL DEF CacheSpec

-----------------------------------------------------------------------------
(* Only pinned contents are used.                                          *)

Begun(j) == at[j] \notin {"idle", "queued"}

\* What is published is what its publisher pins.
Published(p) ==
  publisher[p] # Nobody =>
    /\ PathOf[publisher[p]] = p
    /\ cached[p] = Pin[publisher[p]]
    /\ Begun(publisher[p])

\* A job that looked at a file nobody published has seen its own pin.
Sure(j) ==
  at[j] = "have" /\ publisher[PathOf[j]] = Nobody => cached[PathOf[j]] \in {Absent, Pin[j]}

Explained(j) ==
  used[j] # Absent /\ used[j] # Pin[j] =>
    \E k \in Jobs : PathOf[k] = PathOf[j] /\ used[j] = Pin[k] /\ Begun(k)

PinInv ==
  /\ TypeInv
  /\ \A p \in Paths : Published(p)
  /\ \A j \in Jobs : Sure(j) /\ Explained(j)

\* Nothing is published or used at first.
LEMMA InitPins == CacheInit => PinInv
BY InitType, CacheAssumption DEF CacheInit, PinInv, Published, Sure, Explained

\* A job that has begun has begun for good.
LEMMA BegunStays ==
  ASSUME CacheTypeOK, NEW j \in Jobs, NEW place \in Place, Goto(j, place),
         place \in {"idle", "queued"} => at[j] = "idle",
         NEW k \in Jobs, Begun(k)
  PROVE  Begun(k)'
BY GotoMoves DEF Begun

\* A job moves, and the cache stays as it is.
LEMMA MoveKeepsPins ==
  ASSUME PinInv, TypeInv', NEW j \in Jobs, NEW place \in Place, Goto(j, place),
         UNCHANGED <<cached, publisher, used>>,
         place \in {"idle", "queued"} => at[j] = "idle",
         place = "have" => cached[PathOf[j]] = Pin[j]
  PROVE  PinInv'
<1>1. \A k \in Jobs : Begun(k) => Begun(k)'
  BY BegunStays DEF PinInv, TypeInv
<1>2. at'[j] = place /\ \A k \in Jobs : k # j => at'[k] = at[k]
  BY GotoMoves DEF PinInv, TypeInv
<1>3. ASSUME NEW p \in Paths PROVE Published(p)'
  BY <1>1 DEF PinInv, TypeInv, CacheTypeOK, Published
<1>4. ASSUME NEW k \in Jobs PROVE Sure(k)'
  BY <1>2 DEF PinInv, Sure
<1>5. ASSUME NEW k \in Jobs PROVE Explained(k)'
  <2>1. Explained(k)
    BY DEF PinInv
  <2> QED
    BY <1>1, <2>1 DEF Explained
<1> QED
  BY <1>3, <1>4, <1>5 DEF PinInv

\* Every step keeps the cache and what was used of it to the pins.
LEMMA PinStep == PinInv /\ [CacheNext]_cacheVars => PinInv'
<1> SUFFICES ASSUME PinInv, [CacheNext]_cacheVars
             PROVE  PinInv'
  OBVIOUS
<1>t. TypeInv'
  BY TypeStep DEF PinInv
<1>c. CacheTypeOK
  BY DEF PinInv, TypeInv
<1>p. at \in [Jobs -> Place]
  BY <1>c DEF CacheTypeOK, Place
<1>a. /\ RunsIn \in [Jobs -> Processes] /\ PathOf \in [Jobs -> Paths]
      /\ Pin \in [Jobs -> Contents] /\ Absent \notin Contents /\ Nobody \notin Jobs
  BY CacheAssumption
<1>1. ASSUME NEW j \in Jobs, Request(j) PROVE PinInv'
  BY <1>1, <1>t, MoveKeepsPins DEF Request, files, Place
<1>2. ASSUME NEW j \in Jobs, Lock(j) PROVE PinInv'
  BY <1>2, <1>t, MoveKeepsPins DEF Lock, files, Place, Holding
<1>3. ASSUME NEW j \in Jobs, FindCached(j) PROVE PinInv'
  BY <1>3, <1>t, MoveKeepsPins DEF FindCached, files, Place, Holding
<1>4. ASSUME NEW j \in Jobs, CheckCached(j) PROVE PinInv'
  BY <1>4, <1>t, MoveKeepsPins DEF CheckCached, files, Place, Ended
<1>5. ASSUME NEW j \in Jobs, NeedManual(j) PROVE PinInv'
  BY <1>5, <1>t, MoveKeepsPins DEF NeedManual, files, Place, Ended
<1>6. ASSUME NEW j \in Jobs, Prepare(j) PROVE PinInv'
  BY <1>6, <1>t, MoveKeepsPins DEF Prepare, Place, Holding, Fetching
<1>7. ASSUME NEW j \in Jobs, GiveUp(j) PROVE PinInv'
  BY <1>7, <1>t, MoveKeepsPins DEF GiveUp, files, Place, Ended
<1>8. ASSUME NEW j \in Jobs, Answer(j) PROVE PinInv'
  BY <1>8, <1>t, MoveKeepsPins DEF Answer, Place, Holding, Fetching
<1>9. ASSUME NEW j \in Jobs, SourceFails(j) PROVE PinInv'
  <2>1. /\ UNCHANGED <<cached, publisher, used>>
        /\ at[j] \in {"asking", "fetching"} /\ at' = [at EXCEPT ![j] = "asking"]
    BY <1>9 DEF SourceFails
  <2>2. \A k \in Jobs : (Begun(k) => Begun(k)') /\ (at'[k] = "have" => at[k] = "have")
    BY <2>1, <1>p DEF Begun
  <2>3. ASSUME NEW p \in Paths PROVE Published(p)'
    BY <2>1, <2>2 DEF PinInv, TypeInv, CacheTypeOK, Published
  <2>4. ASSUME NEW k \in Jobs PROVE Sure(k)'
    BY <2>1, <2>2 DEF PinInv, Sure
  <2>5. ASSUME NEW k \in Jobs PROVE Explained(k)'
    <3>1. Explained(k)
      BY DEF PinInv
    <3> QED
      BY <2>1, <2>2, <3>1 DEF Explained
  <2> QED
    BY <1>t, <2>3, <2>4, <2>5 DEF PinInv
<1>10. ASSUME NEW j \in Jobs, StopFetching(j) PROVE PinInv'
  BY <1>10, <1>t, MoveKeepsPins DEF StopFetching, Place, Ended
<1>11. ASSUME NEW j \in Jobs, FinishFetching(j) PROVE PinInv'
  BY <1>11, <1>t, MoveKeepsPins DEF FinishFetching, Place, Holding, Fetching
<1>12. ASSUME NEW j \in Jobs, VerifyPartial(j) PROVE PinInv'
  BY <1>12, <1>t, MoveKeepsPins DEF VerifyPartial, files, Place, Holding, Fetching, Ended
<1>13. ASSUME NEW j \in Jobs, Rename(j) PROVE PinInv'
  <2>1. CASE part[j] = Absent
    BY <1>13, <2>1, <1>t, MoveKeepsPins DEF Rename, Place, Ended, Partial
  <2>2. CASE part[j] # Absent
    <3> DEFINE place == IF at[j] = "importing" THEN "imported" ELSE "have"
    <3>1. /\ cached' = [cached EXCEPT ![PathOf[j]] = part[j]]
          /\ publisher' = [publisher EXCEPT ![PathOf[j]] = j]
          /\ Goto(j, place) /\ used' = used
          /\ at[j] \in {"renaming", "importing"}
      BY <1>13, <2>2 DEF Rename, Partial
    <3>2. part[j] = Pin[j]
      BY <2>2, <3>1 DEF PinInv, TypeInv, Grounded
    <3>3. place \in Place /\ place \notin {"idle", "queued"}
      BY DEF Place, Ended
    <3> HIDE DEF place
    <3>4. at'[j] = place /\ \A k \in Jobs : k # j => at'[k] = at[k]
      BY <3>1, <3>3, <1>c, GotoMoves
    <3>5. \A k \in Jobs : Begun(k) => Begun(k)'
      BY <3>3, <3>4 DEF Begun
    <3>6. ASSUME NEW p \in Paths PROVE Published(p)'
      <4>1. CASE p = PathOf[j]
        BY <3>1, <3>2, <3>3, <3>4, <4>1, <1>a, <1>c DEF Published, Begun, CacheTypeOK
      <4>2. CASE p # PathOf[j]
        BY <3>1, <3>5, <4>2, <1>a, <1>c DEF Published, PinInv, CacheTypeOK
      <4> QED
        BY <4>1, <4>2
    <3>7. ASSUME NEW k \in Jobs PROVE Sure(k)'
      <4>1. CASE PathOf[k] = PathOf[j]
        BY <3>1, <4>1, <1>a, <1>c DEF Sure, CacheTypeOK
      <4>2. CASE PathOf[k] # PathOf[j]
        BY <3>1, <3>4, <4>2, <1>a, <1>c DEF Sure, PinInv, CacheTypeOK
      <4> QED
        BY <4>1, <4>2
    <3>8. ASSUME NEW k \in Jobs PROVE Explained(k)'
      <4>1. Explained(k)
        BY DEF PinInv
      <4> QED
        BY <3>1, <3>5, <4>1 DEF Explained
    <3> QED
      BY <1>t, <3>6, <3>7, <3>8 DEF PinInv
  <2> QED
    BY <2>1, <2>2
<1>14. ASSUME NEW j \in Jobs, Use(j) PROVE PinInv'
  <2>1. CASE used' = used
    BY <1>14, <2>1, <1>t, MoveKeepsPins DEF Use, files, Place, Ended
  <2>2. CASE used' # used
    <3> DEFINE p == PathOf[j]
    <3>1. /\ UNCHANGED <<cached, publisher>> /\ at[j] = "have" /\ Goto(j, "done")
          /\ cached[p] # Absent /\ used' = [used EXCEPT ![j] = cached[p]]
      BY <1>14, <2>2 DEF Use, files
    <3>2. "done" \in Place
      BY DEF Place, Ended
    <3>3. at'[j] = "done" /\ \A k \in Jobs : k # j => at'[k] = at[k]
      BY <3>1, <3>2, <1>c, GotoMoves
    <3>4. \A k \in Jobs : Begun(k) => Begun(k)'
      BY <3>3 DEF Begun
    <3>5. ASSUME NEW q \in Paths PROVE Published(q)'
      BY <3>1, <3>4, <1>c DEF Published, PinInv, CacheTypeOK
    <3>6. ASSUME NEW k \in Jobs PROVE Sure(k)'
      BY <3>1, <3>3 DEF Sure, PinInv
    <3>7. Explained(j)'
      <4>1. used'[j] = cached[p]
        BY <3>1, <1>c DEF CacheTypeOK
      <4>2. CASE publisher[p] = Nobody
        BY <3>1, <4>1, <4>2 DEF Explained, Sure, PinInv
      <4>3. CASE publisher[p] # Nobody
        <5>1. PICK k \in Jobs : k = publisher[p]
          BY <4>3, <1>a, <1>c DEF CacheTypeOK
        <5>2. PathOf[k] = PathOf[j] /\ cached[p] = Pin[k] /\ Begun(k)
          BY <4>3, <5>1, <1>a DEF PinInv, Published
        <5>3. PathOf[k] = PathOf[j] /\ used'[j] = Pin[k] /\ Begun(k)'
          BY <3>4, <4>1, <5>2
        <5> QED
          BY <5>3 DEF Explained
      <4> QED
        BY <4>2, <4>3
    <3>8. ASSUME NEW k \in Jobs, k # j PROVE Explained(k)'
      <4>1. Explained(k) /\ used'[k] = used[k]
        BY <3>1, <3>8, <1>c DEF PinInv, CacheTypeOK
      <4> QED
        BY <3>4, <4>1 DEF Explained
    <3> QED
      BY <1>t, <3>5, <3>6, <3>7, <3>8 DEF PinInv
  <2> QED
    BY <2>1, <2>2
<1>15. ASSUME NEW j \in Jobs, ImportInPlace(j) PROVE PinInv'
  BY <1>15, <1>t, MoveKeepsPins DEF ImportInPlace, files, Place, Ended
<1>16. ASSUME NEW j \in Jobs, PrepareImport(j) PROVE PinInv'
  BY <1>16, <1>t, MoveKeepsPins DEF PrepareImport, Place
<1>17. ASSUME NEW j \in Jobs, OpenImport(j) PROVE PinInv'
  BY <1>17, <1>t, MoveKeepsPins DEF OpenImport, Place, Ended
<1>18. ASSUME NEW j \in Jobs, CopyImport(j) PROVE PinInv'
  BY <1>18, <1>t, MoveKeepsPins DEF CopyImport, Place
<1>19. ASSUME NEW j \in Jobs, RefuseImport(j) PROVE PinInv'
  BY <1>19, <1>t, MoveKeepsPins DEF RefuseImport, Place, Ended
<1>20. ASSUME UNCHANGED <<cached, publisher, at, used>> PROVE PinInv'
  <2>1. \A p \in Paths : Published(p)'
    BY <1>20 DEF PinInv, Published, Begun
  <2>2. \A k \in Jobs : Sure(k)' /\ Explained(k)'
    BY <1>20 DEF PinInv, Sure, Explained, Begun
  <2> QED
    BY <1>t, <2>1, <2>2 DEF PinInv
<1>21. ASSUME NEW p \in Paths, ClearFile(p) PROVE PinInv'
  <2>1. CASE UNCHANGED <<cached, publisher>>
    BY <1>20, <1>21, <2>1 DEF ClearFile
  <2>2. CASE /\ cached' = [cached EXCEPT ![p] = Absent]
             /\ publisher' = [publisher EXCEPT ![p] = Nobody]
    <3>1. UNCHANGED <<at, used>>
      BY <1>21 DEF ClearFile
    <3>2. ASSUME NEW q \in Paths PROVE Published(q)'
      BY <2>2, <3>1, <1>c DEF PinInv, Published, Begun, CacheTypeOK
    <3>3. ASSUME NEW k \in Jobs PROVE Sure(k)'
      BY <2>2, <3>1, <1>a, <1>c DEF PinInv, Sure, CacheTypeOK
    <3>4. ASSUME NEW k \in Jobs PROVE Explained(k)'
      BY <3>1 DEF PinInv, Explained, Begun
    <3> QED
      BY <1>t, <3>2, <3>3, <3>4 DEF PinInv
  <2> QED
    BY <1>21, <2>1, <2>2 DEF ClearFile
<1>22. ASSUME NEW q \in Processes, Exit(q) PROVE PinInv'
  <2>1. UNCHANGED <<cached, publisher, used>>
    BY <1>22 DEF Exit, files
  <2>2. \A k \in Jobs : at'[k] \in {at[k], "dead"}
    BY <1>22, <1>p DEF Exit
  <2>3. \A k \in Jobs : (Begun(k) => Begun(k)') /\ (at'[k] = "have" => at[k] = "have")
    BY <2>2 DEF Begun
  <2>4. ASSUME NEW p \in Paths PROVE Published(p)'
    BY <2>1, <2>3, <1>c DEF PinInv, CacheTypeOK, Published
  <2>5. ASSUME NEW k \in Jobs PROVE Sure(k)'
    BY <2>1, <2>3 DEF PinInv, Sure
  <2>6. ASSUME NEW k \in Jobs PROVE Explained(k)'
    <3>1. Explained(k)
      BY DEF PinInv
    <3> QED
      BY <2>1, <2>3, <3>1 DEF Explained
  <2> QED
    BY <1>t, <2>4, <2>5, <2>6 DEF PinInv
<1>23. ASSUME Clear PROVE PinInv'
  BY <1>20, <1>21, <1>23 DEF Clear, BeginClear, AbortClear, ClearDirectory, files, jobs
<1>24. ASSUME UNCHANGED cacheVars PROVE PinInv'
  BY <1>20, <1>24 DEF cacheVars, files, jobs
<1> QED
  BY <1>1, <1>2, <1>3, <1>4, <1>5, <1>6, <1>7, <1>8, <1>9, <1>10, <1>11, <1>12, <1>13, <1>14, <1>15, <1>16, <1>17, <1>18, <1>19, <1>22, <1>23, <1>24 DEF CacheNext, Work

\* Whatever the sources deliver, whoever imports, clears or ends, a step works on
\* a file that its own recipe pins, or on one that a job of another catalog put
\* there in the meantime, and no broken off or wrong file becomes the cached one.
THEOREM PinsAreKept == CacheSpec => []OnlyPinnedIsUsed
<1>1. PinInv => OnlyPinnedIsUsed
  BY DEF PinInv, Published, Explained, Begun, OnlyPinnedIsUsed
<1> QED
  BY InitPins, PinStep, <1>1, PTL DEF CacheSpec

-----------------------------------------------------------------------------
(* A process fetches a file once.                                          *)

Rivals(j, k) == j # k /\ PathOf[j] = PathOf[k] /\ RunsIn[j] = RunsIn[k]

\* Two jobs that share a lock do not both hold it, and the one that fetches found
\* nothing there: what its rival published since then is an import.
Apart(j, k) ==
  Rivals(j, k) =>
    /\ at[j] \notin Holding \/ at[k] \notin Holding
    /\ at[j] \in Fetching /\ publisher[PathOf[j]] = k => at[k] = "imported"

FetchInv == PinInv /\ \A j, k \in Jobs : Apart(j, k)

\* No job holds a lock at first.
LEMMA InitFetch == CacheInit => FetchInv
BY InitPins DEF CacheInit, FetchInv, Apart, Holding, Fetching

\* A job moves that does not start to hold a lock or to fetch, and publishes
\* nothing.
LEMMA MoveKeepsApart ==
  ASSUME FetchInv, PinInv', publisher' = publisher,
         NEW j \in Jobs, NEW place \in Place,
         at'[j] = place /\ \A k \in Jobs : k # j => at'[k] = at[k],
         place \in Holding => at[j] \in Holding,
         place \in Fetching => at[j] \in Fetching,
         at[j] # "imported"
  PROVE  FetchInv'
<1>1. ASSUME NEW i \in Jobs, NEW k \in Jobs PROVE Apart(i, k)'
  <2>1. Apart(i, k)
    BY DEF FetchInv
  <2>2. \A m \in Jobs : /\ at'[m] \in Holding => at[m] \in Holding
                        /\ at'[m] \in Fetching => at[m] \in Fetching
                        /\ at[m] = "imported" => at'[m] = "imported"
    OBVIOUS
  <2> QED
    BY <2>1, <2>2 DEF Apart, Rivals
<1> QED
  BY <1>1 DEF FetchInv

\* Every step keeps the rivals apart.
LEMMA FetchStep == FetchInv /\ [CacheNext]_cacheVars => FetchInv'
<1> SUFFICES ASSUME FetchInv, [CacheNext]_cacheVars
             PROVE  FetchInv'
  OBVIOUS
<1>t. PinInv'
  BY PinStep DEF FetchInv
<1>c. CacheTypeOK
  BY DEF FetchInv, PinInv, TypeInv
<1>p. at \in [Jobs -> Place]
  BY <1>c DEF CacheTypeOK, Place
<1>a. /\ RunsIn \in [Jobs -> Processes] /\ PathOf \in [Jobs -> Paths]
      /\ Pin \in [Jobs -> Contents] /\ Absent \notin Contents /\ Nobody \notin Jobs
  BY CacheAssumption
<1>m. ASSUME NEW j \in Jobs, NEW place \in Place, Goto(j, place),
             publisher' = publisher,
             place \in Holding => at[j] \in Holding,
             place \in Fetching => at[j] \in Fetching,
             at[j] # "imported"
      PROVE  FetchInv'
  BY <1>c, <1>t, <1>m, GotoMoves, MoveKeepsApart
<1> USE DEF Place, Holding, Fetching, Ended
<1>1. ASSUME NEW j \in Jobs, Request(j) PROVE FetchInv'
  BY <1>1, <1>m DEF Request, files
<1>2. ASSUME NEW j \in Jobs, Lock(j) PROVE FetchInv'
  <2>1. at'[j] = "looking" /\ \A k \in Jobs : k # j => at'[k] = at[k]
    BY <1>2, <1>c, GotoMoves DEF Lock
  <2>2. /\ at[j] = "queued" /\ publisher' = publisher
        /\ \A k \in Jobs : Rivals(j, k) \/ Rivals(k, j) => at[k] \notin Holding
    BY <1>2 DEF Lock, LockFree, files, Rivals
  <2>3. ASSUME NEW i \in Jobs, NEW k \in Jobs PROVE Apart(i, k)'
    <3>1. Apart(i, k)
      BY DEF FetchInv
    <3> QED
      BY <2>1, <2>2, <3>1 DEF Apart, Rivals
  <2> QED
    BY <1>t, <2>3 DEF FetchInv
<1>3. ASSUME NEW j \in Jobs, FindCached(j) PROVE FetchInv'
  BY <1>3, <1>m DEF FindCached, files
<1>4. ASSUME NEW j \in Jobs, CheckCached(j) PROVE FetchInv'
  BY <1>4, <1>m DEF CheckCached, files
<1>5. ASSUME NEW j \in Jobs, NeedManual(j) PROVE FetchInv'
  BY <1>5, <1>m DEF NeedManual, files
<1>6. ASSUME NEW j \in Jobs, Prepare(j) PROVE FetchInv'
  <2>1. at'[j] = "asking" /\ \A k \in Jobs : k # j => at'[k] = at[k]
    BY <1>6, <1>c, GotoMoves DEF Prepare
  <2>2. at[j] = "looking" /\ publisher' = publisher /\ cached[PathOf[j]] = Absent
    BY <1>6 DEF Prepare
  <2>3. publisher[PathOf[j]] = Nobody
    BY <2>2, <1>a, <1>c DEF FetchInv, PinInv, Published, CacheTypeOK
  <2>4. ASSUME NEW i \in Jobs, NEW k \in Jobs PROVE Apart(i, k)'
    <3>1. Apart(i, k)
      BY DEF FetchInv
    <3> QED
      BY <2>1, <2>2, <2>3, <3>1, <1>a DEF Apart, Rivals
  <2> QED
    BY <1>t, <2>4 DEF FetchInv
<1>7. ASSUME NEW j \in Jobs, GiveUp(j) PROVE FetchInv'
  BY <1>7, <1>m DEF GiveUp, files
<1>8. ASSUME NEW j \in Jobs, Answer(j) PROVE FetchInv'
  BY <1>8, <1>m DEF Answer
<1>9. ASSUME NEW j \in Jobs, SourceFails(j) PROVE FetchInv'
  BY <1>9, <1>t, <1>p, MoveKeepsApart DEF SourceFails
<1>10. ASSUME NEW j \in Jobs, StopFetching(j) PROVE FetchInv'
  BY <1>10, <1>m DEF StopFetching
<1>11. ASSUME NEW j \in Jobs, FinishFetching(j) PROVE FetchInv'
  BY <1>11, <1>m DEF FinishFetching
<1>12. ASSUME NEW j \in Jobs, VerifyPartial(j) PROVE FetchInv'
  BY <1>12, <1>m DEF VerifyPartial, files
<1>13. ASSUME NEW j \in Jobs, Rename(j) PROVE FetchInv'
  <2>1. CASE part[j] = Absent
    BY <1>13, <2>1, <1>m DEF Rename, Partial
  <2>2. CASE part[j] # Absent
    <3> DEFINE place == IF at[j] = "importing" THEN "imported" ELSE "have"
    <3>1. /\ publisher' = [publisher EXCEPT ![PathOf[j]] = j]
          /\ Goto(j, place) /\ at[j] \in {"renaming", "importing"}
      BY <1>13, <2>2 DEF Rename, Partial
    <3>2. at'[j] = place /\ \A k \in Jobs : k # j => at'[k] = at[k]
      BY <3>1, <1>c, GotoMoves
    <3>3. /\ publisher'[PathOf[j]] = j
          /\ \A p \in Paths : p # PathOf[j] => publisher'[p] = publisher[p]
      BY <3>1, <1>a, <1>c DEF CacheTypeOK
    <3>4. ASSUME NEW i \in Jobs, NEW k \in Jobs PROVE Apart(i, k)'
      <4>1. Apart(i, k) /\ PathOf[i] \in Paths
        BY <1>a DEF FetchInv
      <4> QED
        BY <3>1, <3>2, <3>3, <4>1 DEF Apart, Rivals
    <3> QED
      BY <1>t, <3>4 DEF FetchInv
  <2> QED
    BY <2>1, <2>2
<1>14. ASSUME NEW j \in Jobs, Use(j) PROVE FetchInv'
  BY <1>14, <1>m DEF Use, files
<1>15. ASSUME NEW j \in Jobs, ImportInPlace(j) PROVE FetchInv'
  BY <1>15, <1>m DEF ImportInPlace, files
<1>16. ASSUME NEW j \in Jobs, PrepareImport(j) PROVE FetchInv'
  BY <1>16, <1>m DEF PrepareImport
<1>17. ASSUME NEW j \in Jobs, OpenImport(j) PROVE FetchInv'
  BY <1>17, <1>m DEF OpenImport
<1>18. ASSUME NEW j \in Jobs, CopyImport(j) PROVE FetchInv'
  BY <1>18, <1>m DEF CopyImport
<1>19. ASSUME NEW j \in Jobs, RefuseImport(j) PROVE FetchInv'
  BY <1>19, <1>m DEF RefuseImport
<1>20. ASSUME UNCHANGED <<publisher, at>> PROVE FetchInv'
  BY <1>20, <1>t DEF FetchInv, Apart
<1>21. ASSUME NEW p \in Paths, ClearFile(p) PROVE FetchInv'
  <2>1. /\ at' = at
        /\ \A q \in Paths : publisher'[q] \in {publisher[q], Nobody}
    BY <1>21, <1>c DEF ClearFile, CacheTypeOK
  <2>2. ASSUME NEW i \in Jobs, NEW k \in Jobs PROVE Apart(i, k)'
    <3>1. Apart(i, k) /\ PathOf[i] \in Paths
      BY <1>a DEF FetchInv
    <3> QED
      BY <2>1, <3>1, <1>a DEF Apart, Rivals
  <2> QED
    BY <1>t, <2>2 DEF FetchInv
<1>22. ASSUME NEW q \in Processes, Exit(q) PROVE FetchInv'
  <2>1. publisher' = publisher
    BY <1>22 DEF Exit, files
  <2>2. \A k \in Jobs : /\ at'[k] \in {at[k], "dead"}
                        /\ at[k] = "imported" => at'[k] = "imported"
    BY <1>22, <1>p DEF Exit, Active
  <2>3. ASSUME NEW i \in Jobs, NEW k \in Jobs PROVE Apart(i, k)'
    <3>1. Apart(i, k)
      BY DEF FetchInv
    <3> QED
      BY <2>1, <2>2, <3>1 DEF Apart, Rivals
  <2> QED
    BY <1>t, <2>3 DEF FetchInv
<1>23. ASSUME Clear PROVE FetchInv'
  BY <1>20, <1>21, <1>23 DEF Clear, BeginClear, AbortClear, ClearDirectory, files, jobs
<1>24. ASSUME UNCHANGED cacheVars PROVE FetchInv'
  BY <1>20, <1>24 DEF cacheVars, files, jobs
<1> QED
  BY <1>1, <1>2, <1>3, <1>4, <1>5, <1>6, <1>7, <1>8, <1>9, <1>10, <1>11, <1>12, <1>13, <1>14, <1>15, <1>16, <1>17, <1>18, <1>19, <1>22, <1>23, <1>24 DEF CacheNext, Work

\* However many operations of a process need a file, whenever they start and
\* whatever fails or is cleared, one fetches it at a time, and none while it is
\* in the cache by the download of another.
THEOREM FetchedOnce == CacheSpec => []NeverFetchedTwice
<1>1. FetchInv => NeverFetchedTwice
  BY DEF FetchInv, Apart, Rivals, NeverFetchedTwice, Holding
<1> QED
  BY InitFetch, FetchStep, <1>1, PTL DEF CacheSpec

-----------------------------------------------------------------------------
(* Partial files and lost files.                                           *)

Kept    == {"fetching", "verifying", "renaming", "copying", "importing", "mismatch", "dead"}
Writing == {"fetching", "verifying", "renaming", "copying", "importing"}

\* Where a job stands, it knows of a file or of a directory; that it is not there
\* has one cause.
Accounted(j) ==
  /\ part[j] # Absent => at[j] \in Kept
  /\ at[j] \in Writing /\ part[j] = Absent => j \in disturbed
  /\ at[j] \in {"checking", "have"} /\ cached[PathOf[j]] = Absent => j \in disturbed
  /\ at[j] = "opening" /\ PathOf[j] \notin dir => j \in disturbed
  /\ at[j] = "gone" => j \in disturbed

PartialInv == TypeInv /\ \A j \in Jobs : Accounted(j)

\* There are no partial files at first.
LEMMA InitPartials == CacheInit => PartialInv
BY InitType DEF CacheInit, PartialInv, Accounted, Writing

\* A job moves, and removes nothing that another one knows of.
LEMMA MoveKeepsPartials ==
  ASSUME PartialInv, TypeInv', NEW j \in Jobs, NEW place \in Place, Goto(j, place),
         \A k \in Jobs : k # j => part'[k] = part[k],
         \A p \in Paths : cached[p] # Absent => cached'[p] # Absent,
         dir \subseteq dir',
         part'[j] # Absent => place \in Kept,
         place \in Writing /\ part'[j] = Absent => j \in disturbed,
         place \in {"checking", "have"} /\ cached'[PathOf[j]] = Absent => j \in disturbed,
         place = "opening" => PathOf[j] \in dir',
         place = "gone" => j \in disturbed
  PROVE  PartialInv'
<1>1. /\ at'[j] = place /\ \A k \in Jobs : k # j => at'[k] = at[k]
      /\ \A k \in Jobs : k # j => (k \in disturbed' <=> k \in disturbed)
      /\ place \notin Ended \ {"gone"} => disturbed' = disturbed
  BY GotoMoves DEF PartialInv, TypeInv
<1>2. \A k \in Jobs : PathOf[k] \in Paths
  BY CacheAssumption
<1>3. Accounted(j)'
  BY <1>1 DEF Accounted, Writing, Ended, Holding, Fetching
<1>4. ASSUME NEW k \in Jobs, k # j PROVE Accounted(k)'
  BY <1>1, <1>2, <1>4 DEF PartialInv, Accounted
<1> QED
  BY <1>3, <1>4 DEF PartialInv

\* Every step leaves each partial file with its job, and each loss explained.
LEMMA PartialStep == PartialInv /\ [CacheNext]_cacheVars => PartialInv'
<1> SUFFICES ASSUME PartialInv, [CacheNext]_cacheVars
             PROVE  PartialInv'
  OBVIOUS
<1>t. TypeInv'
  BY TypeStep DEF PartialInv
<1>c. CacheTypeOK
  BY DEF PartialInv, TypeInv
<1>p. at \in [Jobs -> Place]
  BY <1>c DEF CacheTypeOK, Place
<1>a. /\ RunsIn \in [Jobs -> Processes] /\ PathOf \in [Jobs -> Paths]
      /\ Pin \in [Jobs -> Contents] /\ Absent \notin Contents /\ Absent # Half
  BY CacheAssumption
<1>d. \A j \in Jobs : Accounted(j)
  BY DEF PartialInv
<1>1. ASSUME NEW j \in Jobs, Request(j) PROVE PartialInv'
  BY <1>1, <1>t, <1>c, <1>d, <1>p, <1>a, MoveKeepsPartials
     DEF Request, Accounted, Kept, Writing, Place, Holding, Fetching, Ended, Partial, files, CacheTypeOK
<1>2. ASSUME NEW j \in Jobs, Lock(j) PROVE PartialInv'
  BY <1>2, <1>t, <1>c, <1>d, <1>p, <1>a, MoveKeepsPartials
     DEF Lock, Accounted, Kept, Writing, Place, Holding, Fetching, Ended, Partial, files, CacheTypeOK
<1>3. ASSUME NEW j \in Jobs, FindCached(j) PROVE PartialInv'
  BY <1>3, <1>t, <1>c, <1>d, <1>p, <1>a, MoveKeepsPartials
     DEF FindCached, Accounted, Kept, Writing, Place, Holding, Fetching, Ended, Partial, files, CacheTypeOK
<1>4. ASSUME NEW j \in Jobs, CheckCached(j) PROVE PartialInv'
  BY <1>4, <1>t, <1>c, <1>d, <1>p, <1>a, MoveKeepsPartials
     DEF CheckCached, Accounted, Kept, Writing, Place, Holding, Fetching, Ended, Partial, files, CacheTypeOK
<1>5. ASSUME NEW j \in Jobs, NeedManual(j) PROVE PartialInv'
  BY <1>5, <1>t, <1>c, <1>d, <1>p, <1>a, MoveKeepsPartials
     DEF NeedManual, Accounted, Kept, Writing, Place, Holding, Fetching, Ended, Partial, files, CacheTypeOK
<1>6. ASSUME NEW j \in Jobs, Prepare(j) PROVE PartialInv'
  BY <1>6, <1>t, <1>c, <1>d, <1>p, <1>a, MoveKeepsPartials
     DEF Prepare, Accounted, Kept, Writing, Place, Holding, Fetching, Ended, Partial, files, CacheTypeOK
<1>7. ASSUME NEW j \in Jobs, GiveUp(j) PROVE PartialInv'
  BY <1>7, <1>t, <1>c, <1>d, <1>p, <1>a, MoveKeepsPartials
     DEF GiveUp, Accounted, Kept, Writing, Place, Holding, Fetching, Ended, Partial, files, CacheTypeOK
<1>8. ASSUME NEW j \in Jobs, Answer(j) PROVE PartialInv'
  BY <1>8, <1>t, <1>c, <1>d, <1>p, <1>a, MoveKeepsPartials
     DEF Answer, Accounted, Kept, Writing, Place, Holding, Fetching, Ended, Partial, files, CacheTypeOK
<1>9. ASSUME NEW j \in Jobs, SourceFails(j) PROVE PartialInv'
  <2>1. /\ UNCHANGED <<cached, dir, disturbed>>
        /\ at[j] \in {"asking", "fetching"}
        /\ at' = [at EXCEPT ![j] = "asking"] /\ part' = [part EXCEPT ![j] = Absent]
    BY <1>9 DEF SourceFails, Partial
  <2>2. ASSUME NEW k \in Jobs PROVE Accounted(k)'
    BY <2>1, <1>c, <1>d, <1>p DEF Accounted, Writing, CacheTypeOK
  <2> QED
    BY <1>t, <2>2 DEF PartialInv
<1>10. ASSUME NEW j \in Jobs, StopFetching(j) PROVE PartialInv'
  BY <1>10, <1>t, <1>c, <1>d, <1>p, <1>a, MoveKeepsPartials
     DEF StopFetching, Accounted, Kept, Writing, Place, Holding, Fetching, Ended, Partial, files, CacheTypeOK
<1>11. ASSUME NEW j \in Jobs, FinishFetching(j) PROVE PartialInv'
  BY <1>11, <1>t, <1>c, <1>d, <1>p, <1>a, MoveKeepsPartials
     DEF FinishFetching, Accounted, Kept, Writing, Place, Holding, Fetching, Ended, Partial, files, CacheTypeOK
<1>12. ASSUME NEW j \in Jobs, VerifyPartial(j) PROVE PartialInv'
  BY <1>12, <1>t, <1>c, <1>d, <1>p, <1>a, MoveKeepsPartials
     DEF VerifyPartial, Accounted, Kept, Writing, Place, Holding, Fetching, Ended, Partial, files, CacheTypeOK
<1>13. ASSUME NEW j \in Jobs, Rename(j) PROVE PartialInv'
  BY <1>13, <1>t, <1>c, <1>d, <1>p, <1>a, MoveKeepsPartials
     DEF Rename, Accounted, Kept, Writing, Place, Holding, Fetching, Ended, Partial, files, CacheTypeOK
<1>14. ASSUME NEW j \in Jobs, Use(j) PROVE PartialInv'
  BY <1>14, <1>t, <1>c, <1>d, <1>p, <1>a, MoveKeepsPartials
     DEF Use, Accounted, Kept, Writing, Place, Holding, Fetching, Ended, Partial, files, CacheTypeOK
<1>15. ASSUME NEW j \in Jobs, ImportInPlace(j) PROVE PartialInv'
  BY <1>15, <1>t, <1>c, <1>d, <1>p, <1>a, MoveKeepsPartials
     DEF ImportInPlace, Accounted, Kept, Writing, Place, Holding, Fetching, Ended, Partial, files, CacheTypeOK
<1>16. ASSUME NEW j \in Jobs, PrepareImport(j) PROVE PartialInv'
  BY <1>16, <1>t, <1>c, <1>d, <1>p, <1>a, MoveKeepsPartials
     DEF PrepareImport, Accounted, Kept, Writing, Place, Holding, Fetching, Ended, Partial, files, CacheTypeOK
<1>17. ASSUME NEW j \in Jobs, OpenImport(j) PROVE PartialInv'
  BY <1>17, <1>t, <1>c, <1>d, <1>p, <1>a, MoveKeepsPartials
     DEF OpenImport, Accounted, Kept, Writing, Place, Holding, Fetching, Ended, Partial, files, CacheTypeOK
<1>18. ASSUME NEW j \in Jobs, CopyImport(j) PROVE PartialInv'
  BY <1>18, <1>t, <1>c, <1>d, <1>p, <1>a, MoveKeepsPartials
     DEF CopyImport, Accounted, Kept, Writing, Place, Holding, Fetching, Ended, Partial, files, CacheTypeOK
<1>19. ASSUME NEW j \in Jobs, RefuseImport(j) PROVE PartialInv'
  BY <1>19, <1>t, <1>c, <1>d, <1>p, <1>a, MoveKeepsPartials
     DEF RefuseImport, Accounted, Kept, Writing, Place, Holding, Fetching, Ended, Partial, files, CacheTypeOK
<1>20. ASSUME UNCHANGED <<cached, dir, part, at, disturbed>> PROVE PartialInv'
  BY <1>20, <1>t DEF PartialInv, Accounted
<1>21. ASSUME NEW p \in Paths, ClearFile(p) PROVE PartialInv'
  <2>1. UNCHANGED <<at, dir>>
    BY <1>21 DEF ClearFile
  <2>2. /\ \A k \in Jobs : part'[k] \in {part[k], Absent}
        /\ \A k \in Jobs : PathOf[k] # p => part'[k] = part[k]
        /\ \A q \in Paths : q # p => cached'[q] = cached[q]
    BY <1>21, <1>c DEF ClearFile, CacheTypeOK
  <2>3. \A k \in Jobs : /\ k \in disturbed => k \in disturbed'
                        /\ PathOf[k] = p /\ Active(k) => k \in disturbed'
    BY <1>21 DEF ClearFile, Disturb
  <2>4. ASSUME NEW k \in Jobs PROVE Accounted(k)'
    BY <2>1, <2>2, <2>3, <1>a, <1>d DEF Accounted, Active, Ended, Writing
  <2> QED
    BY <1>t, <2>4 DEF PartialInv
<1>22. ASSUME NEW p \in Paths, ClearDirectory(p) PROVE PartialInv'
  <2>1. UNCHANGED <<cached, part, at>> /\ dir' = dir \ {p}
    BY <1>22 DEF ClearDirectory
  <2>2. \A k \in Jobs : /\ k \in disturbed => k \in disturbed'
                        /\ PathOf[k] = p /\ Active(k) => k \in disturbed'
    BY <1>22 DEF ClearDirectory, Disturb
  <2>3. ASSUME NEW k \in Jobs PROVE Accounted(k)'
    BY <2>1, <2>2, <1>d DEF Accounted, Active, Ended, Writing
  <2> QED
    BY <1>t, <2>3 DEF PartialInv
<1>23. ASSUME NEW q \in Processes, Exit(q) PROVE PartialInv'
  <2>1. UNCHANGED <<cached, dir, part>>
    BY <1>23 DEF Exit, files
  <2>2. ASSUME NEW k \in Jobs
        PROVE  \/ at'[k] = "dead"
               \/ at'[k] = at[k] /\ (k \in disturbed => k \in disturbed')
    BY <1>23, <1>p DEF Exit
  <2>3. ASSUME NEW k \in Jobs PROVE Accounted(k)'
    BY <2>1, <2>2, <1>d DEF Accounted, Kept, Writing
  <2> QED
    BY <1>t, <2>3 DEF PartialInv
<1>24. ASSUME Clear PROVE PartialInv'
  BY <1>20, <1>21, <1>22, <1>24 DEF Clear, BeginClear, AbortClear, files, jobs
<1>25. ASSUME UNCHANGED cacheVars PROVE PartialInv'
  BY <1>20, <1>25 DEF cacheVars, files, jobs
<1> QED
  BY <1>1, <1>2, <1>3, <1>4, <1>5, <1>6, <1>7, <1>8, <1>9, <1>10, <1>11, <1>12, <1>13, <1>14, <1>15, <1>16, <1>17, <1>18, <1>19, <1>23, <1>24, <1>25 DEF CacheNext, Work

\* No partial file is left that nobody works on, but for a crash and a wrong
\* checksum, and only a clearing of the cache makes a file go that a job relied
\* on, whatever the number of jobs, sources and processes.
THEOREM PartialsAccounted == CacheSpec => []PartialsAreAccountedFor
<1>1. PartialInv => PartialsAreAccountedFor
  BY DEF PartialInv, Accounted, Kept, PartialsAreAccountedFor
<1> QED
  BY InitPartials, PartialStep, <1>1, PTL DEF CacheSpec

=============================================================================
