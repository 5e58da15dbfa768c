----------------------------- MODULE DownloadCache -----------------------------
(***************************************************************************)
(* The files of recipes (OperationEngine::download and download_url in     *)
(* operation.rs, import_manual_file in catalog.rs, clear_cache in lib.rs). *)
(* A job is a download step of an operation with the later step that uses  *)
(* the file, or an import of a file that the user fetched.  Jobs of one    *)
(* process take a lock for each path of the cache; imports, other          *)
(* processes and the clearing of the cache do not.  Two jobs of one path   *)
(* may be made from catalogs that pin different checksums.                 *)
(*                                                                         *)
(* GuardDropped, CheckNothing, AskAgain and LeavePartial are faulty        *)
(* variants of the definition they precede.                                *)
(***************************************************************************)
EXTENDS Naturals, FiniteSets

CONSTANTS
  Jobs,       \* the download steps and imports considered
  Imports,    \* those that may be imports
  Processes,  \* instances of the desktop program and of the command line
  RunsIn,     \* the process of a job
  Paths,      \* paths of the cache, each in a directory of its own
  PathOf,     \* the path of the job's file
  Contents,   \* what a whole file may hold
  Pin,        \* the content whose SHA-256 the job's recipe names
  Sources,    \* how many URLs a file has
  Absent,     \* no such file
  Half,       \* a file that is being written
  Nobody,     \* no job
  MaxClears, MaxExits   \* bounds on clearings and processes that end

ASSUME CacheAssumption ==
  /\ Imports \subseteq Jobs
  /\ RunsIn \in [Jobs -> Processes]
  /\ PathOf \in [Jobs -> Paths]
  /\ Pin \in [Jobs -> Contents]
  /\ Absent \notin Contents \cup {Half} /\ Half \notin Contents
  /\ Nobody \notin Jobs
  /\ {Sources, MaxClears, MaxExits} \subseteq Nat

VARIABLES
  cached,     \* the file at each path
  publisher,  \* the job that put it there
  dir,        \* paths whose directory exists
  part,       \* the partial file of each job
  at,         \* where each job stands
  tried,      \* how many sources a job has tried
  used,       \* the content that the job's later step worked on
  up,         \* processes that run
  clearing,   \* paths whose directory a clearing has still to remove
  clears,     \* clearings so far
  disturbed   \* jobs below which a clearing removed something

files == <<cached, publisher, dir, part>>
jobs  == <<at, tried, used, disturbed>>
around == <<up, clearing, clears>>
cacheVars == <<files, jobs, around>>

\* Where a download holds the lock of its path.
Fetching == {"asking", "fetching", "verifying", "renaming"}
Holding  == {"looking", "checking"} \cup Fetching
\* What is left when the sources failed, a file is manual or the flag is set
\* is "failed"; the other two failures are about a file.
Ended    == {"done", "imported", "failed", "mismatch", "refused", "gone", "dead"}
Active(j) == at[j] \notin Ended \cup {"idle"}

\* The name of a partial file holds the operation's id, or a fresh one.
Partial(j) == j

CacheInit ==
  /\ cached \in [Paths -> Contents \cup {Absent}]
  /\ publisher = [p \in Paths |-> Nobody]
  /\ dir = {p \in Paths : cached[p] # Absent}
  /\ part = [j \in Jobs |-> Absent]
  /\ at = [j \in Jobs |-> "idle"]
  /\ tried = [j \in Jobs |-> 0]
  /\ used = [j \in Jobs |-> Absent]
  /\ up = Processes
  /\ clearing = {} /\ clears = 0 /\ disturbed = {}

-----------------------------------------------------------------------------
(* A download.                                                             *)

\* The next place of a job; what only matters while it works ends with it.
Goto(j, place) ==
  /\ at' = [at EXCEPT ![j] = place]
  /\ tried' = [tried EXCEPT ![j] = IF place \in Ended THEN 0 ELSE @]
  /\ disturbed' = IF place \in Ended \ {"gone"} THEN disturbed \ {j} ELSE disturbed

\* A download step begins, or the user picks a file to import.
Request(j) ==
  /\ at[j] = "idle" /\ RunsIn[j] \in up
  /\ \/ Goto(j, "queued")
     \/ j \in Imports /\ Goto(j, "preparing")
  /\ UNCHANGED <<files, used, around>>

GuardDropped(j) == at[j] = "queued"

LockFree(j) ==
  \A k \in Jobs \ {j} :
    RunsIn[k] = RunsIn[j] /\ PathOf[k] = PathOf[j] => at[k] \notin Holding

\* Nothing looks at the cancellation while the operation waits for the lock.
Lock(j) ==
  /\ at[j] = "queued" /\ LockFree(j)
  /\ Goto(j, "looking")
  /\ UNCHANGED <<files, used, around>>

\* destination.is_file()
FindCached(j) ==
  /\ at[j] = "looking" /\ cached[PathOf[j]] # Absent
  /\ Goto(j, "checking")
  /\ UNCHANGED <<files, used, around>>

CheckNothing(j) ==
  /\ at[j] = "checking"
  /\ Goto(j, "have")
  /\ UNCHANGED <<files, used, around>>

\* A file with another checksum is an error, and it stays.
CheckCached(j) ==
  /\ at[j] = "checking"
  /\ Goto(j, CASE cached[PathOf[j]] = Pin[j] -> "have"
               [] cached[PathOf[j]] = Absent -> "gone"
               [] OTHER -> "mismatch")
  /\ UNCHANGED <<files, used, around>>

\* The catalog declares the file as manual.
NeedManual(j) ==
  /\ at[j] = "looking" /\ cached[PathOf[j]] = Absent
  /\ Goto(j, "failed")
  /\ UNCHANGED <<files, used, around>>

Prepare(j) ==
  /\ at[j] = "looking" /\ cached[PathOf[j]] = Absent
  /\ dir' = dir \cup {PathOf[j]}
  /\ Goto(j, "asking")
  /\ UNCHANGED <<cached, publisher, part, used, around>>

\* Every source has failed, or the operation is cancelled: the flag is looked
\* at in front of every source, and may have been set by then.
GiveUp(j) ==
  /\ at[j] = "asking"
  /\ Goto(j, "failed")
  /\ UNCHANGED <<files, used, around>>

\* A source answers; its partial file is created unless the directory is gone.
Answer(j) ==
  /\ at[j] = "asking" /\ tried[j] < Sources
  /\ PathOf[j] \in dir
  /\ part' = [part EXCEPT ![Partial(j)] = Half]
  /\ Goto(j, "fetching")
  /\ UNCHANGED <<cached, publisher, dir, used, around>>

AskAgain(j) ==
  /\ \/ at[j] = "asking" /\ tried[j] < Sources
     \/ at[j] = "fetching"
  /\ part' = [part EXCEPT ![Partial(j)] = Absent]
  /\ Goto(j, "asking")
  /\ UNCHANGED <<cached, publisher, dir, used, around>>

\* A source refuses, its stream breaks off, or the partial file cannot be
\* created: what there is of it is removed, and the next source is next.
SourceFails(j) ==
  /\ \/ at[j] = "asking" /\ tried[j] < Sources
     \/ at[j] = "fetching"
  /\ part' = [part EXCEPT ![Partial(j)] = Absent]
  /\ tried' = [tried EXCEPT ![j] = @ + 1]
  /\ at' = [at EXCEPT ![j] = "asking"]
  /\ UNCHANGED <<cached, publisher, dir, used, disturbed, around>>

\* The flag is looked at with every piece that arrives.
StopFetching(j) ==
  /\ at[j] = "fetching"
  /\ part' = [part EXCEPT ![Partial(j)] = Absent]
  /\ Goto(j, "failed")
  /\ UNCHANGED <<cached, publisher, dir, used, around>>

\* The stream ends; a file that was removed meanwhile stays removed.
FinishFetching(j) ==
  /\ at[j] = "fetching"
  /\ \E c \in Contents :
       part' = [part EXCEPT ![Partial(j)] = IF @ = Absent THEN Absent ELSE c]
  /\ Goto(j, "verifying")
  /\ UNCHANGED <<cached, publisher, dir, used, around>>

\* A wrong checksum ends the download, with sources left and the file kept.
VerifyPartial(j) ==
  /\ at[j] = "verifying"
  /\ Goto(j, CASE part[Partial(j)] = Pin[j] -> "renaming"
               [] part[Partial(j)] = Absent -> "gone"
               [] OTHER -> "mismatch")
  /\ UNCHANGED <<files, used, around>>

\* The rename that ends a download or an import.
Rename(j) ==
  /\ at[j] \in {"renaming", "importing"}
  /\ \/ /\ part[Partial(j)] # Absent
        /\ cached' = [cached EXCEPT ![PathOf[j]] = part[Partial(j)]]
        /\ publisher' = [publisher EXCEPT ![PathOf[j]] = j]
        /\ part' = [part EXCEPT ![Partial(j)] = Absent]
        /\ Goto(j, IF at[j] = "importing" THEN "imported" ELSE "have")
     \/ /\ part[Partial(j)] = Absent
        /\ Goto(j, "gone")
        /\ UNCHANGED <<cached, publisher, part>>
  /\ UNCHANGED <<dir, used, around>>

\* A later step reads the file without another look at its checksum, unless the
\* operation is cancelled or ends before.
Use(j) ==
  /\ at[j] = "have"
  /\ \/ Goto(j, "failed") /\ UNCHANGED used
     \/ /\ cached[PathOf[j]] = Absent
        /\ Goto(j, "gone") /\ UNCHANGED used
     \/ /\ cached[PathOf[j]] # Absent
        /\ used' = [used EXCEPT ![j] = cached[PathOf[j]]]
        /\ Goto(j, "done")
  /\ UNCHANGED <<files, around>>

-----------------------------------------------------------------------------
(* An import.                                                              *)

\* The user may pick the file in the cache itself, which is only verified.
ImportInPlace(j) ==
  /\ at[j] = "preparing" /\ cached[PathOf[j]] # Absent
  /\ Goto(j, IF cached[PathOf[j]] = Pin[j] THEN "imported" ELSE "refused")
  /\ UNCHANGED <<files, used, around>>

PrepareImport(j) ==
  /\ at[j] = "preparing"
  /\ dir' = dir \cup {PathOf[j]}
  /\ Goto(j, "opening")
  /\ UNCHANGED <<cached, publisher, part, used, around>>

OpenImport(j) ==
  /\ at[j] = "opening"
  /\ \/ PathOf[j] \notin dir /\ Goto(j, "gone") /\ UNCHANGED part
     \/ /\ PathOf[j] \in dir
        /\ part' = [part EXCEPT ![Partial(j)] = Half]
        /\ Goto(j, "copying")
  /\ UNCHANGED <<cached, publisher, dir, used, around>>

\* The checksum is that of the bytes read, whatever became of those written.
CopyImport(j) ==
  /\ at[j] = "copying"
  /\ part' = [part EXCEPT ![Partial(j)] = IF @ = Absent THEN Absent ELSE Pin[j]]
  /\ Goto(j, "importing")
  /\ UNCHANGED <<cached, publisher, dir, used, around>>

LeavePartial(j) ==
  /\ at[j] = "copying"
  /\ Goto(j, "refused")
  /\ UNCHANGED <<files, used, around>>

\* Another checksum, or a file that cannot be read.
RefuseImport(j) ==
  /\ at[j] = "copying"
  /\ part' = [part EXCEPT ![Partial(j)] = Absent]
  /\ Goto(j, "refused")
  /\ UNCHANGED <<cached, publisher, dir, used, around>>

-----------------------------------------------------------------------------
(* What happens around the jobs.                                           *)

\* clear_cache() goes through the directories that it finds.
BeginClear ==
  /\ clearing = {} /\ clears < MaxClears
  /\ clearing' = dir /\ clears' = clears + 1
  /\ UNCHANGED <<files, jobs, up>>

Disturb(p) == disturbed' = disturbed \cup {j \in Jobs : PathOf[j] = p /\ Active(j)}

ClearFile(p) ==
  /\ p \in clearing
  /\ \/ /\ cached[p] # Absent
        /\ cached' = [cached EXCEPT ![p] = Absent]
        /\ publisher' = [publisher EXCEPT ![p] = Nobody]
        /\ UNCHANGED part
     \/ /\ \E j \in Jobs : /\ PathOf[j] = p /\ part[j] # Absent
                           /\ part' = [part EXCEPT ![j] = Absent]
        /\ UNCHANGED <<cached, publisher>>
  /\ Disturb(p)
  /\ UNCHANGED <<dir, at, tried, used, around>>

ClearDirectory(p) ==
  /\ p \in clearing
  /\ cached[p] = Absent /\ \A j \in Jobs : PathOf[j] = p => part[j] = Absent
  /\ dir' = dir \ {p} /\ clearing' = clearing \ {p}
  /\ Disturb(p)
  /\ UNCHANGED <<cached, publisher, part, at, tried, used, up, clears>>

\* A file that appeared behind the listing keeps its directory: an error.
AbortClear ==
  /\ clearing # {}
  /\ clearing' = {}
  /\ UNCHANGED <<files, jobs, up, clears>>

\* The process is gone, and with it its jobs and locks.
Exit(p) ==
  /\ p \in up /\ Cardinality(Processes \ up) < MaxExits
  /\ up' = up \ {p}
  /\ LET lost == {j \in Jobs : RunsIn[j] = p /\ Active(j)} IN
     /\ at' = [j \in Jobs |-> IF j \in lost THEN "dead" ELSE at[j]]
     /\ tried' = [j \in Jobs |-> IF j \in lost THEN 0 ELSE tried[j]]
     /\ disturbed' = disturbed \ lost
  /\ UNCHANGED <<files, used, clearing, clears>>

Work(j) ==
  \/ Lock(j) \/ FindCached(j) \/ CheckCached(j) \/ NeedManual(j) \/ Prepare(j)
  \/ GiveUp(j) \/ Answer(j) \/ SourceFails(j) \/ StopFetching(j)
  \/ FinishFetching(j) \/ VerifyPartial(j) \/ Rename(j) \/ Use(j)
  \/ ImportInPlace(j) \/ PrepareImport(j) \/ OpenImport(j)
  \/ CopyImport(j) \/ RefuseImport(j)

Clear == BeginClear \/ AbortClear \/ \E p \in Paths : ClearFile(p) \/ ClearDirectory(p)

CacheNext ==
  \/ \E j \in Jobs : Request(j) \/ Work(j)
  \/ Clear
  \/ \E p \in Processes : Exit(p)

\* A running task is polled again, and a source that neither sends nor fails
\* runs into a timeout or the limit of 16 GiB.
CacheFairness == \A j \in Jobs : WF_cacheVars(Work(j))

CacheSpec == CacheInit /\ [][CacheNext]_cacheVars
FairCacheSpec == CacheSpec /\ CacheFairness

-----------------------------------------------------------------------------
(* Properties.                                                             *)

CacheTypeOK ==
  /\ cached \in [Paths -> Contents \cup {Absent}]
  /\ publisher \in [Paths -> Jobs \cup {Nobody}]
  /\ dir \subseteq Paths
  /\ part \in [Jobs -> Contents \cup {Absent, Half}]
  /\ at \in [Jobs -> {"idle", "queued", "have", "preparing", "opening", "copying",
                      "importing"} \cup Holding \cup Ended]
  /\ tried \in [Jobs -> 0 .. Sources]
  /\ used \in [Jobs -> Contents \cup {Absent}]
  /\ up \subseteq Processes
  /\ clearing \subseteq Paths /\ clears \in 0 .. MaxClears /\ disturbed \subseteq Jobs

\* The content of a cached file is what its publisher's recipe pins, and a
\* step works on a file its own recipe pins unless a job with another pin for
\* the same path came between (operation.rs 862, 897, 690): neither a broken
\* off download nor a file of an older catalog is ever used.
OnlyPinnedIsUsed ==
  /\ \A p \in Paths : publisher[p] # Nobody => cached[p] = Pin[publisher[p]]
  /\ \A j \in Jobs : used[j] # Absent /\ used[j] # Pin[j] =>
       \E k \in Jobs : /\ PathOf[k] = PathOf[j] /\ used[j] = Pin[k]
                       /\ at[k] \notin {"idle", "queued"}

\* While a process fetches a file, none of its other operations fetches it or
\* has put it into the cache: the lock is taken before the cache is looked at
\* (operation.rs 847-868).  Imports and other processes may.
NeverFetchedTwice ==
  \A j, k \in Jobs :
    j # k /\ PathOf[j] = PathOf[k] /\ RunsIn[j] = RunsIn[k] /\ at[j] \in Fetching
      => at[k] \notin Fetching /\ (publisher[PathOf[j]] = k => at[k] = "imported")

\* A partial file belongs to a job at work, was left by one that died, or holds
\* what a source delivered under a wrong checksum; and a job loses a file it
\* was sure to have only to a clearing of the cache (operation.rs 876-912,
\* catalog.rs 236-292, lib.rs 398-411).
PartialsAreAccountedFor ==
  \A j \in Jobs :
    /\ part[j] # Absent =>
         at[j] \in {"fetching", "verifying", "renaming", "copying", "importing",
                    "mismatch", "dead"}
    /\ at[j] = "gone" => j \in disturbed

\* Every job comes to an end, whatever the sources do, whoever clears the cache
\* and whichever process goes: there is always a later moment without any at work.
EveryJobEnds == (\E j \in Jobs : Active(j)) ~> (\A j \in Jobs : ~Active(j))

=============================================================================
