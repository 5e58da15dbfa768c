------------------------------ MODULE MCExecution ------------------------------
(***************************************************************************)
(* Instances of the parts of an operation's work for TLC: the files of a   *)
(* recipe, the steps of native recipes, the choice of a Winetricks host    *)
(* and a run of it.  They share no state, so each is checked while the     *)
(* others rest: "subject" says which of them moves.                        *)
(***************************************************************************)
EXTENDS DownloadCache, LegacyRun, LegacyHost, StepExecution, TLC

CONSTANTS
  app, cli, first, second, manual, file_, good, other,
  corefonts, arial, mono_, sandbox, plain, dll,
  a, b, x, y, z, t, space, version, on, zLink, home

VARIABLE subject

\* The files.
MCRunsIn == first :> app @@ second :> app @@ manual :> cli
MCPathOf == [j \in Jobs |-> file_]
MCPin    == first :> good @@ second :> other @@ manual :> good

\* The steps.  Five recipes have the shapes of shipped ones: fonts that two recipes
\* install, Mono, a sandbox, and a setting that sets anew what the sandbox deletes and
\* deletes what the library sets.  The library has the file actions and the 64-bit
\* group, which no shipped recipe has yet.
MCStepsOf ==
  corefonts :> <<[kind |-> "write", only64 |-> FALSE, files |-> <<x, y>>],
                 [kind |-> "fonts", only64 |-> FALSE,
                  fonts |-> <<[source |-> x, file |-> a], [source |-> y, file |-> b]>>],
                 [kind |-> "verify", only64 |-> FALSE, file |-> a]>> @@
  arial :> <<[kind |-> "write", only64 |-> FALSE, files |-> <<x>>],
             [kind |-> "fonts", only64 |-> FALSE, fonts |-> <<[source |-> x, file |-> a]>>]>> @@
  mono_ :> <<[kind |-> "remove_mono", only64 |-> FALSE]>> @@
  sandbox :> <<[kind |-> "remove_symlink", only64 |-> FALSE, link |-> zLink],
               [kind |-> "registry", only64 |-> FALSE, architecture |-> "prefix", values |-> space :> Unset],
               [kind |-> "isolate_home", only64 |-> FALSE]>> @@
  plain :> <<[kind |-> "registry", only64 |-> FALSE, architecture |-> "prefix",
              values |-> space :> on @@ version :> Unset]>> @@
  dll :> <<[kind |-> "write", only64 |-> FALSE, files |-> <<x>>],
           [kind |-> "copy", only64 |-> TRUE, from |-> x, to |-> z],
           [kind |-> "move", only64 |-> FALSE, from |-> x, to |-> t],
           [kind |-> "remove", only64 |-> FALSE, file |-> y],
           [kind |-> "registry", only64 |-> FALSE, architecture |-> "win32", values |-> version :> on]>>

MCStock == space :> on @@ version :> Unset

\* A run whose standard error has a blank line.
MCBlank == {<<"stderr", 2>>}

allVars == <<subject, cacheVars, runVars, hostVars, stepVars>>

\* Those that rest have one initial state.
ExecutionInit ==
  /\ subject \in {"files", "run", "host", "steps"}
  /\ CacheInit /\ RunInit /\ HostInit /\ StepInit
  /\ subject # "files" => \A p \in Paths : cached[p] = Absent
  /\ subject # "host" => host = Missing /\ system = Missing /\ \A r \in Runs : baseline[r] = Managed
  /\ subject # "steps" => arch = "none" /\ ~mono

ExecutionNext ==
  /\ UNCHANGED subject
  /\ \/ subject = "files" /\ CacheNext /\ UNCHANGED <<runVars, hostVars, stepVars>>
     \/ subject = "run" /\ RunNext /\ UNCHANGED <<cacheVars, hostVars, stepVars>>
     \/ subject = "host" /\ HostNext /\ UNCHANGED <<cacheVars, runVars, stepVars>>
     \/ subject = "steps" /\ StepNext /\ UNCHANGED <<cacheVars, runVars, hostVars>>

\* The fairness of FairCacheSpec and FairRunSpec, for the one that moves.
ExecutionFairness ==
  /\ \A j \in Jobs : WF_cacheVars(subject = "files" /\ Work(j))
  /\ WF_runVars(subject = "run" /\ Operation)
  /\ \A s \in Streams : WF_runVars(subject = "run" /\ Reader(s))

ExecutionSpec == ExecutionInit /\ [][ExecutionNext]_allVars /\ ExecutionFairness

\* The type invariants of the four.
ExecutionTypeOK == CacheTypeOK /\ RunTypeOK /\ HostTypeOK /\ StepTypeOK

\* Every download and import ends, and every run of the host: EveryJobEnds and
\* RunEnds.
EverythingEnds == EveryJobEnds /\ RunEnds

=============================================================================
