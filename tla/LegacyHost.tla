------------------------------- MODULE LegacyHost ------------------------------
(***************************************************************************)
(* Which Winetricks runs a recipe (legacy.rs and the preflight of          *)
(* run_plan).  The managed host is one file at a known place, published by *)
(* renaming a verified staging file; the system's Winetricks is whatever   *)
(* the user installed.  A run chooses a binary for its catalog's baseline  *)
(* twice: for the preflight, which asks it for its version, and for the    *)
(* command itself.  Several windows and the command line may install the   *)
(* host and run recipes at once; somebody else may replace or remove       *)
(* either binary.                                                          *)
(*                                                                         *)
(* AnyManaged is a faulty variant of the definition it precedes.           *)
(***************************************************************************)
EXTENDS Naturals, FiniteSets

CONSTANTS
  Runs,       \* operations with a recipe for the host
  Installs,   \* calls of install_managed_compatibility_host
  Tags,       \* Winetricks versions
  Managed,    \* the one whose checksum the program knows
  Missing,    \* no such file
  Damaged,    \* a file with another checksum
  NotRunnable,\* the right bytes without an executable mode
  MaxHostChanges  \* bound on what others do to the binaries

ASSUME HostAssumption ==
  /\ Managed \in Tags
  /\ Tags \cap {Missing, Damaged, NotRunnable} = {}
  /\ Missing # Damaged /\ Missing # NotRunnable /\ Damaged # NotRunnable
  /\ MaxHostChanges \in Nat

VARIABLES
  host,       \* the file at the managed host's place
  system,     \* the version of the system's Winetricks
  staged,     \* the staging file of each call
  call,       \* where each call stands
  baseline,   \* the version each run's catalog names
  run,        \* where each run stands
  executed,   \* the version that ran its recipe
  changes,    \* what others did so far
  unsettled   \* runs since whose preflight others changed something

binaries == <<host, system>>
calls    == <<staged, call>>
runs     == <<baseline, run, executed>>
others   == <<changes, unsettled>>
hostVars == <<binaries, calls, runs, others>>

HostInit ==
  /\ host \in {Missing, Damaged, Managed}
  /\ system \in Tags \cup {Missing}
  /\ staged = [i \in Installs |-> Missing]
  /\ call = [i \in Installs |-> "idle"]
  /\ baseline \in [Runs -> Tags]
  /\ run = [r \in Runs |-> "idle"]
  /\ executed = [r \in Runs |-> Missing]
  /\ changes = 0 /\ unsettled = {}

-----------------------------------------------------------------------------
(* Installing the managed host.                                            *)

CallGoto(i, place) == call' = [call EXCEPT ![i] = place]

\* A host that verifies is kept and only asked for its version.
BeginInstall(i) ==
  /\ call[i] = "idle"
  /\ CallGoto(i, IF host = Managed THEN "asking" ELSE "fetching")
  /\ UNCHANGED <<binaries, staged, runs, others>>

\* The download fails, or its bytes have another checksum: nothing is written.
RefuseDownload(i) ==
  /\ call[i] = "fetching"
  /\ CallGoto(i, "failed")
  /\ UNCHANGED <<binaries, staged, runs, others>>

Stage(i) ==
  /\ call[i] = "fetching"
  /\ staged' = [staged EXCEPT ![i] = NotRunnable]
  /\ CallGoto(i, "staged")
  /\ UNCHANGED <<binaries, runs, others>>

\* fchmod 755, after the file is on disk and closed.
SetMode(i) ==
  /\ call[i] = "staged"
  /\ staged' = [staged EXCEPT ![i] = Managed]
  /\ CallGoto(i, "runnable")
  /\ UNCHANGED <<binaries, runs, others>>

PublishHost(i) ==
  /\ call[i] = "runnable"
  /\ host' = staged[i]
  /\ staged' = [staged EXCEPT ![i] = Missing]
  /\ CallGoto(i, "asking")
  /\ UNCHANGED <<system, runs, others>>

\* Any step in between fails.
AbortInstall(i) ==
  /\ call[i] \in {"staged", "runnable"}
  /\ staged' = [staged EXCEPT ![i] = Missing]
  /\ CallGoto(i, "failed")
  /\ UNCHANGED <<binaries, runs, others>>

\* require_baseline() of the managed host alone; the directory may also not be
\* synchronised, or the host not be executed.
AskInstalled(i) ==
  /\ call[i] = "asking"
  /\ \/ host = Managed /\ CallGoto(i, "installed")
     \/ CallGoto(i, "failed")
  /\ UNCHANGED <<binaries, staged, runs, others>>

ExitInstall(i) ==
  /\ call[i] \in {"fetching", "staged", "runnable", "asking"}
  /\ CallGoto(i, "gone")
  /\ UNCHANGED <<binaries, staged, runs, others>>

-----------------------------------------------------------------------------
(* Running a recipe.                                                       *)

RunGoto(r, place) == run' = [run EXCEPT ![r] = place]

AnyManaged(tag) == IF host # Missing THEN host ELSE system

\* binary_for_baseline(): a managed host of that version goes first and must
\* verify; the system's Winetricks is taken as it is.
BinaryFor(tag) == IF tag = Managed /\ host # Missing THEN host ELSE system

Unusable == {Missing, Damaged, NotRunnable}

\* require_baseline(): the binary must answer, and name the version of the catalog.
Preflight(r) ==
  /\ run[r] = "idle"
  /\ \/ BinaryFor(baseline[r]) = baseline[r] /\ RunGoto(r, "checked")
     \/ RunGoto(r, "failed")
  /\ UNCHANGED <<binaries, calls, baseline, executed, others>>

\* recipe_command() chooses again and asks for no version.
Execute(r) ==
  LET binary == BinaryFor(baseline[r]) IN
  /\ run[r] = "checked"
  /\ IF binary \in Unusable
     THEN RunGoto(r, "failed") /\ UNCHANGED executed
     ELSE /\ RunGoto(r, "ran")
          /\ executed' = [executed EXCEPT ![r] = binary]
  /\ UNCHANGED <<binaries, calls, baseline, others>>

-----------------------------------------------------------------------------
(* Others: a package manager, the user.                                    *)

ReplaceBinary ==
  /\ changes < MaxHostChanges
  /\ changes' = changes + 1
  /\ \/ host' \in {Missing, Damaged} \ {host} /\ UNCHANGED system
     \/ system' \in (Tags \cup {Missing}) \ {system} /\ UNCHANGED host
  /\ unsettled' = unsettled \cup {r \in Runs : run[r] = "checked"}
  /\ UNCHANGED <<calls, runs>>

HostNext ==
  \/ \E i \in Installs : \/ BeginInstall(i) \/ RefuseDownload(i) \/ Stage(i)
                         \/ SetMode(i) \/ PublishHost(i) \/ AbortInstall(i)
                         \/ AskInstalled(i) \/ ExitInstall(i)
  \/ \E r \in Runs : Preflight(r) \/ Execute(r)
  \/ ReplaceBinary

HostSpec == HostInit /\ [][HostNext]_hostVars

-----------------------------------------------------------------------------
(* Properties.                                                             *)

HostTypeOK ==
  /\ host \in Tags \cup {Missing, Damaged, NotRunnable}
  /\ system \in Tags \cup {Missing}
  /\ staged \in [Installs -> {Missing, NotRunnable, Managed}]
  /\ call \in [Installs -> {"idle", "fetching", "staged", "runnable", "asking",
                            "installed", "failed", "gone"}]
  /\ baseline \in [Runs -> Tags]
  /\ run \in [Runs -> {"idle", "checked", "failed", "ran"}]
  /\ executed \in [Runs -> Tags \cup {Missing}]
  /\ changes \in 0 .. MaxHostChanges /\ unsettled \subseteq Runs

\* A recipe is run by the Winetricks version that its catalog was made for,
\* whatever is installed between the preflight and the command, unless somebody
\* else changed a binary in between; and the managed host, published while others
\* verify and execute it, is never a file that they would refuse, nor does a
\* call that returned leave its staging file (legacy.rs 81-128, 246-395).
BaselineRuns ==
  /\ \A r \in Runs : run[r] = "ran" =>
       executed[r] = baseline[r] \/ r \in unsettled
  /\ host # NotRunnable
  /\ \A i \in Installs : staged[i] # Missing => call[i] \in {"staged", "runnable", "gone"}

=============================================================================
