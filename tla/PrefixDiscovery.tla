---------------------------- MODULE PrefixDiscovery ----------------------------
(***************************************************************************)
(* Finding prefixes (prefix.rs) and the commands of the desktop program    *)
(* that add and remove them (lib.rs).  A discovery asks one provider after *)
(* the other, then the registered rows, inspects what they named, and      *)
(* replaces the snapshot in memory.  Commands run concurrently and nothing *)
(* locks a prefix for them; other programs change the disk meanwhile.      *)
(*                                                                         *)
(* PlanFromSnapshot and PublishOver are faulty variants of the definition  *)
(* they precede.                                                           *)
(***************************************************************************)
EXTENDS Naturals, Sequences, FiniteSets

CONSTANTS
  Commands,    \* calls of the backend, each of them made once
  Places,      \* canonical paths
  Providers,   \* the providers with something to list, in their order
  NamedBy,     \* the providers that look at a place or have a record of it
  MaxChanges   \* bound on what others do to places and providers

VARIABLES
  disk,        \* what is at each place
  rows,        \* registered places
  known,       \* the snapshot in memory
  command,     \* what each call is
  place,       \* the place it is about
  stage,       \* where it stands
  after,       \* what it does with its discovery
  ahead,       \* providers that its discovery has still to ask
  found,       \* the source it has for each place
  saw,         \* the architecture it saw at each place it inspected
  staging,     \* the staged prefix of a creation
  alive,       \* whether the program runs
  changes,     \* what others did so far
  during,      \* architectures that a call's place had since it began
  clock, began, newest,  \* the order in which discoveries began
  overtaken,   \* whether the snapshot replaced that of a later discovery
  unread       \* whether the discovery behind a change of a command was not made

world     == <<disk, rows>>
request   == <<command, place>>
discovery == <<after, ahead, found, saw>>
order     == <<clock, began, newest, overtaken>>
discoveryVars == <<world, known, request, stage, discovery, staging, alive, changes,
                   during, order, unread>>

Unseen  == "unseen"
Kinds   == {"create", "register", "forget", "trash", "plan", "list", "search"}
Over    == {"idle", "returned", "failed", "dead"}

Launchers == {"steam", "lutris", "bottles", "heroic"}
Sources   == Launchers \cup {"default", "wineprefixes", "manual"}

ASSUME DiscoveryAssumption ==
  Providers \in Seq(Sources \ {"manual"}) /\ MaxChanges \in Nat

\* "files" is a directory of something else, "begun" a drive_c without registry.
Initialized == {"win32", "wow64"}
Contents == Initialized \cup {"missing", "empty", "files", "begun"}

\* detect_architecture() of a prefix that exists.
ArchitectureOf(content) == IF content \in Initialized THEN content ELSE "unknown"

DiscoveryInit ==
  /\ disk \in [Places -> {"missing", "empty", "wow64"}]
  /\ rows = {}
  /\ known = [p \in Places |-> <<"unlisted", Unseen>>]
  /\ command = [c \in Commands |-> "list"]
  /\ place \in [Commands -> Places]
  /\ stage = [c \in Commands |-> "idle"]
  /\ after = [c \in Commands |-> "return"]
  /\ ahead = [c \in Commands |-> <<>>]
  /\ found = [c \in Commands |-> [p \in Places |-> "unlisted"]]
  /\ saw = [c \in Commands |-> [p \in Places |-> Unseen]]
  /\ staging = [c \in Commands |-> "missing"]
  /\ alive = TRUE /\ changes = 0
  /\ during = [c \in Commands |-> {}]
  /\ clock = 0 /\ began = [c \in Commands |-> 0] /\ newest = 0
  /\ overtaken = FALSE /\ unread = FALSE

Active(c) == stage[c] \notin Over

Goto(c, s) == stage' = [stage EXCEPT ![c] = s]

\* A place gets other contents; the calls at work may come to see them.
Becomes(p, content) ==
  /\ disk' = [disk EXCEPT ![p] = content]
  /\ during' = [c \in Commands |->
       IF place[c] = p /\ Active(c) THEN during[c] \cup {ArchitectureOf(content)}
                                    ELSE during[c]]

Stays == UNCHANGED <<disk, during>>

-----------------------------------------------------------------------------
(* Discovery.                                                              *)

\* A discovery begins, in a call that goes on with "next".
Discover(c, next) ==
  /\ Goto(c, "scanning")
  /\ after' = [after EXCEPT ![c] = next]
  /\ ahead' = [ahead EXCEPT ![c] = Providers]
  /\ found' = [found EXCEPT ![c] = [p \in Places |-> "unlisted"]]
  /\ saw' = [saw EXCEPT ![c] = [p \in Places |-> Unseen]]
  /\ clock' = clock + 1 /\ began' = [began EXCEPT ![c] = clock + 1]
  /\ UNCHANGED <<newest, overtaken>>

\* StandardWineProvider lists ~/.wine and WINEPREFIX as they are, and every
\* directory below wineprefixes; Lutris has a prefix in a game's configuration;
\* the others list directories with a drive_c.
Lists(provider, p) ==
  /\ provider \in NamedBy[p]
  /\ CASE provider \in {"default", "lutris"} -> TRUE
       [] provider = "wineprefixes" -> disk[p] # "missing"
       [] OTHER -> disk[p] \in Initialized \cup {"begun"}

Priority(source) ==
  CASE source = "manual" -> 10
    [] source \in Launchers -> 8
    [] source = "wineprefixes" -> 5
    [] source = "default" -> 4
    [] OTHER -> 0

\* Candidates of one canonical path are one prefix, the first of the highest
\* priority.
Merge(c, source, places) ==
  found' = [found EXCEPT ![c] = [p \in Places |->
    IF p \in places /\ Priority(source) > Priority(@[p]) THEN source ELSE @[p]]]

AskProvider(c) ==
  /\ stage[c] = "scanning" /\ ahead[c] # <<>>
  /\ Merge(c, Head(ahead[c]), {p \in Places : Lists(Head(ahead[c]), p)})
  /\ ahead' = [ahead EXCEPT ![c] = Tail(@)]
  /\ Stays
  /\ UNCHANGED <<rows, known, request, stage, after, saw, staging, alive, changes,
                 order, unread>>

\* A provider whose files cannot be read, or that fails, lists nothing.
FailProvider(c) ==
  /\ stage[c] = "scanning" /\ ahead[c] # <<>> /\ changes < MaxChanges
  /\ ahead' = [ahead EXCEPT ![c] = Tail(@)]
  /\ changes' = changes + 1 /\ Stays
  /\ UNCHANGED <<rows, known, request, stage, after, found, saw, staging, alive,
                 order, unread>>

ReadRows(c) ==
  /\ stage[c] = "scanning" /\ ahead[c] = <<>>
  /\ Merge(c, "manual", rows)
  /\ Goto(c, "inspecting")
  /\ Stays
  /\ UNCHANGED <<rows, known, request, after, ahead, saw, staging, alive, changes,
                 order, unread>>

\* inspect_candidate(), in the order of a hash map.
Inspect(c, p) ==
  /\ stage[c] = "inspecting" /\ found[c][p] # "unlisted" /\ saw[c][p] = Unseen
  /\ saw' = [saw EXCEPT ![c][p] = ArchitectureOf(disk[p])]
  /\ Stays
  /\ UNCHANGED <<rows, known, request, stage, after, ahead, found, staging, alive,
                 changes, order, unread>>

\* The rows cannot be read: an error, and the snapshot stays.
FailDiscovery(c) ==
  /\ stage[c] = "scanning" /\ ahead[c] = <<>>
  /\ Goto(c, "failed") /\ Stays
  /\ unread' = (unread \/ (after[c] = "return" /\ command[c] # "list"))
  /\ UNCHANGED <<rows, known, request, discovery, staging, alive, changes, order>>

\* The snapshot is replaced, and the call has its list.
Publish(c) ==
  /\ stage[c] = "inspecting"
  /\ \A p \in Places : found[c][p] = "unlisted" \/ saw[c][p] # Unseen
  /\ known' = [p \in Places |-> <<found[c][p], saw[c][p]>>]
  /\ newest' = IF began[c] > newest THEN began[c] ELSE newest
  /\ overtaken' = (began[c] < newest)
  /\ LET listed == found[c][place[c]] # "unlisted" IN
     Goto(c, CASE after[c] = "return" \/ (after[c] = "plan" /\ listed) -> "returned"
               [] after[c] = "confirm" /\ listed -> "confirming"
               [] after[c] # "return" /\ ~listed -> "failed")
  /\ Stays
  /\ UNCHANGED <<rows, request, discovery, staging, alive, changes, clock, began, unread>>

-----------------------------------------------------------------------------
(* The commands.                                                           *)

Starts(c, kind) ==
  /\ alive /\ stage[c] = "idle"
  /\ command' = [command EXCEPT ![c] = kind]
  /\ during' = [during EXCEPT ![c] = {ArchitectureOf(disk[place[c]])}]
  /\ UNCHANGED <<disk, rows, known, place, alive, changes, unread>>

List(c) ==
  /\ Starts(c, "list") /\ Discover(c, "return")
  /\ UNCHANGED staging

PlanFromSnapshot(c) ==
  /\ Starts(c, "plan")
  /\ known[place[c]][1] # "unlisted"
  /\ found' = [found EXCEPT ![c] = [p \in Places |-> known[p][1]]]
  /\ saw' = [saw EXCEPT ![c] = [p \in Places |-> known[p][2]]]
  /\ Goto(c, "returned")
  /\ UNCHANGED <<after, ahead, staging, order>>

\* plan_operation() and start_operation() ask by_id(), which discovers.
Plan(c) ==
  /\ Starts(c, "plan") /\ Discover(c, "plan")
  /\ UNCHANGED staging

\* catalog_search() asks by_id_cached().
Search(c) ==
  /\ Starts(c, "search")
  /\ IF known[place[c]][1] # "unlisted"
     THEN Goto(c, "returned") /\ UNCHANGED <<discovery, order>>
     ELSE Discover(c, "plan")
  /\ UNCHANGED staging

Register(c) ==
  /\ Starts(c, "register") /\ Goto(c, "registering")
  /\ UNCHANGED <<discovery, staging, order>>

Forget(c) ==
  /\ Starts(c, "forget") /\ Goto(c, "forgetting")
  /\ UNCHANGED <<discovery, staging, order>>

Trash(c) ==
  /\ Starts(c, "trash") /\ Discover(c, "confirm")
  /\ UNCHANGED staging

\* A place that exists has to be an empty directory; wineboot sets up a prefix
\* beside it.
Create(c) ==
  /\ Starts(c, "create")
  /\ IF disk[place[c]] \in {"missing", "empty"}
     THEN Goto(c, "booting") /\ staging' = [staging EXCEPT ![c] = "begun"]
     ELSE Goto(c, "failed") /\ UNCHANGED staging
  /\ UNCHANGED <<discovery, order>>

Proceeds(c, s) ==
  /\ Goto(c, s)
  /\ UNCHANGED <<known, request, discovery, alive, changes, order>>

\* cleanup_staged_prefix() takes no notice when it cannot remove what is staged.
GiveUpCreation(c) ==
  /\ Proceeds(c, "failed") /\ Stays
  /\ \E rest \in {"missing", "left"} : staging' = [staging EXCEPT ![c] = rest]
  /\ UNCHANGED <<rows, unread>>

Boot(c) ==
  /\ stage[c] = "booting"
  /\ \/ GiveUpCreation(c)
     \/ /\ Proceeds(c, "booted") /\ Stays
        /\ \E a \in Initialized : staging' = [staging EXCEPT ![c] = a]
        /\ UNCHANGED <<rows, unread>>

\* path.exists()
LookAtTarget(c) ==
  /\ stage[c] = "booted"
  /\ Proceeds(c, IF disk[place[c]] = "missing" THEN "renaming" ELSE "clearing")
  /\ Stays /\ UNCHANGED <<rows, staging, unread>>

\* remove_dir() removes empty directories only.
ClearTarget(c) ==
  /\ stage[c] = "clearing"
  /\ IF disk[place[c]] = "empty"
     THEN /\ Becomes(place[c], "missing")
          /\ Proceeds(c, "renaming") /\ UNCHANGED <<rows, staging, unread>>
     ELSE GiveUpCreation(c)

PublishOver(c) ==
  /\ stage[c] = "renaming"
  /\ Becomes(place[c], staging[c])
  /\ staging' = [staging EXCEPT ![c] = "missing"]
  /\ Proceeds(c, "registering") /\ UNCHANGED <<rows, unread>>

\* rename() replaces an empty directory and nothing else.
RenameStaging(c) ==
  /\ stage[c] = "renaming"
  /\ IF disk[place[c]] \in {"missing", "empty"}
     THEN /\ Becomes(place[c], staging[c])
          /\ staging' = [staging EXCEPT ![c] = "missing"]
          /\ Proceeds(c, "registering") /\ UNCHANGED <<rows, unread>>
     ELSE GiveUpCreation(c)

\* validate_existing_prefix_path() and the row.
InsertRow(c) ==
  /\ stage[c] = "registering" /\ disk[place[c]] \in Initialized
  /\ rows' = rows \cup {place[c]}
  /\ Discover(c, "return") /\ Stays
  /\ UNCHANGED <<known, request, staging, alive, changes, unread>>

\* There is no prefix, or the database fails.
InsertFails(c) ==
  /\ stage[c] = "registering"
  /\ Proceeds(c, "failed") /\ Stays
  /\ unread' = (unread \/ command[c] = "create")
  /\ UNCHANGED <<rows, staging>>

DeleteRow(c) ==
  /\ stage[c] = "forgetting"
  /\ rows' = rows \ {place[c]}
  /\ Discover(c, "return") /\ Stays
  /\ UNCHANGED <<known, request, staging, alive, changes, unread>>

\* The database fails: trash_prefix() takes no notice, the row stays.
DeleteFails(c) ==
  /\ stage[c] = "forgetting" /\ Stays
  /\ IF command[c] = "trash"
     THEN Discover(c, "return")
     ELSE Goto(c, "failed") /\ UNCHANGED <<discovery, order>>
  /\ UNCHANGED <<rows, known, request, staging, alive, changes, unread>>

\* The name that the user typed, and the path.
Confirm(c) ==
  /\ stage[c] = "confirming"
  /\ \/ disk[place[c]] \in Initialized /\ Proceeds(c, "trashing")
     \/ Proceeds(c, "failed")
  /\ Stays /\ UNCHANGED <<rows, staging, unread>>

\* gio trash
MoveToTrash(c) ==
  /\ stage[c] = "trashing"
  /\ \/ /\ disk[place[c]] # "missing"
        /\ Becomes(place[c], "missing") /\ Proceeds(c, "forgetting")
     \/ Stays /\ Proceeds(c, "failed")
  /\ UNCHANGED <<rows, staging, unread>>

-----------------------------------------------------------------------------
(* Others.                                                                 *)

\* A launcher, the user, or an operation that initialises its prefix.
ChangeDisk(p) ==
  /\ changes < MaxChanges
  /\ changes' = changes + 1
  /\ \E content \in Contents \ {disk[p]} : Becomes(p, content)
  /\ UNCHANGED <<rows, known, request, stage, discovery, staging, alive, order, unread>>

Quit ==
  /\ alive /\ alive' = FALSE
  /\ stage' = [c \in Commands |-> IF Active(c) THEN "dead" ELSE stage[c]]
  /\ Stays
  /\ UNCHANGED <<rows, known, request, discovery, staging, changes, order, unread>>

Begin(c) ==
  List(c) \/ Plan(c) \/ Search(c) \/ Register(c) \/ Forget(c) \/ Trash(c) \/ Create(c)

Continue(c) ==
  \/ AskProvider(c) \/ FailProvider(c) \/ ReadRows(c) \/ FailDiscovery(c) \/ Publish(c)
  \/ \E p \in Places : Inspect(c, p)
  \/ Boot(c) \/ LookAtTarget(c) \/ ClearTarget(c) \/ RenameStaging(c)
  \/ InsertRow(c) \/ InsertFails(c) \/ DeleteRow(c) \/ DeleteFails(c)
  \/ Confirm(c) \/ MoveToTrash(c)

DiscoveryNext ==
  \/ \E c \in Commands : Begin(c) \/ Continue(c)
  \/ \E p \in Places : ChangeDisk(p)
  \/ Quit

DiscoverySpec == DiscoveryInit /\ [][DiscoveryNext]_discoveryVars

-----------------------------------------------------------------------------
(* Properties.                                                             *)

DiscoveryTypeOK ==
  /\ disk \in [Places -> Contents] /\ rows \subseteq Places
  /\ known \in [Places -> (Sources \cup {"unlisted"}) \X (Initialized \cup {"unknown", Unseen})]
  /\ \A p \in Places : known[p][1] = "unlisted" <=> known[p][2] = Unseen
  /\ command \in [Commands -> Kinds] /\ place \in [Commands -> Places]
  /\ stage \in [Commands -> Over \cup {"scanning", "inspecting", "confirming", "trashing",
                 "forgetting", "registering", "booting", "booted", "clearing", "renaming"}]
  /\ found \in [Commands -> [Places -> Sources \cup {"unlisted"}]]
  /\ saw \in [Commands -> [Places -> Initialized \cup {"unknown", Unseen}]]
  /\ staging \in [Commands -> Initialized \cup {"missing", "begun", "left"}]
  /\ alive \in BOOLEAN /\ overtaken \in BOOLEAN /\ unread \in BOOLEAN
  /\ changes \in 0 .. MaxChanges

\* What is at a place and is not an empty directory is taken away by others or by
\* the command that moves it to the trash, and never by a creation, though
\* minutes of wineboot are between its look at the place and its rename, and other
\* creations of the same place at work (lib.rs 174-262).
NothingReplaced ==
  [][\A p \in Places : disk[p] \notin {"missing", "empty"} /\ disk'[p] # disk[p] =>
       \/ changes' # changes
       \/ \E c \in Commands : command[c] = "trash" /\ place[c] = p /\ stage[c] = "trashing"]_discoveryVars

\* What the list of a source and the disk is now.
Now(p) ==
  LET named == {i \in 1 .. Len(Providers) : Lists(Providers[i], p)}
      best == CHOOSE i \in named : \A j \in named :
                \/ Priority(Providers[j]) < Priority(Providers[i])
                \/ Priority(Providers[j]) = Priority(Providers[i]) /\ i <= j
  IN CASE p \in rows -> <<"manual", ArchitectureOf(disk[p])>>
       [] p \notin rows /\ named # {} -> <<Providers[best], ArchitectureOf(disk[p])>>
       [] OTHER -> <<"unlisted", Unseen>>

\* A plan says of its prefix what was true at some moment since it was asked for;
\* a prefix that was created or registered is in the list that the command returns,
\* unless it is removed meanwhile; a command that returned leaves no staged prefix,
\* and one that failed only what it could not remove; and once all have returned the snapshot that filters the catalog agrees with the
\* disk, unless others changed that, a later discovery was overtaken by an earlier
\* one, or the discovery behind a change failed (prefix.rs 60-139, lib.rs
\* 138-352, 555-583).
CallsKeepTheirWord ==
  /\ \A c \in Commands : stage[c] = "returned" =>
       /\ command[c] = "plan" => saw[c][place[c]] \in during[c]
       /\ command[c] \in {"create", "register"} =>
            \/ found[c][place[c]] = "manual" /\ saw[c][place[c]] \in during[c]
            \/ \E d \in Commands : /\ command[d] \in {"forget", "trash"}
                                   /\ place[d] = place[c] /\ stage[d] # "idle"
  /\ \A c \in Commands : staging[c] # "missing" =>
       \/ stage[c] \in {"booting", "booted", "clearing", "renaming", "dead"}
       \/ stage[c] = "failed" /\ staging[c] = "left"
  /\ (alive /\ newest > 0 /\ ~overtaken /\ ~unread /\ changes = 0
       /\ \A c \in Commands : ~Active(c))
     => \A p \in Places : known[p] = Now(p)

=============================================================================
