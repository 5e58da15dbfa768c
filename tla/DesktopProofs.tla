------------------------------ MODULE DesktopProofs ------------------------------
(***************************************************************************)
(* What holds of the list of prefixes for any number of commands, places   *)
(* and providers, and any number of changes by others, and of the window   *)
(* for any number of operations, calls and reloads.                        *)
(***************************************************************************)
EXTENDS MCDesktop, TLAPS

-----------------------------------------------------------------------------
(* The inductive invariant of the list of prefixes.                        *)

Architectures == Initialized \cup {"unknown"}

Types ==
  /\ DiscoveryTypeOK
  /\ after \in [Commands -> {"return", "plan", "confirm"}]
  /\ ahead \in [Commands -> Seq(Sources \ {"manual"})]
  /\ during \in [Commands -> SUBSET Architectures]
  /\ clock \in Nat /\ began \in [Commands -> Nat] /\ newest \in 0 .. clock

Discovering(c) == stage[c] \in {"scanning", "inspecting"}

\* Which command a call is, by where it stands.
Purpose(c) ==
  /\ Discovering(c) /\ after[c] = "plan" => command[c] \in {"plan", "search"}
  /\ Discovering(c) /\ after[c] = "confirm" => command[c] = "trash"
  /\ Discovering(c) /\ after[c] = "return" => command[c] \notin {"plan", "search"}
  /\ stage[c] \in {"confirming", "trashing"} => command[c] = "trash"
  /\ stage[c] = "forgetting" => command[c] \in {"forget", "trash"}
  /\ stage[c] = "registering" => command[c] \in {"create", "register"}
  /\ stage[c] \in {"booting", "booted", "clearing", "renaming"} => command[c] = "create"
  /\ staging[c] \notin {"missing", "left"} =>
       stage[c] \in {"booting", "booted", "clearing", "renaming", "dead"}
  /\ staging[c] = "left" => stage[c] = "failed"

\* What a discovery has asked, and what it inspected.
Progress(c) ==
  /\ began[c] <= clock
  /\ Discovering(c) => began[c] > 0
  /\ \A p \in Places : Discovering(c) /\ saw[c][p] # Unseen =>
       stage[c] = "inspecting" /\ found[c][p] # "unlisted"
  /\ stage[c] = "scanning" =>
       /\ Len(ahead[c]) <= Len(Providers)
       /\ \A i \in 1 .. Len(ahead[c]) : ahead[c][i] = Providers[Len(Providers) - Len(ahead[c]) + i]

ShapeInv == Types /\ \A c \in Commands : Purpose(c) /\ Progress(c)

\* A command that takes a place away is at work or was.
Removed(p) ==
  \E d \in Commands : command[d] \in {"forget", "trash"} /\ place[d] = p /\ stage[d] # "idle"

\* What a call saw of its place was so since it began; what it registered is listed.
Truthful(c) ==
  LET p == place[c] IN
  /\ Active(c) => ArchitectureOf(disk[p]) \in during[c]
  /\ Discovering(c) /\ saw[c][p] # Unseen => saw[c][p] \in during[c]
  /\ stage[c] = "returned" /\ command[c] = "plan" => saw[c][p] \in during[c]
  /\ command[c] \in {"create", "register"} =>
       /\ stage[c] = "scanning" => p \in rows \/ Removed(p)
       /\ stage[c] = "inspecting" => found[c][p] = "manual" \/ Removed(p)
       /\ stage[c] = "returned" =>
            Removed(p) \/ (found[c][p] = "manual" /\ saw[c][p] \in during[c])

TruthInv == \A c \in Commands : Truthful(c)

\* The source of a place after the first k providers, as they are now.
Best(source, p, k) ==
  LET named == {i \in 1 .. k : Lists(Providers[i], p)} IN
  IF named = {} THEN source = "unlisted"
  ELSE \E i \in named :
         /\ source = Providers[i]
         /\ \A j \in named : \/ Priority(Providers[j]) < Priority(Providers[i])
                             \/ Priority(Providers[j]) = Priority(Providers[i]) /\ i <= j

\* A discovery that found everything as it is now.
Fresh(c) ==
  \A p \in Places :
    /\ stage[c] = "scanning" => Best(found[c][p], p, Len(Providers) - Len(ahead[c]))
    /\ stage[c] = "inspecting" =>
         /\ IF p \in rows THEN found[c][p] = "manual" ELSE Best(found[c][p], p, Len(Providers))
         /\ saw[c][p] \in {Unseen, ArchitectureOf(disk[p])}

\* A command has changed something or is about to, and its discovery is still to begin.
Owing(d) ==
  \/ stage[d] = "renaming" /\ disk[place[d]] \in {"missing", "empty"}
  \/ stage[d] = "registering" /\ command[d] = "create"
  \/ stage[d] = "forgetting" /\ command[d] = "trash"

\* A later discovery has been made, is being made by a command that changed something,
\* or is still to be made.
Behind(b) ==
  \/ unread \/ newest > b
  \/ \E d \in Commands :
       \/ Owing(d)
       \/ Discovering(d) /\ began[d] > b /\ after[d] = "return" /\ command[d] # "list"

\* What is not as it is now is going to be replaced.
SnapshotInv ==
  alive /\ changes = 0 =>
    /\ \A c \in Commands : Discovering(c) => Fresh(c) \/ Behind(began[c])
    /\ newest > 0 /\ ~overtaken => (\A p \in Places : known[p] = Now(p)) \/ Behind(newest)

-----------------------------------------------------------------------------
(* Types, and what a call has in its hands.                                *)

\* Each step keeps the types.
LEMMA TypesStep == ShapeInv /\ [DiscoveryNext]_discoveryVars => Types'
<1> SUFFICES ASSUME ShapeInv, [DiscoveryNext]_discoveryVars
             PROVE  Types'
  OBVIOUS
<1> USE DiscoveryAssumption
    DEF ShapeInv, Types
<1>1. ASSUME NEW c \in Commands, List(c) PROVE Types'
  <2>1. DiscoveryTypeOK'
    BY <1>1 DEF List, DiscoveryTypeOK, Discover, Starts, Contents, Initialized, Kinds, Over,
       Sources, Unseen, Goto, ArchitectureOf, Launchers
  <2>2. /\ after' \in [Commands -> {"return", "plan", "confirm"}]
        /\ ahead' \in [Commands -> Seq(Sources \ {"manual"})]
    BY <1>1 DEF List, DiscoveryTypeOK, Discover, Starts, Contents, Initialized, Kinds, Over,
       Unseen, Goto, ArchitectureOf
  <2>3. /\ during' \in [Commands -> SUBSET Architectures]
        /\ clock' \in Nat /\ began' \in [Commands -> Nat] /\ newest' \in 0 .. clock'
    BY <1>1 DEF List, DiscoveryTypeOK, Discover, Starts, Contents, Initialized, Kinds, Over,
       Sources, Unseen, Goto, ArchitectureOf, Launchers, Architectures
  <2> QED
    BY <2>1, <2>2, <2>3
<1>2. ASSUME NEW c \in Commands, Plan(c) PROVE Types'
  <2>1. DiscoveryTypeOK'
    BY <1>2 DEF Plan, DiscoveryTypeOK, Discover, Starts, Contents, Initialized, Kinds, Over,
       Sources, Unseen, Goto, ArchitectureOf, Launchers
  <2>2. /\ after' \in [Commands -> {"return", "plan", "confirm"}]
        /\ ahead' \in [Commands -> Seq(Sources \ {"manual"})]
    BY <1>2 DEF Plan, DiscoveryTypeOK, Discover, Starts, Contents, Initialized, Kinds, Over,
       Unseen, Goto, ArchitectureOf
  <2>3. /\ during' \in [Commands -> SUBSET Architectures]
        /\ clock' \in Nat /\ began' \in [Commands -> Nat] /\ newest' \in 0 .. clock'
    BY <1>2 DEF Plan, DiscoveryTypeOK, Discover, Starts, Contents, Initialized, Kinds, Over,
       Sources, Unseen, Goto, ArchitectureOf, Launchers, Architectures
  <2> QED
    BY <2>1, <2>2, <2>3
<1>3. ASSUME NEW c \in Commands, Search(c) PROVE Types'
  <2>1. Starts(c, "search") /\ UNCHANGED staging
    BY <1>3 DEF Search
  <2>2. CASE Goto(c, "returned") /\ known[place[c]][1] # "unlisted" /\ UNCHANGED <<discovery, order>>
    <3>1. DiscoveryTypeOK'
      BY <2>1, <2>2 DEF Goto, Starts, discovery, order, DiscoveryTypeOK, ArchitectureOf,
         Contents, Initialized, Kinds, Over, Sources, Unseen, Launchers
    <3>2. /\ after' \in [Commands -> {"return", "plan", "confirm"}]
          /\ ahead' \in [Commands -> Seq(Sources \ {"manual"})]
      BY <2>1, <2>2 DEF Goto, Starts, discovery, order, DiscoveryTypeOK, ArchitectureOf,
         Contents, Initialized, Kinds, Over, Unseen
    <3>3. /\ during' \in [Commands -> SUBSET Architectures]
          /\ clock' \in Nat /\ began' \in [Commands -> Nat] /\ newest' \in 0 .. clock'
      BY <2>1, <2>2 DEF Goto, Starts, discovery, order, DiscoveryTypeOK, ArchitectureOf,
         Contents, Initialized, Kinds, Over, Sources, Unseen, Launchers, Architectures
    <3> QED
      BY <3>1, <3>2, <3>3
  <2>3. CASE Discover(c, "plan")
    <3>1. DiscoveryTypeOK'
      BY <2>1, <2>3 DEF Starts, Discover, DiscoveryTypeOK, ArchitectureOf, Goto, Unseen,
         Contents, Initialized, Kinds, Over, Sources, Launchers
    <3>2. /\ after' \in [Commands -> {"return", "plan", "confirm"}]
          /\ ahead' \in [Commands -> Seq(Sources \ {"manual"})]
      BY <2>1, <2>3 DEF Starts, Discover, DiscoveryTypeOK, ArchitectureOf, Goto, Unseen,
         Contents, Initialized, Kinds, Over
    <3>3. /\ during' \in [Commands -> SUBSET Architectures]
          /\ clock' \in Nat /\ began' \in [Commands -> Nat] /\ newest' \in 0 .. clock'
      BY <2>1, <2>3 DEF Starts, Discover, DiscoveryTypeOK, ArchitectureOf, Goto, Unseen,
         Contents, Initialized, Kinds, Over, Sources, Launchers, Architectures
    <3> QED
      BY <3>1, <3>2, <3>3
  <2> QED
    BY <1>3, <2>2, <2>3 DEF Search
<1>4. ASSUME NEW c \in Commands, Register(c) PROVE Types'
  <2>1. DiscoveryTypeOK'
    BY <1>4 DEF Register, DiscoveryTypeOK, Goto, Starts, discovery, order, Contents,
       Initialized, Kinds, Over, Sources, Unseen, ArchitectureOf, Launchers
  <2>2. /\ after' \in [Commands -> {"return", "plan", "confirm"}]
        /\ ahead' \in [Commands -> Seq(Sources \ {"manual"})]
    BY <1>4 DEF Register, DiscoveryTypeOK, Goto, Starts, discovery, order, Contents,
       Initialized, Kinds, Over, Unseen, ArchitectureOf
  <2>3. /\ during' \in [Commands -> SUBSET Architectures]
        /\ clock' \in Nat /\ began' \in [Commands -> Nat] /\ newest' \in 0 .. clock'
    BY <1>4 DEF Register, DiscoveryTypeOK, Goto, Starts, discovery, order, Contents,
       Initialized, Kinds, Over, Sources, Unseen, ArchitectureOf, Launchers, Architectures
  <2> QED
    BY <2>1, <2>2, <2>3
<1>5. ASSUME NEW c \in Commands, Forget(c) PROVE Types'
  <2>1. DiscoveryTypeOK'
    BY <1>5 DEF Forget, DiscoveryTypeOK, Goto, Starts, discovery, order, Contents, Initialized,
       Kinds, Over, Sources, Unseen, ArchitectureOf, Launchers
  <2>2. /\ after' \in [Commands -> {"return", "plan", "confirm"}]
        /\ ahead' \in [Commands -> Seq(Sources \ {"manual"})]
    BY <1>5 DEF Forget, DiscoveryTypeOK, Goto, Starts, discovery, order, Contents, Initialized,
       Kinds, Over, Unseen, ArchitectureOf
  <2>3. /\ during' \in [Commands -> SUBSET Architectures]
        /\ clock' \in Nat /\ began' \in [Commands -> Nat] /\ newest' \in 0 .. clock'
    BY <1>5 DEF Forget, DiscoveryTypeOK, Goto, Starts, discovery, order, Contents, Initialized,
       Kinds, Over, Sources, Unseen, ArchitectureOf, Launchers, Architectures
  <2> QED
    BY <2>1, <2>2, <2>3
<1>6. ASSUME NEW c \in Commands, Trash(c) PROVE Types'
  <2>1. DiscoveryTypeOK'
    BY <1>6 DEF Trash, DiscoveryTypeOK, Discover, Starts, Contents, Initialized, Kinds, Over,
       Sources, Unseen, Goto, ArchitectureOf, Launchers
  <2>2. /\ after' \in [Commands -> {"return", "plan", "confirm"}]
        /\ ahead' \in [Commands -> Seq(Sources \ {"manual"})]
    BY <1>6 DEF Trash, DiscoveryTypeOK, Discover, Starts, Contents, Initialized, Kinds, Over,
       Unseen, Goto, ArchitectureOf
  <2>3. /\ during' \in [Commands -> SUBSET Architectures]
        /\ clock' \in Nat /\ began' \in [Commands -> Nat] /\ newest' \in 0 .. clock'
    BY <1>6 DEF Trash, DiscoveryTypeOK, Discover, Starts, Contents, Initialized, Kinds, Over,
       Sources, Unseen, Goto, ArchitectureOf, Launchers, Architectures
  <2> QED
    BY <2>1, <2>2, <2>3
<1>7. ASSUME NEW c \in Commands, Create(c) PROVE Types'
  <2>1. Starts(c, "create") /\ UNCHANGED <<discovery, order>>
    BY <1>7 DEF Create
  <2>2. CASE Goto(c, "booting") /\ staging' = [staging EXCEPT ![c] = "begun"]
    <3>1. DiscoveryTypeOK'
      BY <2>1, <2>2 DEF Goto, Starts, discovery, order, DiscoveryTypeOK, ArchitectureOf,
         Contents, Initialized, Kinds, Over, Sources, Unseen, Launchers
    <3>2. /\ after' \in [Commands -> {"return", "plan", "confirm"}]
          /\ ahead' \in [Commands -> Seq(Sources \ {"manual"})]
      BY <2>1, <2>2 DEF Goto, Starts, discovery, order, DiscoveryTypeOK, ArchitectureOf,
         Contents, Initialized, Kinds, Over, Unseen
    <3>3. /\ during' \in [Commands -> SUBSET Architectures]
          /\ clock' \in Nat /\ began' \in [Commands -> Nat] /\ newest' \in 0 .. clock'
      BY <2>1, <2>2 DEF Goto, Starts, discovery, order, DiscoveryTypeOK, ArchitectureOf,
         Contents, Initialized, Kinds, Over, Sources, Unseen, Launchers, Architectures
    <3> QED
      BY <3>1, <3>2, <3>3
  <2>3. CASE Goto(c, "failed") /\ UNCHANGED staging
    <3>1. DiscoveryTypeOK'
      BY <2>1, <2>3 DEF Goto, Starts, discovery, order, DiscoveryTypeOK, ArchitectureOf,
         Contents, Initialized, Kinds, Over, Sources, Unseen, Launchers
    <3>2. /\ after' \in [Commands -> {"return", "plan", "confirm"}]
          /\ ahead' \in [Commands -> Seq(Sources \ {"manual"})]
      BY <2>1, <2>3 DEF Goto, Starts, discovery, order, DiscoveryTypeOK, ArchitectureOf,
         Contents, Initialized, Kinds, Over, Unseen
    <3>3. /\ during' \in [Commands -> SUBSET Architectures]
          /\ clock' \in Nat /\ began' \in [Commands -> Nat] /\ newest' \in 0 .. clock'
      BY <2>1, <2>3 DEF Goto, Starts, discovery, order, DiscoveryTypeOK, ArchitectureOf,
         Contents, Initialized, Kinds, Over, Sources, Unseen, Launchers, Architectures
    <3> QED
      BY <3>1, <3>2, <3>3
  <2> QED
    BY <1>7, <2>2, <2>3 DEF Create
<1>8. ASSUME NEW c \in Commands, AskProvider(c) PROVE Types'
  <2>1. DiscoveryTypeOK'
    BY <1>8 DEF AskProvider, DiscoveryTypeOK, Lists, Merge, Stays, order, request, Contents,
       Initialized, Kinds, Over, Sources, Unseen, Priority, Launchers
  <2>2. /\ after' \in [Commands -> {"return", "plan", "confirm"}]
        /\ ahead' \in [Commands -> Seq(Sources \ {"manual"})]
    BY <1>8 DEF AskProvider, DiscoveryTypeOK, Lists, Merge, Stays, order, request, Contents,
       Initialized, Kinds, Over, Unseen, Priority, Launchers
  <2>3. /\ during' \in [Commands -> SUBSET Architectures]
        /\ clock' \in Nat /\ began' \in [Commands -> Nat] /\ newest' \in 0 .. clock'
    BY <1>8 DEF AskProvider, DiscoveryTypeOK, Lists, Merge, Stays, order, request, Contents,
       Initialized, Kinds, Over, Sources, Unseen, Priority, Launchers, Architectures
  <2> QED
    BY <2>1, <2>2, <2>3
<1>9. ASSUME NEW c \in Commands, FailProvider(c) PROVE Types'
  <2>1. DiscoveryTypeOK'
    BY <1>9 DEF FailProvider, DiscoveryTypeOK, Stays, order, request, Contents, Initialized,
       Kinds, Over, Sources, Unseen, Launchers
  <2>2. /\ after' \in [Commands -> {"return", "plan", "confirm"}]
        /\ ahead' \in [Commands -> Seq(Sources \ {"manual"})]
    BY <1>9 DEF FailProvider, DiscoveryTypeOK, Stays, order, request, Contents, Initialized,
       Kinds, Over, Unseen
  <2>3. /\ during' \in [Commands -> SUBSET Architectures]
        /\ clock' \in Nat /\ began' \in [Commands -> Nat] /\ newest' \in 0 .. clock'
    BY <1>9 DEF FailProvider, DiscoveryTypeOK, Stays, order, request, Contents, Initialized,
       Kinds, Over, Sources, Unseen, Launchers, Architectures
  <2> QED
    BY <2>1, <2>2, <2>3
<1>10. ASSUME NEW c \in Commands, ReadRows(c) PROVE Types'
  <2>1. DiscoveryTypeOK'
    BY <1>10 DEF ReadRows, DiscoveryTypeOK, Goto, Merge, Stays, order, request, Contents,
       Initialized, Kinds, Over, Sources, Unseen, Priority, Launchers
  <2>2. /\ after' \in [Commands -> {"return", "plan", "confirm"}]
        /\ ahead' \in [Commands -> Seq(Sources \ {"manual"})]
    BY <1>10 DEF ReadRows, DiscoveryTypeOK, Goto, Merge, Stays, order, request, Contents,
       Initialized, Kinds, Over, Unseen, Priority, Launchers
  <2>3. /\ during' \in [Commands -> SUBSET Architectures]
        /\ clock' \in Nat /\ began' \in [Commands -> Nat] /\ newest' \in 0 .. clock'
    BY <1>10 DEF ReadRows, DiscoveryTypeOK, Goto, Merge, Stays, order, request, Contents,
       Initialized, Kinds, Over, Sources, Unseen, Priority, Launchers, Architectures
  <2> QED
    BY <2>1, <2>2, <2>3
<1>11. ASSUME NEW c \in Commands, FailDiscovery(c) PROVE Types'
  <2>1. DiscoveryTypeOK'
    BY <1>11 DEF FailDiscovery, DiscoveryTypeOK, Goto, Stays, discovery, order, request,
       Contents, Initialized, Kinds, Over, Sources, Unseen, Launchers
  <2>2. /\ after' \in [Commands -> {"return", "plan", "confirm"}]
        /\ ahead' \in [Commands -> Seq(Sources \ {"manual"})]
    BY <1>11 DEF FailDiscovery, DiscoveryTypeOK, Goto, Stays, discovery, order, request,
       Contents, Initialized, Kinds, Over, Unseen
  <2>3. /\ during' \in [Commands -> SUBSET Architectures]
        /\ clock' \in Nat /\ began' \in [Commands -> Nat] /\ newest' \in 0 .. clock'
    BY <1>11 DEF FailDiscovery, DiscoveryTypeOK, Goto, Stays, discovery, order, request,
       Contents, Initialized, Kinds, Over, Sources, Unseen, Launchers, Architectures
  <2> QED
    BY <2>1, <2>2, <2>3
<1>12. ASSUME NEW c \in Commands, Publish(c) PROVE Types'
  <2>1. UNCHANGED <<disk, rows, command, place, after, ahead, found, saw, staging, alive>>
        /\ UNCHANGED <<changes, during, clock, began, unread>>
    BY <1>12 DEF Publish, Stays, request, discovery
  <2>2. \E s \in {"returned", "failed", "confirming"} : stage' = [stage EXCEPT ![c] = s]
    <3>1. CASE after[c] = "return"
      BY <1>12, <3>1 DEF Publish, Goto
    <3>2. CASE after[c] = "plan"
      BY <1>12, <3>2 DEF Publish, Goto
    <3>3. CASE after[c] = "confirm"
      BY <1>12, <3>3 DEF Publish, Goto
    <3> QED
      BY <3>1, <3>2, <3>3
  <2>3. known' = [p \in Places |-> <<found[c][p], saw[c][p]>>] /\ stage[c] = "inspecting"
        /\ \A p \in Places : found[c][p] = "unlisted" <=> saw[c][p] = Unseen
    BY <1>12 DEF Publish, Progress, Discovering
  <2>4. newest' \in 0 .. clock /\ overtaken' \in BOOLEAN
    BY <1>12 DEF Publish, Progress
  <2>5. stage' \in [Commands -> Over \cup {"scanning", "inspecting", "confirming", "trashing",
                      "forgetting", "registering", "booting", "booted", "clearing", "renaming"}]
    BY <2>2 DEF DiscoveryTypeOK, Over
  <2>6. /\ known' \in [Places -> (Sources \cup {"unlisted"}) \X (Initialized \cup {"unknown", Unseen})]
        /\ \A p \in Places : known'[p][1] = "unlisted" <=> known'[p][2] = Unseen
    BY <2>3 DEF DiscoveryTypeOK
  <2>7. DiscoveryTypeOK'
    BY <2>1, <2>4, <2>5, <2>6 DEF DiscoveryTypeOK
  <2> QED
    BY <2>1, <2>4, <2>7
<1>13. ASSUME NEW c \in Commands, NEW p \in Places, Inspect(c, p) PROVE Types'
  <2>1. DiscoveryTypeOK'
    BY <1>13 DEF Inspect, DiscoveryTypeOK, ArchitectureOf, Stays, Unseen, order, request,
       Contents, Initialized, Kinds, Over, Sources, Launchers
  <2>2. /\ after' \in [Commands -> {"return", "plan", "confirm"}]
        /\ ahead' \in [Commands -> Seq(Sources \ {"manual"})]
    BY <1>13 DEF Inspect, DiscoveryTypeOK, ArchitectureOf, Stays, Unseen, order, request,
       Contents, Initialized, Kinds, Over
  <2>3. /\ during' \in [Commands -> SUBSET Architectures]
        /\ clock' \in Nat /\ began' \in [Commands -> Nat] /\ newest' \in 0 .. clock'
    BY <1>13 DEF Inspect, DiscoveryTypeOK, ArchitectureOf, Stays, Unseen, order, request,
       Contents, Initialized, Kinds, Over, Sources, Launchers, Architectures
  <2> QED
    BY <2>1, <2>2, <2>3
<1>14. ASSUME NEW c \in Commands, Boot(c) PROVE Types'
  <2>1. stage[c] = "booting" /\ Stays /\ UNCHANGED <<rows, unread>>
    BY <1>14 DEF Boot, GiveUpCreation
  <2>2. CASE GiveUpCreation(c)
    <3>1. DiscoveryTypeOK'
      BY <2>1, <2>2 DEF GiveUpCreation, Stays, DiscoveryTypeOK, Proceeds, Contents,
         Initialized, Kinds, Over, Sources, Unseen, Goto, discovery, order, request,
         Launchers
    <3>2. /\ after' \in [Commands -> {"return", "plan", "confirm"}]
          /\ ahead' \in [Commands -> Seq(Sources \ {"manual"})]
      BY <2>1, <2>2 DEF GiveUpCreation, Stays, DiscoveryTypeOK, Proceeds, Contents,
         Initialized, Kinds, Over, Unseen, Goto, discovery, order, request
    <3>3. /\ during' \in [Commands -> SUBSET Architectures]
          /\ clock' \in Nat /\ began' \in [Commands -> Nat] /\ newest' \in 0 .. clock'
      BY <2>1, <2>2 DEF GiveUpCreation, Stays, DiscoveryTypeOK, Proceeds, Contents,
         Initialized, Kinds, Over, Sources, Unseen, Goto, discovery, order, request,
         Launchers, Architectures
    <3> QED
      BY <3>1, <3>2, <3>3
  <2>3. CASE Proceeds(c, "booted") /\ \E a \in Initialized : staging' = [staging EXCEPT ![c] = a]
    <3>1. DiscoveryTypeOK'
      BY <2>1, <2>3 DEF Proceeds, Stays, DiscoveryTypeOK, Goto, discovery, order, request,
         Contents, Initialized, Kinds, Over, Sources, Unseen, Launchers
    <3>2. /\ after' \in [Commands -> {"return", "plan", "confirm"}]
          /\ ahead' \in [Commands -> Seq(Sources \ {"manual"})]
      BY <2>1, <2>3 DEF Proceeds, Stays, DiscoveryTypeOK, Goto, discovery, order, request,
         Contents, Initialized, Kinds, Over, Unseen
    <3>3. /\ during' \in [Commands -> SUBSET Architectures]
          /\ clock' \in Nat /\ began' \in [Commands -> Nat] /\ newest' \in 0 .. clock'
      BY <2>1, <2>3 DEF Proceeds, Stays, DiscoveryTypeOK, Goto, discovery, order, request,
         Contents, Initialized, Kinds, Over, Sources, Unseen, Launchers, Architectures
    <3> QED
      BY <3>1, <3>2, <3>3
  <2> QED
    BY <1>14, <2>2, <2>3 DEF Boot
<1>15. ASSUME NEW c \in Commands, LookAtTarget(c) PROVE Types'
  <2>1. DiscoveryTypeOK'
    BY <1>15 DEF LookAtTarget, DiscoveryTypeOK, Proceeds, Stays, Contents, Initialized, Kinds,
       Over, Sources, Unseen, Goto, discovery, order, request, Launchers
  <2>2. /\ after' \in [Commands -> {"return", "plan", "confirm"}]
        /\ ahead' \in [Commands -> Seq(Sources \ {"manual"})]
    BY <1>15 DEF LookAtTarget, DiscoveryTypeOK, Proceeds, Stays, Contents, Initialized, Kinds,
       Over, Unseen, Goto, discovery, order, request
  <2>3. /\ during' \in [Commands -> SUBSET Architectures]
        /\ clock' \in Nat /\ began' \in [Commands -> Nat] /\ newest' \in 0 .. clock'
    BY <1>15 DEF LookAtTarget, DiscoveryTypeOK, Proceeds, Stays, Contents, Initialized, Kinds,
       Over, Sources, Unseen, Goto, discovery, order, request, Launchers, Architectures
  <2> QED
    BY <2>1, <2>2, <2>3
<1>16. ASSUME NEW c \in Commands, ClearTarget(c) PROVE Types'
  <2>1. stage[c] = "clearing"
    BY <1>16 DEF ClearTarget
  <2>2. CASE Becomes(place[c], "missing") /\ Proceeds(c, "renaming") /\ UNCHANGED <<rows, staging, unread>>
             /\ disk[place[c]] = "empty"
    <3>1. DiscoveryTypeOK'
      BY <2>1, <2>2 DEF Proceeds, Becomes, DiscoveryTypeOK, Goto, discovery, order, request,
         Active, ArchitectureOf, Contents, Initialized, Kinds, Over, Sources, Unseen,
         Launchers
    <3>2. /\ after' \in [Commands -> {"return", "plan", "confirm"}]
          /\ ahead' \in [Commands -> Seq(Sources \ {"manual"})]
      BY <2>1, <2>2 DEF Proceeds, Becomes, DiscoveryTypeOK, Goto, discovery, order, request,
         Active, ArchitectureOf, Contents, Initialized, Kinds, Over, Unseen
    <3>3. /\ during' \in [Commands -> SUBSET Architectures]
          /\ clock' \in Nat /\ began' \in [Commands -> Nat] /\ newest' \in 0 .. clock'
      BY <2>1, <2>2 DEF Proceeds, Becomes, DiscoveryTypeOK, Goto, discovery, order, request,
         Active, ArchitectureOf, Contents, Initialized, Kinds, Over, Sources, Unseen,
         Launchers, Architectures
    <3> QED
      BY <3>1, <3>2, <3>3
  <2>3. CASE GiveUpCreation(c)
    <3>1. DiscoveryTypeOK'
      BY <2>1, <2>3 DEF GiveUpCreation, DiscoveryTypeOK, Proceeds, Stays, Contents,
         Initialized, Kinds, Over, Sources, Unseen, Goto, discovery, order, request,
         Launchers
    <3>2. /\ after' \in [Commands -> {"return", "plan", "confirm"}]
          /\ ahead' \in [Commands -> Seq(Sources \ {"manual"})]
      BY <2>1, <2>3 DEF GiveUpCreation, DiscoveryTypeOK, Proceeds, Stays, Contents,
         Initialized, Kinds, Over, Unseen, Goto, discovery, order, request
    <3>3. /\ during' \in [Commands -> SUBSET Architectures]
          /\ clock' \in Nat /\ began' \in [Commands -> Nat] /\ newest' \in 0 .. clock'
      BY <2>1, <2>3 DEF GiveUpCreation, DiscoveryTypeOK, Proceeds, Stays, Contents,
         Initialized, Kinds, Over, Sources, Unseen, Goto, discovery, order, request,
         Launchers, Architectures
    <3> QED
      BY <3>1, <3>2, <3>3
  <2> QED
    BY <1>16, <2>2, <2>3 DEF ClearTarget
<1>17. ASSUME NEW c \in Commands, RenameStaging(c) PROVE Types'
  <2>1. stage[c] = "renaming" /\ staging[c] \in Contents
    BY <1>17 DEF RenameStaging, Purpose, DiscoveryTypeOK, Contents, Initialized
  <2>2. CASE Becomes(place[c], staging[c]) /\ staging' = [staging EXCEPT ![c] = "missing"]
             /\ Proceeds(c, "registering") /\ UNCHANGED <<rows, unread>>
             /\ disk[place[c]] \in {"missing", "empty"}
    <3>1. DiscoveryTypeOK'
      BY <2>1, <2>2 DEF Proceeds, Becomes, DiscoveryTypeOK, Goto, discovery, order, request,
         Active, ArchitectureOf, Contents, Initialized, Kinds, Over, Sources, Unseen,
         Launchers
    <3>2. /\ after' \in [Commands -> {"return", "plan", "confirm"}]
          /\ ahead' \in [Commands -> Seq(Sources \ {"manual"})]
      BY <2>1, <2>2 DEF Proceeds, Becomes, DiscoveryTypeOK, Goto, discovery, order, request,
         Active, ArchitectureOf, Contents, Initialized, Kinds, Over, Unseen
    <3>3. /\ during' \in [Commands -> SUBSET Architectures]
          /\ clock' \in Nat /\ began' \in [Commands -> Nat] /\ newest' \in 0 .. clock'
      BY <2>1, <2>2 DEF Proceeds, Becomes, DiscoveryTypeOK, Goto, discovery, order, request,
         Active, ArchitectureOf, Contents, Initialized, Kinds, Over, Sources, Unseen,
         Launchers, Architectures
    <3> QED
      BY <3>1, <3>2, <3>3
  <2>3. CASE GiveUpCreation(c) /\ disk[place[c]] \notin {"missing", "empty"}
    <3>1. DiscoveryTypeOK'
      BY <2>1, <2>3 DEF GiveUpCreation, DiscoveryTypeOK, Proceeds, Stays, Contents,
         Initialized, Kinds, Over, Sources, Unseen, Goto, discovery, order, request,
         Launchers
    <3>2. /\ after' \in [Commands -> {"return", "plan", "confirm"}]
          /\ ahead' \in [Commands -> Seq(Sources \ {"manual"})]
      BY <2>1, <2>3 DEF GiveUpCreation, DiscoveryTypeOK, Proceeds, Stays, Contents,
         Initialized, Kinds, Over, Unseen, Goto, discovery, order, request
    <3>3. /\ during' \in [Commands -> SUBSET Architectures]
          /\ clock' \in Nat /\ began' \in [Commands -> Nat] /\ newest' \in 0 .. clock'
      BY <2>1, <2>3 DEF GiveUpCreation, DiscoveryTypeOK, Proceeds, Stays, Contents,
         Initialized, Kinds, Over, Sources, Unseen, Goto, discovery, order, request,
         Launchers, Architectures
    <3> QED
      BY <3>1, <3>2, <3>3
  <2> QED
    BY <1>17, <2>2, <2>3 DEF RenameStaging
<1>18. ASSUME NEW c \in Commands, InsertRow(c) PROVE Types'
  <2>1. DiscoveryTypeOK'
    BY <1>18 DEF InsertRow, DiscoveryTypeOK, Discover, Initialized, Stays, request, Contents,
       Kinds, Over, Sources, Unseen, Goto, Launchers
  <2>2. /\ after' \in [Commands -> {"return", "plan", "confirm"}]
        /\ ahead' \in [Commands -> Seq(Sources \ {"manual"})]
    BY <1>18 DEF InsertRow, DiscoveryTypeOK, Discover, Initialized, Stays, request, Contents,
       Kinds, Over, Unseen, Goto
  <2>3. /\ during' \in [Commands -> SUBSET Architectures]
        /\ clock' \in Nat /\ began' \in [Commands -> Nat] /\ newest' \in 0 .. clock'
    BY <1>18 DEF InsertRow, DiscoveryTypeOK, Discover, Initialized, Stays, request, Contents,
       Kinds, Over, Sources, Unseen, Goto, Launchers, Architectures
  <2> QED
    BY <2>1, <2>2, <2>3
<1>19. ASSUME NEW c \in Commands, InsertFails(c) PROVE Types'
  <2>1. DiscoveryTypeOK'
    BY <1>19 DEF InsertFails, DiscoveryTypeOK, Proceeds, Stays, Contents, Initialized, Kinds,
       Over, Sources, Unseen, Goto, discovery, order, request, Launchers
  <2>2. /\ after' \in [Commands -> {"return", "plan", "confirm"}]
        /\ ahead' \in [Commands -> Seq(Sources \ {"manual"})]
    BY <1>19 DEF InsertFails, DiscoveryTypeOK, Proceeds, Stays, Contents, Initialized, Kinds,
       Over, Unseen, Goto, discovery, order, request
  <2>3. /\ during' \in [Commands -> SUBSET Architectures]
        /\ clock' \in Nat /\ began' \in [Commands -> Nat] /\ newest' \in 0 .. clock'
    BY <1>19 DEF InsertFails, DiscoveryTypeOK, Proceeds, Stays, Contents, Initialized, Kinds,
       Over, Sources, Unseen, Goto, discovery, order, request, Launchers, Architectures
  <2> QED
    BY <2>1, <2>2, <2>3
<1>20. ASSUME NEW c \in Commands, DeleteRow(c) PROVE Types'
  <2>1. DiscoveryTypeOK'
    BY <1>20 DEF DeleteRow, DiscoveryTypeOK, Discover, Stays, request, Contents, Initialized,
       Kinds, Over, Sources, Unseen, Goto, Launchers
  <2>2. /\ after' \in [Commands -> {"return", "plan", "confirm"}]
        /\ ahead' \in [Commands -> Seq(Sources \ {"manual"})]
    BY <1>20 DEF DeleteRow, DiscoveryTypeOK, Discover, Stays, request, Contents, Initialized,
       Kinds, Over, Unseen, Goto
  <2>3. /\ during' \in [Commands -> SUBSET Architectures]
        /\ clock' \in Nat /\ began' \in [Commands -> Nat] /\ newest' \in 0 .. clock'
    BY <1>20 DEF DeleteRow, DiscoveryTypeOK, Discover, Stays, request, Contents, Initialized,
       Kinds, Over, Sources, Unseen, Goto, Launchers, Architectures
  <2> QED
    BY <2>1, <2>2, <2>3
<1>21. ASSUME NEW c \in Commands, DeleteFails(c) PROVE Types'
  <2>1. stage[c] = "forgetting" /\ Stays /\ UNCHANGED <<rows, known, request, staging, alive, changes, unread>>
    BY <1>21 DEF DeleteFails
  <2>2. CASE Discover(c, "return") /\ command[c] = "trash"
    <3>1. DiscoveryTypeOK'
      BY <2>1, <2>2 DEF Stays, Discover, request, DiscoveryTypeOK, Goto, Unseen, Contents,
         Initialized, Kinds, Over, Sources, Launchers
    <3>2. /\ after' \in [Commands -> {"return", "plan", "confirm"}]
          /\ ahead' \in [Commands -> Seq(Sources \ {"manual"})]
      BY <2>1, <2>2 DEF Stays, Discover, request, DiscoveryTypeOK, Goto, Unseen, Contents,
         Initialized, Kinds, Over
    <3>3. /\ during' \in [Commands -> SUBSET Architectures]
          /\ clock' \in Nat /\ began' \in [Commands -> Nat] /\ newest' \in 0 .. clock'
      BY <2>1, <2>2 DEF Stays, Discover, request, DiscoveryTypeOK, Goto, Unseen, Contents,
         Initialized, Kinds, Over, Sources, Launchers, Architectures
    <3> QED
      BY <3>1, <3>2, <3>3
  <2>3. CASE Goto(c, "failed") /\ command[c] # "trash" /\ UNCHANGED <<discovery, order>>
    <3>1. DiscoveryTypeOK'
      BY <2>1, <2>3 DEF Goto, Stays, discovery, order, request, DiscoveryTypeOK, Contents,
         Initialized, Kinds, Over, Sources, Unseen, Launchers
    <3>2. /\ after' \in [Commands -> {"return", "plan", "confirm"}]
          /\ ahead' \in [Commands -> Seq(Sources \ {"manual"})]
      BY <2>1, <2>3 DEF Goto, Stays, discovery, order, request, DiscoveryTypeOK, Contents,
         Initialized, Kinds, Over, Unseen
    <3>3. /\ during' \in [Commands -> SUBSET Architectures]
          /\ clock' \in Nat /\ began' \in [Commands -> Nat] /\ newest' \in 0 .. clock'
      BY <2>1, <2>3 DEF Goto, Stays, discovery, order, request, DiscoveryTypeOK, Contents,
         Initialized, Kinds, Over, Sources, Unseen, Launchers, Architectures
    <3> QED
      BY <3>1, <3>2, <3>3
  <2> QED
    BY <1>21, <2>2, <2>3 DEF DeleteFails
<1>22. ASSUME NEW c \in Commands, Confirm(c) PROVE Types'
  <2>1. stage[c] = "confirming" /\ Stays /\ UNCHANGED <<rows, staging, unread>>
    BY <1>22 DEF Confirm
  <2>2. CASE Proceeds(c, "trashing") /\ disk[place[c]] \in Initialized
    <3>1. DiscoveryTypeOK'
      BY <2>1, <2>2 DEF Proceeds, Stays, DiscoveryTypeOK, Goto, discovery, order, request,
         Contents, Initialized, Kinds, Over, Sources, Unseen, Launchers
    <3>2. /\ after' \in [Commands -> {"return", "plan", "confirm"}]
          /\ ahead' \in [Commands -> Seq(Sources \ {"manual"})]
      BY <2>1, <2>2 DEF Proceeds, Stays, DiscoveryTypeOK, Goto, discovery, order, request,
         Contents, Initialized, Kinds, Over, Unseen
    <3>3. /\ during' \in [Commands -> SUBSET Architectures]
          /\ clock' \in Nat /\ began' \in [Commands -> Nat] /\ newest' \in 0 .. clock'
      BY <2>1, <2>2 DEF Proceeds, Stays, DiscoveryTypeOK, Goto, discovery, order, request,
         Contents, Initialized, Kinds, Over, Sources, Unseen, Launchers, Architectures
    <3> QED
      BY <3>1, <3>2, <3>3
  <2>3. CASE Proceeds(c, "failed")
    <3>1. DiscoveryTypeOK'
      BY <2>1, <2>3 DEF Proceeds, Stays, DiscoveryTypeOK, Goto, discovery, order, request,
         Contents, Initialized, Kinds, Over, Sources, Unseen, Launchers
    <3>2. /\ after' \in [Commands -> {"return", "plan", "confirm"}]
          /\ ahead' \in [Commands -> Seq(Sources \ {"manual"})]
      BY <2>1, <2>3 DEF Proceeds, Stays, DiscoveryTypeOK, Goto, discovery, order, request,
         Contents, Initialized, Kinds, Over, Unseen
    <3>3. /\ during' \in [Commands -> SUBSET Architectures]
          /\ clock' \in Nat /\ began' \in [Commands -> Nat] /\ newest' \in 0 .. clock'
      BY <2>1, <2>3 DEF Proceeds, Stays, DiscoveryTypeOK, Goto, discovery, order, request,
         Contents, Initialized, Kinds, Over, Sources, Unseen, Launchers, Architectures
    <3> QED
      BY <3>1, <3>2, <3>3
  <2> QED
    BY <1>22, <2>2, <2>3 DEF Confirm
<1>23. ASSUME NEW c \in Commands, MoveToTrash(c) PROVE Types'
  <2>1. stage[c] = "trashing" /\ UNCHANGED <<rows, staging, unread>>
    BY <1>23 DEF MoveToTrash
  <2>2. CASE Becomes(place[c], "missing") /\ Proceeds(c, "forgetting")
    <3>1. DiscoveryTypeOK'
      BY <2>1, <2>2 DEF Proceeds, Becomes, DiscoveryTypeOK, Goto, discovery, order, request,
         Active, ArchitectureOf, Contents, Initialized, Kinds, Over, Sources, Unseen,
         Launchers
    <3>2. /\ after' \in [Commands -> {"return", "plan", "confirm"}]
          /\ ahead' \in [Commands -> Seq(Sources \ {"manual"})]
      BY <2>1, <2>2 DEF Proceeds, Becomes, DiscoveryTypeOK, Goto, discovery, order, request,
         Active, ArchitectureOf, Contents, Initialized, Kinds, Over, Unseen
    <3>3. /\ during' \in [Commands -> SUBSET Architectures]
          /\ clock' \in Nat /\ began' \in [Commands -> Nat] /\ newest' \in 0 .. clock'
      BY <2>1, <2>2 DEF Proceeds, Becomes, DiscoveryTypeOK, Goto, discovery, order, request,
         Active, ArchitectureOf, Contents, Initialized, Kinds, Over, Sources, Unseen,
         Launchers, Architectures
    <3> QED
      BY <3>1, <3>2, <3>3
  <2>3. CASE Stays /\ Proceeds(c, "failed")
    <3>1. DiscoveryTypeOK'
      BY <2>1, <2>3 DEF Proceeds, Stays, DiscoveryTypeOK, Goto, discovery, order, request,
         Contents, Initialized, Kinds, Over, Sources, Unseen, Launchers
    <3>2. /\ after' \in [Commands -> {"return", "plan", "confirm"}]
          /\ ahead' \in [Commands -> Seq(Sources \ {"manual"})]
      BY <2>1, <2>3 DEF Proceeds, Stays, DiscoveryTypeOK, Goto, discovery, order, request,
         Contents, Initialized, Kinds, Over, Unseen
    <3>3. /\ during' \in [Commands -> SUBSET Architectures]
          /\ clock' \in Nat /\ began' \in [Commands -> Nat] /\ newest' \in 0 .. clock'
      BY <2>1, <2>3 DEF Proceeds, Stays, DiscoveryTypeOK, Goto, discovery, order, request,
         Contents, Initialized, Kinds, Over, Sources, Unseen, Launchers, Architectures
    <3> QED
      BY <3>1, <3>2, <3>3
  <2> QED
    BY <1>23, <2>2, <2>3 DEF MoveToTrash
<1>24. ASSUME NEW p \in Places, ChangeDisk(p) PROVE Types'
  <2>1. DiscoveryTypeOK'
    BY <1>24 DEF ChangeDisk, DiscoveryTypeOK, Becomes, Contents, discovery, order, request,
       Initialized, Kinds, Over, Sources, Unseen, Active, ArchitectureOf, Launchers
  <2>2. /\ after' \in [Commands -> {"return", "plan", "confirm"}]
        /\ ahead' \in [Commands -> Seq(Sources \ {"manual"})]
    BY <1>24 DEF ChangeDisk, DiscoveryTypeOK, Becomes, Contents, discovery, order, request,
       Initialized, Kinds, Over, Unseen, Active, ArchitectureOf
  <2>3. /\ during' \in [Commands -> SUBSET Architectures]
        /\ clock' \in Nat /\ began' \in [Commands -> Nat] /\ newest' \in 0 .. clock'
    BY <1>24 DEF ChangeDisk, DiscoveryTypeOK, Becomes, Contents, discovery, order, request,
       Initialized, Kinds, Over, Sources, Unseen, Active, ArchitectureOf, Launchers,
       Architectures
  <2> QED
    BY <2>1, <2>2, <2>3
<1>25. ASSUME Quit PROVE Types'
  <2>1. DiscoveryTypeOK'
    BY <1>25 DEF Quit, DiscoveryTypeOK, Active, Stays, discovery, order, request, Contents,
       Initialized, Kinds, Over, Sources, Unseen, Launchers
  <2>2. /\ after' \in [Commands -> {"return", "plan", "confirm"}]
        /\ ahead' \in [Commands -> Seq(Sources \ {"manual"})]
    BY <1>25 DEF Quit, DiscoveryTypeOK, Active, Stays, discovery, order, request, Contents,
       Initialized, Kinds, Over, Unseen
  <2>3. /\ during' \in [Commands -> SUBSET Architectures]
        /\ clock' \in Nat /\ began' \in [Commands -> Nat] /\ newest' \in 0 .. clock'
    BY <1>25 DEF Quit, DiscoveryTypeOK, Active, Stays, discovery, order, request, Contents,
       Initialized, Kinds, Over, Sources, Unseen, Launchers, Architectures
  <2> QED
    BY <2>1, <2>2, <2>3
<1>26. ASSUME UNCHANGED discoveryVars PROVE Types'
  <2>1. DiscoveryTypeOK'
    BY <1>26 DEF discoveryVars, DiscoveryTypeOK, discovery, order, request, world, Contents,
       Initialized, Kinds, Over, Sources, Unseen, Launchers
  <2>2. /\ after' \in [Commands -> {"return", "plan", "confirm"}]
        /\ ahead' \in [Commands -> Seq(Sources \ {"manual"})]
    BY <1>26 DEF discoveryVars, DiscoveryTypeOK, discovery, order, request, world, Contents,
       Initialized, Kinds, Over, Unseen
  <2>3. /\ during' \in [Commands -> SUBSET Architectures]
        /\ clock' \in Nat /\ began' \in [Commands -> Nat] /\ newest' \in 0 .. clock'
    BY <1>26 DEF discoveryVars, DiscoveryTypeOK, discovery, order, request, world, Contents,
       Initialized, Kinds, Over, Sources, Unseen, Launchers, Architectures
  <2> QED
    BY <2>1, <2>2, <2>3
<1> QED
  BY <1>1, <1>2, <1>3, <1>4, <1>5, <1>6, <1>7, <1>8, <1>9, <1>10, <1>11, <1>12, <1>13,
     <1>14, <1>15, <1>16, <1>17, <1>18, <1>19, <1>20, <1>21, <1>22, <1>23, <1>24, <1>25,
     <1>26 DEF DiscoveryNext, Begin, Continue

\* A call does what its command is for.
LEMMA PurposeStep == ShapeInv /\ [DiscoveryNext]_discoveryVars => \A d \in Commands : Purpose(d)'
<1> SUFFICES ASSUME ShapeInv, [DiscoveryNext]_discoveryVars
             PROVE  \A d \in Commands : Purpose(d)'
  OBVIOUS
<1> USE DiscoveryAssumption
    DEF ShapeInv, Types, DiscoveryTypeOK, Purpose, Discovering
<1>1. ASSUME NEW c \in Commands, List(c) PROVE \A d \in Commands : Purpose(d)'
  BY <1>1 DEF List, Discover, Starts, Goto, Unseen, ArchitectureOf, Initialized
<1>2. ASSUME NEW c \in Commands, Plan(c) PROVE \A d \in Commands : Purpose(d)'
  BY <1>2 DEF Plan, Discover, Starts, Goto, Unseen, ArchitectureOf, Initialized
<1>3. ASSUME NEW c \in Commands, Search(c) PROVE \A d \in Commands : Purpose(d)'
  <2>1. Starts(c, "search") /\ UNCHANGED staging
    BY <1>3 DEF Search
  <2>2. CASE Goto(c, "returned") /\ known[place[c]][1] # "unlisted" /\ UNCHANGED <<discovery, order>>
      BY <2>1, <2>2 DEF Goto, Starts, discovery, order, ArchitectureOf, Initialized
  <2>3. CASE Discover(c, "plan")
      BY <2>1, <2>3 DEF Starts, Discover, ArchitectureOf, Goto, Unseen, Initialized
  <2> QED
    BY <1>3, <2>2, <2>3 DEF Search
<1>4. ASSUME NEW c \in Commands, Register(c) PROVE \A d \in Commands : Purpose(d)'
  BY <1>4 DEF Register, Goto, Starts, discovery, order, ArchitectureOf, Initialized
<1>5. ASSUME NEW c \in Commands, Forget(c) PROVE \A d \in Commands : Purpose(d)'
  BY <1>5 DEF Forget, Goto, Starts, discovery, order, ArchitectureOf, Initialized
<1>6. ASSUME NEW c \in Commands, Trash(c) PROVE \A d \in Commands : Purpose(d)'
  BY <1>6 DEF Trash, Discover, Starts, Goto, Unseen, ArchitectureOf, Initialized
<1>7. ASSUME NEW c \in Commands, Create(c) PROVE \A d \in Commands : Purpose(d)'
  <2>1. Starts(c, "create") /\ UNCHANGED <<discovery, order>>
    BY <1>7 DEF Create
  <2>2. CASE Goto(c, "booting") /\ staging' = [staging EXCEPT ![c] = "begun"]
      BY <2>1, <2>2 DEF Goto, Starts, discovery, order, ArchitectureOf, Initialized
  <2>3. CASE Goto(c, "failed") /\ UNCHANGED staging
      BY <2>1, <2>3 DEF Goto, Starts, discovery, order, ArchitectureOf, Initialized
  <2> QED
    BY <1>7, <2>2, <2>3 DEF Create
<1>8. ASSUME NEW c \in Commands, AskProvider(c) PROVE \A d \in Commands : Purpose(d)'
  BY <1>8 DEF AskProvider, Lists, Merge, Stays, order, request, Initialized, Priority,
     Launchers
<1>9. ASSUME NEW c \in Commands, FailProvider(c) PROVE \A d \in Commands : Purpose(d)'
  BY <1>9 DEF FailProvider, Stays, order, request
<1>10. ASSUME NEW c \in Commands, ReadRows(c) PROVE \A d \in Commands : Purpose(d)'
  BY <1>10 DEF ReadRows, Goto, Merge, Stays, order, request, Priority, Launchers
<1>11. ASSUME NEW c \in Commands, FailDiscovery(c) PROVE \A d \in Commands : Purpose(d)'
  BY <1>11 DEF FailDiscovery, Goto, Stays, discovery, order, request
<1>12. ASSUME NEW c \in Commands, Publish(c) PROVE \A d \in Commands : Purpose(d)'
  BY <1>12 DEF Publish, Goto, Stays, Unseen, discovery, request
<1>13. ASSUME NEW c \in Commands, NEW p \in Places, Inspect(c, p) PROVE \A d \in Commands : Purpose(d)'
  BY <1>13 DEF Inspect, ArchitectureOf, Stays, Unseen, order, request, Initialized
<1>14. ASSUME NEW c \in Commands, Boot(c) PROVE \A d \in Commands : Purpose(d)'
  <2>1. stage[c] = "booting" /\ Stays /\ UNCHANGED <<rows, unread>>
    BY <1>14 DEF Boot, GiveUpCreation
  <2>2. CASE GiveUpCreation(c)
      BY <2>1, <2>2 DEF GiveUpCreation, Stays, Proceeds, Goto, discovery, order, request
  <2>3. CASE Proceeds(c, "booted") /\ \E a \in Initialized : staging' = [staging EXCEPT ![c] = a]
      BY <2>1, <2>3 DEF Proceeds, Stays, Goto, discovery, order, request, Initialized
  <2> QED
    BY <1>14, <2>2, <2>3 DEF Boot
<1>15. ASSUME NEW c \in Commands, LookAtTarget(c) PROVE \A d \in Commands : Purpose(d)'
  BY <1>15 DEF LookAtTarget, Proceeds, Stays, Goto, discovery, order, request
<1>16. ASSUME NEW c \in Commands, ClearTarget(c) PROVE \A d \in Commands : Purpose(d)'
  <2>1. stage[c] = "clearing"
    BY <1>16 DEF ClearTarget
  <2>2. CASE Becomes(place[c], "missing") /\ Proceeds(c, "renaming") /\ UNCHANGED <<rows, staging, unread>>
             /\ disk[place[c]] = "empty"
      BY <2>1, <2>2 DEF Proceeds, Becomes, Goto, discovery, order, request, Active,
         ArchitectureOf, Over, Initialized
  <2>3. CASE GiveUpCreation(c)
      BY <2>1, <2>3 DEF GiveUpCreation, Proceeds, Stays, Goto, discovery, order, request
  <2> QED
    BY <1>16, <2>2, <2>3 DEF ClearTarget
<1>17. ASSUME NEW c \in Commands, RenameStaging(c) PROVE \A d \in Commands : Purpose(d)'
  <2>1. stage[c] = "renaming"
    BY <1>17 DEF RenameStaging
  <2>2. CASE Becomes(place[c], staging[c]) /\ staging' = [staging EXCEPT ![c] = "missing"]
             /\ Proceeds(c, "registering") /\ UNCHANGED <<rows, unread>>
             /\ disk[place[c]] \in {"missing", "empty"}
      BY <2>1, <2>2 DEF Proceeds, Becomes, Goto, discovery, order, request, Active,
         ArchitectureOf, Over, Initialized
  <2>3. CASE GiveUpCreation(c) /\ disk[place[c]] \notin {"missing", "empty"}
      BY <2>1, <2>3 DEF GiveUpCreation, Proceeds, Stays, Goto, discovery, order, request
  <2> QED
    BY <1>17, <2>2, <2>3 DEF RenameStaging
<1>18. ASSUME NEW c \in Commands, InsertRow(c) PROVE \A d \in Commands : Purpose(d)'
  BY <1>18 DEF InsertRow, Discover, Initialized, Stays, request, Goto, Unseen
<1>19. ASSUME NEW c \in Commands, InsertFails(c) PROVE \A d \in Commands : Purpose(d)'
  BY <1>19 DEF InsertFails, Proceeds, Stays, Goto, discovery, order, request
<1>20. ASSUME NEW c \in Commands, DeleteRow(c) PROVE \A d \in Commands : Purpose(d)'
  BY <1>20 DEF DeleteRow, Discover, Stays, request, Goto, Unseen
<1>21. ASSUME NEW c \in Commands, DeleteFails(c) PROVE \A d \in Commands : Purpose(d)'
  <2>1. stage[c] = "forgetting" /\ Stays /\ UNCHANGED <<rows, known, request, staging, alive, changes, unread>>
    BY <1>21 DEF DeleteFails
  <2>2. CASE Discover(c, "return") /\ command[c] = "trash"
      BY <2>1, <2>2 DEF Stays, Discover, request, Goto, Unseen
  <2>3. CASE Goto(c, "failed") /\ command[c] # "trash" /\ UNCHANGED <<discovery, order>>
      BY <2>1, <2>3 DEF Goto, Stays, discovery, order, request
  <2> QED
    BY <1>21, <2>2, <2>3 DEF DeleteFails
<1>22. ASSUME NEW c \in Commands, Confirm(c) PROVE \A d \in Commands : Purpose(d)'
  <2>1. stage[c] = "confirming" /\ Stays /\ UNCHANGED <<rows, staging, unread>>
    BY <1>22 DEF Confirm
  <2>2. CASE Proceeds(c, "trashing") /\ disk[place[c]] \in Initialized
      BY <2>1, <2>2 DEF Proceeds, Stays, Goto, discovery, order, request
  <2>3. CASE Proceeds(c, "failed")
      BY <2>1, <2>3 DEF Proceeds, Stays, Goto, discovery, order, request
  <2> QED
    BY <1>22, <2>2, <2>3 DEF Confirm
<1>23. ASSUME NEW c \in Commands, MoveToTrash(c) PROVE \A d \in Commands : Purpose(d)'
  <2>1. stage[c] = "trashing" /\ UNCHANGED <<rows, staging, unread>>
    BY <1>23 DEF MoveToTrash
  <2>2. CASE Becomes(place[c], "missing") /\ Proceeds(c, "forgetting")
      BY <2>1, <2>2 DEF Proceeds, Becomes, Goto, discovery, order, request, Active,
         ArchitectureOf, Over, Initialized
  <2>3. CASE Stays /\ Proceeds(c, "failed")
      BY <2>1, <2>3 DEF Proceeds, Stays, Goto, discovery, order, request
  <2> QED
    BY <1>23, <2>2, <2>3 DEF MoveToTrash
<1>24. ASSUME NEW p \in Places, ChangeDisk(p) PROVE \A d \in Commands : Purpose(d)'
  BY <1>24 DEF ChangeDisk, Becomes, Contents, discovery, order, request, Active, ArchitectureOf,
     Initialized, Over
<1>25. ASSUME Quit PROVE \A d \in Commands : Purpose(d)'
  BY <1>25 DEF Quit, Active, Stays, discovery, order, request, Over
<1>26. ASSUME UNCHANGED discoveryVars PROVE \A d \in Commands : Purpose(d)'
  BY <1>26 DEF discoveryVars, discovery, order, request, world
<1> QED
  BY <1>1, <1>2, <1>3, <1>4, <1>5, <1>6, <1>7, <1>8, <1>9, <1>10, <1>11, <1>12, <1>13,
     <1>14, <1>15, <1>16, <1>17, <1>18, <1>19, <1>20, <1>21, <1>22, <1>23, <1>24, <1>25,
     <1>26 DEF DiscoveryNext, Begin, Continue

\* A discovery asks the providers one after the other, and inspects what they named.
LEMMA ProgressStep == ShapeInv /\ [DiscoveryNext]_discoveryVars => \A d \in Commands : Progress(d)'
<1> SUFFICES ASSUME ShapeInv, [DiscoveryNext]_discoveryVars
             PROVE  \A d \in Commands : Progress(d)'
  OBVIOUS
<1> USE DiscoveryAssumption
    DEF ShapeInv, Types, DiscoveryTypeOK, Progress, Discovering
<1>1. ASSUME NEW c \in Commands, List(c) PROVE \A d \in Commands : Progress(d)'
  BY <1>1 DEF List, Discover, Starts, Goto, Unseen, ArchitectureOf, Initialized
<1>2. ASSUME NEW c \in Commands, Plan(c) PROVE \A d \in Commands : Progress(d)'
  BY <1>2 DEF Plan, Discover, Starts, Goto, Unseen, ArchitectureOf, Initialized
<1>3. ASSUME NEW c \in Commands, Search(c) PROVE \A d \in Commands : Progress(d)'
  <2>1. Starts(c, "search") /\ UNCHANGED staging
    BY <1>3 DEF Search
  <2>2. CASE Goto(c, "returned") /\ known[place[c]][1] # "unlisted" /\ UNCHANGED <<discovery, order>>
      BY <2>1, <2>2 DEF Goto, Starts, discovery, order, ArchitectureOf, Initialized
  <2>3. CASE Discover(c, "plan")
      BY <2>1, <2>3 DEF Starts, Discover, ArchitectureOf, Goto, Unseen, Initialized
  <2> QED
    BY <1>3, <2>2, <2>3 DEF Search
<1>4. ASSUME NEW c \in Commands, Register(c) PROVE \A d \in Commands : Progress(d)'
  BY <1>4 DEF Register, Goto, Starts, discovery, order, ArchitectureOf, Initialized
<1>5. ASSUME NEW c \in Commands, Forget(c) PROVE \A d \in Commands : Progress(d)'
  BY <1>5 DEF Forget, Goto, Starts, discovery, order, ArchitectureOf, Initialized
<1>6. ASSUME NEW c \in Commands, Trash(c) PROVE \A d \in Commands : Progress(d)'
  BY <1>6 DEF Trash, Discover, Starts, Goto, Unseen, ArchitectureOf, Initialized
<1>7. ASSUME NEW c \in Commands, Create(c) PROVE \A d \in Commands : Progress(d)'
  <2>1. Starts(c, "create") /\ UNCHANGED <<discovery, order>>
    BY <1>7 DEF Create
  <2>2. CASE Goto(c, "booting") /\ staging' = [staging EXCEPT ![c] = "begun"]
      BY <2>1, <2>2 DEF Goto, Starts, discovery, order, ArchitectureOf, Initialized
  <2>3. CASE Goto(c, "failed") /\ UNCHANGED staging
      BY <2>1, <2>3 DEF Goto, Starts, discovery, order, ArchitectureOf, Initialized
  <2> QED
    BY <1>7, <2>2, <2>3 DEF Create
<1>8. ASSUME NEW c \in Commands, AskProvider(c) PROVE \A d \in Commands : Progress(d)'
  <2>1. /\ Len(Tail(ahead[c])) = Len(ahead[c]) - 1 /\ Len(ahead[c]) \in Nat \ {0}
        /\ \A i \in 1 .. Len(ahead[c]) - 1 : Tail(ahead[c])[i] = ahead[c][i + 1]
    <3>1. ahead[c] \in Seq(Sources \ {"manual"}) /\ ahead[c] # <<>>
      BY <1>8 DEF AskProvider
    <3> QED
      BY <3>1
  <2>2. /\ ahead' = [ahead EXCEPT ![c] = Tail(ahead[c])] /\ stage[c] = "scanning"
        /\ UNCHANGED <<stage, saw, began, clock>>
        /\ \A d \in Commands, p \in Places : stage[d] = "inspecting" => found'[d][p] = found[d][p]
    BY <1>8 DEF AskProvider, Merge, order
  <2>3. ASSUME NEW d \in Commands, d # c PROVE Progress(d)'
    BY <2>2, <2>3
  <2>4. Progress(c)'
    <3>1. ahead'[c] = Tail(ahead[c])
      BY <2>2
    <3>2. Len(Providers) \in Nat
      BY DiscoveryAssumption
    <3>3. ASSUME NEW i \in 1 .. Len(ahead[c]) - 1
          PROVE  ahead'[c][i] = Providers[Len(Providers) - (Len(ahead[c]) - 1) + i]
      <4>1. i + 1 \in 1 .. Len(ahead[c]) /\ ahead'[c][i] = ahead[c][i + 1]
        BY <2>1, <3>1
      <4>2. ahead[c][i + 1] = Providers[Len(Providers) - Len(ahead[c]) + (i + 1)]
        BY <2>2, <4>1
      <4>3. Len(Providers) - Len(ahead[c]) + (i + 1) = Len(Providers) - (Len(ahead[c]) - 1) + i
        BY <2>1, <3>2
      <4> QED
        BY <4>1, <4>2, <4>3
    <3>4. Len(ahead'[c]) = Len(ahead[c]) - 1 /\ Len(ahead'[c]) <= Len(Providers)
      BY <2>1, <2>2, <3>1, <3>2
    <3> QED
      BY ZenonT(60), <2>2, <3>3, <3>4
  <2> QED
    BY ZenonT(60), <2>3, <2>4
<1>9. ASSUME NEW c \in Commands, FailProvider(c) PROVE \A d \in Commands : Progress(d)'
  <2>1. /\ Len(Tail(ahead[c])) = Len(ahead[c]) - 1 /\ Len(ahead[c]) \in Nat \ {0}
        /\ \A i \in 1 .. Len(ahead[c]) - 1 : Tail(ahead[c])[i] = ahead[c][i + 1]
    <3>1. ahead[c] \in Seq(Sources \ {"manual"}) /\ ahead[c] # <<>>
      BY <1>9 DEF FailProvider
    <3> QED
      BY <3>1
  <2>2. /\ ahead' = [ahead EXCEPT ![c] = Tail(ahead[c])] /\ stage[c] = "scanning"
        /\ UNCHANGED <<stage, saw, began, clock>>
        /\ \A d \in Commands, p \in Places : stage[d] = "inspecting" => found'[d][p] = found[d][p]
    BY <1>9 DEF FailProvider, Merge, order
  <2>3. ASSUME NEW d \in Commands, d # c PROVE Progress(d)'
    BY <2>2, <2>3
  <2>4. Progress(c)'
    <3>1. ahead'[c] = Tail(ahead[c])
      BY <2>2
    <3>2. Len(Providers) \in Nat
      BY DiscoveryAssumption
    <3>3. ASSUME NEW i \in 1 .. Len(ahead[c]) - 1
          PROVE  ahead'[c][i] = Providers[Len(Providers) - (Len(ahead[c]) - 1) + i]
      <4>1. i + 1 \in 1 .. Len(ahead[c]) /\ ahead'[c][i] = ahead[c][i + 1]
        BY <2>1, <3>1
      <4>2. ahead[c][i + 1] = Providers[Len(Providers) - Len(ahead[c]) + (i + 1)]
        BY <2>2, <4>1
      <4>3. Len(Providers) - Len(ahead[c]) + (i + 1) = Len(Providers) - (Len(ahead[c]) - 1) + i
        BY <2>1, <3>2
      <4> QED
        BY <4>1, <4>2, <4>3
    <3>4. Len(ahead'[c]) = Len(ahead[c]) - 1 /\ Len(ahead'[c]) <= Len(Providers)
      BY <2>1, <2>2, <3>1, <3>2
    <3> QED
      BY ZenonT(60), <2>2, <3>3, <3>4
  <2> QED
    BY ZenonT(60), <2>3, <2>4
<1>10. ASSUME NEW c \in Commands, ReadRows(c) PROVE \A d \in Commands : Progress(d)'
  BY <1>10 DEF ReadRows, Goto, Merge, Stays, order, request, Priority, Launchers
<1>11. ASSUME NEW c \in Commands, FailDiscovery(c) PROVE \A d \in Commands : Progress(d)'
  BY <1>11 DEF FailDiscovery, Goto, Stays, discovery, order, request
<1>12. ASSUME NEW c \in Commands, Publish(c) PROVE \A d \in Commands : Progress(d)'
  BY SMTT(30), <1>12 DEF Publish, Goto, Stays, Unseen, discovery, request
<1>13. ASSUME NEW c \in Commands, NEW p \in Places, Inspect(c, p) PROVE \A d \in Commands : Progress(d)'
  BY <1>13 DEF Inspect, ArchitectureOf, Stays, Unseen, order, request, Initialized
<1>14. ASSUME NEW c \in Commands, Boot(c) PROVE \A d \in Commands : Progress(d)'
  <2>1. stage[c] = "booting" /\ Stays /\ UNCHANGED <<rows, unread>>
    BY <1>14 DEF Boot, GiveUpCreation
  <2>2. CASE GiveUpCreation(c)
      BY <2>1, <2>2 DEF GiveUpCreation, Stays, Proceeds, Goto, discovery, order, request
  <2>3. CASE Proceeds(c, "booted") /\ \E a \in Initialized : staging' = [staging EXCEPT ![c] = a]
      BY <2>1, <2>3 DEF Proceeds, Stays, Goto, discovery, order, request
  <2> QED
    BY <1>14, <2>2, <2>3 DEF Boot
<1>15. ASSUME NEW c \in Commands, LookAtTarget(c) PROVE \A d \in Commands : Progress(d)'
  BY <1>15 DEF LookAtTarget, Proceeds, Stays, Goto, discovery, order, request
<1>16. ASSUME NEW c \in Commands, ClearTarget(c) PROVE \A d \in Commands : Progress(d)'
  <2>1. stage[c] = "clearing"
    BY <1>16 DEF ClearTarget
  <2>2. CASE Becomes(place[c], "missing") /\ Proceeds(c, "renaming") /\ UNCHANGED <<rows, staging, unread>>
             /\ disk[place[c]] = "empty"
      BY <2>1, <2>2 DEF Proceeds, Becomes, Goto, discovery, order, request, Active,
         ArchitectureOf, Over, Initialized
  <2>3. CASE GiveUpCreation(c)
      BY <2>1, <2>3 DEF GiveUpCreation, Proceeds, Stays, Goto, discovery, order, request
  <2> QED
    BY <1>16, <2>2, <2>3 DEF ClearTarget
<1>17. ASSUME NEW c \in Commands, RenameStaging(c) PROVE \A d \in Commands : Progress(d)'
  <2>1. stage[c] = "renaming"
    BY <1>17 DEF RenameStaging
  <2>2. CASE Becomes(place[c], staging[c]) /\ staging' = [staging EXCEPT ![c] = "missing"]
             /\ Proceeds(c, "registering") /\ UNCHANGED <<rows, unread>>
             /\ disk[place[c]] \in {"missing", "empty"}
      BY <2>1, <2>2 DEF Proceeds, Becomes, Goto, discovery, order, request, Active,
         ArchitectureOf, Over, Initialized
  <2>3. CASE GiveUpCreation(c) /\ disk[place[c]] \notin {"missing", "empty"}
      BY <2>1, <2>3 DEF GiveUpCreation, Proceeds, Stays, Goto, discovery, order, request
  <2> QED
    BY <1>17, <2>2, <2>3 DEF RenameStaging
<1>18. ASSUME NEW c \in Commands, InsertRow(c) PROVE \A d \in Commands : Progress(d)'
  BY <1>18 DEF InsertRow, Discover, Initialized, Stays, request, Goto, Unseen
<1>19. ASSUME NEW c \in Commands, InsertFails(c) PROVE \A d \in Commands : Progress(d)'
  BY <1>19 DEF InsertFails, Proceeds, Stays, Goto, discovery, order, request
<1>20. ASSUME NEW c \in Commands, DeleteRow(c) PROVE \A d \in Commands : Progress(d)'
  BY <1>20 DEF DeleteRow, Discover, Stays, request, Goto, Unseen
<1>21. ASSUME NEW c \in Commands, DeleteFails(c) PROVE \A d \in Commands : Progress(d)'
  <2>1. stage[c] = "forgetting" /\ Stays /\ UNCHANGED <<rows, known, request, staging, alive, changes, unread>>
    BY <1>21 DEF DeleteFails
  <2>2. CASE Discover(c, "return") /\ command[c] = "trash"
      BY <2>1, <2>2 DEF Stays, Discover, request, Goto, Unseen
  <2>3. CASE Goto(c, "failed") /\ command[c] # "trash" /\ UNCHANGED <<discovery, order>>
      BY <2>1, <2>3 DEF Goto, Stays, discovery, order, request
  <2> QED
    BY <1>21, <2>2, <2>3 DEF DeleteFails
<1>22. ASSUME NEW c \in Commands, Confirm(c) PROVE \A d \in Commands : Progress(d)'
  <2>1. stage[c] = "confirming" /\ Stays /\ UNCHANGED <<rows, staging, unread>>
    BY <1>22 DEF Confirm
  <2>2. CASE Proceeds(c, "trashing") /\ disk[place[c]] \in Initialized
      BY <2>1, <2>2 DEF Proceeds, Stays, Goto, discovery, order, request
  <2>3. CASE Proceeds(c, "failed")
      BY <2>1, <2>3 DEF Proceeds, Stays, Goto, discovery, order, request
  <2> QED
    BY <1>22, <2>2, <2>3 DEF Confirm
<1>23. ASSUME NEW c \in Commands, MoveToTrash(c) PROVE \A d \in Commands : Progress(d)'
  <2>1. stage[c] = "trashing" /\ UNCHANGED <<rows, staging, unread>>
    BY <1>23 DEF MoveToTrash
  <2>2. CASE Becomes(place[c], "missing") /\ Proceeds(c, "forgetting")
      BY <2>1, <2>2 DEF Proceeds, Becomes, Goto, discovery, order, request, Active,
         ArchitectureOf, Over, Initialized
  <2>3. CASE Stays /\ Proceeds(c, "failed")
      BY <2>1, <2>3 DEF Proceeds, Stays, Goto, discovery, order, request
  <2> QED
    BY <1>23, <2>2, <2>3 DEF MoveToTrash
<1>24. ASSUME NEW p \in Places, ChangeDisk(p) PROVE \A d \in Commands : Progress(d)'
  BY <1>24 DEF ChangeDisk, Becomes, Contents, discovery, order, request, Active, ArchitectureOf,
     Initialized, Over
<1>25. ASSUME Quit PROVE \A d \in Commands : Progress(d)'
  BY <1>25 DEF Quit, Active, Stays, discovery, order, request, Over
<1>26. ASSUME UNCHANGED discoveryVars PROVE \A d \in Commands : Progress(d)'
  BY <1>26 DEF discoveryVars, discovery, order, request, world
<1> QED
  BY <1>1, <1>2, <1>3, <1>4, <1>5, <1>6, <1>7, <1>8, <1>9, <1>10, <1>11, <1>12, <1>13,
     <1>14, <1>15, <1>16, <1>17, <1>18, <1>19, <1>20, <1>21, <1>22, <1>23, <1>24, <1>25,
     <1>26 DEF DiscoveryNext, Begin, Continue

\* Nothing is asked and nothing is listed at first.
LEMMA InitShape == DiscoveryInit => ShapeInv
<1> SUFFICES ASSUME DiscoveryInit
             PROVE  ShapeInv
  OBVIOUS
<1> USE DiscoveryAssumption DEF DiscoveryInit
<1>1. \A c \in Commands : Purpose(c) /\ Progress(c)
  BY DEF Purpose, Progress, Discovering
<1>2. DiscoveryTypeOK
  <2>1. disk \in [Places -> Contents] /\ staging \in [Commands -> Initialized \cup {"missing", "begun"}]
    BY DEF Contents, Initialized
  <2>2. /\ known \in [Places -> (Sources \cup {"unlisted"}) \X (Initialized \cup {"unknown", Unseen})]
        /\ \A p \in Places : known[p][1] = "unlisted" <=> known[p][2] = Unseen
    OBVIOUS
  <2>3. /\ command \in [Commands -> Kinds] /\ place \in [Commands -> Places]
        /\ stage \in [Commands -> Over \cup {"scanning", "inspecting", "confirming", "trashing",
                       "forgetting", "registering", "booting", "booted", "clearing", "renaming"}]
    BY DEF Kinds, Over
  <2>4. /\ found \in [Commands -> [Places -> Sources \cup {"unlisted"}]]
        /\ saw \in [Commands -> [Places -> Initialized \cup {"unknown", Unseen}]]
    OBVIOUS
  <2>5. /\ rows \subseteq Places
        /\ alive \in BOOLEAN /\ overtaken \in BOOLEAN /\ unread \in BOOLEAN
    OBVIOUS
  <2>6. changes \in 0 .. MaxChanges
    OBVIOUS
  <2> HIDE DEF DiscoveryInit
  <2> QED
    BY <2>1, <2>2, <2>3, <2>4, <2>5, <2>6 DEF DiscoveryTypeOK
<1>3. <<>> \in Seq(Sources \ {"manual"})
  OBVIOUS
<1>4. Types
  BY <1>2, <1>3 DEF Types
<1> QED
  BY <1>1, <1>4 DEF ShapeInv

LEMMA ShapeStep == ShapeInv /\ [DiscoveryNext]_discoveryVars => ShapeInv'
BY TypesStep, PurposeStep, ProgressStep DEF ShapeInv

\* Every variable of the list of prefixes keeps its type.
THEOREM DiscoveryTypeCorrect == DiscoverySpec => []DiscoveryTypeOK
<1>1. ShapeInv => DiscoveryTypeOK
  BY DEF ShapeInv, Types
<1> QED
  BY InitShape, ShapeStep, <1>1, PTL DEF DiscoverySpec

-----------------------------------------------------------------------------
(* What is at a place.                                                     *)

Taken ==
  \A p \in Places : disk[p] \notin {"missing", "empty"} /\ disk'[p] # disk[p] =>
    \/ changes' # changes
    \/ \E c \in Commands : command[c] = "trash" /\ place[c] = p /\ stage[c] = "trashing"

\* Only a removal and others take away what is there.
LEMMA TakenStep == ShapeInv /\ [DiscoveryNext]_discoveryVars => Taken
<1> SUFFICES ASSUME ShapeInv, [DiscoveryNext]_discoveryVars
             PROVE  Taken
  OBVIOUS
<1> USE DiscoveryAssumption
    DEF ShapeInv, Types, DiscoveryTypeOK, Purpose, Taken
<1>1. ASSUME NEW c \in Commands, List(c) PROVE Taken
  BY <1>1 DEF List, Discover, Starts, Goto, Unseen, ArchitectureOf, Initialized
<1>2. ASSUME NEW c \in Commands, Plan(c) PROVE Taken
  BY <1>2 DEF Plan, Discover, Starts, Goto, Unseen, ArchitectureOf, Initialized
<1>3. ASSUME NEW c \in Commands, Search(c) PROVE Taken
  <2>1. Starts(c, "search") /\ UNCHANGED staging
    BY <1>3 DEF Search
  <2>2. CASE Goto(c, "returned") /\ known[place[c]][1] # "unlisted" /\ UNCHANGED <<discovery, order>>
      BY <2>1, <2>2 DEF Goto, Starts, discovery, order, ArchitectureOf, Initialized
  <2>3. CASE Discover(c, "plan")
      BY <2>1, <2>3 DEF Starts, Discover, ArchitectureOf, Goto, Unseen, Initialized
  <2> QED
    BY <1>3, <2>2, <2>3 DEF Search
<1>4. ASSUME NEW c \in Commands, Register(c) PROVE Taken
  BY <1>4 DEF Register, Goto, Starts, discovery, order, ArchitectureOf, Initialized
<1>5. ASSUME NEW c \in Commands, Forget(c) PROVE Taken
  BY <1>5 DEF Forget, Goto, Starts, discovery, order, ArchitectureOf, Initialized
<1>6. ASSUME NEW c \in Commands, Trash(c) PROVE Taken
  BY <1>6 DEF Trash, Discover, Starts, Goto, Unseen, ArchitectureOf, Initialized
<1>7. ASSUME NEW c \in Commands, Create(c) PROVE Taken
  <2>1. Starts(c, "create") /\ UNCHANGED <<discovery, order>>
    BY <1>7 DEF Create
  <2>2. CASE Goto(c, "booting") /\ staging' = [staging EXCEPT ![c] = "begun"]
      BY <2>1, <2>2 DEF Goto, Starts, discovery, order, ArchitectureOf, Initialized
  <2>3. CASE Goto(c, "failed") /\ UNCHANGED staging
      BY <2>1, <2>3 DEF Goto, Starts, discovery, order, ArchitectureOf, Initialized
  <2> QED
    BY <1>7, <2>2, <2>3 DEF Create
<1>8. ASSUME NEW c \in Commands, AskProvider(c) PROVE Taken
  BY <1>8 DEF AskProvider, Lists, Merge, Stays, order, request, Initialized, Priority,
     Launchers
<1>9. ASSUME NEW c \in Commands, FailProvider(c) PROVE Taken
  BY <1>9 DEF FailProvider, Stays, order, request
<1>10. ASSUME NEW c \in Commands, ReadRows(c) PROVE Taken
  BY <1>10 DEF ReadRows, Goto, Merge, Stays, order, request, Priority, Launchers
<1>11. ASSUME NEW c \in Commands, FailDiscovery(c) PROVE Taken
  BY <1>11 DEF FailDiscovery, Goto, Stays, discovery, order, request
<1>12. ASSUME NEW c \in Commands, Publish(c) PROVE Taken
  BY <1>12 DEF Publish, Goto, Stays, Unseen, discovery, request
<1>13. ASSUME NEW c \in Commands, NEW p \in Places, Inspect(c, p) PROVE Taken
  BY <1>13 DEF Inspect, ArchitectureOf, Stays, Unseen, order, request, Initialized
<1>14. ASSUME NEW c \in Commands, Boot(c) PROVE Taken
  <2>1. stage[c] = "booting" /\ Stays /\ UNCHANGED <<rows, unread>>
    BY <1>14 DEF Boot, GiveUpCreation
  <2>2. CASE GiveUpCreation(c)
      BY <2>1, <2>2 DEF GiveUpCreation, Stays, Proceeds, Goto, discovery, order, request
  <2>3. CASE Proceeds(c, "booted") /\ \E a \in Initialized : staging' = [staging EXCEPT ![c] = a]
      BY <2>1, <2>3 DEF Proceeds, Stays, Goto, discovery, order, request
  <2> QED
    BY <1>14, <2>2, <2>3 DEF Boot
<1>15. ASSUME NEW c \in Commands, LookAtTarget(c) PROVE Taken
  BY <1>15 DEF LookAtTarget, Proceeds, Stays, Goto, discovery, order, request
<1>16. ASSUME NEW c \in Commands, ClearTarget(c) PROVE Taken
  <2>1. stage[c] = "clearing"
    BY <1>16 DEF ClearTarget
  <2>2. CASE Becomes(place[c], "missing") /\ Proceeds(c, "renaming") /\ UNCHANGED <<rows, staging, unread>>
             /\ disk[place[c]] = "empty"
      BY <2>1, <2>2 DEF Proceeds, Becomes, Goto, discovery, order, request, Active,
         ArchitectureOf, Over, Initialized
  <2>3. CASE GiveUpCreation(c)
      BY <2>1, <2>3 DEF GiveUpCreation, Proceeds, Stays, Goto, discovery, order, request
  <2> QED
    BY <1>16, <2>2, <2>3 DEF ClearTarget
<1>17. ASSUME NEW c \in Commands, RenameStaging(c) PROVE Taken
  <2>1. stage[c] = "renaming"
    BY <1>17 DEF RenameStaging
  <2>2. CASE Becomes(place[c], staging[c]) /\ staging' = [staging EXCEPT ![c] = "missing"]
             /\ Proceeds(c, "registering") /\ UNCHANGED <<rows, unread>>
             /\ disk[place[c]] \in {"missing", "empty"}
      BY <2>1, <2>2 DEF Proceeds, Becomes, Goto, discovery, order, request, Active,
         ArchitectureOf, Over, Initialized
  <2>3. CASE GiveUpCreation(c) /\ disk[place[c]] \notin {"missing", "empty"}
      BY <2>1, <2>3 DEF GiveUpCreation, Proceeds, Stays, Goto, discovery, order, request
  <2> QED
    BY <1>17, <2>2, <2>3 DEF RenameStaging
<1>18. ASSUME NEW c \in Commands, InsertRow(c) PROVE Taken
  BY <1>18 DEF InsertRow, Discover, Initialized, Stays, request, Goto, Unseen
<1>19. ASSUME NEW c \in Commands, InsertFails(c) PROVE Taken
  BY <1>19 DEF InsertFails, Proceeds, Stays, Goto, discovery, order, request
<1>20. ASSUME NEW c \in Commands, DeleteRow(c) PROVE Taken
  BY <1>20 DEF DeleteRow, Discover, Stays, request, Goto, Unseen
<1>21. ASSUME NEW c \in Commands, DeleteFails(c) PROVE Taken
  <2>1. stage[c] = "forgetting" /\ Stays /\ UNCHANGED <<rows, known, request, staging, alive, changes, unread>>
    BY <1>21 DEF DeleteFails
  <2>2. CASE Discover(c, "return") /\ command[c] = "trash"
      BY <2>1, <2>2 DEF Stays, Discover, request, Goto, Unseen
  <2>3. CASE Goto(c, "failed") /\ command[c] # "trash" /\ UNCHANGED <<discovery, order>>
      BY <2>1, <2>3 DEF Goto, Stays, discovery, order, request
  <2> QED
    BY <1>21, <2>2, <2>3 DEF DeleteFails
<1>22. ASSUME NEW c \in Commands, Confirm(c) PROVE Taken
  <2>1. stage[c] = "confirming" /\ Stays /\ UNCHANGED <<rows, staging, unread>>
    BY <1>22 DEF Confirm
  <2>2. CASE Proceeds(c, "trashing") /\ disk[place[c]] \in Initialized
      BY <2>1, <2>2 DEF Proceeds, Stays, Goto, discovery, order, request
  <2>3. CASE Proceeds(c, "failed")
      BY <2>1, <2>3 DEF Proceeds, Stays, Goto, discovery, order, request
  <2> QED
    BY <1>22, <2>2, <2>3 DEF Confirm
<1>23. ASSUME NEW c \in Commands, MoveToTrash(c) PROVE Taken
  <2>1. stage[c] = "trashing" /\ UNCHANGED <<rows, staging, unread>>
    BY <1>23 DEF MoveToTrash
  <2>2. CASE Becomes(place[c], "missing") /\ Proceeds(c, "forgetting")
      BY <2>1, <2>2 DEF Proceeds, Becomes, Goto, discovery, order, request, Active,
         ArchitectureOf, Over, Initialized
  <2>3. CASE Stays /\ Proceeds(c, "failed")
      BY <2>1, <2>3 DEF Proceeds, Stays, Goto, discovery, order, request
  <2> QED
    BY <1>23, <2>2, <2>3 DEF MoveToTrash
<1>24. ASSUME NEW p \in Places, ChangeDisk(p) PROVE Taken
  BY <1>24 DEF ChangeDisk, Becomes, Contents, discovery, order, request, Active, ArchitectureOf,
     Initialized, Over
<1>25. ASSUME Quit PROVE Taken
  BY <1>25 DEF Quit, Active, Stays, discovery, order, request, Over
<1>26. ASSUME UNCHANGED discoveryVars PROVE Taken
  BY <1>26 DEF discoveryVars, discovery, order, request, world
<1> QED
  BY <1>1, <1>2, <1>3, <1>4, <1>5, <1>6, <1>7, <1>8, <1>9, <1>10, <1>11, <1>12, <1>13,
     <1>14, <1>15, <1>16, <1>17, <1>18, <1>19, <1>20, <1>21, <1>22, <1>23, <1>24, <1>25,
     <1>26 DEF DiscoveryNext, Begin, Continue

\* A creation never replaces what is at its place, though minutes of wineboot are between
\* its look at the place and its rename (lib.rs 174-262).
THEOREM CreationsReplaceNothing == DiscoverySpec => NothingReplaced
<1>1. ShapeInv /\ [DiscoveryNext]_discoveryVars => [Taken]_discoveryVars
  BY TakenStep
<1> QED
  BY InitShape, ShapeStep, <1>1, PTL DEF DiscoverySpec, NothingReplaced, Taken

-----------------------------------------------------------------------------
(* What a call answers.                                                    *)

\* A call that took a place away stays one.
LEMMA RemovedStays == ShapeInv /\ [DiscoveryNext]_discoveryVars => \A p \in Places : Removed(p) => Removed(p)'
<1> SUFFICES ASSUME ShapeInv, [DiscoveryNext]_discoveryVars,
                    NEW p \in Places, Removed(p)
             PROVE  Removed(p)'
  OBVIOUS
<1> USE DiscoveryAssumption
    DEF ShapeInv, Types, DiscoveryTypeOK, Removed
<1>1. ASSUME NEW c \in Commands, List(c) PROVE Removed(p)'
  BY <1>1 DEF List, Discover, Starts, Goto, Unseen, ArchitectureOf, Initialized
<1>2. ASSUME NEW c \in Commands, Plan(c) PROVE Removed(p)'
  BY <1>2 DEF Plan, Discover, Starts, Goto, Unseen, ArchitectureOf, Initialized
<1>3. ASSUME NEW c \in Commands, Search(c) PROVE Removed(p)'
  <2>1. Starts(c, "search") /\ UNCHANGED staging
    BY <1>3 DEF Search
  <2>2. CASE Goto(c, "returned") /\ known[place[c]][1] # "unlisted" /\ UNCHANGED <<discovery, order>>
      BY <2>1, <2>2 DEF Goto, Starts, discovery, order, ArchitectureOf, Initialized
  <2>3. CASE Discover(c, "plan")
      BY <2>1, <2>3 DEF Starts, Discover, ArchitectureOf, Goto, Unseen, Initialized
  <2> QED
    BY <1>3, <2>2, <2>3 DEF Search
<1>4. ASSUME NEW c \in Commands, Register(c) PROVE Removed(p)'
  BY <1>4 DEF Register, Goto, Starts, discovery, order, ArchitectureOf, Initialized
<1>5. ASSUME NEW c \in Commands, Forget(c) PROVE Removed(p)'
  BY <1>5 DEF Forget, Goto, Starts, discovery, order, ArchitectureOf, Initialized
<1>6. ASSUME NEW c \in Commands, Trash(c) PROVE Removed(p)'
  BY <1>6 DEF Trash, Discover, Starts, Goto, Unseen, ArchitectureOf, Initialized
<1>7. ASSUME NEW c \in Commands, Create(c) PROVE Removed(p)'
  <2>1. Starts(c, "create") /\ UNCHANGED <<discovery, order>>
    BY <1>7 DEF Create
  <2>2. CASE Goto(c, "booting") /\ staging' = [staging EXCEPT ![c] = "begun"]
      BY <2>1, <2>2 DEF Goto, Starts, discovery, order, ArchitectureOf, Initialized
  <2>3. CASE Goto(c, "failed") /\ UNCHANGED staging
      BY <2>1, <2>3 DEF Goto, Starts, discovery, order, ArchitectureOf, Initialized
  <2> QED
    BY <1>7, <2>2, <2>3 DEF Create
<1>8. ASSUME NEW c \in Commands, AskProvider(c) PROVE Removed(p)'
  BY <1>8 DEF AskProvider, Lists, Merge, Stays, order, request, Initialized, Priority,
     Launchers
<1>9. ASSUME NEW c \in Commands, FailProvider(c) PROVE Removed(p)'
  BY <1>9 DEF FailProvider, Stays, order, request
<1>10. ASSUME NEW c \in Commands, ReadRows(c) PROVE Removed(p)'
  BY <1>10 DEF ReadRows, Goto, Merge, Stays, order, request, Priority, Launchers
<1>11. ASSUME NEW c \in Commands, FailDiscovery(c) PROVE Removed(p)'
  BY <1>11 DEF FailDiscovery, Goto, Stays, discovery, order, request
<1>12. ASSUME NEW c \in Commands, Publish(c) PROVE Removed(p)'
  BY <1>12 DEF Publish, Goto, Stays, Unseen, discovery, request
<1>13. ASSUME NEW c \in Commands, NEW q \in Places, Inspect(c, q) PROVE Removed(p)'
  BY <1>13 DEF Inspect, ArchitectureOf, Stays, Unseen, order, request, Initialized
<1>14. ASSUME NEW c \in Commands, Boot(c) PROVE Removed(p)'
  <2>1. stage[c] = "booting" /\ Stays /\ UNCHANGED <<rows, unread>>
    BY <1>14 DEF Boot, GiveUpCreation
  <2>2. CASE GiveUpCreation(c)
      BY <2>1, <2>2 DEF GiveUpCreation, Stays, Proceeds, Goto, discovery, order, request
  <2>3. CASE Proceeds(c, "booted") /\ \E a \in Initialized : staging' = [staging EXCEPT ![c] = a]
      BY <2>1, <2>3 DEF Proceeds, Stays, Goto, discovery, order, request
  <2> QED
    BY <1>14, <2>2, <2>3 DEF Boot
<1>15. ASSUME NEW c \in Commands, LookAtTarget(c) PROVE Removed(p)'
  BY <1>15 DEF LookAtTarget, Proceeds, Stays, Goto, discovery, order, request
<1>16. ASSUME NEW c \in Commands, ClearTarget(c) PROVE Removed(p)'
  <2>1. stage[c] = "clearing"
    BY <1>16 DEF ClearTarget
  <2>2. CASE Becomes(place[c], "missing") /\ Proceeds(c, "renaming") /\ UNCHANGED <<rows, staging, unread>>
             /\ disk[place[c]] = "empty"
      BY <2>1, <2>2 DEF Proceeds, Becomes, Goto, discovery, order, request, Active,
         ArchitectureOf, Over, Initialized
  <2>3. CASE GiveUpCreation(c)
      BY <2>1, <2>3 DEF GiveUpCreation, Proceeds, Stays, Goto, discovery, order, request
  <2> QED
    BY <1>16, <2>2, <2>3 DEF ClearTarget
<1>17. ASSUME NEW c \in Commands, RenameStaging(c) PROVE Removed(p)'
  <2>1. stage[c] = "renaming"
    BY <1>17 DEF RenameStaging
  <2>2. CASE Becomes(place[c], staging[c]) /\ staging' = [staging EXCEPT ![c] = "missing"]
             /\ Proceeds(c, "registering") /\ UNCHANGED <<rows, unread>>
             /\ disk[place[c]] \in {"missing", "empty"}
      BY <2>1, <2>2 DEF Proceeds, Becomes, Goto, discovery, order, request, Active,
         ArchitectureOf, Over, Initialized
  <2>3. CASE GiveUpCreation(c) /\ disk[place[c]] \notin {"missing", "empty"}
      BY <2>1, <2>3 DEF GiveUpCreation, Proceeds, Stays, Goto, discovery, order, request
  <2> QED
    BY <1>17, <2>2, <2>3 DEF RenameStaging
<1>18. ASSUME NEW c \in Commands, InsertRow(c) PROVE Removed(p)'
  BY <1>18 DEF InsertRow, Discover, Initialized, Stays, request, Goto, Unseen
<1>19. ASSUME NEW c \in Commands, InsertFails(c) PROVE Removed(p)'
  BY <1>19 DEF InsertFails, Proceeds, Stays, Goto, discovery, order, request
<1>20. ASSUME NEW c \in Commands, DeleteRow(c) PROVE Removed(p)'
  BY <1>20 DEF DeleteRow, Discover, Stays, request, Goto, Unseen
<1>21. ASSUME NEW c \in Commands, DeleteFails(c) PROVE Removed(p)'
  <2>1. stage[c] = "forgetting" /\ Stays /\ UNCHANGED <<rows, known, request, staging, alive, changes, unread>>
    BY <1>21 DEF DeleteFails
  <2>2. CASE Discover(c, "return") /\ command[c] = "trash"
      BY <2>1, <2>2 DEF Stays, Discover, request, Goto, Unseen
  <2>3. CASE Goto(c, "failed") /\ command[c] # "trash" /\ UNCHANGED <<discovery, order>>
      BY <2>1, <2>3 DEF Goto, Stays, discovery, order, request
  <2> QED
    BY <1>21, <2>2, <2>3 DEF DeleteFails
<1>22. ASSUME NEW c \in Commands, Confirm(c) PROVE Removed(p)'
  <2>1. stage[c] = "confirming" /\ Stays /\ UNCHANGED <<rows, staging, unread>>
    BY <1>22 DEF Confirm
  <2>2. CASE Proceeds(c, "trashing") /\ disk[place[c]] \in Initialized
      BY <2>1, <2>2 DEF Proceeds, Stays, Goto, discovery, order, request
  <2>3. CASE Proceeds(c, "failed")
      BY <2>1, <2>3 DEF Proceeds, Stays, Goto, discovery, order, request
  <2> QED
    BY <1>22, <2>2, <2>3 DEF Confirm
<1>23. ASSUME NEW c \in Commands, MoveToTrash(c) PROVE Removed(p)'
  <2>1. stage[c] = "trashing" /\ UNCHANGED <<rows, staging, unread>>
    BY <1>23 DEF MoveToTrash
  <2>2. CASE Becomes(place[c], "missing") /\ Proceeds(c, "forgetting")
      BY <2>1, <2>2 DEF Proceeds, Becomes, Goto, discovery, order, request, Active,
         ArchitectureOf, Over, Initialized
  <2>3. CASE Stays /\ Proceeds(c, "failed")
      BY <2>1, <2>3 DEF Proceeds, Stays, Goto, discovery, order, request
  <2> QED
    BY <1>23, <2>2, <2>3 DEF MoveToTrash
<1>24. ASSUME NEW q \in Places, ChangeDisk(q) PROVE Removed(p)'
  BY <1>24 DEF ChangeDisk, Becomes, Contents, discovery, order, request, Active, ArchitectureOf,
     Initialized, Over
<1>25. ASSUME Quit PROVE Removed(p)'
  BY <1>25 DEF Quit, Active, Stays, discovery, order, request, Over
<1>26. ASSUME UNCHANGED discoveryVars PROVE Removed(p)'
  BY <1>26 DEF discoveryVars, discovery, order, request, world
<1> QED
  BY <1>1, <1>2, <1>3, <1>4, <1>5, <1>6, <1>7, <1>8, <1>9, <1>10, <1>11, <1>12, <1>13,
     <1>14, <1>15, <1>16, <1>17, <1>18, <1>19, <1>20, <1>21, <1>22, <1>23, <1>24, <1>25,
     <1>26 DEF DiscoveryNext, Begin, Continue

\* Nobody has asked at first.
LEMMA InitTruth == DiscoveryInit => TruthInv
BY DEF DiscoveryInit, TruthInv, Truthful, Active, Discovering, Over

\* Whatever a call sees of its place was so while it is under way.
LEMMA TruthStep == ShapeInv /\ TruthInv /\ [DiscoveryNext]_discoveryVars => TruthInv'
<1> SUFFICES ASSUME ShapeInv, TruthInv, [DiscoveryNext]_discoveryVars,
                    NEW d \in Commands
             PROVE  Truthful(d)'
  BY DEF TruthInv
<1>1. \A p \in Places : Removed(p) => Removed(p)'
  BY RemovedStays
<1> USE DiscoveryAssumption, <1>1
    DEF ShapeInv, Types, DiscoveryTypeOK, Purpose, Progress, Discovering, TruthInv,
       Truthful, Active, Over
<1>2. ASSUME NEW c \in Commands, List(c) PROVE Truthful(d)'
  BY <1>2 DEF List, Discover, Starts, Goto, Unseen, ArchitectureOf, Initialized
<1>3. ASSUME NEW c \in Commands, Plan(c) PROVE Truthful(d)'
  BY <1>3 DEF Plan, Discover, Starts, Goto, Unseen, ArchitectureOf, Initialized
<1>4. ASSUME NEW c \in Commands, Search(c) PROVE Truthful(d)'
  <2>1. Starts(c, "search") /\ UNCHANGED staging
    BY <1>4 DEF Search
  <2>2. CASE Goto(c, "returned") /\ known[place[c]][1] # "unlisted" /\ UNCHANGED <<discovery, order>>
      BY <2>1, <2>2 DEF Goto, Starts, discovery, order, ArchitectureOf, Initialized
  <2>3. CASE Discover(c, "plan")
      BY <2>1, <2>3 DEF Starts, Discover, ArchitectureOf, Goto, Unseen, Initialized
  <2> QED
    BY <1>4, <2>2, <2>3 DEF Search
<1>5. ASSUME NEW c \in Commands, Register(c) PROVE Truthful(d)'
  BY <1>5 DEF Register, Goto, Starts, discovery, order, ArchitectureOf, Initialized
<1>6. ASSUME NEW c \in Commands, Forget(c) PROVE Truthful(d)'
  BY <1>6 DEF Forget, Goto, Starts, discovery, order, ArchitectureOf, Initialized
<1>7. ASSUME NEW c \in Commands, Trash(c) PROVE Truthful(d)'
  BY <1>7 DEF Trash, Discover, Starts, Goto, Unseen, ArchitectureOf, Initialized
<1>8. ASSUME NEW c \in Commands, Create(c) PROVE Truthful(d)'
  <2>1. Starts(c, "create") /\ UNCHANGED <<discovery, order>>
    BY <1>8 DEF Create
  <2>2. CASE Goto(c, "booting") /\ staging' = [staging EXCEPT ![c] = "begun"]
      BY <2>1, <2>2 DEF Goto, Starts, discovery, order, ArchitectureOf, Initialized
  <2>3. CASE Goto(c, "failed") /\ UNCHANGED staging
      BY <2>1, <2>3 DEF Goto, Starts, discovery, order, ArchitectureOf, Initialized
  <2> QED
    BY <1>8, <2>2, <2>3 DEF Create
<1>9. ASSUME NEW c \in Commands, AskProvider(c) PROVE Truthful(d)'
  BY SMTT(30), <1>9 DEF AskProvider, Lists, Merge, Stays, order, request, Initialized, Priority,
     Launchers
<1>10. ASSUME NEW c \in Commands, FailProvider(c) PROVE Truthful(d)'
  BY <1>10 DEF FailProvider, Stays, order, request
<1>11. ASSUME NEW c \in Commands, ReadRows(c) PROVE Truthful(d)'
  BY <1>11 DEF ReadRows, Goto, Merge, Stays, order, request, Priority, Launchers
<1>12. ASSUME NEW c \in Commands, FailDiscovery(c) PROVE Truthful(d)'
  BY <1>12 DEF FailDiscovery, Goto, Stays, discovery, order, request
<1>13. ASSUME NEW c \in Commands, Publish(c) PROVE Truthful(d)'
  BY <1>13 DEF Publish, Goto, Stays, Unseen, discovery, request
<1>14. ASSUME NEW c \in Commands, NEW p \in Places, Inspect(c, p) PROVE Truthful(d)'
  BY <1>14 DEF Inspect, ArchitectureOf, Stays, Unseen, order, request, Initialized
<1>15. ASSUME NEW c \in Commands, Boot(c) PROVE Truthful(d)'
  <2>1. stage[c] = "booting" /\ Stays /\ UNCHANGED <<rows, unread>>
    BY <1>15 DEF Boot, GiveUpCreation
  <2>2. CASE GiveUpCreation(c)
      BY <2>1, <2>2 DEF GiveUpCreation, Stays, Proceeds, Goto, discovery, order, request
  <2>3. CASE Proceeds(c, "booted") /\ \E a \in Initialized : staging' = [staging EXCEPT ![c] = a]
      BY <2>1, <2>3 DEF Proceeds, Stays, Goto, discovery, order, request
  <2> QED
    BY <1>15, <2>2, <2>3 DEF Boot
<1>16. ASSUME NEW c \in Commands, LookAtTarget(c) PROVE Truthful(d)'
  BY <1>16 DEF LookAtTarget, Proceeds, Stays, Goto, discovery, order, request
<1>17. ASSUME NEW c \in Commands, ClearTarget(c) PROVE Truthful(d)'
  <2>1. stage[c] = "clearing"
    BY <1>17 DEF ClearTarget
  <2>2. CASE Becomes(place[c], "missing") /\ Proceeds(c, "renaming") /\ UNCHANGED <<rows, staging, unread>>
             /\ disk[place[c]] = "empty"
      BY <2>1, <2>2 DEF Proceeds, Becomes, Goto, discovery, order, request, Active,
         ArchitectureOf, Over, Initialized
  <2>3. CASE GiveUpCreation(c)
      BY <2>1, <2>3 DEF GiveUpCreation, Proceeds, Stays, Goto, discovery, order, request
  <2> QED
    BY <1>17, <2>2, <2>3 DEF ClearTarget
<1>18. ASSUME NEW c \in Commands, RenameStaging(c) PROVE Truthful(d)'
  <2>1. stage[c] = "renaming"
    BY <1>18 DEF RenameStaging
  <2>2. CASE Becomes(place[c], staging[c]) /\ staging' = [staging EXCEPT ![c] = "missing"]
             /\ Proceeds(c, "registering") /\ UNCHANGED <<rows, unread>>
             /\ disk[place[c]] \in {"missing", "empty"}
      BY <2>1, <2>2 DEF Proceeds, Becomes, Goto, discovery, order, request, Active,
         ArchitectureOf, Over, Initialized
  <2>3. CASE GiveUpCreation(c) /\ disk[place[c]] \notin {"missing", "empty"}
      BY <2>1, <2>3 DEF GiveUpCreation, Proceeds, Stays, Goto, discovery, order, request
  <2> QED
    BY <1>18, <2>2, <2>3 DEF RenameStaging
<1>19. ASSUME NEW c \in Commands, InsertRow(c) PROVE Truthful(d)'
  BY <1>19 DEF InsertRow, Discover, Initialized, Stays, request, Goto, Unseen
<1>20. ASSUME NEW c \in Commands, InsertFails(c) PROVE Truthful(d)'
  BY <1>20 DEF InsertFails, Proceeds, Stays, Goto, discovery, order, request
<1>21. ASSUME NEW c \in Commands, DeleteRow(c) PROVE Truthful(d)'
  <2>1. Removed(place[c])'
    BY <1>21 DEF DeleteRow, Discover, Goto, request, Removed
  <2> QED
    BY <1>21, <2>1 DEF DeleteRow, Discover, Stays, request, Goto, Unseen
<1>22. ASSUME NEW c \in Commands, DeleteFails(c) PROVE Truthful(d)'
  <2>1. stage[c] = "forgetting" /\ Stays /\ UNCHANGED <<rows, known, request, staging, alive, changes, unread>>
    BY <1>22 DEF DeleteFails
  <2>2. CASE Discover(c, "return") /\ command[c] = "trash"
      BY <2>1, <2>2 DEF Stays, Discover, request, Goto, Unseen
  <2>3. CASE Goto(c, "failed") /\ command[c] # "trash" /\ UNCHANGED <<discovery, order>>
      BY <2>1, <2>3 DEF Goto, Stays, discovery, order, request
  <2> QED
    BY <1>22, <2>2, <2>3 DEF DeleteFails
<1>23. ASSUME NEW c \in Commands, Confirm(c) PROVE Truthful(d)'
  <2>1. stage[c] = "confirming" /\ Stays /\ UNCHANGED <<rows, staging, unread>>
    BY <1>23 DEF Confirm
  <2>2. CASE Proceeds(c, "trashing") /\ disk[place[c]] \in Initialized
      BY <2>1, <2>2 DEF Proceeds, Stays, Goto, discovery, order, request
  <2>3. CASE Proceeds(c, "failed")
      BY <2>1, <2>3 DEF Proceeds, Stays, Goto, discovery, order, request
  <2> QED
    BY <1>23, <2>2, <2>3 DEF Confirm
<1>24. ASSUME NEW c \in Commands, MoveToTrash(c) PROVE Truthful(d)'
  <2>1. stage[c] = "trashing" /\ UNCHANGED <<rows, staging, unread>>
    BY <1>24 DEF MoveToTrash
  <2>2. CASE Becomes(place[c], "missing") /\ Proceeds(c, "forgetting")
      BY <2>1, <2>2 DEF Proceeds, Becomes, Goto, discovery, order, request, Active,
         ArchitectureOf, Over, Initialized
  <2>3. CASE Stays /\ Proceeds(c, "failed")
      BY <2>1, <2>3 DEF Proceeds, Stays, Goto, discovery, order, request
  <2> QED
    BY <1>24, <2>2, <2>3 DEF MoveToTrash
<1>25. ASSUME NEW p \in Places, ChangeDisk(p) PROVE Truthful(d)'
  BY <1>25 DEF ChangeDisk, Becomes, Contents, discovery, order, request, Active, ArchitectureOf,
     Initialized, Over
<1>26. ASSUME Quit PROVE Truthful(d)'
  BY <1>26 DEF Quit, Active, Stays, discovery, order, request, Over
<1>27. ASSUME UNCHANGED discoveryVars PROVE Truthful(d)'
  BY <1>27 DEF discoveryVars, discovery, order, request, world
<1> QED
  BY <1>2, <1>3, <1>4, <1>5, <1>6, <1>7, <1>8, <1>9, <1>10, <1>11, <1>12, <1>13, <1>14,
     <1>15, <1>16, <1>17, <1>18, <1>19, <1>20, <1>21, <1>22, <1>23, <1>24, <1>25, <1>26,
     <1>27 DEF DiscoveryNext, Begin, Continue

-----------------------------------------------------------------------------
(* The snapshot.                                                           *)

\* The assumption on providers, as the steps below use it.
LEMMA ProviderSources ==
  /\ Len(Providers) \in Nat
  /\ \A i \in 1 .. Len(Providers) : Providers[i] \in Sources \ {"manual"}
BY DiscoveryAssumption

LEMMA Priorities ==
  /\ Priority("manual") = 10 /\ Priority("unlisted") = 0
  /\ \A s \in Sources \ {"manual"} : Priority(s) \in 1 .. 9
BY DEF Priority, Sources, Launchers

\* What a discovery has of a place after all providers and the rows is what there is.
LEMMA BestIsNow ==
  ASSUME NEW p \in Places, NEW source, NEW content,
         IF p \in rows THEN source = "manual" ELSE Best(source, p, Len(Providers)),
         content = IF source = "unlisted" THEN Unseen ELSE ArchitectureOf(disk[p])
  PROVE  <<source, content>> = Now(p)
<1> DEFINE named == {i \in 1 .. Len(Providers) : Lists(Providers[i], p)}
<1>1. CASE p \in rows
  BY <1>1 DEF Now
<1>2. CASE p \notin rows /\ named = {}
  BY <1>2 DEF Now, Best
<1>3. CASE p \notin rows /\ named # {}
  <2> DEFINE First(i) == \A j \in named :
                            \/ Priority(Providers[j]) < Priority(Providers[i])
                            \/ Priority(Providers[j]) = Priority(Providers[i]) /\ i <= j
  <2>1. PICK i \in named : source = Providers[i] /\ First(i)
    BY <1>3 DEF Best
  <2>2. \A k \in named : Priority(Providers[k]) \in 1 .. 9
    BY ProviderSources, Priorities
  <2>3. ASSUME NEW k \in named, First(k) PROVE k = i
    BY <2>1, <2>2, <2>3
  <2>4. (CHOOSE k \in named : First(k)) = i
    <3>1. First(CHOOSE k \in named : First(k)) /\ (CHOOSE k \in named : First(k)) \in named
      BY <2>1
    <3> HIDE DEF First, named
    <3> QED
      BY <2>3, <3>1
  <2>5. source # "unlisted"
    BY <2>1, ProviderSources DEF Sources, Launchers
  <2>6. Now(p) = <<Providers[i], ArchitectureOf(disk[p])>>
    BY <1>3, <2>4 DEF Now
  <2> QED
    BY <2>1, <2>5, <2>6
<1> QED
  BY <1>1, <1>2, <1>3

\* Asking the next provider.
LEMMA BestOfNext ==
  ASSUME NEW p \in Places, NEW source, NEW k \in 1 .. Len(Providers), Best(source, p, k - 1)
  PROVE  Best(IF Lists(Providers[k], p) /\ Priority(Providers[k]) > Priority(source)
              THEN Providers[k] ELSE source, p, k)
<1> DEFINE before == {i \in 1 .. k - 1 : Lists(Providers[i], p)}
           named  == {i \in 1 .. k : Lists(Providers[i], p)}
<1>1. k \in Nat /\ Len(Providers) \in Nat
  BY ProviderSources
<1>2. named = IF Lists(Providers[k], p) THEN before \cup {k} ELSE before
  BY <1>1
<1>3. \A i \in 1 .. k : Priority(Providers[i]) \in 1 .. 9
  BY <1>1, ProviderSources, Priorities
<1>4. CASE before = {}
  BY <1>1, <1>2, <1>3, <1>4, Priorities DEF Best
<1>5. CASE before # {}
  <2>1. PICK i \in before :
           /\ source = Providers[i]
           /\ \A j \in before : \/ Priority(Providers[j]) < Priority(Providers[i])
                                \/ Priority(Providers[j]) = Priority(Providers[i]) /\ i <= j
    BY <1>5 DEF Best
  <2>2. i < k /\ k \in Nat /\ i \in Nat
    BY <1>1, <2>1
  <2>3. CASE ~Lists(Providers[k], p)
    BY <1>2, <1>5, <2>1, <2>3 DEF Best
  <2>4. CASE Lists(Providers[k], p) /\ Priority(Providers[k]) > Priority(source)
    <3>1. \A j \in named : j = k \/ Priority(Providers[j]) < Priority(Providers[k])
      <4> SUFFICES ASSUME NEW j \in before PROVE Priority(Providers[j]) < Priority(Providers[k])
        BY <1>2
      <4>1. Priority(Providers[j]) \in 1 .. 9 /\ Priority(Providers[i]) \in 1 .. 9
            /\ Priority(Providers[k]) \in 1 .. 9
        BY <1>1, <1>3
      <4>2. Priority(Providers[j]) < Priority(Providers[i])
            \/ Priority(Providers[j]) = Priority(Providers[i])
        BY <2>1
      <4>3. Priority(Providers[k]) > Priority(Providers[i])
        BY <2>1, <2>4
      <4> QED
        BY SMTT(30), <4>1, <4>2, <4>3
    <3> QED
      BY <1>1, <1>2, <1>3, <2>4, <3>1 DEF Best
  <2>5. CASE Lists(Providers[k], p) /\ ~(Priority(Providers[k]) > Priority(source))
    <3>1. \A j \in named : \/ Priority(Providers[j]) < Priority(Providers[i])
                           \/ Priority(Providers[j]) = Priority(Providers[i]) /\ i <= j
      BY SMTT(30), <1>1, <1>2, <1>3, <2>1, <2>2, <2>5
    <3>2. named # {} /\ i \in named
      BY <1>2
    <3> QED
      BY <2>1, <2>5, <3>1, <3>2 DEF Best
  <2> QED
    BY <2>3, <2>4, <2>5
<1> QED
  BY <1>4, <1>5

\* A program that runs has run, and what others did is not undone.
LEMMA BeforeStep == ShapeInv /\ [DiscoveryNext]_discoveryVars => (alive' /\ changes' = 0 => alive /\ changes = 0)
<1> SUFFICES ASSUME ShapeInv, [DiscoveryNext]_discoveryVars,
                    alive', changes' = 0
             PROVE  alive /\ changes = 0
  OBVIOUS
<1> USE DiscoveryAssumption
    DEF ShapeInv, Types, DiscoveryTypeOK
<1>1. ASSUME NEW c \in Commands, List(c) PROVE alive /\ changes = 0
  BY <1>1 DEF List, Discover, Starts, Goto, Unseen, ArchitectureOf, Initialized
<1>2. ASSUME NEW c \in Commands, Plan(c) PROVE alive /\ changes = 0
  BY <1>2 DEF Plan, Discover, Starts, Goto, Unseen, ArchitectureOf, Initialized
<1>3. ASSUME NEW c \in Commands, Search(c) PROVE alive /\ changes = 0
  <2>1. Starts(c, "search") /\ UNCHANGED staging
    BY <1>3 DEF Search
  <2>2. CASE Goto(c, "returned") /\ known[place[c]][1] # "unlisted" /\ UNCHANGED <<discovery, order>>
      BY <2>1, <2>2 DEF Goto, Starts, discovery, order, ArchitectureOf, Initialized
  <2>3. CASE Discover(c, "plan")
      BY <2>1, <2>3 DEF Starts, Discover, ArchitectureOf, Goto, Unseen, Initialized
  <2> QED
    BY <1>3, <2>2, <2>3 DEF Search
<1>4. ASSUME NEW c \in Commands, Register(c) PROVE alive /\ changes = 0
  BY <1>4 DEF Register, Goto, Starts, discovery, order, ArchitectureOf, Initialized
<1>5. ASSUME NEW c \in Commands, Forget(c) PROVE alive /\ changes = 0
  BY <1>5 DEF Forget, Goto, Starts, discovery, order, ArchitectureOf, Initialized
<1>6. ASSUME NEW c \in Commands, Trash(c) PROVE alive /\ changes = 0
  BY <1>6 DEF Trash, Discover, Starts, Goto, Unseen, ArchitectureOf, Initialized
<1>7. ASSUME NEW c \in Commands, Create(c) PROVE alive /\ changes = 0
  <2>1. Starts(c, "create") /\ UNCHANGED <<discovery, order>>
    BY <1>7 DEF Create
  <2>2. CASE Goto(c, "booting") /\ staging' = [staging EXCEPT ![c] = "begun"]
      BY <2>1, <2>2 DEF Goto, Starts, discovery, order, ArchitectureOf, Initialized
  <2>3. CASE Goto(c, "failed") /\ UNCHANGED staging
      BY <2>1, <2>3 DEF Goto, Starts, discovery, order, ArchitectureOf, Initialized
  <2> QED
    BY <1>7, <2>2, <2>3 DEF Create
<1>8. ASSUME NEW c \in Commands, AskProvider(c) PROVE alive /\ changes = 0
  BY <1>8 DEF AskProvider, Lists, Merge, Stays, order, request, Initialized, Priority,
     Launchers
<1>9. ASSUME NEW c \in Commands, FailProvider(c) PROVE alive /\ changes = 0
  BY <1>9 DEF FailProvider, Stays, order, request
<1>10. ASSUME NEW c \in Commands, ReadRows(c) PROVE alive /\ changes = 0
  BY <1>10 DEF ReadRows, Goto, Merge, Stays, order, request, Priority, Launchers
<1>11. ASSUME NEW c \in Commands, FailDiscovery(c) PROVE alive /\ changes = 0
  BY <1>11 DEF FailDiscovery, Goto, Stays, discovery, order, request
<1>12. ASSUME NEW c \in Commands, Publish(c) PROVE alive /\ changes = 0
  BY <1>12 DEF Publish, Goto, Stays, Unseen, discovery, request
<1>13. ASSUME NEW c \in Commands, NEW p \in Places, Inspect(c, p) PROVE alive /\ changes = 0
  BY <1>13 DEF Inspect, ArchitectureOf, Stays, Unseen, order, request, Initialized
<1>14. ASSUME NEW c \in Commands, Boot(c) PROVE alive /\ changes = 0
  <2>1. stage[c] = "booting" /\ Stays /\ UNCHANGED <<rows, unread>>
    BY <1>14 DEF Boot, GiveUpCreation
  <2>2. CASE GiveUpCreation(c)
      BY <2>1, <2>2 DEF GiveUpCreation, Stays, Proceeds, Goto, discovery, order, request
  <2>3. CASE Proceeds(c, "booted") /\ \E a \in Initialized : staging' = [staging EXCEPT ![c] = a]
      BY <2>1, <2>3 DEF Proceeds, Stays, Goto, discovery, order, request
  <2> QED
    BY <1>14, <2>2, <2>3 DEF Boot
<1>15. ASSUME NEW c \in Commands, LookAtTarget(c) PROVE alive /\ changes = 0
  BY <1>15 DEF LookAtTarget, Proceeds, Stays, Goto, discovery, order, request
<1>16. ASSUME NEW c \in Commands, ClearTarget(c) PROVE alive /\ changes = 0
  <2>1. stage[c] = "clearing"
    BY <1>16 DEF ClearTarget
  <2>2. CASE Becomes(place[c], "missing") /\ Proceeds(c, "renaming") /\ UNCHANGED <<rows, staging, unread>>
             /\ disk[place[c]] = "empty"
      BY <2>1, <2>2 DEF Proceeds, Becomes, Goto, discovery, order, request, Active,
         ArchitectureOf, Over, Initialized
  <2>3. CASE GiveUpCreation(c)
      BY <2>1, <2>3 DEF GiveUpCreation, Proceeds, Stays, Goto, discovery, order, request
  <2> QED
    BY <1>16, <2>2, <2>3 DEF ClearTarget
<1>17. ASSUME NEW c \in Commands, RenameStaging(c) PROVE alive /\ changes = 0
  <2>1. stage[c] = "renaming"
    BY <1>17 DEF RenameStaging
  <2>2. CASE Becomes(place[c], staging[c]) /\ staging' = [staging EXCEPT ![c] = "missing"]
             /\ Proceeds(c, "registering") /\ UNCHANGED <<rows, unread>>
             /\ disk[place[c]] \in {"missing", "empty"}
      BY <2>1, <2>2 DEF Proceeds, Becomes, Goto, discovery, order, request, Active,
         ArchitectureOf, Over, Initialized
  <2>3. CASE GiveUpCreation(c) /\ disk[place[c]] \notin {"missing", "empty"}
      BY <2>1, <2>3 DEF GiveUpCreation, Proceeds, Stays, Goto, discovery, order, request
  <2> QED
    BY <1>17, <2>2, <2>3 DEF RenameStaging
<1>18. ASSUME NEW c \in Commands, InsertRow(c) PROVE alive /\ changes = 0
  BY <1>18 DEF InsertRow, Discover, Initialized, Stays, request, Goto, Unseen
<1>19. ASSUME NEW c \in Commands, InsertFails(c) PROVE alive /\ changes = 0
  BY <1>19 DEF InsertFails, Proceeds, Stays, Goto, discovery, order, request
<1>20. ASSUME NEW c \in Commands, DeleteRow(c) PROVE alive /\ changes = 0
  BY <1>20 DEF DeleteRow, Discover, Stays, request, Goto, Unseen
<1>21. ASSUME NEW c \in Commands, DeleteFails(c) PROVE alive /\ changes = 0
  <2>1. stage[c] = "forgetting" /\ Stays /\ UNCHANGED <<rows, known, request, staging, alive, changes, unread>>
    BY <1>21 DEF DeleteFails
  <2>2. CASE Discover(c, "return") /\ command[c] = "trash"
      BY <2>1, <2>2 DEF Stays, Discover, request, Goto, Unseen
  <2>3. CASE Goto(c, "failed") /\ command[c] # "trash" /\ UNCHANGED <<discovery, order>>
      BY <2>1, <2>3 DEF Goto, Stays, discovery, order, request
  <2> QED
    BY <1>21, <2>2, <2>3 DEF DeleteFails
<1>22. ASSUME NEW c \in Commands, Confirm(c) PROVE alive /\ changes = 0
  <2>1. stage[c] = "confirming" /\ Stays /\ UNCHANGED <<rows, staging, unread>>
    BY <1>22 DEF Confirm
  <2>2. CASE Proceeds(c, "trashing") /\ disk[place[c]] \in Initialized
      BY <2>1, <2>2 DEF Proceeds, Stays, Goto, discovery, order, request
  <2>3. CASE Proceeds(c, "failed")
      BY <2>1, <2>3 DEF Proceeds, Stays, Goto, discovery, order, request
  <2> QED
    BY <1>22, <2>2, <2>3 DEF Confirm
<1>23. ASSUME NEW c \in Commands, MoveToTrash(c) PROVE alive /\ changes = 0
  <2>1. stage[c] = "trashing" /\ UNCHANGED <<rows, staging, unread>>
    BY <1>23 DEF MoveToTrash
  <2>2. CASE Becomes(place[c], "missing") /\ Proceeds(c, "forgetting")
      BY <2>1, <2>2 DEF Proceeds, Becomes, Goto, discovery, order, request, Active,
         ArchitectureOf, Over, Initialized
  <2>3. CASE Stays /\ Proceeds(c, "failed")
      BY <2>1, <2>3 DEF Proceeds, Stays, Goto, discovery, order, request
  <2> QED
    BY <1>23, <2>2, <2>3 DEF MoveToTrash
<1>24. ASSUME NEW p \in Places, ChangeDisk(p) PROVE alive /\ changes = 0
  BY <1>24 DEF ChangeDisk, Becomes, Contents, discovery, order, request, Active, ArchitectureOf,
     Initialized, Over
<1>25. ASSUME Quit PROVE alive /\ changes = 0
  BY <1>25 DEF Quit, Active, Stays, discovery, order, request, Over
<1>26. ASSUME UNCHANGED discoveryVars PROVE alive /\ changes = 0
  BY <1>26 DEF discoveryVars, discovery, order, request, world
<1> QED
  BY <1>1, <1>2, <1>3, <1>4, <1>5, <1>6, <1>7, <1>8, <1>9, <1>10, <1>11, <1>12, <1>13,
     <1>14, <1>15, <1>16, <1>17, <1>18, <1>19, <1>20, <1>21, <1>22, <1>23, <1>24, <1>25,
     <1>26 DEF DiscoveryNext, Begin, Continue

\* A discovery that has to follow is made, is begun later, or does not happen.
LEMMA BehindStays == ShapeInv /\ [DiscoveryNext]_discoveryVars => 
  (alive' /\ changes' = 0 => \A b \in 0 .. clock : Behind(b) => Behind(b)')
<1> SUFFICES ASSUME ShapeInv, [DiscoveryNext]_discoveryVars,
                    alive', changes' = 0, NEW b \in 0 .. clock, Behind(b)
             PROVE  Behind(b)'
  OBVIOUS
<1> USE DiscoveryAssumption
    DEF ShapeInv, Types, DiscoveryTypeOK, Purpose, Behind, Owing, Discovering
<1>1. ASSUME NEW c \in Commands, List(c) PROVE Behind(b)'
  BY <1>1 DEF List, Discover, Starts, Goto, Unseen, ArchitectureOf, Initialized
<1>2. ASSUME NEW c \in Commands, Plan(c) PROVE Behind(b)'
  BY <1>2 DEF Plan, Discover, Starts, Goto, Unseen, ArchitectureOf, Initialized
<1>3. ASSUME NEW c \in Commands, Search(c) PROVE Behind(b)'
  <2>1. Starts(c, "search") /\ UNCHANGED staging
    BY <1>3 DEF Search
  <2>2. CASE Goto(c, "returned") /\ known[place[c]][1] # "unlisted" /\ UNCHANGED <<discovery, order>>
      BY <2>1, <2>2 DEF Goto, Starts, discovery, order, ArchitectureOf, Initialized
  <2>3. CASE Discover(c, "plan")
      BY <2>1, <2>3 DEF Starts, Discover, ArchitectureOf, Goto, Unseen, Initialized
  <2> QED
    BY <1>3, <2>2, <2>3 DEF Search
<1>4. ASSUME NEW c \in Commands, Register(c) PROVE Behind(b)'
  BY <1>4 DEF Register, Goto, Starts, discovery, order, ArchitectureOf, Initialized
<1>5. ASSUME NEW c \in Commands, Forget(c) PROVE Behind(b)'
  BY <1>5 DEF Forget, Goto, Starts, discovery, order, ArchitectureOf, Initialized
<1>6. ASSUME NEW c \in Commands, Trash(c) PROVE Behind(b)'
  BY <1>6 DEF Trash, Discover, Starts, Goto, Unseen, ArchitectureOf, Initialized
<1>7. ASSUME NEW c \in Commands, Create(c) PROVE Behind(b)'
  <2>1. Starts(c, "create") /\ UNCHANGED <<discovery, order>>
    BY <1>7 DEF Create
  <2>2. CASE Goto(c, "booting") /\ staging' = [staging EXCEPT ![c] = "begun"]
      BY <2>1, <2>2 DEF Goto, Starts, discovery, order, ArchitectureOf, Initialized
  <2>3. CASE Goto(c, "failed") /\ UNCHANGED staging
      BY <2>1, <2>3 DEF Goto, Starts, discovery, order, ArchitectureOf, Initialized
  <2> QED
    BY <1>7, <2>2, <2>3 DEF Create
<1>8. ASSUME NEW c \in Commands, AskProvider(c) PROVE Behind(b)'
  BY <1>8 DEF AskProvider, Lists, Merge, Stays, order, request, Initialized, Priority,
     Launchers
<1>9. ASSUME NEW c \in Commands, FailProvider(c) PROVE Behind(b)'
  BY <1>9 DEF FailProvider, Stays, order, request
<1>10. ASSUME NEW c \in Commands, ReadRows(c) PROVE Behind(b)'
  BY <1>10 DEF ReadRows, Goto, Merge, Stays, order, request, Priority, Launchers
<1>11. ASSUME NEW c \in Commands, FailDiscovery(c) PROVE Behind(b)'
  BY <1>11 DEF FailDiscovery, Goto, Stays, discovery, order, request
<1>12. ASSUME NEW c \in Commands, Publish(c) PROVE Behind(b)'
  BY <1>12 DEF Publish, Goto, Stays, Unseen, discovery, request
<1>13. ASSUME NEW c \in Commands, NEW p \in Places, Inspect(c, p) PROVE Behind(b)'
  BY <1>13 DEF Inspect, ArchitectureOf, Stays, Unseen, order, request, Initialized
<1>14. ASSUME NEW c \in Commands, Boot(c) PROVE Behind(b)'
  <2>1. stage[c] = "booting" /\ Stays /\ UNCHANGED <<rows, unread>>
    BY <1>14 DEF Boot, GiveUpCreation
  <2>2. CASE GiveUpCreation(c)
      BY <2>1, <2>2 DEF GiveUpCreation, Stays, Proceeds, Goto, discovery, order, request
  <2>3. CASE Proceeds(c, "booted") /\ \E a \in Initialized : staging' = [staging EXCEPT ![c] = a]
      BY <2>1, <2>3 DEF Proceeds, Stays, Goto, discovery, order, request
  <2> QED
    BY <1>14, <2>2, <2>3 DEF Boot
<1>15. ASSUME NEW c \in Commands, LookAtTarget(c) PROVE Behind(b)'
  BY <1>15 DEF LookAtTarget, Proceeds, Stays, Goto, discovery, order, request
<1>16. ASSUME NEW c \in Commands, ClearTarget(c) PROVE Behind(b)'
  <2>1. stage[c] = "clearing"
    BY <1>16 DEF ClearTarget
  <2>2. CASE Becomes(place[c], "missing") /\ Proceeds(c, "renaming") /\ UNCHANGED <<rows, staging, unread>>
             /\ disk[place[c]] = "empty"
      BY <2>1, <2>2 DEF Proceeds, Becomes, Goto, discovery, order, request, Active,
         ArchitectureOf, Over, Initialized
  <2>3. CASE GiveUpCreation(c)
      BY <2>1, <2>3 DEF GiveUpCreation, Proceeds, Stays, Goto, discovery, order, request
  <2> QED
    BY <1>16, <2>2, <2>3 DEF ClearTarget
<1>17. ASSUME NEW c \in Commands, RenameStaging(c) PROVE Behind(b)'
  <2>1. stage[c] = "renaming"
    BY <1>17 DEF RenameStaging
  <2>2. CASE Becomes(place[c], staging[c]) /\ staging' = [staging EXCEPT ![c] = "missing"]
             /\ Proceeds(c, "registering") /\ UNCHANGED <<rows, unread>>
             /\ disk[place[c]] \in {"missing", "empty"}
      BY <2>1, <2>2 DEF Proceeds, Becomes, Goto, discovery, order, request, Active,
         ArchitectureOf, Over, Initialized
  <2>3. CASE GiveUpCreation(c) /\ disk[place[c]] \notin {"missing", "empty"}
      BY <2>1, <2>3 DEF GiveUpCreation, Proceeds, Stays, Goto, discovery, order, request
  <2> QED
    BY <1>17, <2>2, <2>3 DEF RenameStaging
<1>18. ASSUME NEW c \in Commands, InsertRow(c) PROVE Behind(b)'
  BY <1>18 DEF InsertRow, Discover, Initialized, Stays, request, Goto, Unseen
<1>19. ASSUME NEW c \in Commands, InsertFails(c) PROVE Behind(b)'
  BY <1>19 DEF InsertFails, Proceeds, Stays, Goto, discovery, order, request
<1>20. ASSUME NEW c \in Commands, DeleteRow(c) PROVE Behind(b)'
  BY <1>20 DEF DeleteRow, Discover, Stays, request, Goto, Unseen
<1>21. ASSUME NEW c \in Commands, DeleteFails(c) PROVE Behind(b)'
  <2>1. stage[c] = "forgetting" /\ Stays /\ UNCHANGED <<rows, known, request, staging, alive, changes, unread>>
    BY <1>21 DEF DeleteFails
  <2>2. CASE Discover(c, "return") /\ command[c] = "trash"
      BY <2>1, <2>2 DEF Stays, Discover, request, Goto, Unseen
  <2>3. CASE Goto(c, "failed") /\ command[c] # "trash" /\ UNCHANGED <<discovery, order>>
      BY <2>1, <2>3 DEF Goto, Stays, discovery, order, request
  <2> QED
    BY <1>21, <2>2, <2>3 DEF DeleteFails
<1>22. ASSUME NEW c \in Commands, Confirm(c) PROVE Behind(b)'
  <2>1. stage[c] = "confirming" /\ Stays /\ UNCHANGED <<rows, staging, unread>>
    BY <1>22 DEF Confirm
  <2>2. CASE Proceeds(c, "trashing") /\ disk[place[c]] \in Initialized
      BY <2>1, <2>2 DEF Proceeds, Stays, Goto, discovery, order, request
  <2>3. CASE Proceeds(c, "failed")
      BY <2>1, <2>3 DEF Proceeds, Stays, Goto, discovery, order, request
  <2> QED
    BY <1>22, <2>2, <2>3 DEF Confirm
<1>23. ASSUME NEW c \in Commands, MoveToTrash(c) PROVE Behind(b)'
  <2>1. stage[c] = "trashing" /\ UNCHANGED <<rows, staging, unread>>
    BY <1>23 DEF MoveToTrash
  <2>2. CASE Becomes(place[c], "missing") /\ Proceeds(c, "forgetting")
      BY <2>1, <2>2 DEF Proceeds, Becomes, Goto, discovery, order, request, Active,
         ArchitectureOf, Over, Initialized
  <2>3. CASE Stays /\ Proceeds(c, "failed")
      BY <2>1, <2>3 DEF Proceeds, Stays, Goto, discovery, order, request
  <2> QED
    BY <1>23, <2>2, <2>3 DEF MoveToTrash
<1>24. ASSUME NEW p \in Places, ChangeDisk(p) PROVE Behind(b)'
  BY <1>24 DEF ChangeDisk, Becomes, Contents, discovery, order, request, Active, ArchitectureOf,
     Initialized, Over
<1>25. ASSUME Quit PROVE Behind(b)'
  BY <1>25 DEF Quit, Active, Stays, discovery, order, request, Over
<1>26. ASSUME UNCHANGED discoveryVars PROVE Behind(b)'
  BY <1>26 DEF discoveryVars, discovery, order, request, world
<1> QED
  BY <1>1, <1>2, <1>3, <1>4, <1>5, <1>6, <1>7, <1>8, <1>9, <1>10, <1>11, <1>12, <1>13,
     <1>14, <1>15, <1>16, <1>17, <1>18, <1>19, <1>20, <1>21, <1>22, <1>23, <1>24, <1>25,
     <1>26 DEF DiscoveryNext, Begin, Continue

\* What is listed depends on the disk and the rows alone.
LEMMA NowStays ==
  ASSUME UNCHANGED <<disk, rows>>
  PROVE  /\ \A p \in Places : Now(p)' = Now(p)
         /\ \A source, p, k : Best(source, p, k) => Best(source, p, k)'
<1>1. \A provider, p : Lists(provider, p)' = Lists(provider, p)
  BY DEF Lists
<1>2. ASSUME NEW p \in Places PROVE Now(p)' = Now(p)
  BY <1>1 DEF Now, ArchitectureOf
<1>3. ASSUME NEW source, NEW p, NEW k, Best(source, p, k) PROVE Best(source, p, k)'
  BY <1>1, <1>3 DEF Best
<1> QED
  BY <1>2, <1>3

\* A call whose discovery does nothing in a step.
Rests(d) == /\ stage'[d] = stage[d] /\ ahead'[d] = ahead[d] /\ found'[d] = found[d]
            /\ saw'[d] = saw[d] /\ began'[d] = began[d]

LEMMA FreshStays ==
  ASSUME NEW d \in Commands, Rests(d), UNCHANGED <<disk, rows>>, Fresh(d)
  PROVE  Fresh(d)'
<1>1. \A source, p, k : Best(source, p, k) => Best(source, p, k)'
  BY NowStays
<1> QED
  BY <1>1 DEF Fresh, Rests, ArchitectureOf

\* A discovery that has asked nobody has nothing to be wrong about.
LEMMA BegunIsFresh ==
  ASSUME ShapeInv, NEW c \in Commands, NEW next, Discover(c, next)
  PROVE  /\ Fresh(c)' /\ began'[c] = clock + 1
         /\ after'[c] = next /\ stage'[c] = "scanning"
         /\ \A d \in Commands \ {c} : Rests(d) /\ after'[d] = after[d]
<1>1. /\ stage'[c] = "scanning" /\ ahead'[c] = Providers
      /\ began'[c] = clock + 1 /\ after'[c] = next
      /\ \A p \in Places : found'[c][p] = "unlisted"
      /\ \A d \in Commands \ {c} : Rests(d) /\ after'[d] = after[d]
  BY DEF Discover, Goto, ShapeInv, Types, DiscoveryTypeOK, Rests
<1>2. \A p : Best("unlisted", p, 0)'
  BY DEF Best
<1>3. Len(Providers) - Len(Providers) = 0
  BY ProviderSources
<1> QED
  BY <1>1, <1>2, <1>3 DEF Fresh

\* Whether a discovery is as it has to be.
Sound(d) == Discovering(d) => Fresh(d) \/ Behind(began[d])

\* The steps between which nothing that is listed changes.
LEMMA SnapshotRests ==
  ASSUME ShapeInv, SnapshotInv, alive, changes = 0,
         \A b \in 0 .. clock : Behind(b) => Behind(b)',
         UNCHANGED <<disk, rows, known, newest, overtaken>>,
         \A d \in Commands : Rests(d) \/ Sound(d)'
  PROVE  SnapshotInv'
<1>1. ASSUME NEW d \in Commands PROVE Sound(d)'
  <2>1. began[d] \in 0 .. clock
    BY DEF ShapeInv, Types, Progress
  <2>2. CASE Rests(d)
    <3>1. Fresh(d) => Fresh(d)'
      BY <2>2, FreshStays
    <3> QED
      BY <2>1, <2>2, <3>1 DEF Sound, SnapshotInv, Discovering, Rests
  <2> QED
    BY <2>2
<1>2. newest \in 0 .. clock
  BY DEF ShapeInv, Types
<1>3. newest > 0 /\ ~overtaken => (\A p \in Places : known[p] = Now(p)) \/ Behind(newest)
  BY DEF SnapshotInv
<1>4. \A p \in Places : Now(p)' = Now(p)
  BY NowStays
<1>5. (newest > 0 /\ ~overtaken => (\A p \in Places : known[p] = Now(p)) \/ Behind(newest))'
  BY <1>2, <1>3, <1>4
<1> QED
  BY <1>1, <1>5 DEF Sound, SnapshotInv

\* The steps that change what is listed: a discovery is to follow.
LEMMA SnapshotIsBehind ==
  ASSUME ShapeInv, \A b \in 0 .. clock : Behind(b)', UNCHANGED newest,
         \A d \in Commands : began'[d] = began[d] \/ Sound(d)'
  PROVE  SnapshotInv'
<1>1. \A d \in Commands : began[d] \in 0 .. clock
  BY DEF ShapeInv, Types, Progress
<1>2. newest \in 0 .. clock
  BY DEF ShapeInv, Types
<1>3. \A d \in Commands : Sound(d)'
  BY <1>1 DEF Sound
<1> QED
  BY <1>2, <1>3 DEF SnapshotInv, Sound

\* Nothing has been read at first.
LEMMA InitSnapshot == DiscoveryInit => SnapshotInv
BY DEF DiscoveryInit, SnapshotInv, Discovering

\* What a step changes is read by a discovery that is still to come.
LEMMA SnapshotStep == ShapeInv /\ SnapshotInv /\ [DiscoveryNext]_discoveryVars => SnapshotInv'
<1> SUFFICES ASSUME ShapeInv, SnapshotInv, [DiscoveryNext]_discoveryVars,
                    alive', changes' = 0
             PROVE  SnapshotInv'
  BY DEF SnapshotInv
<1>1. alive /\ changes = 0
  BY BeforeStep
<1>2. \A b \in 0 .. clock : Behind(b) => Behind(b)'
  BY BehindStays
<1> USE <1>1, <1>2
<1>3. ASSUME NEW c \in Commands, List(c) PROVE SnapshotInv'
  <2>1. UNCHANGED <<disk, rows, known, newest, overtaken>> /\ \E next : Discover(c, next)
    BY <1>3 DEF List, Starts, order, Discover
  <2>2. \A d \in Commands : Rests(d) \/ Fresh(d)'
    BY <2>1, BegunIsFresh
  <2> QED
    BY <2>1, <2>2, SnapshotRests DEF Sound
<1>4. ASSUME NEW c \in Commands, Plan(c) PROVE SnapshotInv'
  <2>1. UNCHANGED <<disk, rows, known, newest, overtaken>> /\ \E next : Discover(c, next)
    BY <1>4 DEF Plan, Starts, order, Discover
  <2>2. \A d \in Commands : Rests(d) \/ Fresh(d)'
    BY <2>1, BegunIsFresh
  <2> QED
    BY <2>1, <2>2, SnapshotRests DEF Sound
<1>5. ASSUME NEW c \in Commands, Search(c) PROVE SnapshotInv'
  <2>1. Starts(c, "search") /\ UNCHANGED staging
    BY <1>5 DEF Search
  <2>2. CASE Goto(c, "returned") /\ known[place[c]][1] # "unlisted" /\ UNCHANGED <<discovery, order>>
    <3>1. /\ UNCHANGED <<disk, rows, known, newest, overtaken>>
          /\ \A d \in Commands : Rests(d) \/ ~Discovering(d)'
      BY <2>1, <2>2 DEF Goto, Starts, discovery, order, Rests, Discovering, ShapeInv, Types,
         DiscoveryTypeOK
    <3> QED
      BY <3>1, SnapshotRests DEF Sound
  <2>3. CASE Discover(c, "plan")
    <3>1. UNCHANGED <<disk, rows, known, newest, overtaken>> /\ \E next : Discover(c, next)
      BY <2>1, <2>3 DEF Starts, order, Discover
    <3>2. \A d \in Commands : Rests(d) \/ Fresh(d)'
      BY <3>1, BegunIsFresh
    <3> QED
      BY <3>1, <3>2, SnapshotRests DEF Sound
  <2> QED
    BY <1>5, <2>2, <2>3 DEF Search
<1>6. ASSUME NEW c \in Commands, Register(c) PROVE SnapshotInv'
  <2>1. /\ UNCHANGED <<disk, rows, known, newest, overtaken>>
        /\ \A d \in Commands : Rests(d) \/ ~Discovering(d)'
    BY <1>6 DEF Register, Goto, Starts, discovery, order, Rests, Discovering, ShapeInv, Types,
       DiscoveryTypeOK
  <2> QED
    BY <2>1, SnapshotRests DEF Sound
<1>7. ASSUME NEW c \in Commands, Forget(c) PROVE SnapshotInv'
  <2>1. /\ UNCHANGED <<disk, rows, known, newest, overtaken>>
        /\ \A d \in Commands : Rests(d) \/ ~Discovering(d)'
    BY <1>7 DEF Forget, Goto, Starts, discovery, order, Rests, Discovering, ShapeInv, Types,
       DiscoveryTypeOK
  <2> QED
    BY <2>1, SnapshotRests DEF Sound
<1>8. ASSUME NEW c \in Commands, Trash(c) PROVE SnapshotInv'
  <2>1. UNCHANGED <<disk, rows, known, newest, overtaken>> /\ \E next : Discover(c, next)
    BY <1>8 DEF Trash, Starts, order, Discover
  <2>2. \A d \in Commands : Rests(d) \/ Fresh(d)'
    BY <2>1, BegunIsFresh
  <2> QED
    BY <2>1, <2>2, SnapshotRests DEF Sound
<1>9. ASSUME NEW c \in Commands, Create(c) PROVE SnapshotInv'
  <2>1. Starts(c, "create") /\ UNCHANGED <<discovery, order>>
    BY <1>9 DEF Create
  <2>2. CASE Goto(c, "booting") /\ staging' = [staging EXCEPT ![c] = "begun"]
    <3>1. /\ UNCHANGED <<disk, rows, known, newest, overtaken>>
          /\ \A d \in Commands : Rests(d) \/ ~Discovering(d)'
      BY <2>1, <2>2 DEF Goto, Starts, discovery, order, Rests, Discovering, ShapeInv, Types,
         DiscoveryTypeOK
    <3> QED
      BY <3>1, SnapshotRests DEF Sound
  <2>3. CASE Goto(c, "failed") /\ UNCHANGED staging
    <3>1. /\ UNCHANGED <<disk, rows, known, newest, overtaken>>
          /\ \A d \in Commands : Rests(d) \/ ~Discovering(d)'
      BY <2>1, <2>3 DEF Goto, Starts, discovery, order, Rests, Discovering, ShapeInv, Types,
         DiscoveryTypeOK
    <3> QED
      BY <3>1, SnapshotRests DEF Sound
  <2> QED
    BY <1>9, <2>2, <2>3 DEF Create
<1>10. ASSUME NEW c \in Commands, AskProvider(c) PROVE SnapshotInv'
  <2>1. /\ UNCHANGED <<disk, rows, known, newest, overtaken, stage, began, saw>>
        /\ \A d \in Commands \ {c} : Rests(d)
    BY <1>10 DEF AskProvider, Merge, Stays, order, Rests, ShapeInv, Types, DiscoveryTypeOK
  <2>2. /\ stage[c] = "scanning" /\ ahead'[c] = Tail(ahead[c])
        /\ \A p \in Places : found'[c][p] =
             IF Lists(Head(ahead[c]), p) /\ Priority(Head(ahead[c])) > Priority(found[c][p])
             THEN Head(ahead[c]) ELSE found[c][p]
    BY <1>10 DEF AskProvider, Merge, ShapeInv, Types, DiscoveryTypeOK
  <2>3. PICK k \in 1 .. Len(Providers) :
          /\ Head(ahead[c]) = Providers[k] /\ Len(Providers) - Len(ahead[c]) = k - 1
          /\ Len(Providers) - Len(ahead'[c]) = k
    <3>1. ahead[c] \in Seq(Sources \ {"manual"}) /\ ahead[c] # <<>>
      BY <1>10 DEF AskProvider, ShapeInv, Types
    <3>2. Len(ahead[c]) \in Nat \ {0} /\ Len(Tail(ahead[c])) = Len(ahead[c]) - 1
          /\ Head(ahead[c]) = ahead[c][1]
      BY <3>1
    <3>3. /\ Len(ahead[c]) <= Len(Providers)
          /\ \A i \in 1 .. Len(ahead[c]) : ahead[c][i] = Providers[Len(Providers) - Len(ahead[c]) + i]
      BY <2>2 DEF ShapeInv, Progress
    <3>4. 1 \in 1 .. Len(ahead[c])
      BY <3>2
    <3>5. ahead[c][1] = Providers[Len(Providers) - Len(ahead[c]) + 1]
      BY <3>3, <3>4
    <3>6. Len(Providers) \in Nat
      BY ProviderSources
    <3>7. Len(Providers) - (Len(ahead[c]) - 1) = Len(Providers) - Len(ahead[c]) + 1
      BY <3>2, <3>6
    <3>8. /\ Len(Providers) - Len(ahead[c]) + 1 \in 1 .. Len(Providers)
          /\ Len(Providers) - Len(ahead[c]) = (Len(Providers) - Len(ahead[c]) + 1) - 1
      BY <3>2, <3>3, <3>6
    <3> QED
      BY <2>2, <3>2, <3>5, <3>7, <3>8
  <2>4. Fresh(c) => Fresh(c)'
    <3> SUFFICES ASSUME Fresh(c), NEW p \in Places PROVE Best(found[c][p], p, k)'
      BY <2>1, <2>2, <2>3 DEF Fresh
    <3>1. Best(found[c][p], p, k - 1)
      BY <2>2, <2>3 DEF Fresh
    <3>2. PICK source : source = found'[c][p]
      OBVIOUS
    <3>3. Best(source, p, k)
      BY <2>2, <2>3, <3>1, <3>2, BestOfNext
    <3>4. Best(source, p, k)'
      BY <2>1, <3>3, NowStays
    <3> QED
      BY <3>2, <3>4
  <2>5. Sound(c)'
    BY <2>1, <2>2, <2>4 DEF Sound, SnapshotInv, Discovering, ShapeInv, Types, Progress
  <2> QED
    BY <2>1, <2>5, SnapshotRests
<1>11. ASSUME NEW c \in Commands, FailProvider(c) PROVE SnapshotInv'
  BY <1>11 DEF FailProvider, ShapeInv, Types, DiscoveryTypeOK
<1>12. ASSUME NEW c \in Commands, ReadRows(c) PROVE SnapshotInv'
  <2>1. /\ UNCHANGED <<disk, rows, known, newest, overtaken, began, saw>>
        /\ \A d \in Commands \ {c} : Rests(d)
    BY <1>12 DEF ReadRows, Goto, Merge, Stays, order, Rests, ShapeInv, Types, DiscoveryTypeOK
  <2>2. /\ stage[c] = "scanning" /\ stage'[c] = "inspecting" /\ ahead[c] = <<>>
        /\ \A p \in Places : saw[c][p] = Unseen
        /\ \A p \in Places : found'[c][p] =
             IF p \in rows /\ Priority("manual") > Priority(found[c][p])
             THEN "manual" ELSE found[c][p]
    BY <1>12 DEF ReadRows, Merge, Goto, Progress, Discovering, ShapeInv, Types, DiscoveryTypeOK
  <2>3. Fresh(c) => Fresh(c)'
    <3> SUFFICES ASSUME Fresh(c), NEW p \in Places
                 PROVE  /\ p \in rows => found'[c][p] = "manual"
                        /\ p \notin rows => Best(found[c][p], p, Len(Providers))'
      BY <2>1, <2>2 DEF Fresh
    <3>1. Best(found[c][p], p, Len(Providers))
      <4>1. Len(Providers) - Len(ahead[c]) = Len(Providers)
        BY <2>2, ProviderSources
      <4> QED
        BY <2>2, <4>1 DEF Fresh
    <3>2. found[c][p] \in (Sources \ {"manual"}) \cup {"unlisted"}
      BY <3>1, ProviderSources DEF Best
    <3>3. p \in rows => found'[c][p] = "manual"
      BY <2>2, <3>2, Priorities
    <3>4. p \notin rows => Best(found[c][p], p, Len(Providers))'
      <4>1. PICK source : source = found[c][p]
        OBVIOUS
      <4>2. Best(source, p, Len(Providers))'
        BY <2>1, <3>1, <4>1, NowStays
      <4> QED
        BY <2>2, <4>1, <4>2
    <3> QED
      BY <3>3, <3>4
  <2>4. Sound(c)'
    BY <2>1, <2>2, <2>3 DEF Sound, SnapshotInv, Discovering, ShapeInv, Types, Progress
  <2> QED
    BY <2>1, <2>4, SnapshotRests
<1>13. ASSUME NEW c \in Commands, FailDiscovery(c) PROVE SnapshotInv'
  <2>1. /\ UNCHANGED <<disk, rows, known, newest, overtaken>>
        /\ \A d \in Commands : Rests(d) \/ ~Discovering(d)'
    BY <1>13 DEF FailDiscovery, Goto, Stays, discovery, order, request, Rests, Discovering,
       ShapeInv, Types, DiscoveryTypeOK
  <2> QED
    BY <2>1, SnapshotRests DEF Sound
<1>14. ASSUME NEW c \in Commands, Publish(c) PROVE SnapshotInv'
  <2>1. /\ UNCHANGED <<disk, rows, began>>
        /\ \A d \in Commands \ {c} : Rests(d)
        /\ stage[c] = "inspecting" /\ ~Discovering(c)'
    BY <1>14 DEF Publish, Goto, Stays, discovery, Rests, Discovering, ShapeInv, Types, DiscoveryTypeOK
  <2>2. /\ newest' = (IF began[c] > newest THEN began[c] ELSE newest)
        /\ ~overtaken' => ~(began[c] < newest)
        /\ \A p \in Places : known'[p] = <<found[c][p], saw[c][p]>>
        /\ \A p \in Places : found[c][p] = "unlisted" \/ saw[c][p] # Unseen
    BY <1>14 DEF Publish
  <2>3. began[c] \in 0 .. clock /\ newest \in 0 .. clock
    BY DEF ShapeInv, Types, Progress
  <2>4. ASSUME NEW d \in Commands PROVE Sound(d)'
    <3>1. CASE d = c
      BY <2>1, <3>1 DEF Sound
    <3>2. CASE d # c
      <4>1. Rests(d)
        BY <2>1, <3>2
      <4>2. Fresh(d) => Fresh(d)'
        BY <2>1, <4>1, FreshStays
      <4>3. began[d] \in 0 .. clock
        BY DEF ShapeInv, Types, Progress
      <4> QED
        BY <4>1, <4>2, <4>3 DEF Sound, SnapshotInv, Discovering, Rests
    <3> QED
      BY <3>1, <3>2
  <2>5. CASE Fresh(c)
    <3>1. ASSUME NEW p \in Places PROVE known'[p] = Now(p)
      <4>1. IF p \in rows THEN found[c][p] = "manual" ELSE Best(found[c][p], p, Len(Providers))
        BY <2>1, <2>5 DEF Fresh
      <4>2. saw[c][p] = IF found[c][p] = "unlisted" THEN Unseen ELSE ArchitectureOf(disk[p])
        BY <2>1, <2>2, <2>5 DEF Fresh, ShapeInv, Progress, Discovering
      <4> QED
        BY <2>2, <4>1, <4>2, BestIsNow
    <3>2. \A p \in Places : known'[p] = Now(p)'
      BY <2>1, <3>1, NowStays
    <3> QED
      BY <2>4, <3>2 DEF SnapshotInv, Sound
  <2>6. CASE Behind(began[c])
    <3>1. Behind(began[c])'
      BY <2>1, <2>3, <2>6
    <3>2. ~overtaken' => newest' = began'[c]
      <4>1. began[c] \in Nat /\ newest \in Nat
        BY <2>3 DEF ShapeInv, Types
      <4> QED
        BY <2>1, <2>2, <4>1
    <3> QED
      BY <2>1, <2>4, <3>1, <3>2 DEF SnapshotInv, Sound
  <2> QED
    BY <2>1, <2>5, <2>6 DEF SnapshotInv, Discovering
<1>15. ASSUME NEW c \in Commands, NEW p \in Places, Inspect(c, p) PROVE SnapshotInv'
  <2>1. /\ UNCHANGED <<disk, rows, known, newest, overtaken, stage, ahead, found, began>>
        /\ \A d \in Commands \ {c} : Rests(d)
        /\ stage[c] = "inspecting" /\ saw'[c] = [saw[c] EXCEPT ![p] = ArchitectureOf(disk[p])]
    BY <1>15 DEF Inspect, Stays, order, Rests, ShapeInv, Types, DiscoveryTypeOK
  <2>2. \A q \in Places : saw'[c][q] \in {saw[c][q], ArchitectureOf(disk[q])}
    BY <2>1 DEF ShapeInv, Types, DiscoveryTypeOK
  <2>3. Fresh(c) => Fresh(c)'
    BY <2>1, <2>2, NowStays DEF Fresh, ArchitectureOf
  <2>4. Sound(c)'
    BY <2>1, <2>3 DEF Sound, SnapshotInv, Discovering, ShapeInv, Types, Progress
  <2> QED
    BY <2>1, <2>4, SnapshotRests
<1>16. ASSUME NEW c \in Commands, Boot(c) PROVE SnapshotInv'
  <2>1. stage[c] = "booting" /\ Stays /\ UNCHANGED <<rows, unread>>
    BY <1>16 DEF Boot, GiveUpCreation
  <2>2. CASE GiveUpCreation(c)
    <3>1. /\ UNCHANGED <<disk, rows, known, newest, overtaken>>
          /\ \A d \in Commands : Rests(d) \/ ~Discovering(d)'
      BY <2>1, <2>2 DEF GiveUpCreation, Stays, Proceeds, Goto, discovery, order, request,
         Rests, Discovering, ShapeInv, Types, DiscoveryTypeOK
    <3> QED
      BY <3>1, SnapshotRests DEF Sound
  <2>3. CASE Proceeds(c, "booted") /\ \E a \in Initialized : staging' = [staging EXCEPT ![c] = a]
    <3>1. /\ UNCHANGED <<disk, rows, known, newest, overtaken>>
          /\ \A d \in Commands : Rests(d) \/ ~Discovering(d)'
      BY <2>1, <2>3 DEF Proceeds, Stays, Goto, discovery, order, request, Rests,
         Discovering, ShapeInv, Types, DiscoveryTypeOK
    <3> QED
      BY <3>1, SnapshotRests DEF Sound
  <2> QED
    BY <1>16, <2>2, <2>3 DEF Boot
<1>17. ASSUME NEW c \in Commands, LookAtTarget(c) PROVE SnapshotInv'
  <2>1. /\ UNCHANGED <<disk, rows, known, newest, overtaken>>
        /\ \A d \in Commands : Rests(d) \/ ~Discovering(d)'
    BY <1>17 DEF LookAtTarget, Proceeds, Stays, Goto, discovery, order, request, Rests,
       Discovering, ShapeInv, Types, DiscoveryTypeOK
  <2> QED
    BY <2>1, SnapshotRests DEF Sound
<1>18. ASSUME NEW c \in Commands, ClearTarget(c) PROVE SnapshotInv'
  <2>1. stage[c] = "clearing"
    BY <1>18 DEF ClearTarget
  <2>2. CASE Becomes(place[c], "missing") /\ Proceeds(c, "renaming") /\ UNCHANGED <<rows, staging, unread>>
             /\ disk[place[c]] = "empty"
    <3>1. UNCHANGED <<began, newest>> /\ Owing(c)'
      BY <2>1, <2>2 DEF Becomes, Proceeds, Goto, order, request, discovery, Owing, Purpose,
         ShapeInv, Types, DiscoveryTypeOK
    <3>2. \A b \in 0 .. clock : Behind(b)'
      BY <3>1 DEF Behind
    <3> QED
      BY <3>1, <3>2, SnapshotIsBehind
  <2>3. CASE GiveUpCreation(c)
    <3>1. /\ UNCHANGED <<disk, rows, known, newest, overtaken>>
          /\ \A d \in Commands : Rests(d) \/ ~Discovering(d)'
      BY <2>1, <2>3 DEF GiveUpCreation, Proceeds, Stays, Goto, discovery, order, request,
         Rests, Discovering, ShapeInv, Types, DiscoveryTypeOK
    <3> QED
      BY <3>1, SnapshotRests DEF Sound
  <2> QED
    BY <1>18, <2>2, <2>3 DEF ClearTarget
<1>19. ASSUME NEW c \in Commands, RenameStaging(c) PROVE SnapshotInv'
  <2>1. stage[c] = "renaming"
    BY <1>19 DEF RenameStaging
  <2>2. CASE Becomes(place[c], staging[c]) /\ staging' = [staging EXCEPT ![c] = "missing"]
             /\ Proceeds(c, "registering") /\ UNCHANGED <<rows, unread>>
             /\ disk[place[c]] \in {"missing", "empty"}
    <3>1. UNCHANGED <<began, newest>> /\ Owing(c)'
      BY <2>1, <2>2 DEF Becomes, Proceeds, Goto, order, request, discovery, Owing, Purpose,
         ShapeInv, Types, DiscoveryTypeOK
    <3>2. \A b \in 0 .. clock : Behind(b)'
      BY <3>1 DEF Behind
    <3> QED
      BY <3>1, <3>2, SnapshotIsBehind
  <2>3. CASE GiveUpCreation(c) /\ disk[place[c]] \notin {"missing", "empty"}
    <3>1. /\ UNCHANGED <<disk, rows, known, newest, overtaken>>
          /\ \A d \in Commands : Rests(d) \/ ~Discovering(d)'
      BY <2>1, <2>3 DEF GiveUpCreation, Proceeds, Stays, Goto, discovery, order, request,
         Rests, Discovering, ShapeInv, Types, DiscoveryTypeOK
    <3> QED
      BY <3>1, SnapshotRests DEF Sound
  <2> QED
    BY <1>19, <2>2, <2>3 DEF RenameStaging
<1>20. ASSUME NEW c \in Commands, InsertRow(c) PROVE SnapshotInv'
  <2>1. Discover(c, "return") /\ UNCHANGED command /\ command[c] # "list"
    BY <1>20 DEF InsertRow, request, Purpose, ShapeInv
  <2>2. /\ Fresh(c)' /\ began'[c] = clock + 1 /\ after'[c] = "return" /\ stage'[c] = "scanning"
        /\ \A d \in Commands \ {c} : began'[d] = began[d]
    BY <2>1, BegunIsFresh DEF Rests
  <2>3. UNCHANGED newest
    BY <2>1 DEF Discover
  <2>4. ASSUME NEW b \in 0 .. clock PROVE Behind(b)'
    <3>1. began'[c] > b
      BY <2>2 DEF ShapeInv, Types
    <3> QED
      BY <2>1, <2>2, <3>1 DEF Behind, Discovering
  <2> QED
    BY <2>2, <2>3, <2>4, SnapshotIsBehind DEF Sound
<1>21. ASSUME NEW c \in Commands, InsertFails(c) PROVE SnapshotInv'
  <2>1. /\ UNCHANGED <<disk, rows, known, newest, overtaken>>
        /\ \A d \in Commands : Rests(d) \/ ~Discovering(d)'
    BY <1>21 DEF InsertFails, Proceeds, Stays, Goto, discovery, order, request, Rests,
       Discovering, ShapeInv, Types, DiscoveryTypeOK
  <2> QED
    BY <2>1, SnapshotRests DEF Sound
<1>22. ASSUME NEW c \in Commands, DeleteRow(c) PROVE SnapshotInv'
  <2>1. Discover(c, "return") /\ UNCHANGED command /\ command[c] # "list"
    BY <1>22 DEF DeleteRow, request, Purpose, ShapeInv
  <2>2. /\ Fresh(c)' /\ began'[c] = clock + 1 /\ after'[c] = "return" /\ stage'[c] = "scanning"
        /\ \A d \in Commands \ {c} : began'[d] = began[d]
    BY <2>1, BegunIsFresh DEF Rests
  <2>3. UNCHANGED newest
    BY <2>1 DEF Discover
  <2>4. ASSUME NEW b \in 0 .. clock PROVE Behind(b)'
    <3>1. began'[c] > b
      BY <2>2 DEF ShapeInv, Types
    <3> QED
      BY <2>1, <2>2, <3>1 DEF Behind, Discovering
  <2> QED
    BY <2>2, <2>3, <2>4, SnapshotIsBehind DEF Sound
<1>23. ASSUME NEW c \in Commands, DeleteFails(c) PROVE SnapshotInv'
  <2>1. stage[c] = "forgetting" /\ Stays /\ UNCHANGED <<rows, known, request, staging, alive, changes, unread>>
    BY <1>23 DEF DeleteFails
  <2>2. CASE Discover(c, "return") /\ command[c] = "trash"
    <3>1. UNCHANGED <<disk, rows, known, newest, overtaken>> /\ \E next : Discover(c, next)
      BY <2>1, <2>2 DEF Stays, request, Discover
    <3>2. \A d \in Commands : Rests(d) \/ Fresh(d)'
      BY <3>1, BegunIsFresh
    <3> QED
      BY <3>1, <3>2, SnapshotRests DEF Sound
  <2>3. CASE Goto(c, "failed") /\ command[c] # "trash" /\ UNCHANGED <<discovery, order>>
    <3>1. /\ UNCHANGED <<disk, rows, known, newest, overtaken>>
          /\ \A d \in Commands : Rests(d) \/ ~Discovering(d)'
      BY <2>1, <2>3 DEF Goto, Stays, discovery, order, request, Rests, Discovering,
         ShapeInv, Types, DiscoveryTypeOK
    <3> QED
      BY <3>1, SnapshotRests DEF Sound
  <2> QED
    BY <1>23, <2>2, <2>3 DEF DeleteFails
<1>24. ASSUME NEW c \in Commands, Confirm(c) PROVE SnapshotInv'
  <2>1. stage[c] = "confirming" /\ Stays /\ UNCHANGED <<rows, staging, unread>>
    BY <1>24 DEF Confirm
  <2>2. CASE Proceeds(c, "trashing") /\ disk[place[c]] \in Initialized
    <3>1. /\ UNCHANGED <<disk, rows, known, newest, overtaken>>
          /\ \A d \in Commands : Rests(d) \/ ~Discovering(d)'
      BY <2>1, <2>2 DEF Proceeds, Stays, Goto, discovery, order, request, Rests,
         Discovering, ShapeInv, Types, DiscoveryTypeOK
    <3> QED
      BY <3>1, SnapshotRests DEF Sound
  <2>3. CASE Proceeds(c, "failed")
    <3>1. /\ UNCHANGED <<disk, rows, known, newest, overtaken>>
          /\ \A d \in Commands : Rests(d) \/ ~Discovering(d)'
      BY <2>1, <2>3 DEF Proceeds, Stays, Goto, discovery, order, request, Rests,
         Discovering, ShapeInv, Types, DiscoveryTypeOK
    <3> QED
      BY <3>1, SnapshotRests DEF Sound
  <2> QED
    BY <1>24, <2>2, <2>3 DEF Confirm
<1>25. ASSUME NEW c \in Commands, MoveToTrash(c) PROVE SnapshotInv'
  <2>1. stage[c] = "trashing" /\ UNCHANGED <<rows, staging, unread>>
    BY <1>25 DEF MoveToTrash
  <2>2. CASE Becomes(place[c], "missing") /\ Proceeds(c, "forgetting")
    <3>1. UNCHANGED <<began, newest>> /\ Owing(c)'
      BY <2>1, <2>2 DEF Becomes, Proceeds, Goto, order, request, discovery, Owing, Purpose,
         ShapeInv, Types, DiscoveryTypeOK
    <3>2. \A b \in 0 .. clock : Behind(b)'
      BY <3>1 DEF Behind
    <3> QED
      BY <3>1, <3>2, SnapshotIsBehind
  <2>3. CASE Stays /\ Proceeds(c, "failed")
    <3>1. /\ UNCHANGED <<disk, rows, known, newest, overtaken>>
          /\ \A d \in Commands : Rests(d) \/ ~Discovering(d)'
      BY <2>1, <2>3 DEF Proceeds, Stays, Goto, discovery, order, request, Rests,
         Discovering, ShapeInv, Types, DiscoveryTypeOK
    <3> QED
      BY <3>1, SnapshotRests DEF Sound
  <2> QED
    BY <1>25, <2>2, <2>3 DEF MoveToTrash
<1>26. ASSUME NEW p \in Places, ChangeDisk(p) PROVE SnapshotInv'
  BY <1>26 DEF ChangeDisk, ShapeInv, Types, DiscoveryTypeOK
<1>27. ASSUME Quit PROVE SnapshotInv'
  BY <1>27 DEF Quit
<1>28. ASSUME UNCHANGED discoveryVars PROVE SnapshotInv'
  BY <1>28, SnapshotRests DEF discoveryVars, world, discovery, order, Rests
<1> QED
  BY <1>3, <1>4, <1>5, <1>6, <1>7, <1>8, <1>9, <1>10, <1>11, <1>12, <1>13, <1>14, <1>15,
     <1>16, <1>17, <1>18, <1>19, <1>20, <1>21, <1>22, <1>23, <1>24, <1>25, <1>26, <1>27,
     <1>28 DEF DiscoveryNext, Begin, Continue

\* A plan says what was true since it was asked for, what was created or registered is
\* listed, a command that returned leaves no staged prefix and a failed one only what it
\* could not remove, and once all have returned the snapshot agrees with the disk, for any number of commands, places and providers
\* (prefix.rs 60-139, lib.rs 138-352, 555-583).
THEOREM CallsAreTrue == DiscoverySpec => []CallsKeepTheirWord
<1>1. ASSUME ShapeInv, TruthInv, SnapshotInv PROVE CallsKeepTheirWord
  <2>1. ASSUME NEW c \in Commands, stage[c] = "returned"
        PROVE  /\ command[c] = "plan" => saw[c][place[c]] \in during[c]
               /\ command[c] \in {"create", "register"} =>
                    \/ found[c][place[c]] = "manual" /\ saw[c][place[c]] \in during[c]
                    \/ Removed(place[c])
    BY <1>1, <2>1 DEF TruthInv, Truthful
  <2>2. \A c \in Commands : staging[c] # "missing" =>
          \/ stage[c] \in {"booting", "booted", "clearing", "renaming", "dead"}
          \/ stage[c] = "failed" /\ staging[c] = "left"
    BY <1>1 DEF ShapeInv, Purpose
  <2>3. ASSUME alive, newest > 0, ~overtaken, ~unread, changes = 0,
               \A c \in Commands : ~Active(c)
        PROVE  \A p \in Places : known[p] = Now(p)
    <3>1. \A c \in Commands : ~Owing(c) /\ ~Discovering(c)
      BY <2>3 DEF Active, Over, Owing, Discovering
    <3>2. newest \in Nat
      BY <1>1 DEF ShapeInv, Types
    <3>3. ~Behind(newest)
      BY <2>3, <3>1, <3>2 DEF Behind
    <3> QED
      BY <1>1, <2>3, <3>3 DEF SnapshotInv
  <2> QED
    BY <2>1, <2>2, <2>3 DEF CallsKeepTheirWord, Removed
<1> QED
  BY InitShape, ShapeStep, InitTruth, TruthStep, InitSnapshot, SnapshotStep, <1>1, PTL
     DEF DiscoverySpec

-----------------------------------------------------------------------------
(* The inductive invariant of the window.                                  *)

Rows == [Operations -> States \cup {"none"}]

Works == {"none", "sent", "planned", "asking", "waiting", "resumed", "ending", "over",
          "elsewhere"}

\* What a call may be.
Call == [kind   : {"none", "load", "refresh", "clear"}, phase : {"sent", "deleted", "read"},
         rows   : {<<>>} \cup Rows,
         drawer : Operations \cup {Nothing}]

Answers ==
  /\ ask \in [Requests -> Call]
  /\ \A q \in Pending : ask[q].rows \in Rows
  /\ \A q, r : <<q, r>> \in earlier => <<r, q>> \notin earlier

\* A sequence without repetitions.
Once(seq) == \A i, j \in 1 .. Len(seq) : seq[i] = seq[j] => i = j

\* What is on its way was emitted, and is on its way once.
Events ==
  /\ emitted \in [Operations -> Seq(States)] /\ wire \in Seq(Operations \X Nat)
  /\ shown \in [Operations -> SUBSET Nat]
  /\ \A e \in ToSet(wire) : e[2] \in 1 .. Len(emitted[e[1]])
  /\ Once(wire)

\* What was emitted of an operation, by where the engine is with it.
Announced(o) ==
  /\ work[o] \in {"none", "sent", "elsewhere"} => emitted[o] = <<>>
  /\ work[o] = "ending" => Len(emitted[o]) > 0 /\ emitted[o][Len(emitted[o])] = "ended"
  /\ \A n \in 1 .. Len(emitted[o]) : emitted[o][n] = "ended" => work[o] \in {"ending", "over"}

WindowInv ==
  /\ FeedTypeOK /\ Answers /\ Events
  /\ listening \in BOOLEAN /\ outdated \in BOOLEAN
  /\ \A o \in Operations : Announced(o)

\* An operation that has the drawer or will get it: what was heard of it is shown.
Heard(o) ==
  o \in ({active} \cup starting) \ lost => shown[o] = (1 .. Len(emitted[o])) \ OnTheWay(o)

\* An operation that is not through has the drawer, will get it or lost it.
Attended(o) ==
  /\ work[o] \in {"sent", "planned", "asking", "waiting", "resumed"}
  /\ o \notin starting \cup orphaned
  => active = o

DrawerInv == \A o \in Operations : Heard(o) /\ Attended(o)

\* It has a record that is not its last.
Underway(o) == work[o] \in {"planned", "asking", "waiting", "resumed", "ending"}

\* The record will be read again, or somebody could know that it will not.
Due(o) == o \in unseen \/ ReadingDue \/ Underway(o)

\* The answer that read last has the record as it is.
Coming(q, o) ==
  /\ q \in Pending \ late /\ ask[q].rows[o] = table[o]
  /\ \A r \in Pending \ {q} : <<r, q>> \in earlier

Watched(o) ==
  \/ Due(o)
  \/ \E q \in Requests : Coming(q, o)
  \/ Pending \subseteq late /\ (data = <<>> \/ data[o] = table[o] \/ outdated)

WatchInv == \A o \in Operations : Watched(o)

-----------------------------------------------------------------------------
(* Events on their way.                                                    *)

LEMMA Appended ==
  ASSUME NEW S, NEW seq \in Seq(S), NEW x \in S
  PROVE  /\ Append(seq, x) \in Seq(S) /\ Len(Append(seq, x)) = Len(seq) + 1 /\ Len(seq) \in Nat
         /\ Append(seq, x)[Len(seq) + 1] = x
         /\ \A i \in 1 .. Len(seq) : Append(seq, x)[i] = seq[i]
OBVIOUS

LEMMA Followed ==
  ASSUME NEW S, NEW seq \in Seq(S), NEW x \in S \ ToSet(seq), Once(seq)
  PROVE  /\ Append(seq, x) \in Seq(S) /\ ToSet(Append(seq, x)) = ToSet(seq) \cup {x}
         /\ Once(Append(seq, x))
<1>1. /\ Append(seq, x) \in Seq(S) /\ Len(Append(seq, x)) = Len(seq) + 1 /\ Len(seq) \in Nat
      /\ Append(seq, x)[Len(seq) + 1] = x
      /\ \A i \in 1 .. Len(seq) : Append(seq, x)[i] = seq[i]
  BY Appended
<1>2. /\ DOMAIN seq = 1 .. Len(seq)
      /\ DOMAIN Append(seq, x) = 1 .. Len(seq) + 1
  BY <1>1
<1>3. \A i : i \in 1 .. Len(seq) + 1 <=> i \in 1 .. Len(seq) \/ i = Len(seq) + 1
  BY <1>1
<1>4. ToSet(Append(seq, x)) = ToSet(seq) \cup {x}
  BY <1>1, <1>2, <1>3 DEF ToSet
<1>5. \A i \in 1 .. Len(seq) : seq[i] # x
  BY <1>2 DEF ToSet
<1>6. Once(Append(seq, x))
  BY <1>1, <1>3, <1>5 DEF Once
<1> QED
  BY <1>1, <1>4, <1>6

LEMMA Beheaded ==
  ASSUME NEW S, NEW seq \in Seq(S), seq # <<>>, Once(seq)
  PROVE  /\ Tail(seq) \in Seq(S) /\ Once(Tail(seq)) /\ Head(seq) \in ToSet(seq)
         /\ ToSet(Tail(seq)) = ToSet(seq) \ {Head(seq)}
<1>1. /\ Tail(seq) \in Seq(S) /\ Len(seq) \in Nat \ {0} /\ Len(Tail(seq)) = Len(seq) - 1
      /\ Head(seq) = seq[1]
      /\ \A i \in 1 .. Len(seq) - 1 : Tail(seq)[i] = seq[i + 1]
  OBVIOUS
<1>2. DOMAIN seq = 1 .. Len(seq) /\ DOMAIN Tail(seq) = 1 .. Len(seq) - 1
  BY <1>1
<1>3. \A i \in 1 .. Len(seq) - 1 : i + 1 \in 1 .. Len(seq) /\ i + 1 # 1
  BY <1>1
<1>4. \A i \in 1 .. Len(seq) : i = 1 \/ (i - 1 \in 1 .. Len(seq) - 1 /\ (i - 1) + 1 = i)
  BY <1>1
<1>5. 1 \in 1 .. Len(seq)
  BY <1>1
<1>6. ToSet(Tail(seq)) = ToSet(seq) \ {Head(seq)}
  <2>1. ASSUME NEW x \in ToSet(Tail(seq)) PROVE x \in ToSet(seq) \ {Head(seq)}
    <3>1. PICK i \in 1 .. Len(seq) - 1 : x = Tail(seq)[i]
      BY <1>2 DEF ToSet
    <3>2. x = seq[i + 1] /\ i + 1 \in 1 .. Len(seq) /\ i + 1 # 1
      BY <1>1, <1>3, <3>1
    <3> QED
      BY <1>1, <1>2, <1>5, <3>2 DEF Once, ToSet
  <2>2. ASSUME NEW x \in ToSet(seq) \ {Head(seq)} PROVE x \in ToSet(Tail(seq))
    <3>1. PICK i \in 1 .. Len(seq) : x = seq[i]
      BY <1>2 DEF ToSet
    <3>2. i - 1 \in 1 .. Len(seq) - 1 /\ (i - 1) + 1 = i
      BY <1>1, <1>4, <3>1
    <3>3. x = Tail(seq)[i - 1]
      BY <1>1, <3>1, <3>2
    <3> QED
      BY <1>2, <3>2, <3>3 DEF ToSet
  <2> QED
    BY <2>1, <2>2
<1>7. Once(Tail(seq))
  <2> SUFFICES ASSUME NEW i \in 1 .. Len(seq) - 1, NEW j \in 1 .. Len(seq) - 1,
                      Tail(seq)[i] = Tail(seq)[j]
               PROVE  i = j
    BY <1>1 DEF Once
  <2>1. i + 1 = j + 1
    BY <1>1, <1>3 DEF Once
  <2> QED
    BY <1>1, <2>1
<1> QED
  BY <1>1, <1>2, <1>5, <1>6, <1>7 DEF ToSet

\* A new event is the last one of its operation, and nobody has it yet.
LEMMA EmitStep ==
  ASSUME WindowInv, NEW o \in Operations, NEW state \in States, Emit(o, state), UNCHANGED shown
  PROVE  /\ Events' /\ Len(emitted[o]) \in Nat /\ Len(emitted'[o]) = Len(emitted[o]) + 1
         /\ emitted'[o][Len(emitted[o]) + 1] = state
         /\ \A n \in 1 .. Len(emitted[o]) : emitted'[o][n] = emitted[o][n]
         /\ \A p \in Operations \ {o} : emitted'[p] = emitted[p] /\ OnTheWay(p)' = OnTheWay(p)
         /\ o \notin lost' => OnTheWay(o)' = OnTheWay(o) \cup {Len(emitted[o]) + 1}
         /\ lost \subseteq lost' /\ lost' \subseteq Operations
         /\ shown[o] \subseteq 1 .. Len(emitted[o])
         /\ \A x \in ToSet(wire) : x \in ToSet(wire') /\ emitted'[x[1]][x[2]] = emitted[x[1]][x[2]]
<1> DEFINE n == Len(emitted[o]) + 1
           e == <<o, n>>
<1>1. emitted \in [Operations -> Seq(States)] /\ wire \in Seq(Operations \X Nat) /\ Once(wire)
  BY DEF WindowInv, Events
<1>2. /\ emitted' \in [Operations -> Seq(States)] /\ Len(emitted[o]) \in Nat
      /\ Len(emitted'[o]) = n /\ emitted'[o][n] = state
      /\ \A k \in 1 .. Len(emitted[o]) : emitted'[o][k] = emitted[o][k]
      /\ \A p \in Operations \ {o} : emitted'[p] = emitted[p]
  <2>1. emitted' = [emitted EXCEPT ![o] = Append(emitted[o], state)] /\ emitted[o] \in Seq(States)
    BY <1>1 DEF Emit
  <2>2. emitted'[o] = Append(emitted[o], state)
    BY <1>1, <2>1
  <2>3. emitted'[o] \in Seq(States) /\ \A p \in Operations \ {o} : emitted'[p] = emitted[p]
    BY <1>1, <2>1, <2>2, Appended
  <2> QED
    BY <1>1, <2>1, <2>2, <2>3, Appended
<1>3. \A p \in Operations : Len(emitted[p]) \in Nat /\ Len(emitted'[p]) \in Nat
  BY <1>1, <1>2
<1>4. lost \subseteq lost' /\ lost' \subseteq Operations /\ shown[o] \subseteq 1 .. Len(emitted[o])
  BY DEF Emit, WindowInv, FeedTypeOK
<1>5. \A p, k : <<p, k>> \in ToSet(wire) => k \in 1 .. Len(emitted[p])
  BY DEF WindowInv, Events
<1>6. \A x \in ToSet(wire) : x[1] \in Operations /\ x = <<x[1], x[2]>> /\ x[2] \in 1 .. Len(emitted[x[1]])
  <2> SUFFICES ASSUME NEW x \in ToSet(wire)
               PROVE  x[1] \in Operations /\ x = <<x[1], x[2]>> /\ x[2] \in 1 .. Len(emitted[x[1]])
    OBVIOUS
  <2>1. DOMAIN wire = 1 .. Len(wire) /\ \A i \in 1 .. Len(wire) : wire[i] \in Operations \X Nat
    BY <1>1
  <2>2. x \in Operations \X Nat
    BY <2>1 DEF ToSet
  <2>3. x[2] \in 1 .. Len(emitted[x[1]])
    BY DEF WindowInv, Events
  <2> QED
    BY <2>2, <2>3
<1>7. e \notin ToSet(wire) /\ e \in Operations \X Nat
  <2>1. n \notin 1 .. Len(emitted[o]) /\ n \in Nat
    BY <1>3
  <2> QED
    BY <1>5, <2>1
<1>8. shown' \in [Operations -> SUBSET Nat]
  BY DEF WindowInv, Events
<1>9. \A p \in Operations : \A k \in 1 .. Len(emitted[p]) : k \in 1 .. Len(emitted'[p])
  BY <1>2, <1>3
<1>10. \A x \in ToSet(wire) : emitted'[x[1]][x[2]] = emitted[x[1]][x[2]]
  BY <1>2, <1>6
<1>11. CASE listening
  <2>1. wire' = Append(wire, e)
    BY <1>11 DEF Emit
  <2>2. wire' \in Seq(Operations \X Nat) /\ ToSet(wire') = ToSet(wire) \cup {e} /\ Once(wire')
    <3>1. e \in (Operations \X Nat) \ ToSet(wire)
      BY <1>7
    <3> HIDE DEF e
    <3> QED
      BY <1>1, <2>1, <3>1, Followed
  <2>3. ASSUME NEW x \in ToSet(wire') PROVE x[2] \in 1 .. Len(emitted'[x[1]])
    <3>1. n \in 1 .. Len(emitted'[o])
      BY <1>2, <1>3
    <3> QED
      BY <1>6, <1>9, <2>2, <3>1
  <2>4. Events'
    BY <1>2, <1>8, <2>2, <2>3 DEF Events
  <2>5. ASSUME NEW p \in Operations \ {o} PROVE OnTheWay(p)' = OnTheWay(p)
    BY <1>2, <2>2 DEF OnTheWay
  <2>6. \A k : k \in 1 .. Len(emitted'[o]) <=> k \in 1 .. Len(emitted[o]) \/ k = n
    BY <1>2
  <2>7. OnTheWay(o)' = OnTheWay(o) \cup {n}
    BY <1>5, <2>2, <2>6 DEF OnTheWay
  <2> QED
    BY <1>2, <1>4, <1>10, <2>2, <2>4, <2>5, <2>7
<1>12. CASE ~listening
  <2>1. wire' = wire /\ o \in lost'
    BY <1>12 DEF Emit
  <2>2. Events'
    BY <1>1, <1>2, <1>6, <1>8, <1>9, <2>1 DEF Events
  <2>3. \A p \in Operations \ {o} : OnTheWay(p)' = OnTheWay(p)
    BY <1>2, <2>1 DEF OnTheWay
  <2> QED
    BY <1>2, <1>4, <1>10, <2>1, <2>2, <2>3
<1> QED
  BY <1>11, <1>12

\* The event that is heard is on its way no longer.
LEMMA HearStep ==
  ASSUME WindowInv, Hear
  PROVE  \E o \in Operations : \E n \in 1 .. Len(emitted[o]) :
           /\ Events' /\ <<o, n>> \in ToSet(wire) /\ ToSet(wire') = ToSet(wire) \ {<<o, n>>}
           /\ shown' = [shown EXCEPT ![o] = @ \cup {n}]
           /\ IF emitted[o][n] = "ended" THEN \E q \in Requests : Send(q, "refresh")
                                         ELSE UNCHANGED ask
<1>1. /\ emitted \in [Operations -> Seq(States)] /\ wire \in Seq(Operations \X Nat) /\ Once(wire)
      /\ wire # <<>> /\ wire' = Tail(wire) /\ UNCHANGED emitted
  BY DEF WindowInv, Events, Hear, engine
<1>2. /\ wire' \in Seq(Operations \X Nat) /\ Once(wire') /\ Head(wire) \in ToSet(wire)
      /\ ToSet(wire') = ToSet(wire) \ {Head(wire)}
  BY <1>1, Beheaded
<1>3. Head(wire) \in Operations \X Nat
  BY <1>1
<1>4. PICK o \in Operations, n \in Nat : Head(wire) = <<o, n>>
  BY <1>3
<1>5. /\ <<o, n>> \in ToSet(wire) /\ n \in 1 .. Len(emitted[o])
      /\ ToSet(wire') = ToSet(wire) \ {<<o, n>>}
  <2>1. <<o, n>> \in ToSet(wire) /\ ToSet(wire') = ToSet(wire) \ {<<o, n>>}
    BY <1>2, <1>4
  <2>2. \A e \in ToSet(wire) : e[2] \in 1 .. Len(emitted[e[1]])
    BY DEF WindowInv, Events
  <2> QED
    BY <2>1, <2>2
<1>6. /\ shown' = [shown EXCEPT ![o] = shown[o] \cup {n}]
      /\ IF emitted[o][n] = "ended" THEN \E q \in Requests : Send(q, "refresh")
                                    ELSE UNCHANGED ask
  <2>1. Head(wire)[1] = o /\ Head(wire)[2] = n
    BY <1>4
  <2>2. /\ shown' = [shown EXCEPT ![Head(wire)[1]] = shown[Head(wire)[1]] \cup {Head(wire)[2]}]
        /\ IF emitted[Head(wire)[1]][Head(wire)[2]] = "ended"
           THEN \E q \in Requests : Send(q, "refresh") ELSE UNCHANGED ask
    BY DEF Hear
  <2> QED
    BY <2>1, <2>2
<1>7. Events'
  BY <1>1, <1>2, <1>6 DEF WindowInv, Events
<1> QED
  BY <1>5, <1>6, <1>7

-----------------------------------------------------------------------------
(* What the window has, and what is on its way to it.                      *)

\* Events stay in order on their way.
LEMMA EventsStep == WindowInv /\ [FeedNext]_feedVars => Events'
<1> SUFFICES ASSUME WindowInv, [FeedNext]_feedVars
             PROVE  Events'
  OBVIOUS
<1> USE FeedAssumption
<1>1. ASSUME NEW o \in Operations, Accept(o) PROVE Events'
  BY <1>1 DEF Accept, WindowInv, Events, engine, window
<1>2. ASSUME NEW o \in Operations, RefuseStart(o) PROVE Events'
  BY <1>2 DEF RefuseStart, WindowInv, Events, engine, window
<1>3. ASSUME NEW o \in Operations, RecordPrompt(o) PROVE Events'
  BY <1>3 DEF RecordPrompt, WindowInv, Events, engine, window
<1>4. ASSUME NEW o \in Operations, EmitPrompt(o) PROVE Events'
  <2>1. Emit(o, "waiting") /\ UNCHANGED shown /\ "waiting" \in States
    BY <1>4 DEF EmitPrompt, window, States
  <2> QED
    BY <2>1, EmitStep
<1>5. ASSUME NEW o \in Operations, EmitEnd(o) PROVE Events'
  <2>1. Emit(o, "ended") /\ UNCHANGED shown /\ "ended" \in States
    BY <1>5 DEF EmitEnd, window, States
  <2> QED
    BY <2>1, EmitStep
<1>6. ASSUME NEW o \in Operations, RecordEnd(o) PROVE Events'
  BY <1>6 DEF RecordEnd, WindowInv, Events, engine, window
<1>7. ASSUME NEW o \in Operations, Abandon(o) PROVE Events'
  BY <1>7 DEF Abandon, WindowInv, Events, engine, window
<1>8. ASSUME NEW o \in Operations, RunElsewhere(o) PROVE Events'
  BY <1>8 DEF RunElsewhere, WindowInv, Events, engine, window
<1>9. ASSUME NEW o \in Operations, AskStart(o) PROVE Events'
  BY <1>9 DEF AskStart, WindowInv, Events, engine, window
<1>10. ASSUME NEW o \in Operations, Started(o) PROVE Events'
  <2>1. shown' \in [Operations -> SUBSET Nat] /\ UNCHANGED <<emitted, wire>>
    BY <1>10 DEF Started, WindowInv, Events, engine
  <2> QED
    BY <2>1 DEF WindowInv, Events
<1>11. ASSUME NEW q \in Requests, Read(q) PROVE Events'
  BY <1>11 DEF Read, WindowInv, Events, engine, window
<1>12. ASSUME NEW q \in Requests, FailRequest(q) PROVE Events'
  BY <1>12 DEF FailRequest, WindowInv, Events, engine, window
<1>13. ASSUME NEW q \in Requests, Delete(q) PROVE Events'
  BY <1>13 DEF Delete, WindowInv, Events, engine, window
<1>14. ASSUME NEW q \in Requests, Receive(q) PROVE Events'
  <2>1. shown' \in [Operations -> SUBSET Nat] /\ UNCHANGED <<emitted, wire>>
    BY <1>14 DEF Receive, FilterEvents, WindowInv, Events, engine
  <2> QED
    BY <2>1 DEF WindowInv, Events
<1>15. ASSUME ClearElsewhere PROVE Events'
  BY <1>15 DEF ClearElsewhere, WindowInv, Events, engine, window
<1>16. ASSUME Listen PROVE Events'
  BY <1>16 DEF Listen, WindowInv, Events, engine, window
<1>17. ASSUME Hear PROVE Events'
  BY <1>17, HearStep
<1>18. ASSUME RefreshView PROVE Events'
  BY <1>18 DEF RefreshView, WindowInv, Events, engine, window
<1>19. ASSUME AnswerPrompt PROVE Events'
  BY <1>19 DEF AnswerPrompt, WindowInv, Events, engine, window
<1>20. ASSUME CloseDrawer PROVE Events'
  BY <1>20 DEF CloseDrawer, WindowInv, Events, engine, window
<1>21. ASSUME AskClear PROVE Events'
  BY <1>21 DEF AskClear, WindowInv, Events, engine, window
<1>22. ASSUME Reload PROVE Events'
  <2>1. shown' \in [Operations -> SUBSET Nat] /\ UNCHANGED emitted /\ wire' = <<>>
    BY <1>22 DEF Reload, engine
  <2>2. /\ wire' \in Seq(Operations \X Nat) /\ ToSet(wire') = {} /\ Once(wire')
    BY <2>1 DEF ToSet, Once
  <2> QED
    BY <2>1, <2>2 DEF WindowInv, Events
<1>23. ASSUME UNCHANGED feedVars PROVE Events'
  BY <1>23 DEF feedVars, engine, window, WindowInv, Events
<1> QED
  BY <1>1, <1>2, <1>3, <1>4, <1>5, <1>6, <1>7, <1>8, <1>9, <1>10, <1>11, <1>12, <1>13,
     <1>14, <1>15, <1>16, <1>17, <1>18, <1>19, <1>20, <1>21, <1>22, <1>23 DEF FeedNext

\* A request that is sent has not read.
LEMMA SendStep ==
  ASSUME WindowInv, NEW q \in Requests, NEW kind \in {"load", "refresh", "clear"}, Send(q, kind),
         UNCHANGED <<earlier, late>>
  PROVE  /\ Answers' /\ Pending' = Pending
         /\ ask'[q].kind = kind /\ ask'[q].phase = "sent"
         /\ \A r \in Requests \ {q} : ask'[r] = ask[r]
<1>1. ask \in [Requests -> Call] /\ ask[q].kind = "none"
  BY DEF WindowInv, Answers, Send, Call
<1>2. Ask(kind) \in Call /\ Ask(kind).kind = kind /\ Ask(kind).phase = "sent"
  BY DEF Ask, Call, WindowInv, FeedTypeOK
<1>3. ask' = [ask EXCEPT ![q] = Ask(kind)]
  BY DEF Send
<1>4. ask' \in [Requests -> Call] /\ ask'[q] = Ask(kind) /\ \A r \in Requests \ {q} : ask'[r] = ask[r]
  BY <1>1, <1>2, <1>3
<1>5. Pending' = Pending
  BY <1>1, <1>2, <1>4 DEF Pending
<1>6. \A r \in Pending : ask'[r] = ask[r]
  BY <1>1, <1>4 DEF Pending
<1> QED
  BY <1>2, <1>4, <1>5, <1>6 DEF WindowInv, Answers, Call

\* A request that is answered or fails is free again.
LEMMA FreeStep ==
  ASSUME WindowInv, NEW q \in Requests, ask' = [ask EXCEPT ![q] = Idle]
  PROVE  /\ ask' \in [Requests -> Call] /\ Pending' = Pending \ {q}
         /\ \A r \in Requests \ {q} : ask'[r] = ask[r]
         /\ ask'[q].kind = "none"
<1>1. ask \in [Requests -> Call]
  BY DEF WindowInv, Answers, Call
<1>2. Idle \in Call /\ Idle.kind = "none" /\ Idle.phase = "sent"
  BY DEF Idle, Call
<1>3. ask' \in [Requests -> Call] /\ ask'[q] = Idle /\ \A r \in Requests \ {q} : ask'[r] = ask[r]
  BY <1>1, <1>2
<1>4. Pending' = Pending \ {q}
  BY <1>2, <1>3 DEF Pending
<1> QED
  BY <1>2, <1>3, <1>4

\* A request that reads.
LEMMA ReadStep ==
  ASSUME WindowInv, NEW q \in Requests, Read(q)
  PROVE  /\ Answers' /\ Pending' = Pending \cup {q} /\ q \notin Pending
         /\ ask'[q].kind = ask[q].kind /\ ask'[q].rows = table
         /\ \A r \in Requests \ {q} : ask'[r] = ask[r]
<1>1. ask \in [Requests -> Call] /\ table \in Rows
  BY DEF WindowInv, Answers, FeedTypeOK, Rows, Call
<1>2. ask' = [ask EXCEPT ![q] = [ask[q] EXCEPT !.phase = "read", !.rows = table]]
  BY <1>1 DEF Read, Call
<1>3. ask[q].kind # "none" /\ ask[q].phase # "read"
  BY DEF Read
<1>4. /\ ask'[q] \in Call /\ ask'[q].kind = ask[q].kind /\ ask'[q].phase = "read"
      /\ ask'[q].rows = table
  BY <1>1, <1>2 DEF Call
<1>5. ask' \in [Requests -> Call] /\ \A r \in Requests \ {q} : ask'[r] = ask[r]
  BY <1>1, <1>2, <1>4
<1>6. Pending' = Pending \cup {q} /\ q \notin Pending
  BY <1>3, <1>4, <1>5 DEF Pending
<1>7. earlier' = earlier \cup Pending \X {q} /\ earlier \subseteq Pending \X Pending
  BY DEF Read, WindowInv, FeedTypeOK
<1>8. \A r, s : <<r, s>> \in earlier => r \in Pending /\ s \in Pending /\ <<s, r>> \notin earlier
  BY <1>7 DEF WindowInv, Answers
<1>9. \A r, s : <<r, s>> \in earlier' => <<s, r>> \notin earlier'
  BY <1>6, <1>7, <1>8
<1>10. ASSUME NEW r \in Pending' PROVE ask'[r].rows \in Rows
  <2>1. CASE r = q
    BY <1>1, <1>4, <2>1
  <2>2. CASE r # q
    <3>1. r \in Pending /\ ask'[r] = ask[r]
      BY <1>5, <1>6, <2>2 DEF Pending
    <3> QED
      BY <3>1 DEF WindowInv, Answers
  <2> QED
    BY <2>1, <2>2
<1> QED
  BY <1>4, <1>5, <1>6, <1>9, <1>10 DEF Answers, Call

\* A request that deletes.
LEMMA DeleteStep ==
  ASSUME WindowInv, NEW q \in Requests, Delete(q)
  PROVE  /\ Answers' /\ Pending' = Pending /\ table' \in Rows
         /\ ask'[q].kind = "clear" /\ ask'[q].phase = "deleted"
         /\ \A r \in Requests \ {q} : ask'[r] = ask[r]
<1>1. ask \in [Requests -> Call] /\ table \in Rows
  BY DEF WindowInv, Answers, FeedTypeOK, Rows, Call
<1>2. /\ ask' = [ask EXCEPT ![q] = [ask[q] EXCEPT !.phase = "deleted"]]
      /\ ask[q].kind = "clear" /\ ask[q].phase = "sent" /\ UNCHANGED earlier
  BY <1>1 DEF Delete, Call
<1>3. /\ ask'[q] \in Call /\ ask'[q].kind = "clear" /\ ask'[q].phase = "deleted"
      /\ ask' \in [Requests -> Call] /\ \A r \in Requests \ {q} : ask'[r] = ask[r]
  BY <1>1, <1>2 DEF Call
<1>4. Pending' = Pending /\ q \notin Pending
  BY <1>2, <1>3 DEF Pending
<1>5. \A r \in Pending' : ask'[r].rows \in Rows
  BY <1>3, <1>4 DEF WindowInv, Answers, Pending
<1>6. table' \in Rows
  BY <1>1 DEF Delete, DeleteEnded, Rows, States
<1> QED
  BY <1>2, <1>3, <1>4, <1>5, <1>6 DEF WindowInv, Answers, Call

\* What asks for the records, at the user's wish or another's.
LEMMA RefreshStep ==
  ASSUME RefreshView
  PROVE  UNCHANGED <<earlier, late>> /\ \E q \in Requests, kind \in {"load", "refresh"} : Send(q, kind)
BY DEF RefreshView

\* Requests read one after the other.
LEMMA AnswersStep == WindowInv /\ [FeedNext]_feedVars => Answers'
<1> SUFFICES ASSUME WindowInv, [FeedNext]_feedVars
             PROVE  Answers'
  OBVIOUS
<1> USE FeedAssumption
<1>1. ASSUME NEW o \in Operations, Accept(o) PROVE Answers'
  BY <1>1 DEF Accept, calls, window, WindowInv, Answers, Pending
<1>2. ASSUME NEW o \in Operations, RefuseStart(o) PROVE Answers'
  BY <1>2 DEF RefuseStart, calls, window, WindowInv, Answers, Pending
<1>3. ASSUME NEW o \in Operations, RecordPrompt(o) PROVE Answers'
  BY <1>3 DEF RecordPrompt, calls, window, WindowInv, Answers, Pending
<1>4. ASSUME NEW o \in Operations, EmitPrompt(o) PROVE Answers'
  BY <1>4 DEF EmitPrompt, calls, window, WindowInv, Answers, Pending
<1>5. ASSUME NEW o \in Operations, EmitEnd(o) PROVE Answers'
  BY <1>5 DEF EmitEnd, calls, window, WindowInv, Answers, Pending
<1>6. ASSUME NEW o \in Operations, RecordEnd(o) PROVE Answers'
  BY <1>6 DEF RecordEnd, calls, window, WindowInv, Answers, Pending
<1>7. ASSUME NEW o \in Operations, Abandon(o) PROVE Answers'
  BY <1>7 DEF Abandon, calls, window, WindowInv, Answers, Pending
<1>8. ASSUME NEW o \in Operations, RunElsewhere(o) PROVE Answers'
  BY <1>8 DEF RunElsewhere, calls, window, WindowInv, Answers, Pending
<1>9. ASSUME NEW o \in Operations, AskStart(o) PROVE Answers'
  BY <1>9 DEF AskStart, calls, window, WindowInv, Answers, Pending
<1>10. ASSUME NEW o \in Operations, Started(o) PROVE Answers'
  BY <1>10 DEF Started, calls, window, WindowInv, Answers, Pending
<1>11. ASSUME NEW q \in Requests, Read(q) PROVE Answers'
  BY <1>11, ReadStep
<1>12. ASSUME NEW q \in Requests, FailRequest(q) PROVE Answers'
  <2>1. ask' = [ask EXCEPT ![q] = Idle] /\ earlier' \subseteq earlier
    BY <1>12 DEF FailRequest
  <2>2. /\ ask' \in [Requests -> Call] /\ Pending' = Pending \ {q}
        /\ \A r \in Requests \ {q} : ask'[r] = ask[r]
    BY <2>1, FreeStep
  <2>3. \A r \in Pending' : ask'[r].rows \in Rows
    BY <2>2 DEF WindowInv, Answers, Pending
  <2> QED
    BY <2>1, <2>2, <2>3 DEF WindowInv, Answers, Call
<1>13. ASSUME NEW q \in Requests, Delete(q) PROVE Answers'
  BY <1>13, DeleteStep
<1>14. ASSUME NEW q \in Requests, Receive(q) PROVE Answers'
  <2>1. ask' = [ask EXCEPT ![q] = Idle] /\ earlier' \subseteq earlier
    BY <1>14 DEF Receive
  <2>2. /\ ask' \in [Requests -> Call] /\ Pending' = Pending \ {q}
        /\ \A r \in Requests \ {q} : ask'[r] = ask[r]
    BY <2>1, FreeStep
  <2>3. \A r \in Pending' : ask'[r].rows \in Rows
    BY <2>2 DEF WindowInv, Answers, Pending
  <2> QED
    BY <2>1, <2>2, <2>3 DEF WindowInv, Answers, Call
<1>15. ASSUME ClearElsewhere PROVE Answers'
  BY <1>15 DEF ClearElsewhere, calls, window, WindowInv, Answers, Pending
<1>16. ASSUME Listen PROVE Answers'
  BY <1>16 DEF Listen, calls, window, WindowInv, Answers, Pending
<1>17. ASSUME Hear PROVE Answers'
  <2>1. UNCHANGED <<earlier, late>> /\ ((\E q \in Requests : Send(q, "refresh")) \/ UNCHANGED ask)
    BY <1>17 DEF Hear
  <2>2. CASE UNCHANGED ask
    BY <2>1, <2>2 DEF WindowInv, Answers, Pending
  <2> QED
    BY <2>1, <2>2, SendStep
<1>18. ASSUME RefreshView PROVE Answers'
  BY <1>18, RefreshStep, SendStep
<1>19. ASSUME AnswerPrompt PROVE Answers'
  BY <1>19 DEF AnswerPrompt, calls, window, WindowInv, Answers, Pending
<1>20. ASSUME CloseDrawer PROVE Answers'
  BY <1>20 DEF CloseDrawer, calls, window, WindowInv, Answers, Pending
<1>21. ASSUME AskClear PROVE Answers'
  <2>1. UNCHANGED <<earlier, late>> /\ \E q \in Requests : Send(q, "clear")
    BY <1>21 DEF AskClear
  <2> QED
    BY <2>1, SendStep
<1>22. ASSUME Reload PROVE Answers'
  <2>1. PICK q \in Requests : ask' = [r \in Requests |-> IF r = q THEN Ask("load") ELSE Idle]
    BY <1>22 DEF Reload
  <2>2. Ask("load") \in Call /\ Idle \in Call /\ Ask("load").phase = "sent" /\ Idle.phase = "sent"
    BY DEF Ask, Idle, Call
  <2>3. ask' \in [Requests -> Call] /\ \A r \in Requests : ask'[r].phase = "sent"
    BY <2>1, <2>2
  <2>4. earlier' = {} /\ Pending' = {}
    BY <1>22, <2>3 DEF Reload, Pending
  <2> QED
    BY <2>3, <2>4 DEF Answers, Call
<1>23. ASSUME UNCHANGED feedVars PROVE Answers'
  BY <1>23 DEF feedVars, calls, WindowInv, Answers, Pending
<1> QED
  BY <1>1, <1>2, <1>3, <1>4, <1>5, <1>6, <1>7, <1>8, <1>9, <1>10, <1>11, <1>12, <1>13,
     <1>14, <1>15, <1>16, <1>17, <1>18, <1>19, <1>20, <1>21, <1>22, <1>23 DEF FeedNext

\* The plain variables, and the numbers of what is shown, and which requests have read.
Plain ==
  /\ table \in Rows /\ work \in [Operations -> Works]
  /\ data = <<>> \/ data \in Rows
  /\ active \in Operations \cup {Nothing} /\ starting \subseteq Operations
  /\ unseen \cup lost \cup orphaned \subseteq Operations
  /\ listening \in BOOLEAN /\ outdated \in BOOLEAN

Numbered == \A o \in Operations : shown[o] \subseteq 1 .. Len(emitted[o])

Ordered == earlier \subseteq Pending \X Pending /\ late \subseteq Pending

\* Each step keeps the types of the plain variables.
LEMMA PlainStep == WindowInv /\ [FeedNext]_feedVars => Plain'
<1> SUFFICES ASSUME WindowInv, [FeedNext]_feedVars
             PROVE  Plain'
  OBVIOUS
<1>1. Plain
  BY DEF WindowInv, FeedTypeOK, Plain, Rows, Works
<1> USE FeedAssumption
<1>2. ASSUME NEW o \in Operations, Accept(o) PROVE Plain'
  BY <1>1, <1>2 DEF Accept, Plain, Rows, Works, Record, Reach, Emit, Changed, States,
     engine, window, calls, history
<1>3. ASSUME NEW o \in Operations, RefuseStart(o) PROVE Plain'
  BY <1>1, <1>3 DEF RefuseStart, Plain, Rows, Works, Record, Reach, Emit, Changed,
     States, engine, window, calls, history
<1>4. ASSUME NEW o \in Operations, RecordPrompt(o) PROVE Plain'
  BY <1>1, <1>4 DEF RecordPrompt, Plain, Rows, Works, Record, Reach, Emit, Changed,
     States, engine, window, calls, history
<1>5. ASSUME NEW o \in Operations, EmitPrompt(o) PROVE Plain'
  BY <1>1, <1>5 DEF EmitPrompt, Plain, Rows, Works, Record, Reach, Emit, Changed,
     States, engine, window, calls, history
<1>6. ASSUME NEW o \in Operations, EmitEnd(o) PROVE Plain'
  BY <1>1, <1>6 DEF EmitEnd, Plain, Rows, Works, Record, Reach, Emit, Changed, States,
     engine, window, calls, history
<1>7. ASSUME NEW o \in Operations, RecordEnd(o) PROVE Plain'
  BY <1>1, <1>7 DEF RecordEnd, Plain, Rows, Works, Record, Reach, Emit, Changed,
     States, engine, window, calls, history
<1>8. ASSUME NEW o \in Operations, Abandon(o) PROVE Plain'
  BY <1>1, <1>8 DEF Abandon, Plain, Rows, Works, Record, Reach, Emit, Changed, States,
     engine, window, calls, history
<1>9. ASSUME NEW o \in Operations, RunElsewhere(o) PROVE Plain'
  BY <1>1, <1>9 DEF RunElsewhere, Plain, Rows, Works, Record, Reach, Emit, Changed,
     States, engine, window, calls, history
<1>10. ASSUME NEW o \in Operations, AskStart(o) PROVE Plain'
  BY <1>1, <1>10 DEF AskStart, Plain, Rows, Works, Record, Reach, Emit, Changed,
     States, engine, window, calls, history
<1>11. ASSUME NEW o \in Operations, Started(o) PROVE Plain'
  BY <1>1, <1>11 DEF Started, Plain, Rows, Works, Record, Reach, Emit, Changed, States,
     engine, window, calls, history
<1>12. ASSUME NEW q \in Requests, Read(q) PROVE Plain'
  BY <1>1, <1>12 DEF Read, Plain, Rows, Works, Record, Reach, Emit, Changed, States,
     engine, window, calls, history
<1>13. ASSUME NEW q \in Requests, FailRequest(q) PROVE Plain'
  BY <1>1, <1>13 DEF FailRequest, Plain, Rows, Works, Record, Reach, Emit, Changed,
     States, engine, window, calls, history
<1>14. ASSUME NEW q \in Requests, Delete(q) PROVE Plain'
  BY <1>1, <1>14 DEF Delete, DeleteEnded, Ended, Plain, Rows, Works, Record, Reach,
     Emit, Changed, States, engine, window, calls, history
<1>15. ASSUME NEW q \in Requests, Receive(q) PROVE Plain'
  <2>1. ask[q].rows \in Rows
    BY <1>15 DEF Receive, WindowInv, Answers, Pending
  <2>2. data' = <<>> \/ data' \in Rows
    BY <1>1, <1>15, <2>1 DEF Receive, Plain
  <2>3. outdated' \in BOOLEAN
    <3>1. outdated' = (q \in late) \/ outdated' = outdated
      BY <1>15 DEF Receive
    <3>2. (q \in late) \in BOOLEAN /\ outdated \in BOOLEAN
      BY <1>1 DEF Plain
    <3> QED
      BY <3>1, <3>2
  <2>4. UNCHANGED <<table, work, active, starting, orphaned, listening, unseen>>
    BY <1>15 DEF Receive, engine
  <2>5. lost' \subseteq Operations
    BY <1>1, <1>15 DEF Receive, Plain
  <2> QED
    BY <1>1, <2>2, <2>3, <2>4, <2>5 DEF Plain
<1>16. ASSUME ClearElsewhere PROVE Plain'
  BY <1>1, <1>16 DEF ClearElsewhere, DeleteEnded, Ended, Plain, Rows, Works, Record,
     Reach, Emit, Changed, States, engine, window, calls, history
<1>17. ASSUME Listen PROVE Plain'
  BY <1>1, <1>17 DEF Listen, Plain, Rows, Works, Record, Reach, Emit, Changed, States,
     engine, window, calls, history
<1>18. ASSUME Hear PROVE Plain'
  BY <1>1, <1>18 DEF Hear, Plain, Rows, Works, Record, Reach, Emit, Changed, States,
     engine, window, calls, history
<1>19. ASSUME RefreshView PROVE Plain'
  BY <1>1, <1>19 DEF RefreshView, Plain, Rows, Works, Record, Reach, Emit, Changed,
     States, engine, window, calls, history
<1>20. ASSUME AnswerPrompt PROVE Plain'
  BY <1>1, <1>20 DEF AnswerPrompt, Plain, Rows, Works, Record, Reach, Emit, Changed,
     States, engine, window, calls, history
<1>21. ASSUME CloseDrawer PROVE Plain'
  BY <1>1, <1>21 DEF CloseDrawer, Plain, Rows, Works, Record, Reach, Emit, Changed,
     States, engine, window, calls, history
<1>22. ASSUME AskClear PROVE Plain'
  BY <1>1, <1>22 DEF AskClear, Plain, Rows, Works, Record, Reach, Emit, Changed,
     States, engine, window, calls, history
<1>23. ASSUME Reload PROVE Plain'
  <2>1. \A e \in ToSet(wire) : Head(e) \in Operations
    <3>1. wire \in Seq(Operations \X Nat) /\ DOMAIN wire = 1 .. Len(wire)
      BY DEF WindowInv, Events
    <3> SUFFICES ASSUME NEW e \in ToSet(wire) PROVE Head(e) \in Operations
      OBVIOUS
    <3>2. e \in Operations \X Nat
      BY <3>1 DEF ToSet
    <3>3. PICK p \in Operations, n \in Nat : e = <<p, n>>
      BY <3>2
    <3> QED
      BY <3>3
  <2>2. lost' \cup orphaned' \subseteq Operations
    <3>1. lost \cup orphaned \subseteq Operations
      BY <1>1 DEF Plain
    <3>2. /\ lost' = lost \cup {Head(e) : e \in ToSet(wire)}
          /\ orphaned' = orphaned \cup {o \in Operations : Running(o)}
      BY <1>23 DEF Reload
    <3> QED
      BY <2>1, <3>1, <3>2
  <2>3. /\ UNCHANGED <<table, work>> /\ data' = <<>> /\ active' = Nothing /\ starting' = {}
        /\ listening' = FALSE /\ unseen' = {} /\ outdated' = FALSE
    BY <1>23 DEF Reload, engine
  <2> QED
    BY <1>1, <2>2, <2>3 DEF Plain
<1>24. ASSUME UNCHANGED feedVars PROVE Plain'
  BY <1>1, <1>24 DEF feedVars, Plain, Rows, Works, Record, Reach, Emit, Changed,
     States, engine, window, calls, history
<1> QED
  BY <1>2, <1>3, <1>4, <1>5, <1>6, <1>7, <1>8, <1>9, <1>10, <1>11, <1>12, <1>13, <1>14,
     <1>15, <1>16, <1>17, <1>18, <1>19, <1>20, <1>21, <1>22, <1>23, <1>24 DEF FeedNext

\* What is shown was emitted.
LEMMA NumberedStep == WindowInv /\ [FeedNext]_feedVars => Numbered'
<1> SUFFICES ASSUME WindowInv, [FeedNext]_feedVars
             PROVE  Numbered'
  OBVIOUS
<1> USE FeedAssumption
    DEF Numbered
<1>1. ASSUME NEW o \in Operations, Accept(o) PROVE Numbered'
  BY <1>1 DEF Accept, engine, window, WindowInv, FeedTypeOK
<1>2. ASSUME NEW o \in Operations, RefuseStart(o) PROVE Numbered'
  BY <1>2 DEF RefuseStart, engine, window, WindowInv, FeedTypeOK
<1>3. ASSUME NEW o \in Operations, RecordPrompt(o) PROVE Numbered'
  BY <1>3 DEF RecordPrompt, engine, window, WindowInv, FeedTypeOK
<1>4. ASSUME NEW o \in Operations, EmitPrompt(o) PROVE Numbered'
  <2>1. Emit(o, "waiting") /\ UNCHANGED shown /\ "waiting" \in States
    BY <1>4 DEF EmitPrompt, window, States
  <2>2. ASSUME NEW p \in Operations PROVE shown'[p] \subseteq 1 .. Len(emitted'[p])
    <3>1. CASE p = o
      BY <2>1, <3>1, EmitStep
    <3>2. CASE p # o
      BY <2>1, <3>2, EmitStep DEF WindowInv, FeedTypeOK
    <3> QED
      BY <3>1, <3>2
  <2> QED
    BY <2>2
<1>5. ASSUME NEW o \in Operations, EmitEnd(o) PROVE Numbered'
  <2>1. Emit(o, "ended") /\ UNCHANGED shown /\ "ended" \in States
    BY <1>5 DEF EmitEnd, window, States
  <2>2. ASSUME NEW p \in Operations PROVE shown'[p] \subseteq 1 .. Len(emitted'[p])
    <3>1. CASE p = o
      BY <2>1, <3>1, EmitStep
    <3>2. CASE p # o
      BY <2>1, <3>2, EmitStep DEF WindowInv, FeedTypeOK
    <3> QED
      BY <3>1, <3>2
  <2> QED
    BY <2>2
<1>6. ASSUME NEW o \in Operations, RecordEnd(o) PROVE Numbered'
  BY <1>6 DEF RecordEnd, engine, window, WindowInv, FeedTypeOK
<1>7. ASSUME NEW o \in Operations, Abandon(o) PROVE Numbered'
  BY <1>7 DEF Abandon, engine, window, WindowInv, FeedTypeOK
<1>8. ASSUME NEW o \in Operations, RunElsewhere(o) PROVE Numbered'
  BY <1>8 DEF RunElsewhere, engine, window, WindowInv, FeedTypeOK
<1>9. ASSUME NEW o \in Operations, AskStart(o) PROVE Numbered'
  BY <1>9 DEF AskStart, engine, window, WindowInv, FeedTypeOK
<1>10. ASSUME NEW o \in Operations, Started(o) PROVE Numbered'
  <2>1. UNCHANGED emitted /\ \A p \in Operations : shown'[p] \in {shown[p], {}}
    BY <1>10 DEF Started, engine, WindowInv, Events
  <2> QED
    BY <2>1 DEF WindowInv, FeedTypeOK
<1>11. ASSUME NEW q \in Requests, Read(q) PROVE Numbered'
  BY <1>11 DEF Read, engine, window, WindowInv, FeedTypeOK
<1>12. ASSUME NEW q \in Requests, FailRequest(q) PROVE Numbered'
  BY <1>12 DEF FailRequest, engine, window, WindowInv, FeedTypeOK
<1>13. ASSUME NEW q \in Requests, Delete(q) PROVE Numbered'
  BY <1>13 DEF Delete, engine, window, WindowInv, FeedTypeOK
<1>14. ASSUME NEW q \in Requests, Receive(q) PROVE Numbered'
  <2>1. UNCHANGED emitted /\ \A p \in Operations : shown'[p] \in {shown[p], {}}
    BY <1>14 DEF Receive, FilterEvents, engine
  <2> QED
    BY <2>1 DEF WindowInv, FeedTypeOK
<1>15. ASSUME ClearElsewhere PROVE Numbered'
  BY <1>15 DEF ClearElsewhere, engine, window, WindowInv, FeedTypeOK
<1>16. ASSUME Listen PROVE Numbered'
  BY <1>16 DEF Listen, engine, window, WindowInv, FeedTypeOK
<1>17. ASSUME Hear PROVE Numbered'
  <2>1. PICK o \in Operations : \E n \in 1 .. Len(emitted[o]) : shown' = [shown EXCEPT ![o] = shown[o] \cup {n}]
    BY <1>17, HearStep
  <2>2. UNCHANGED emitted /\ shown \in [Operations -> SUBSET Nat]
    BY <1>17 DEF Hear, engine, WindowInv, Events
  <2>3. PICK n \in 1 .. Len(emitted[o]) : shown' = [shown EXCEPT ![o] = shown[o] \cup {n}]
    BY <2>1
  <2>4. ASSUME NEW p \in Operations PROVE shown'[p] \subseteq 1 .. Len(emitted[p])
    <3>1. shown[p] \subseteq 1 .. Len(emitted[p])
      BY DEF WindowInv, FeedTypeOK
    <3>2. shown'[p] = IF p = o THEN shown[p] \cup {n} ELSE shown[p]
      BY <2>2, <2>3
    <3> QED
      BY <3>1, <3>2
  <2> QED
    BY <2>2, <2>4
<1>18. ASSUME RefreshView PROVE Numbered'
  BY <1>18 DEF RefreshView, engine, window, WindowInv, FeedTypeOK
<1>19. ASSUME AnswerPrompt PROVE Numbered'
  BY <1>19 DEF AnswerPrompt, engine, window, WindowInv, FeedTypeOK
<1>20. ASSUME CloseDrawer PROVE Numbered'
  BY <1>20 DEF CloseDrawer, engine, window, WindowInv, FeedTypeOK
<1>21. ASSUME AskClear PROVE Numbered'
  BY <1>21 DEF AskClear, engine, window, WindowInv, FeedTypeOK
<1>22. ASSUME Reload PROVE Numbered'
  <2>1. \A p \in Operations : shown'[p] = {}
    BY <1>22 DEF Reload
  <2> QED
    BY <2>1
<1>23. ASSUME UNCHANGED feedVars PROVE Numbered'
  BY <1>23 DEF feedVars, engine, window, WindowInv, FeedTypeOK
<1> QED
  BY <1>1, <1>2, <1>3, <1>4, <1>5, <1>6, <1>7, <1>8, <1>9, <1>10, <1>11, <1>12, <1>13,
     <1>14, <1>15, <1>16, <1>17, <1>18, <1>19, <1>20, <1>21, <1>22, <1>23 DEF FeedNext

\* The order of the readings is one of calls whose answer is on its way.
LEMMA OrderedStep == WindowInv /\ [FeedNext]_feedVars => Ordered'
<1> SUFFICES ASSUME WindowInv, [FeedNext]_feedVars
             PROVE  Ordered'
  OBVIOUS
<1> USE FeedAssumption
    DEF Ordered
<1>1. ASSUME NEW o \in Operations, Accept(o) PROVE Ordered'
  BY <1>1 DEF Accept, calls, window, WindowInv, FeedTypeOK, Pending
<1>2. ASSUME NEW o \in Operations, RefuseStart(o) PROVE Ordered'
  BY <1>2 DEF RefuseStart, calls, window, WindowInv, FeedTypeOK, Pending
<1>3. ASSUME NEW o \in Operations, RecordPrompt(o) PROVE Ordered'
  BY <1>3 DEF RecordPrompt, calls, window, WindowInv, FeedTypeOK, Pending
<1>4. ASSUME NEW o \in Operations, EmitPrompt(o) PROVE Ordered'
  BY <1>4 DEF EmitPrompt, calls, window, WindowInv, FeedTypeOK, Pending
<1>5. ASSUME NEW o \in Operations, EmitEnd(o) PROVE Ordered'
  BY <1>5 DEF EmitEnd, calls, window, WindowInv, FeedTypeOK, Pending
<1>6. ASSUME NEW o \in Operations, RecordEnd(o) PROVE Ordered'
  BY <1>6 DEF RecordEnd, calls, window, WindowInv, FeedTypeOK, Pending
<1>7. ASSUME NEW o \in Operations, Abandon(o) PROVE Ordered'
  BY <1>7 DEF Abandon, calls, window, WindowInv, FeedTypeOK, Pending
<1>8. ASSUME NEW o \in Operations, RunElsewhere(o) PROVE Ordered'
  BY <1>8 DEF RunElsewhere, calls, window, WindowInv, FeedTypeOK, Pending
<1>9. ASSUME NEW o \in Operations, AskStart(o) PROVE Ordered'
  BY <1>9 DEF AskStart, calls, window, WindowInv, FeedTypeOK, Pending
<1>10. ASSUME NEW o \in Operations, Started(o) PROVE Ordered'
  BY <1>10 DEF Started, calls, window, WindowInv, FeedTypeOK, Pending
<1>11. ASSUME NEW q \in Requests, Read(q) PROVE Ordered'
  <2>1. Pending' = Pending \cup {q} /\ earlier' = earlier \cup Pending \X {q} /\ late' = late
    BY <1>11, ReadStep DEF Read
  <2> QED
    BY <2>1 DEF WindowInv, FeedTypeOK
<1>12. ASSUME NEW q \in Requests, FailRequest(q) PROVE Ordered'
  <2>1. Pending' = Pending \ {q} /\ q \notin Pending /\ UNCHANGED <<earlier, late>>
    BY <1>12, FreeStep DEF FailRequest, Pending
  <2>2. earlier \subseteq Pending \X Pending /\ late \subseteq Pending
    BY DEF WindowInv, FeedTypeOK
  <2>3. Pending' = Pending
    BY <2>1
  <2> QED
    BY <2>1, <2>2, <2>3
<1>13. ASSUME NEW q \in Requests, Delete(q) PROVE Ordered'
  <2>1. Pending' = Pending /\ UNCHANGED <<earlier, late>>
    BY <1>13, DeleteStep DEF Delete
  <2> QED
    BY <2>1 DEF WindowInv, FeedTypeOK
<1>14. ASSUME NEW q \in Requests, Receive(q) PROVE Ordered'
  <2>1. /\ Pending' = Pending \ {q}
        /\ late' = (late \cup {r \in Requests : <<r, q>> \in earlier}) \ {q}
        /\ earlier' = {e \in earlier : q \notin {e[1], e[2]}}
    BY <1>14, FreeStep DEF Receive
  <2>2. earlier \subseteq Pending \X Pending /\ late \subseteq Pending
    BY DEF WindowInv, FeedTypeOK
  <2> QED
    BY <2>1, <2>2
<1>15. ASSUME ClearElsewhere PROVE Ordered'
  BY <1>15 DEF ClearElsewhere, calls, window, WindowInv, FeedTypeOK, Pending
<1>16. ASSUME Listen PROVE Ordered'
  BY <1>16 DEF Listen, calls, window, WindowInv, FeedTypeOK, Pending
<1>17. ASSUME Hear PROVE Ordered'
  <2>1. UNCHANGED <<earlier, late>> /\ ((\E q \in Requests : Send(q, "refresh")) \/ UNCHANGED ask)
    BY <1>17 DEF Hear
  <2>2. Pending' = Pending
    BY <2>1, SendStep DEF Pending
  <2> QED
    BY <2>1, <2>2 DEF WindowInv, FeedTypeOK
<1>18. ASSUME RefreshView PROVE Ordered'
  <2>1. Pending' = Pending /\ UNCHANGED <<earlier, late>>
    BY <1>18, RefreshStep, SendStep
  <2> QED
    BY <2>1 DEF WindowInv, FeedTypeOK
<1>19. ASSUME AnswerPrompt PROVE Ordered'
  BY <1>19 DEF AnswerPrompt, calls, window, WindowInv, FeedTypeOK, Pending
<1>20. ASSUME CloseDrawer PROVE Ordered'
  BY <1>20 DEF CloseDrawer, calls, window, WindowInv, FeedTypeOK, Pending
<1>21. ASSUME AskClear PROVE Ordered'
  <2>1. UNCHANGED <<earlier, late>> /\ \E q \in Requests : Send(q, "clear")
    BY <1>21 DEF AskClear
  <2>2. Pending' = Pending
    BY <2>1, SendStep
  <2> QED
    BY <2>1, <2>2 DEF WindowInv, FeedTypeOK
<1>22. ASSUME Reload PROVE Ordered'
  BY <1>22 DEF Reload
<1>23. ASSUME UNCHANGED feedVars PROVE Ordered'
  BY <1>23 DEF feedVars, calls, window, WindowInv, FeedTypeOK, Pending
<1> QED
  BY <1>1, <1>2, <1>3, <1>4, <1>5, <1>6, <1>7, <1>8, <1>9, <1>10, <1>11, <1>12, <1>13,
     <1>14, <1>15, <1>16, <1>17, <1>18, <1>19, <1>20, <1>21, <1>22, <1>23 DEF FeedNext

\* The engine announces the end of an operation once, as the last event, or never.
LEMMA AnnouncedStep == WindowInv /\ [FeedNext]_feedVars => \A o \in Operations : Announced(o)'
<1> SUFFICES ASSUME WindowInv, [FeedNext]_feedVars
             PROVE  \A p \in Operations : Announced(p)'
  OBVIOUS
<1>1. work \in [Operations -> Works] /\ \A p \in Operations : Announced(p)
  BY DEF WindowInv, FeedTypeOK, Works
<1> USE FeedAssumption
<1>2. ASSUME NEW o \in Operations, Accept(o) PROVE \A p \in Operations : Announced(p)'
  <2>1. /\ work[o] = "sent" /\ UNCHANGED emitted
        /\ work' = [work EXCEPT ![o] = "planned"]
    BY <1>2 DEF Accept, Reach
  <2>2. emitted[o] = <<>>
    BY <1>1, <2>1 DEF Announced
  <2>3. \A n \in 1 .. Len(emitted[o]) : FALSE
    BY <2>2
  <2> QED
    BY <1>1, <2>1, <2>2, <2>3 DEF Announced
<1>3. ASSUME NEW o \in Operations, RefuseStart(o) PROVE \A p \in Operations : Announced(p)'
  <2>1. /\ work[o] = "sent" /\ UNCHANGED emitted
        /\ work' = [work EXCEPT ![o] = "none"]
    BY <1>3 DEF RefuseStart, Reach
  <2>2. emitted[o] = <<>>
    BY <1>1, <2>1 DEF Announced
  <2>3. \A n \in 1 .. Len(emitted[o]) : FALSE
    BY <2>2
  <2> QED
    BY <1>1, <2>1, <2>2, <2>3 DEF Announced
<1>4. ASSUME NEW o \in Operations, RecordPrompt(o) PROVE \A p \in Operations : Announced(p)'
  <2>1. /\ work[o] = "planned" /\ UNCHANGED emitted
        /\ work' = [work EXCEPT ![o] = "asking"]
    BY <1>4 DEF RecordPrompt, Reach
  <2> QED
    BY <1>1, <2>1 DEF Announced
<1>5. ASSUME NEW o \in Operations, EmitPrompt(o) PROVE \A p \in Operations : Announced(p)'
  <2>1. Emit(o, "waiting") /\ UNCHANGED shown /\ "waiting" \in States
    BY <1>5 DEF EmitPrompt, window, States
  <2>2. work[o] = "asking" /\ work' = [work EXCEPT ![o] = "waiting"]
    BY <1>5 DEF EmitPrompt, Reach
  <2>3. /\ Len(emitted[o]) \in Nat /\ Len(emitted'[o]) = Len(emitted[o]) + 1
        /\ emitted'[o][Len(emitted[o]) + 1] = "waiting"
        /\ \A n \in 1 .. Len(emitted[o]) : emitted'[o][n] = emitted[o][n]
        /\ \A p \in Operations \ {o} : emitted'[p] = emitted[p]
    BY <2>1, EmitStep
  <2>4. Announced(o)'
    <3>1. work'[o] = "waiting" /\ \A n \in 1 .. Len(emitted[o]) : emitted[o][n] # "ended"
      BY <1>1, <2>2 DEF Announced
    <3>2. \A n \in 1 .. Len(emitted'[o]) : n = Len(emitted[o]) + 1 \/ n \in 1 .. Len(emitted[o])
      BY <2>3
    <3> QED
      BY <2>3, <3>1, <3>2 DEF Announced
  <2>5. ASSUME NEW p \in Operations \ {o} PROVE Announced(p)'
    <3>1. work'[p] = work[p] /\ emitted'[p] = emitted[p]
      BY <1>1, <2>2, <2>3
    <3>2. Announced(p)
      BY <1>1
    <3> QED
      BY <3>1, <3>2 DEF Announced
  <2> QED
    BY <2>4, <2>5
<1>6. ASSUME NEW o \in Operations, EmitEnd(o) PROVE \A p \in Operations : Announced(p)'
  <2>1. Emit(o, "ended") /\ UNCHANGED shown /\ "ended" \in States
    BY <1>6 DEF EmitEnd, window, States
  <2>2. work[o] \in {"planned", "resumed"} /\ work' = [work EXCEPT ![o] = "ending"]
    BY <1>6 DEF EmitEnd, Reach
  <2>3. /\ Len(emitted[o]) \in Nat /\ Len(emitted'[o]) = Len(emitted[o]) + 1
        /\ emitted'[o][Len(emitted[o]) + 1] = "ended"
        /\ \A n \in 1 .. Len(emitted[o]) : emitted'[o][n] = emitted[o][n]
        /\ \A p \in Operations \ {o} : emitted'[p] = emitted[p]
    BY <2>1, EmitStep
  <2>4. Announced(o)'
    <3>1. work'[o] = "ending" /\ \A n \in 1 .. Len(emitted[o]) : emitted[o][n] # "ended"
      BY <1>1, <2>2 DEF Announced
    <3>2. \A n \in 1 .. Len(emitted'[o]) : n = Len(emitted[o]) + 1 \/ n \in 1 .. Len(emitted[o])
      BY <2>3
    <3> QED
      BY <2>3, <3>1, <3>2 DEF Announced
  <2>5. ASSUME NEW p \in Operations \ {o} PROVE Announced(p)'
    <3>1. work'[p] = work[p] /\ emitted'[p] = emitted[p]
      BY <1>1, <2>2, <2>3
    <3>2. Announced(p)
      BY <1>1
    <3> QED
      BY <3>1, <3>2 DEF Announced
  <2> QED
    BY <2>4, <2>5
<1>7. ASSUME NEW o \in Operations, RecordEnd(o) PROVE \A p \in Operations : Announced(p)'
  <2>1. /\ work[o] = "ending" /\ UNCHANGED emitted
        /\ work' = [work EXCEPT ![o] = "over"]
    BY <1>7 DEF RecordEnd, Reach
  <2> QED
    BY <1>1, <2>1 DEF Announced
<1>8. ASSUME NEW o \in Operations, Abandon(o) PROVE \A p \in Operations : Announced(p)'
  <2>1. /\ work[o] \in {"planned", "resumed"} /\ UNCHANGED emitted
        /\ work' = [work EXCEPT ![o] = "over"]
    BY <1>8 DEF Abandon, Reach
  <2> QED
    BY <1>1, <2>1 DEF Announced
<1>9. ASSUME NEW o \in Operations, RunElsewhere(o) PROVE \A p \in Operations : Announced(p)'
  <2>1. /\ work[o] \in {"none", "elsewhere"} /\ UNCHANGED emitted
        /\ work' = [work EXCEPT ![o] = "elsewhere"]
    BY <1>9 DEF RunElsewhere, Reach
  <2>2. emitted[o] = <<>>
    BY <1>1, <2>1 DEF Announced
  <2>3. \A n \in 1 .. Len(emitted[o]) : FALSE
    BY <2>2
  <2> QED
    BY <1>1, <2>1, <2>2, <2>3 DEF Announced
<1>10. ASSUME NEW o \in Operations, AskStart(o) PROVE \A p \in Operations : Announced(p)'
  <2>1. /\ work[o] = "none" /\ UNCHANGED emitted
        /\ work' = [work EXCEPT ![o] = "sent"]
    BY <1>10 DEF AskStart, Reach
  <2>2. emitted[o] = <<>>
    BY <1>1, <2>1 DEF Announced
  <2>3. \A n \in 1 .. Len(emitted[o]) : FALSE
    BY <2>2
  <2> QED
    BY <1>1, <2>1, <2>2, <2>3 DEF Announced
<1>11. ASSUME NEW o \in Operations, Started(o) PROVE \A p \in Operations : Announced(p)'
  BY <1>11, <1>1 DEF Started, engine, Announced
<1>12. ASSUME NEW q \in Requests, Read(q) PROVE \A p \in Operations : Announced(p)'
  BY <1>12, <1>1 DEF Read, engine, Announced
<1>13. ASSUME NEW q \in Requests, FailRequest(q) PROVE \A p \in Operations : Announced(p)'
  BY <1>13, <1>1 DEF FailRequest, engine, Announced
<1>14. ASSUME NEW q \in Requests, Delete(q) PROVE \A p \in Operations : Announced(p)'
  BY <1>14, <1>1 DEF Delete, Announced
<1>15. ASSUME NEW q \in Requests, Receive(q) PROVE \A p \in Operations : Announced(p)'
  BY <1>15, <1>1 DEF Receive, engine, Announced
<1>16. ASSUME ClearElsewhere PROVE \A p \in Operations : Announced(p)'
  BY <1>16, <1>1 DEF ClearElsewhere, Announced
<1>17. ASSUME Listen PROVE \A p \in Operations : Announced(p)'
  BY <1>17, <1>1 DEF Listen, engine, Announced
<1>18. ASSUME Hear PROVE \A p \in Operations : Announced(p)'
  BY <1>18, <1>1 DEF Hear, engine, Announced
<1>19. ASSUME RefreshView PROVE \A p \in Operations : Announced(p)'
  BY <1>19, <1>1 DEF RefreshView, engine, Announced
<1>20. ASSUME AnswerPrompt PROVE \A p \in Operations : Announced(p)'
  <2>1. /\ active \in Operations /\ work[active] = "waiting"
        /\ work' = [work EXCEPT ![active] = "resumed"] /\ UNCHANGED emitted
    BY <1>20 DEF AnswerPrompt, Reach, WindowInv, FeedTypeOK
  <2> QED
    BY <1>1, <2>1 DEF Announced
<1>21. ASSUME CloseDrawer PROVE \A p \in Operations : Announced(p)'
  BY <1>21, <1>1 DEF CloseDrawer, engine, Announced
<1>22. ASSUME AskClear PROVE \A p \in Operations : Announced(p)'
  BY <1>22, <1>1 DEF AskClear, engine, Announced
<1>23. ASSUME Reload PROVE \A p \in Operations : Announced(p)'
  BY <1>23, <1>1 DEF Reload, engine, Announced
<1>24. ASSUME UNCHANGED feedVars PROVE \A p \in Operations : Announced(p)'
  BY <1>24, <1>1 DEF feedVars, engine, Announced
<1> QED
  BY <1>2, <1>3, <1>4, <1>5, <1>6, <1>7, <1>8, <1>9, <1>10, <1>11, <1>12, <1>13, <1>14,
     <1>15, <1>16, <1>17, <1>18, <1>19, <1>20, <1>21, <1>22, <1>23, <1>24 DEF FeedNext

LEMMA InitWindow == FeedInit => WindowInv
<1> SUFFICES ASSUME FeedInit
             PROVE  WindowInv
  OBVIOUS
<1> USE FeedAssumption DEF FeedInit
<1>1. ask \in [Requests -> Call] /\ \A q \in Requests : ask[q].phase = "sent"
  BY DEF Call, Ask, Idle
<1>2. Pending = {}
  BY <1>1 DEF Pending
<1>3. Answers
  BY <1>1, <1>2 DEF Answers
<1>4. ToSet(wire) = {} /\ Once(wire)
  BY DEF ToSet, Once
<1>5. Events
  BY <1>4 DEF Events
<1>6. FeedTypeOK
  BY DEF FeedTypeOK
<1>7. \A o \in Operations : Announced(o)
  BY DEF Announced
<1> QED
  BY <1>3, <1>5, <1>6, <1>7 DEF WindowInv

LEMMA WindowStep == WindowInv /\ [FeedNext]_feedVars => WindowInv'
<1> SUFFICES ASSUME WindowInv, [FeedNext]_feedVars
             PROVE  WindowInv'
  OBVIOUS
<1>1. FeedTypeOK'
  BY PlainStep, NumberedStep, OrderedStep DEF Plain, Numbered, Ordered, FeedTypeOK, Rows, Works
<1>2. Answers' /\ Events' /\ \A o \in Operations : Announced(o)'
  BY AnswersStep, EventsStep, AnnouncedStep
<1>3. listening' \in BOOLEAN /\ outdated' \in BOOLEAN
  BY PlainStep DEF Plain
<1> QED
  BY <1>1, <1>2, <1>3 DEF WindowInv

\* An operation with a conclusion on show is through.
LEMMA FinishedIsThrough ==
  ASSUME WindowInv, NEW o \in Operations, Finished(o)
  PROVE  work[o] \in {"ending", "over"}
<1>1. PICK n \in shown[o] : emitted[o][n] = "ended"
  BY DEF Finished
<1>2. n \in 1 .. Len(emitted[o]) /\ Announced(o)
  BY DEF WindowInv, FeedTypeOK
<1> QED
  BY <1>1, <1>2 DEF Announced

\* The operation that has the drawer or will get it has all that arrived.
LEMMA HeardStep == WindowInv /\ DrawerInv /\ [FeedNext]_feedVars => \A o \in Operations : Heard(o)'
<1> SUFFICES ASSUME WindowInv, DrawerInv, [FeedNext]_feedVars
             PROVE  \A p \in Operations : Heard(p)'
  OBVIOUS
<1>1. \A p \in Operations : Heard(p)
  BY DEF DrawerInv
<1> USE FeedAssumption
<1>2. ASSUME NEW o \in Operations, Accept(o) PROVE \A p \in Operations : Heard(p)'
  <2>1. /\ UNCHANGED <<emitted, wire, shown, lost>>
        /\ active' \in {active, Nothing} /\ starting' \subseteq starting
    BY <1>2 DEF Accept, engine, window, history
  <2> QED
    BY <1>1, <2>1 DEF Heard, OnTheWay
<1>3. ASSUME NEW o \in Operations, RefuseStart(o) PROVE \A p \in Operations : Heard(p)'
  <2>1. /\ UNCHANGED <<emitted, wire, shown, lost>>
        /\ active' \in {active, Nothing} /\ starting' \subseteq starting
    BY <1>3 DEF RefuseStart, engine, window, history
  <2> QED
    BY <1>1, <2>1 DEF Heard, OnTheWay
<1>4. ASSUME NEW o \in Operations, RecordPrompt(o) PROVE \A p \in Operations : Heard(p)'
  <2>1. /\ UNCHANGED <<emitted, wire, shown, lost>>
        /\ active' \in {active, Nothing} /\ starting' \subseteq starting
    BY <1>4 DEF RecordPrompt, engine, window, history
  <2> QED
    BY <1>1, <2>1 DEF Heard, OnTheWay
<1>5. ASSUME NEW o \in Operations, EmitPrompt(o) PROVE \A p \in Operations : Heard(p)'
  <2>1. Emit(o, "waiting") /\ UNCHANGED shown /\ "waiting" \in States
    BY <1>5 DEF EmitPrompt, window, States
  <2>2. UNCHANGED <<active, starting>>
    BY <1>5 DEF EmitPrompt, window
  <2>3. ASSUME NEW p \in Operations \ {o} PROVE Heard(p)'
    <3>1. emitted'[p] = emitted[p] /\ OnTheWay(p)' = OnTheWay(p) /\ lost \subseteq lost'
      BY <2>1, EmitStep
    <3> QED
      BY <1>1, <2>1, <2>2, <3>1 DEF Heard
  <2>4. ASSUME o \in {active} \cup starting, o \notin lost'
        PROVE  shown[o] = (1 .. Len(emitted'[o])) \ OnTheWay(o)'
    <3>1. /\ Len(emitted[o]) \in Nat /\ Len(emitted'[o]) = Len(emitted[o]) + 1
          /\ OnTheWay(o)' = OnTheWay(o) \cup {Len(emitted[o]) + 1} /\ lost \subseteq lost'
      BY <2>1, <2>4, EmitStep
    <3>2. shown[o] = (1 .. Len(emitted[o])) \ OnTheWay(o)
      BY <1>1, <2>4, <3>1 DEF Heard
    <3> HIDE DEF OnTheWay
    <3> QED
      BY <3>1, <3>2
  <2>5. Heard(o)'
    BY <1>1, <2>1, <2>2, <2>4 DEF Heard
  <2> QED
    BY <2>3, <2>5
<1>6. ASSUME NEW o \in Operations, EmitEnd(o) PROVE \A p \in Operations : Heard(p)'
  <2>1. Emit(o, "ended") /\ UNCHANGED shown /\ "ended" \in States
    BY <1>6 DEF EmitEnd, window, States
  <2>2. UNCHANGED <<active, starting>>
    BY <1>6 DEF EmitEnd, window
  <2>3. ASSUME NEW p \in Operations \ {o} PROVE Heard(p)'
    <3>1. emitted'[p] = emitted[p] /\ OnTheWay(p)' = OnTheWay(p) /\ lost \subseteq lost'
      BY <2>1, EmitStep
    <3> QED
      BY <1>1, <2>1, <2>2, <3>1 DEF Heard
  <2>4. ASSUME o \in {active} \cup starting, o \notin lost'
        PROVE  shown[o] = (1 .. Len(emitted'[o])) \ OnTheWay(o)'
    <3>1. /\ Len(emitted[o]) \in Nat /\ Len(emitted'[o]) = Len(emitted[o]) + 1
          /\ OnTheWay(o)' = OnTheWay(o) \cup {Len(emitted[o]) + 1} /\ lost \subseteq lost'
      BY <2>1, <2>4, EmitStep
    <3>2. shown[o] = (1 .. Len(emitted[o])) \ OnTheWay(o)
      BY <1>1, <2>4, <3>1 DEF Heard
    <3> HIDE DEF OnTheWay
    <3> QED
      BY <3>1, <3>2
  <2>5. Heard(o)'
    BY <1>1, <2>1, <2>2, <2>4 DEF Heard
  <2> QED
    BY <2>3, <2>5
<1>7. ASSUME NEW o \in Operations, RecordEnd(o) PROVE \A p \in Operations : Heard(p)'
  <2>1. /\ UNCHANGED <<emitted, wire, shown, lost>>
        /\ active' \in {active, Nothing} /\ starting' \subseteq starting
    BY <1>7 DEF RecordEnd, engine, window, history
  <2> QED
    BY <1>1, <2>1 DEF Heard, OnTheWay
<1>8. ASSUME NEW o \in Operations, Abandon(o) PROVE \A p \in Operations : Heard(p)'
  <2>1. /\ UNCHANGED <<emitted, wire, shown, lost>>
        /\ active' \in {active, Nothing} /\ starting' \subseteq starting
    BY <1>8 DEF Abandon, engine, window, history
  <2> QED
    BY <1>1, <2>1 DEF Heard, OnTheWay
<1>9. ASSUME NEW o \in Operations, RunElsewhere(o) PROVE \A p \in Operations : Heard(p)'
  <2>1. /\ UNCHANGED <<emitted, wire, shown, lost>>
        /\ active' \in {active, Nothing} /\ starting' \subseteq starting
    BY <1>9 DEF RunElsewhere, engine, window, history
  <2> QED
    BY <1>1, <2>1 DEF Heard, OnTheWay
<1>10. ASSUME NEW o \in Operations, AskStart(o) PROVE \A p \in Operations : Heard(p)'
  <2>1. /\ starting' = starting \cup {o} /\ work[o] = "none"
        /\ UNCHANGED <<emitted, wire, shown, active, lost>>
    BY <1>10 DEF AskStart, history
  <2>2. emitted[o] = <<>>
    BY <2>1 DEF WindowInv, Announced
  <2>3. \A n \in 1 .. Len(emitted[o]) : FALSE
    BY <2>2
  <2>4. shown[o] = (1 .. Len(emitted[o])) \ OnTheWay(o)
    BY <2>3 DEF WindowInv, FeedTypeOK
  <2> QED
    BY <1>1, <2>1, <2>4 DEF Heard, OnTheWay
<1>11. ASSUME NEW o \in Operations, Started(o) PROVE \A p \in Operations : Heard(p)'
  <2>1. /\ o \in starting /\ starting' = starting \ {o} /\ active' = o
        /\ shown' = [shown EXCEPT ![o] = {}]
        /\ lost' = IF shown[o] # {} THEN lost \cup {o} ELSE lost
        /\ UNCHANGED <<emitted, wire>>
    BY <1>11 DEF Started, engine
  <2>2. shown'[o] = {} /\ \A p \in Operations \ {o} : shown'[p] = shown[p]
    BY <2>1 DEF WindowInv, Events
  <2> QED
    BY <1>1, <2>1, <2>2 DEF Heard, OnTheWay
<1>12. ASSUME NEW q \in Requests, Read(q) PROVE \A p \in Operations : Heard(p)'
  <2>1. /\ UNCHANGED <<emitted, wire, shown, lost>>
        /\ active' \in {active, Nothing} /\ starting' \subseteq starting
    BY <1>12 DEF Read, engine, window, history
  <2> QED
    BY <1>1, <2>1 DEF Heard, OnTheWay
<1>13. ASSUME NEW q \in Requests, FailRequest(q) PROVE \A p \in Operations : Heard(p)'
  <2>1. /\ UNCHANGED <<emitted, wire, shown, lost>>
        /\ active' \in {active, Nothing} /\ starting' \subseteq starting
    BY <1>13 DEF FailRequest, engine, window, history
  <2> QED
    BY <1>1, <2>1 DEF Heard, OnTheWay
<1>14. ASSUME NEW q \in Requests, Delete(q) PROVE \A p \in Operations : Heard(p)'
  <2>1. /\ UNCHANGED <<emitted, wire, shown, lost>>
        /\ active' \in {active, Nothing} /\ starting' \subseteq starting
    BY <1>14 DEF Delete, engine, window, history
  <2> QED
    BY <1>1, <2>1 DEF Heard, OnTheWay
<1>15. ASSUME NEW q \in Requests, Receive(q) PROVE \A p \in Operations : Heard(p)'
  <2>1. UNCHANGED <<emitted, wire, active, starting>>
    BY <1>15 DEF Receive, engine
  <2>2. CASE ask[q].kind = "clear"
    <3>1. /\ shown' = FilterEvents(q)
          /\ lost' = lost \cup {o \in Operations \ Kept(q) :
                                o # ask[q].drawer /\ shown[o] # {}}
      BY <1>15, <2>2 DEF Receive
    <3>2. ASSUME NEW p \in Operations, p \notin lost' PROVE shown'[p] = shown[p]
      BY <3>1, <3>2 DEF FilterEvents
    <3> QED
      BY <1>1, <2>1, <3>1, <3>2 DEF Heard, OnTheWay
  <2>3. CASE ask[q].kind # "clear"
    <3>1. UNCHANGED <<shown, lost>>
      BY <1>15, <2>3 DEF Receive
    <3> QED
      BY <1>1, <2>1, <3>1 DEF Heard, OnTheWay
  <2> QED
    BY <2>2, <2>3
<1>16. ASSUME ClearElsewhere PROVE \A p \in Operations : Heard(p)'
  <2>1. /\ UNCHANGED <<emitted, wire, shown, lost>>
        /\ active' \in {active, Nothing} /\ starting' \subseteq starting
    BY <1>16 DEF ClearElsewhere, engine, window, history
  <2> QED
    BY <1>1, <2>1 DEF Heard, OnTheWay
<1>17. ASSUME Listen PROVE \A p \in Operations : Heard(p)'
  <2>1. /\ UNCHANGED <<emitted, wire, shown, lost>>
        /\ active' \in {active, Nothing} /\ starting' \subseteq starting
    BY <1>17 DEF Listen, engine, window, history
  <2> QED
    BY <1>1, <2>1 DEF Heard, OnTheWay
<1>18. ASSUME Hear PROVE \A p \in Operations : Heard(p)'
  <2>1. PICK o \in Operations : \E n \in 1 .. Len(emitted[o]) :
               /\ ToSet(wire') = ToSet(wire) \ {<<o, n>>}
               /\ shown' = [shown EXCEPT ![o] = shown[o] \cup {n}]
    BY <1>18, HearStep
  <2>2. PICK n \in 1 .. Len(emitted[o]) :
               /\ ToSet(wire') = ToSet(wire) \ {<<o, n>>}
               /\ shown' = [shown EXCEPT ![o] = shown[o] \cup {n}]
    BY <2>1
  <2>3. UNCHANGED <<emitted, active, starting, lost>> /\ shown \in [Operations -> SUBSET Nat]
    BY <1>18 DEF Hear, engine, history, WindowInv, Events
  <2>4. ASSUME NEW p \in Operations, p \in ({active} \cup starting) \ lost
        PROVE  shown'[p] = (1 .. Len(emitted[p])) \ OnTheWay(p)'
    <3>1. shown[p] = (1 .. Len(emitted[p])) \ OnTheWay(p)
      BY <1>1, <2>4 DEF Heard
    <3>2. CASE p = o
      <4>1. OnTheWay(o)' = OnTheWay(o) \ {n} /\ shown'[o] = shown[o] \cup {n}
        BY <2>2, <2>3 DEF OnTheWay
      <4> QED
        BY <3>1, <3>2, <4>1
    <3>3. CASE p # o
      <4>1. OnTheWay(p)' = OnTheWay(p) /\ shown'[p] = shown[p]
        BY <2>2, <2>3, <3>3 DEF OnTheWay
      <4> QED
        BY <3>1, <4>1
    <3> QED
      BY <3>2, <3>3
  <2> QED
    BY <1>1, <2>3, <2>4 DEF Heard
<1>19. ASSUME RefreshView PROVE \A p \in Operations : Heard(p)'
  <2>1. /\ UNCHANGED <<emitted, wire, shown, lost>>
        /\ active' \in {active, Nothing} /\ starting' \subseteq starting
    BY <1>19 DEF RefreshView, engine, window, history
  <2> QED
    BY <1>1, <2>1 DEF Heard, OnTheWay
<1>20. ASSUME AnswerPrompt PROVE \A p \in Operations : Heard(p)'
  <2>1. /\ UNCHANGED <<emitted, wire, shown, lost>>
        /\ active' \in {active, Nothing} /\ starting' \subseteq starting
    BY <1>20 DEF AnswerPrompt, engine, window, history
  <2> QED
    BY <1>1, <2>1 DEF Heard, OnTheWay
<1>21. ASSUME CloseDrawer PROVE \A p \in Operations : Heard(p)'
  <2>1. /\ UNCHANGED <<emitted, wire, shown, lost>>
        /\ active' \in {active, Nothing} /\ starting' \subseteq starting
    BY <1>21 DEF CloseDrawer, engine, window, history
  <2> QED
    BY <1>1, <2>1 DEF Heard, OnTheWay
<1>22. ASSUME AskClear PROVE \A p \in Operations : Heard(p)'
  <2>1. /\ UNCHANGED <<emitted, wire, shown, lost>>
        /\ active' \in {active, Nothing} /\ starting' \subseteq starting
    BY <1>22 DEF AskClear, engine, window, history
  <2> QED
    BY <1>1, <2>1 DEF Heard, OnTheWay
<1>23. ASSUME Reload PROVE \A p \in Operations : Heard(p)'
  <2>1. active' = Nothing /\ starting' = {}
    BY <1>23 DEF Reload
  <2> QED
    BY <1>1, <2>1 DEF Heard
<1>24. ASSUME UNCHANGED feedVars PROVE \A p \in Operations : Heard(p)'
  <2>1. /\ UNCHANGED <<emitted, wire, shown, lost>>
        /\ active' \in {active, Nothing} /\ starting' \subseteq starting
    BY <1>24 DEF feedVars, engine, window, history
  <2> QED
    BY <1>1, <2>1 DEF Heard, OnTheWay
<1> QED
  BY <1>2, <1>3, <1>4, <1>5, <1>6, <1>7, <1>8, <1>9, <1>10, <1>11, <1>12, <1>13, <1>14,
     <1>15, <1>16, <1>17, <1>18, <1>19, <1>20, <1>21, <1>22, <1>23, <1>24 DEF FeedNext

\* An operation under way keeps the drawer or is marked as having lost it.
LEMMA AttendedStep == WindowInv /\ DrawerInv /\ [FeedNext]_feedVars => \A o \in Operations : Attended(o)'
<1> SUFFICES ASSUME WindowInv, DrawerInv, [FeedNext]_feedVars
             PROVE  \A p \in Operations : Attended(p)'
  OBVIOUS
<1>1. work \in [Operations -> Works] /\ \A p \in Operations : Attended(p)
  BY DEF DrawerInv, WindowInv, FeedTypeOK, Works
<1> USE FeedAssumption
<1>2. ASSUME NEW o \in Operations, Accept(o) PROVE \A p \in Operations : Attended(p)'
  <2>1. /\ work[o] = "sent" /\ work' = [work EXCEPT ![o] = "planned"]
        /\ UNCHANGED <<active, starting, orphaned>>
    BY <1>2 DEF Accept, Reach, window, history
  <2> QED
    BY <1>1, <2>1 DEF Attended
<1>3. ASSUME NEW o \in Operations, RefuseStart(o) PROVE \A p \in Operations : Attended(p)'
  <2>1. /\ work' = [work EXCEPT ![o] = "none"] /\ UNCHANGED active
        /\ starting' = starting \ {o} /\ orphaned' = orphaned \ {o}
    BY <1>3 DEF RefuseStart, Reach
  <2> QED
    BY <1>1, <2>1 DEF Attended
<1>4. ASSUME NEW o \in Operations, RecordPrompt(o) PROVE \A p \in Operations : Attended(p)'
  <2>1. /\ work[o] = "planned" /\ work' = [work EXCEPT ![o] = "asking"]
        /\ UNCHANGED <<active, starting, orphaned>>
    BY <1>4 DEF RecordPrompt, Reach, window, history
  <2> QED
    BY <1>1, <2>1 DEF Attended
<1>5. ASSUME NEW o \in Operations, EmitPrompt(o) PROVE \A p \in Operations : Attended(p)'
  <2>1. /\ work[o] = "asking" /\ work' = [work EXCEPT ![o] = "waiting"]
        /\ UNCHANGED <<active, starting, orphaned>>
    BY <1>5 DEF EmitPrompt, Reach, window, history
  <2> QED
    BY <1>1, <2>1 DEF Attended
<1>6. ASSUME NEW o \in Operations, EmitEnd(o) PROVE \A p \in Operations : Attended(p)'
  <2>1. /\ work[o] \in {"planned", "resumed"} /\ work' = [work EXCEPT ![o] = "ending"]
        /\ UNCHANGED <<active, starting, orphaned>>
    BY <1>6 DEF EmitEnd, Reach, window, history
  <2> QED
    BY <1>1, <2>1 DEF Attended
<1>7. ASSUME NEW o \in Operations, RecordEnd(o) PROVE \A p \in Operations : Attended(p)'
  <2>1. /\ work[o] = "ending" /\ work' = [work EXCEPT ![o] = "over"]
        /\ UNCHANGED <<active, starting, orphaned>>
    BY <1>7 DEF RecordEnd, Reach, window, history
  <2> QED
    BY <1>1, <2>1 DEF Attended
<1>8. ASSUME NEW o \in Operations, Abandon(o) PROVE \A p \in Operations : Attended(p)'
  <2>1. /\ work[o] \in {"planned", "resumed"} /\ work' = [work EXCEPT ![o] = "over"]
        /\ UNCHANGED <<active, starting, orphaned>>
    BY <1>8 DEF Abandon, Reach, window, history
  <2> QED
    BY <1>1, <2>1 DEF Attended
<1>9. ASSUME NEW o \in Operations, RunElsewhere(o) PROVE \A p \in Operations : Attended(p)'
  <2>1. /\ work[o] \in {"none", "elsewhere"} /\ work' = [work EXCEPT ![o] = "elsewhere"]
        /\ UNCHANGED <<active, starting, orphaned>>
    BY <1>9 DEF RunElsewhere, Reach, window, history
  <2> QED
    BY <1>1, <2>1 DEF Attended
<1>10. ASSUME NEW o \in Operations, AskStart(o) PROVE \A p \in Operations : Attended(p)'
  <2>1. /\ work' = [work EXCEPT ![o] = "sent"] /\ starting' = starting \cup {o}
        /\ UNCHANGED <<active, orphaned>>
    BY <1>10 DEF AskStart, Reach, history
  <2> QED
    BY <1>1, <2>1 DEF Attended
<1>11. ASSUME NEW o \in Operations, Started(o) PROVE \A p \in Operations : Attended(p)'
  <2>1. /\ starting' = starting \ {o} /\ active' = o /\ UNCHANGED work
        /\ orphaned' = IF active # Nothing /\ ~Finished(active)
                       THEN orphaned \cup {active} ELSE orphaned
    BY <1>11 DEF Started, engine
  <2>2. \A p \in Operations : Finished(p) => work[p] \in {"ending", "over"}
    BY FinishedIsThrough
  <2> QED
    BY <1>1, <2>1, <2>2 DEF Attended
<1>12. ASSUME NEW q \in Requests, Read(q) PROVE \A p \in Operations : Attended(p)'
  <2>1. UNCHANGED <<work, active, starting, orphaned>>
    BY <1>12 DEF Read, engine, window, history
  <2> QED
    BY <1>1, <2>1 DEF Attended
<1>13. ASSUME NEW q \in Requests, FailRequest(q) PROVE \A p \in Operations : Attended(p)'
  <2>1. UNCHANGED <<work, active, starting, orphaned>>
    BY <1>13 DEF FailRequest, engine, window, history
  <2> QED
    BY <1>1, <2>1 DEF Attended
<1>14. ASSUME NEW q \in Requests, Delete(q) PROVE \A p \in Operations : Attended(p)'
  <2>1. UNCHANGED <<work, active, starting, orphaned>>
    BY <1>14 DEF Delete, engine, window, history
  <2> QED
    BY <1>1, <2>1 DEF Attended
<1>15. ASSUME NEW q \in Requests, Receive(q) PROVE \A p \in Operations : Attended(p)'
  <2>1. UNCHANGED <<work, active, starting, orphaned>>
    BY <1>15 DEF Receive, engine, window, history
  <2> QED
    BY <1>1, <2>1 DEF Attended
<1>16. ASSUME ClearElsewhere PROVE \A p \in Operations : Attended(p)'
  <2>1. UNCHANGED <<work, active, starting, orphaned>>
    BY <1>16 DEF ClearElsewhere, engine, window, history
  <2> QED
    BY <1>1, <2>1 DEF Attended
<1>17. ASSUME Listen PROVE \A p \in Operations : Attended(p)'
  <2>1. UNCHANGED <<work, active, starting, orphaned>>
    BY <1>17 DEF Listen, engine, window, history
  <2> QED
    BY <1>1, <2>1 DEF Attended
<1>18. ASSUME Hear PROVE \A p \in Operations : Attended(p)'
  <2>1. UNCHANGED <<work, active, starting, orphaned>>
    BY <1>18 DEF Hear, engine, window, history
  <2> QED
    BY <1>1, <2>1 DEF Attended
<1>19. ASSUME RefreshView PROVE \A p \in Operations : Attended(p)'
  <2>1. UNCHANGED <<work, active, starting, orphaned>>
    BY <1>19 DEF RefreshView, engine, window, history
  <2> QED
    BY <1>1, <2>1 DEF Attended
<1>20. ASSUME AnswerPrompt PROVE \A p \in Operations : Attended(p)'
  <2>1. /\ active \in Operations /\ work[active] = "waiting"
        /\ work' = [work EXCEPT ![active] = "resumed"]
        /\ UNCHANGED <<active, starting, orphaned>>
    BY <1>20 DEF AnswerPrompt, Reach, window, history, WindowInv, FeedTypeOK
  <2> QED
    BY <1>1, <2>1 DEF Attended
<1>21. ASSUME CloseDrawer PROVE \A p \in Operations : Attended(p)'
  <2>1. /\ active \in Operations /\ Finished(active)
        /\ UNCHANGED <<work, starting, orphaned>>
    BY <1>21 DEF CloseDrawer, engine, history, WindowInv, FeedTypeOK
  <2>2. work[active] \in {"ending", "over"}
    BY <2>1, FinishedIsThrough
  <2> QED
    BY <1>1, <2>1, <2>2 DEF Attended
<1>22. ASSUME AskClear PROVE \A p \in Operations : Attended(p)'
  <2>1. UNCHANGED <<work, active, starting, orphaned>>
    BY <1>22 DEF AskClear, engine, window, history
  <2> QED
    BY <1>1, <2>1 DEF Attended
<1>23. ASSUME Reload PROVE \A p \in Operations : Attended(p)'
  <2>1. /\ UNCHANGED work
        /\ orphaned' = orphaned \cup {o \in Operations : Running(o)}
    BY <1>23 DEF Reload, engine
  <2> QED
    BY <2>1 DEF Attended, Running
<1>24. ASSUME UNCHANGED feedVars PROVE \A p \in Operations : Attended(p)'
  <2>1. UNCHANGED <<work, active, starting, orphaned>>
    BY <1>24 DEF feedVars, engine, window, history
  <2> QED
    BY <1>1, <2>1 DEF Attended
<1> QED
  BY <1>2, <1>3, <1>4, <1>5, <1>6, <1>7, <1>8, <1>9, <1>10, <1>11, <1>12, <1>13, <1>14,
     <1>15, <1>16, <1>17, <1>18, <1>19, <1>20, <1>21, <1>22, <1>23, <1>24 DEF FeedNext

LEMMA DrawerStep == WindowInv /\ DrawerInv /\ [FeedNext]_feedVars => DrawerInv'
BY HeardStep, AttendedStep DEF DrawerInv

-----------------------------------------------------------------------------
(* What is read again.                                                     *)

\* A request that has not read keeps the records due.
LEMMA SentIsDue ==
  ASSUME WindowInv, NEW q \in Requests, NEW kind \in {"load", "refresh", "clear"}, Send(q, kind),
         UNCHANGED <<earlier, late>>
  PROVE  WatchInv'
<1>1. ask'[q].kind # "none" /\ ask'[q].phase # "read"
  BY SendStep
<1> QED
  BY <1>1 DEF ReadingDue, Due, Watched, WatchInv

\* Where nothing happens to an operation or to the answers it is watched as before.
LEMMA StillWatched ==
  ASSUME NEW p \in Operations, Watched(p), table'[p] = table[p], Underway(p) => Underway(p)',
         UNCHANGED <<data, ask, earlier, late, outdated>>,
         unseen \subseteq unseen', ReadingDue => ReadingDue'
  PROVE  Watched(p)'
<1>1. Pending' = Pending
  BY DEF Pending
<1>2. CASE Due(p)
  BY <1>2 DEF Due, Watched
<1>3. ASSUME NEW q \in Requests, Coming(q, p) PROVE Watched(p)'
  BY <1>1, <1>3 DEF Coming, Watched
<1>4. CASE Pending \subseteq late /\ (data = <<>> \/ data[p] = table[p] \/ outdated)
  BY <1>1, <1>4 DEF Watched
<1> QED
  BY <1>2, <1>3, <1>4 DEF Watched

\* So does everything while one operation goes on and is under way.
LEMMA OthersWatched ==
  ASSUME WatchInv, NEW o \in Operations, Underway(o)',
         \A p \in Operations \ {o} : table'[p] = table[p] /\ work'[p] = work[p],
         UNCHANGED <<data, ask, earlier, late, outdated, unseen>>, ReadingDue => ReadingDue'
  PROVE  WatchInv'
<1>1. Watched(o)'
  BY DEF Watched, Due
<1>2. ASSUME NEW p \in Operations \ {o} PROVE Watched(p)'
  BY <1>2, StillWatched DEF WatchInv, Underway
<1> QED
  BY <1>1, <1>2 DEF WatchInv

\* A change that nobody announces is marked, unless the records are read anyway.
LEMMA ChangedIsWatched ==
  ASSUME WatchInv, NEW ops \in SUBSET Operations, Changed(ops),
         \A p \in Operations \ ops : table'[p] = table[p] /\ work'[p] = work[p],
         UNCHANGED <<emitted, wire, data, ask, earlier, late, outdated>>
  PROVE  WatchInv'
<1>1. ReadingDue' <=> ReadingDue
  BY DEF ReadingDue
<1>2. CASE ReadingDue
  BY <1>1, <1>2 DEF WatchInv, Watched, Due
<1>3. CASE ~ReadingDue
  <2>1. unseen' = unseen \cup ops
    BY <1>3 DEF Changed
  <2>2. ASSUME NEW p \in ops PROVE Watched(p)'
    BY <2>1, <2>2 DEF Watched, Due
  <2>3. ASSUME NEW p \in Operations \ ops PROVE Watched(p)'
    BY <1>1, <2>1, <2>3, StillWatched DEF WatchInv, Underway
  <2> QED
    BY <2>2, <2>3 DEF WatchInv
<1> QED
  BY <1>2, <1>3

\* What the window has not shown is due, is coming, or was overtaken.
LEMMA WatchedStep == WindowInv /\ WatchInv /\ [FeedNext]_feedVars => WatchInv'
<1> SUFFICES ASSUME WindowInv, WatchInv, [FeedNext]_feedVars
             PROVE  WatchInv'
  OBVIOUS
<1>1. /\ work \in [Operations -> Works] /\ table \in Rows
      /\ active \in Operations \cup {Nothing}
  BY DEF WindowInv, FeedTypeOK, Works, Rows
<1> USE FeedAssumption
<1>2. ASSUME NEW o \in Operations, Accept(o) PROVE WatchInv'
  <2>1. work' = [work EXCEPT ![o] = "planned"] /\ \A p \in Operations \ {o} : table'[p] = table[p]
    BY <1>1, <1>2 DEF Accept, Record, Reach, engine
  <2>2. UNCHANGED <<emitted, wire, data, ask, earlier, late, outdated, unseen>>
    BY <1>2 DEF Accept, engine, window, calls, history
  <2>3. Underway(o)' /\ \A p \in Operations \ {o} : work'[p] = work[p]
    BY <1>1, <2>1 DEF Underway
  <2>4. ReadingDue' <=> ReadingDue
    BY <2>2 DEF ReadingDue
  <2> QED
    BY <2>1, <2>2, <2>3, <2>4, OthersWatched
<1>3. ASSUME NEW o \in Operations, RefuseStart(o) PROVE WatchInv'
  <2>1. /\ work' = [work EXCEPT ![o] = "none"] /\ work[o] \in {"none", "sent"}
        /\ UNCHANGED <<table, emitted, wire, data, ask, earlier, late, unseen, outdated>>
    BY <1>3 DEF RefuseStart, Reach, calls, history
  <2>2. \A p \in Operations : Underway(p) => Underway(p)'
    BY <1>1, <2>1 DEF Underway
  <2>3. ReadingDue' <=> ReadingDue
    BY <2>1 DEF ReadingDue
  <2> QED
    BY <2>1, <2>2, <2>3, StillWatched DEF WatchInv
<1>4. ASSUME NEW o \in Operations, RecordPrompt(o) PROVE WatchInv'
  <2>1. work' = [work EXCEPT ![o] = "asking"] /\ \A p \in Operations \ {o} : table'[p] = table[p]
    BY <1>1, <1>4 DEF RecordPrompt, Record, Reach, engine
  <2>2. UNCHANGED <<emitted, wire, data, ask, earlier, late, outdated, unseen>>
    BY <1>4 DEF RecordPrompt, engine, window, calls, history
  <2>3. Underway(o)' /\ \A p \in Operations \ {o} : work'[p] = work[p]
    BY <1>1, <2>1 DEF Underway
  <2>4. ReadingDue' <=> ReadingDue
    BY <2>2 DEF ReadingDue
  <2> QED
    BY <2>1, <2>2, <2>3, <2>4, OthersWatched
<1>5. ASSUME NEW o \in Operations, EmitPrompt(o) PROVE WatchInv'
  <2>1. Emit(o, "waiting") /\ UNCHANGED shown /\ "waiting" \in States
    BY <1>5 DEF EmitPrompt, window, States
  <2>2. /\ work' = [work EXCEPT ![o] = "waiting"]
        /\ UNCHANGED <<table, data, ask, earlier, late, outdated, unseen>>
    BY <1>5 DEF EmitPrompt, Reach, window, calls
  <2>3. Underway(o)' /\ \A p \in Operations \ {o} : work'[p] = work[p]
    BY <1>1, <2>2 DEF Underway
  <2>4. \A x \in ToSet(wire) : x \in ToSet(wire') /\ emitted'[x[1]][x[2]] = emitted[x[1]][x[2]]
    BY <2>1, EmitStep
  <2>5. ReadingDue => ReadingDue'
    BY <2>2, <2>4 DEF ReadingDue
  <2> QED
    BY <2>2, <2>3, <2>5, OthersWatched
<1>6. ASSUME NEW o \in Operations, EmitEnd(o) PROVE WatchInv'
  <2>1. Emit(o, "ended") /\ UNCHANGED shown /\ "ended" \in States
    BY <1>6 DEF EmitEnd, window, States
  <2>2. /\ work' = [work EXCEPT ![o] = "ending"]
        /\ UNCHANGED <<table, data, ask, earlier, late, outdated, unseen>>
    BY <1>6 DEF EmitEnd, Reach, window, calls
  <2>3. Underway(o)' /\ \A p \in Operations \ {o} : work'[p] = work[p]
    BY <1>1, <2>2 DEF Underway
  <2>4. \A x \in ToSet(wire) : x \in ToSet(wire') /\ emitted'[x[1]][x[2]] = emitted[x[1]][x[2]]
    BY <2>1, EmitStep
  <2>5. ReadingDue => ReadingDue'
    BY <2>2, <2>4 DEF ReadingDue
  <2> QED
    BY <2>2, <2>3, <2>5, OthersWatched
<1>7. ASSUME NEW o \in Operations, RecordEnd(o) PROVE WatchInv'
  <2>1. /\ Changed({o}) /\ UNCHANGED <<emitted, wire, data, ask, earlier, late, outdated>>
        /\ \A p \in Operations \ {o} : table'[p] = table[p] /\ work'[p] = work[p]
    BY <1>1, <1>7 DEF RecordEnd, Record, Reach, Rows, window, calls
  <2> QED
    BY <2>1, ChangedIsWatched
<1>8. ASSUME NEW o \in Operations, Abandon(o) PROVE WatchInv'
  <2>1. /\ Changed({o}) /\ UNCHANGED <<emitted, wire, data, ask, earlier, late, outdated>>
        /\ \A p \in Operations \ {o} : table'[p] = table[p] /\ work'[p] = work[p]
    BY <1>1, <1>8 DEF Abandon, Record, Reach, Rows, window, calls
  <2> QED
    BY <2>1, ChangedIsWatched
<1>9. ASSUME NEW o \in Operations, RunElsewhere(o) PROVE WatchInv'
  <2>1. /\ Changed({o}) /\ UNCHANGED <<emitted, wire, data, ask, earlier, late, outdated>>
        /\ \A p \in Operations \ {o} : table'[p] = table[p] /\ work'[p] = work[p]
    BY <1>1, <1>9 DEF RunElsewhere, Record, Reach, Rows, window, calls
  <2> QED
    BY <2>1, ChangedIsWatched
<1>10. ASSUME NEW o \in Operations, AskStart(o) PROVE WatchInv'
  <2>1. /\ work' = [work EXCEPT ![o] = "sent"] /\ work[o] \in {"none", "sent"}
        /\ UNCHANGED <<table, emitted, wire, data, ask, earlier, late, unseen, outdated>>
    BY <1>10 DEF AskStart, Reach, calls, history
  <2>2. \A p \in Operations : Underway(p) => Underway(p)'
    BY <1>1, <2>1 DEF Underway
  <2>3. ReadingDue' <=> ReadingDue
    BY <2>1 DEF ReadingDue
  <2> QED
    BY <2>1, <2>2, <2>3, StillWatched DEF WatchInv
<1>11. ASSUME NEW o \in Operations, Started(o) PROVE WatchInv'
  <2>1. UNCHANGED <<table, work, emitted, wire, data, ask, earlier, late, unseen, outdated>>
    BY <1>11 DEF Started, engine, window, calls, history
  <2>2. ReadingDue' <=> ReadingDue
    BY <2>1 DEF ReadingDue
  <2> QED
    BY <2>1, <2>2, StillWatched DEF WatchInv, Underway
<1>12. ASSUME NEW q \in Requests, Read(q) PROVE WatchInv'
  <2>1. Pending' = Pending \cup {q} /\ q \notin Pending /\ ask'[q].rows = table
    BY <1>12, ReadStep
  <2>2. UNCHANGED <<table, late>> /\ earlier' = earlier \cup Pending \X {q}
    BY <1>12 DEF Read, engine
  <2>3. q \notin late'
    BY <2>1, <2>2 DEF WindowInv, FeedTypeOK
  <2>4. \A p \in Operations : Coming(q, p)'
    BY <2>1, <2>2, <2>3 DEF Coming
  <2> QED
    BY <2>4 DEF Watched, WatchInv
<1>13. ASSUME NEW q \in Requests, FailRequest(q) PROVE WatchInv'
  BY <1>13 DEF FailRequest, Watched, Due, WatchInv
<1>14. ASSUME NEW q \in Requests, Delete(q) PROVE WatchInv'
  <2>1. ask'[q].kind # "none" /\ ask'[q].phase # "read"
    BY <1>14, DeleteStep
  <2> QED
    BY <2>1 DEF ReadingDue, Due, Watched, WatchInv
<1>15. ASSUME NEW q \in Requests, Receive(q) PROVE WatchInv'
  <2>1. /\ Pending' = Pending \ {q} /\ q \in Pending
        /\ \A r \in Requests \ {q} : ask'[r] = ask[r]
    BY <1>15, FreeStep DEF Receive, Pending
  <2>2. /\ late' = (late \cup {r \in Requests : <<r, q>> \in earlier}) \ {q}
        /\ earlier' = {e \in earlier : q \notin {e[1], e[2]}}
        /\ UNCHANGED <<table, work, emitted, wire, unseen>>
    BY <1>15 DEF Receive, engine
  <2>3. \/ data' = ask[q].rows /\ outdated' = (q \in late)
        \/ data = <<>> /\ UNCHANGED <<data, outdated>>
    BY <1>15 DEF Receive
  <2> SUFFICES ASSUME NEW p \in Operations, Watched(p)
               PROVE  Watched(p)'
    BY DEF WatchInv
  <2>4. CASE Due(p)
    <3>1. ASSUME NEW r \in Requests, ask[r].kind # "none", ask[r].phase # "read"
          PROVE  ask'[r] = ask[r]
      BY <2>1, <3>1 DEF Pending
    <3>2. ReadingDue => ReadingDue'
      BY <2>2, <3>1 DEF ReadingDue
    <3> QED
      BY <2>2, <2>4, <3>2 DEF Watched, Due, Underway
  <2>5. CASE Coming(q, p)
    <3>1. Pending' \subseteq late'
      BY <2>1, <2>2, <2>5 DEF Coming, Pending
    <3>2. data' = <<>> \/ data'[p] = table'[p] \/ outdated'
      BY <2>2, <2>3, <2>5 DEF Coming
    <3> QED
      BY <3>1, <3>2 DEF Watched
  <2>6. ASSUME NEW r \in Requests \ {q}, Coming(r, p) PROVE Watched(p)'
    <3>1. r \in Pending /\ r \notin late /\ ask[r].rows[p] = table[p] /\ <<q, r>> \in earlier
      BY <2>1, <2>6 DEF Coming
    <3>2. <<r, q>> \notin earlier
      BY <3>1 DEF WindowInv, Answers
    <3>3. r \in Pending' \ late' /\ ask'[r].rows[p] = table'[p]
      BY <2>1, <2>2, <3>1, <3>2
    <3>4. \A t \in Pending' \ {r} : <<t, r>> \in earlier'
      BY <2>1, <2>2, <2>6 DEF Coming
    <3> QED
      BY <3>3, <3>4 DEF Watched, Coming
  <2>7. CASE Pending \subseteq late /\ (data = <<>> \/ data[p] = table[p] \/ outdated)
    <3>1. Pending' \subseteq late' /\ q \in late
      BY <2>1, <2>2, <2>7
    <3>2. data' = <<>> \/ data'[p] = table'[p] \/ outdated'
      BY <2>2, <2>3, <2>7, <3>1
    <3> QED
      BY <3>1, <3>2 DEF Watched
  <2> QED
    BY <2>4, <2>5, <2>6, <2>7 DEF Watched
<1>16. ASSUME ClearElsewhere PROVE WatchInv'
  <2>1. /\ Changed(Ended) /\ UNCHANGED <<work, emitted, wire, data, ask, earlier, late, outdated>>
        /\ Ended \subseteq Operations /\ \A p \in Operations \ Ended : table'[p] = table[p]
    BY <1>16 DEF ClearElsewhere, DeleteEnded, Ended, window, calls
  <2> QED
    BY <2>1, ChangedIsWatched
<1>17. ASSUME Listen PROVE WatchInv'
  <2>1. UNCHANGED <<table, work, emitted, wire, data, ask, earlier, late, unseen, outdated>>
    BY <1>17 DEF Listen, engine, window, calls, history
  <2>2. ReadingDue' <=> ReadingDue
    BY <2>1 DEF ReadingDue
  <2> QED
    BY <2>1, <2>2, StillWatched DEF WatchInv, Underway
<1>18. ASSUME Hear PROVE WatchInv'
  <2>1. PICK o \in Operations : \E n \in 1 .. Len(emitted[o]) :
               /\ ToSet(wire') = ToSet(wire) \ {<<o, n>>}
               /\ IF emitted[o][n] = "ended" THEN \E q \in Requests : Send(q, "refresh")
                                             ELSE UNCHANGED ask
    BY <1>18, HearStep
  <2>2. PICK n \in 1 .. Len(emitted[o]) :
               /\ ToSet(wire') = ToSet(wire) \ {<<o, n>>}
               /\ IF emitted[o][n] = "ended" THEN \E q \in Requests : Send(q, "refresh")
                                             ELSE UNCHANGED ask
    BY <2>1
  <2>3. UNCHANGED <<table, work, emitted, data, earlier, late, unseen, outdated>>
    BY <1>18 DEF Hear, engine, history
  <2>4. CASE emitted[o][n] = "ended"
    BY <2>2, <2>3, <2>4, SentIsDue
  <2>5. CASE emitted[o][n] # "ended"
    <3>1. UNCHANGED ask
      BY <2>2, <2>5
    <3>2. ASSUME NEW e \in ToSet(wire), emitted[e[1]][e[2]] = "ended" PROVE e \in ToSet(wire')
      BY <2>2, <2>5, <3>2
    <3>3. ReadingDue => ReadingDue'
      BY <2>3, <3>1, <3>2 DEF ReadingDue
    <3> QED
      BY <2>3, <3>1, <3>3, StillWatched DEF WatchInv, Underway
  <2> QED
    BY <2>4, <2>5
<1>19. ASSUME RefreshView PROVE WatchInv'
  BY <1>19, RefreshStep, SentIsDue
<1>20. ASSUME AnswerPrompt PROVE WatchInv'
  <2>1. /\ active \in Operations /\ work' = [work EXCEPT ![active] = "resumed"]
        /\ work[active] = "waiting"
        /\ UNCHANGED <<table, emitted, wire, data, ask, earlier, late, outdated, unseen>>
    BY <1>1, <1>20 DEF AnswerPrompt, Reach, window, calls, history
  <2>2. \A p \in Operations : Underway(p) => Underway(p)'
    BY <1>1, <2>1 DEF Underway
  <2>3. ReadingDue' <=> ReadingDue
    BY <2>1 DEF ReadingDue
  <2> QED
    BY <2>1, <2>2, <2>3, StillWatched DEF WatchInv
<1>21. ASSUME CloseDrawer PROVE WatchInv'
  <2>1. UNCHANGED <<table, work, emitted, wire, data, ask, earlier, late, unseen, outdated>>
    BY <1>21 DEF CloseDrawer, engine, window, calls, history
  <2>2. ReadingDue' <=> ReadingDue
    BY <2>1 DEF ReadingDue
  <2> QED
    BY <2>1, <2>2, StillWatched DEF WatchInv, Underway
<1>22. ASSUME AskClear PROVE WatchInv'
  <2>1. UNCHANGED <<earlier, late>> /\ \E q \in Requests : Send(q, "clear")
    BY <1>22 DEF AskClear
  <2> QED
    BY <2>1, SentIsDue
<1>23. ASSUME Reload PROVE WatchInv'
  <2>1. \E q \in Requests : ask'[q].kind # "none" /\ ask'[q].phase # "read"
    BY <1>23 DEF Reload, Ask
  <2> QED
    BY <2>1 DEF ReadingDue, Due, Watched, WatchInv
<1>24. ASSUME UNCHANGED feedVars PROVE WatchInv'
  <2>1. UNCHANGED <<table, work, emitted, wire, data, ask, earlier, late, unseen, outdated>>
    BY <1>24 DEF feedVars, engine, window, calls, history
  <2>2. ReadingDue' <=> ReadingDue
    BY <2>1 DEF ReadingDue
  <2> QED
    BY <2>1, <2>2, StillWatched DEF WatchInv, Underway
<1> QED
  BY <1>2, <1>3, <1>4, <1>5, <1>6, <1>7, <1>8, <1>9, <1>10, <1>11, <1>12, <1>13, <1>14,
     <1>15, <1>16, <1>17, <1>18, <1>19, <1>20, <1>21, <1>22, <1>23, <1>24 DEF FeedNext

LEMMA InitFeed == FeedInit => WindowInv /\ DrawerInv /\ WatchInv
<1> SUFFICES ASSUME FeedInit
             PROVE  WindowInv /\ DrawerInv /\ WatchInv
  OBVIOUS
<1>1. \A o \in Operations : Heard(o) /\ Attended(o)
  BY FeedAssumption DEF FeedInit, Heard, Attended
<1>2. ReadingDue
  BY DEF FeedInit, Ask, ReadingDue
<1> QED
  BY <1>1, <1>2, InitWindow DEF DrawerInv, WatchInv, Watched, Due

\* The window keeps its types and its bookkeeping, for any numbers of operations, calls
\* and reloads (ActivityFeed!FeedTypeOK).
THEOREM FeedTypeCorrect == FeedSpec => []FeedTypeOK
<1>1. WindowInv => FeedTypeOK
  BY DEF WindowInv
<1> QED
  BY <1>1, InitWindow, WindowStep, PTL DEF FeedSpec

\* When all is quiet the window has each record as it is, unless an older answer came
\* last, the last reading failed, or the record changed when no reading was due; the
\* drawer has every event of its operation that arrived and was not dropped, and an
\* operation that waits for the user has it (ActivityFeed!ViewIsTruthful).
THEOREM WindowIsTruthful == FeedSpec => []ViewIsTruthful
<1>1. WindowInv /\ DrawerInv /\ WatchInv => ViewIsTruthful
  <2> SUFFICES ASSUME WindowInv, DrawerInv, WatchInv
               PROVE  ViewIsTruthful
    OBVIOUS
  <2>1. ASSUME Quiet, ~outdated, NEW o \in Operations \ unseen PROVE data[o] = table[o]
    <3>1. Pending = {} /\ ToSet(wire) = {} /\ data # <<>>
      BY <2>1 DEF Quiet, Pending, ToSet
    <3>2. ~Due(o)
      BY <2>1, <3>1 DEF Quiet, Due, ReadingDue, Running, Underway
    <3>3. Watched(o)
      BY <2>1 DEF WatchInv
    <3> QED
      BY <2>1, <3>1, <3>2, <3>3 DEF Watched, Coming
  <2>2. ASSUME active # Nothing, active \notin lost
        PROVE  shown[active] = (1 .. Len(emitted[active])) \ OnTheWay(active)
    BY <2>2 DEF DrawerInv, Heard, WindowInv, FeedTypeOK
  <2>3. ASSUME NEW o \in Operations, work[o] = "waiting", o \notin starting \cup orphaned
        PROVE  active = o
    BY <2>3 DEF DrawerInv, Attended
  <2> QED
    BY <2>1, <2>2, <2>3 DEF ViewIsTruthful
<1> QED
  BY <1>1, InitFeed, WindowStep, DrawerStep, WatchedStep, PTL DEF FeedSpec

-----------------------------------------------------------------------------
(* The two together.                                                       *)

\* The composition that is model-checked keeps the types of both, in every instance
\* (MCDesktop!DesktopTypeOK).
THEOREM DesktopTypeCorrect == DesktopSpec => []DesktopTypeOK
<1>1. DesktopInit => DiscoveryInit /\ FeedInit
  BY DEF DesktopInit
<1>2. [DesktopNext]_allVars => [DiscoveryNext]_discoveryVars /\ [FeedNext]_feedVars
  BY DEF DesktopNext, allVars
<1>3. DesktopSpec => DiscoverySpec /\ FeedSpec
  BY <1>1, <1>2, PTL DEF DesktopSpec, DiscoverySpec, FeedSpec
<1> QED
  BY <1>3, DiscoveryTypeCorrect, FeedTypeCorrect, PTL DEF DesktopTypeOK

=============================================================================
