------------------------------- MODULE MCDesktop -------------------------------
(***************************************************************************)
(* Instances of PrefixDiscovery and ActivityFeed for TLC.  The two share   *)
(* no state, so each is checked while the other rests: "subject" says      *)
(* which of them moves.                                                    *)
(***************************************************************************)
EXTENDS PrefixDiscovery, ActivityFeed, TLC

CONSTANTS pfx

VARIABLE subject

MCProviders == <<"default", "steam">>
MCNamedBy == pfx :> {"default", "steam"}
Interchangeable == Permutations(Commands) \cup Permutations(Operations) \cup Permutations(Requests)

allVars == <<subject, discoveryVars, feedVars>>

\* The one that rests has one initial state.
DesktopInit ==
  /\ subject \in {"discovery", "feed"} /\ DiscoveryInit /\ FeedInit
  /\ subject = "feed" => \A p \in Places : disk[p] = "missing"

DesktopNext ==
  /\ UNCHANGED subject
  /\ \/ subject = "discovery" /\ DiscoveryNext /\ UNCHANGED feedVars
     \/ subject = "feed" /\ FeedNext /\ UNCHANGED discoveryVars

DesktopSpec == DesktopInit /\ [][DesktopNext]_allVars

\* The type invariants of both.
DesktopTypeOK == DiscoveryTypeOK /\ FeedTypeOK

=============================================================================
