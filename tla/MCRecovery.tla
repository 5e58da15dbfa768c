------------------------------ MODULE MCRecovery ------------------------------
(* Small instances of Recovery for TLC. *)
EXTENDS Recovery, TLC

CONSTANTS app, other, job1, job2, tree, tar, pfx

OneWindow  == job1 :> app @@ job2 :> app
TwoWindows == job1 :> app @@ job2 :> other
OneOrTwo   == {OneWindow, TwoWindows}
OnlyOne    == {OneWindow}
OnePrefix  == tree :> pfx @@ tar :> pfx
ByTheApp   == tree :> app @@ tar :> app

=============================================================================
