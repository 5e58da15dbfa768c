---------------------------- MODULE MCCatalogUpdate ----------------------------
(* Small instances of CatalogUpdate for TLC. *)
EXTENDS CatalogUpdate, TLC

CONSTANTS desktop, cli, task1, task2

InTheWindow == task1 :> desktop @@ task2 :> desktop
OneAtATime == task1 :> desktop

\* Every task may do either: update or roll back.
AnyTask == Permutations(Tasks)

=============================================================================
