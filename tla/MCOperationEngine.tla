-------------------------- MODULE MCOperationEngine --------------------------
(* Small instances of OperationEngine for TLC. *)
EXTENDS OperationEngine, TLC

CONSTANTS app, cli, opA, opB, pfx, other, base, mid, leaf, lone

TwoOperations == {opA, opB}
OnePrefix     == {pfx}
SamePrefix    == opA :> pfx @@ opB :> pfx
OneProcess    == opA :> app @@ opB :> app
TwoProcesses  == opA :> app @@ opB :> cli

\* mid needs base, leaf needs mid; lone needs nothing.
ChainRecipes == {base, mid, leaf, lone}
ChainDepends == base :> {} @@ mid :> {base} @@ leaf :> {mid} @@ lone :> {}
ChainScript  == base :> <<"process", "verify">> @@ mid :> <<"prompt">>
                @@ leaf :> <<"file">> @@ lone :> <<"process">>
ChainPlans   == opA :> <<base, mid, leaf, lone>> @@ opB :> <<base, lone>>

\* A plan with a prompt and one without: the command line has no way to answer.
ShortScript  == base :> <<"process", "verify">> @@ mid :> <<"prompt">>
                @@ leaf :> <<"file">> @@ lone :> <<"file">>
ShortPlans   == opA :> <<base, mid>> @@ opB :> <<lone, base>>

=============================================================================
