----------------------------- MODULE RestorePoints -----------------------------
(***************************************************************************)
(* What operations and the recovery manager owe each other.  `kept` are    *)
(* the restore points that are listed and whole, `phase` says how far the  *)
(* operation of a point is for whoever asks the operations table.          *)
(*                                                                         *)
(* The operation has a record before its point is taken, and never one     *)
(* again behind its conclusion.  The point appears at once, and as long as *)
(* the operation is unfinished nobody takes it away.  OperationEngine and  *)
(* Recovery both implement this: what one relies on is what the other      *)
(* does, statement by statement.                                           *)
(***************************************************************************)
CONSTANTS Points, Owned
VARIABLES kept, phase

Init ==
  /\ kept = {}
  /\ phase = [x \in Points |-> "none"]

\* The operation is recorded.
Ask(x) ==
  /\ x \in Owned \ kept /\ phase[x] = "none"
  /\ phase' = [phase EXCEPT ![x] = "unfinished"]
  /\ UNCHANGED kept

Take(x) ==
  /\ x \in Owned => phase[x] = "unfinished"
  /\ x \notin kept
  /\ kept' = kept \cup {x}
  /\ UNCHANGED phase

\* Its conclusion is recorded, or it will never have a record.
Conclude(x) ==
  /\ x \in Owned /\ phase[x] # "over"
  /\ phase' = [phase EXCEPT ![x] = "over"]
  /\ UNCHANGED kept

\* All points that no unfinished operation owns, or some of them, if it fails.
Clear ==
  /\ kept' \in SUBSET kept
  /\ {x \in kept : phase[x] = "unfinished"} \subseteq kept'
  /\ UNCHANGED phase

Next ==
  \/ \E x \in Points : Ask(x) \/ Take(x) \/ Conclude(x)
  \/ Clear

Spec == Init /\ [][Next]_<<kept, phase>>
=============================================================================
