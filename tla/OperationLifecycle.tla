-------------------------- MODULE OperationLifecycle --------------------------
(***************************************************************************)
(* What an observer of an operation may rely on: the diagram under         *)
(* "Operation lifecycle" in docs/architecture.md, corrected where the code *)
(* does otherwise.  `shown` is the state of the last event, `record` the   *)
(* persisted state, `closed` the operations no task works on any more.     *)
(*                                                                         *)
(* An operation may close at any moment, without a word: the process died  *)
(* or a write failed.  Short of that it climbs the stages, announces one   *)
(* conclusion, records that same one, and is silent afterwards.  Only a    *)
(* recorded conclusion can be cleared, and a cleared record stays cleared. *)
(***************************************************************************)
CONSTANT Operations
VARIABLES record, shown, closed

Conclusions == {"succeeded", "failed", "cancelled"}

\* Stages a record goes through; the command line does not write "planned".
Stages ==
  { <<"absent", "planned">>, <<"absent", "preflight">>, <<"planned", "preflight">>,
    <<"preflight", "running">>, <<"running", "running">>,
    <<"running", "waiting_for_user">>, <<"waiting_for_user", "running">> }

\* Before the first recipe an operation can only fail: not even a cancelled
\* one says "cancelled" there.
Endings ==
  ({"none", "preflight"} \X {"failed"})
    \cup ({"running", "waiting_for_user"} \X Conclusions)

Init ==
  /\ record = [o \in Operations |-> "absent"]
  /\ shown = [o \in Operations |-> "none"]
  /\ closed = {}

Advance(o, stage) ==
  /\ o \notin closed /\ shown[o] \notin Conclusions
  /\ <<record[o], stage>> \in Stages
  /\ record' = [record EXCEPT ![o] = stage]
  /\ shown' = IF stage = "planned" THEN shown ELSE [shown EXCEPT ![o] = stage]
  /\ closed' = closed

\* Progress and log events, which need not be followed by a record.
Report(o) ==
  /\ o \notin closed /\ shown[o] \in {"running", "waiting_for_user"}
  /\ shown' = [shown EXCEPT ![o] = "running"]
  /\ closed' \in {closed, closed \cup {o}}
  /\ record' = record

Announce(o, end) ==
  /\ o \notin closed
  /\ <<shown[o], end>> \in Endings
  /\ shown' = [shown EXCEPT ![o] = end]
  /\ UNCHANGED <<record, closed>>

Keep(o) ==
  /\ o \notin closed /\ shown[o] \in Conclusions
  /\ record' = [record EXCEPT ![o] = shown[o]]
  /\ closed' = closed \cup {o}
  /\ shown' = shown

Vanish ==
  /\ closed' \in SUBSET Operations /\ closed \subseteq closed'
  /\ UNCHANGED <<record, shown>>

Clear ==
  /\ record' = [o \in Operations |->
                  IF record[o] \in Conclusions /\ o \in closed THEN "absent"
                                                              ELSE record[o]]
  /\ UNCHANGED <<shown, closed>>

Next ==
  \/ \E o \in Operations :
       \/ \E stage \in {"planned", "preflight", "running", "waiting_for_user"} :
            Advance(o, stage)
       \/ Report(o)
       \/ \E end \in Conclusions : Announce(o, end)
       \/ Keep(o)
  \/ Vanish
  \/ Clear

Spec == Init /\ [][Next]_<<record, shown, closed>>
=============================================================================
