------------------------ MODULE OperationEngineProofs ------------------------
(***************************************************************************)
(* What holds of the operation engine for any number of operations,        *)
(* prefixes, processes and recipes, and any bounds on faults; what the     *)
(* history and the events tell of operations; and that the engine          *)
(* implements OperationLifecycle.                                          *)
(***************************************************************************)
EXTENDS OperationEngine, TLAPS

-----------------------------------------------------------------------------
(* What the shared statements do to the variable they are about.           *)

\* The task of o is where it was sent, and no other task moved.
LEMMA GotoMoves ==
  ASSUME TypeOK, NEW o \in Operations, NEW phase \in Phase, Goto(o, phase)
  PROVE  /\ pc' \in [Operations -> Phase]
         /\ pc'[o] = phase
         /\ \A q \in Operations : q # o => pc'[q] = pc[q]
BY DEF TypeOK, Goto

\* The last event of o is the one emitted, and nobody else emitted any.
LEMMA EmitShows ==
  ASSUME TypeOK, NEW o \in Operations, NEW state \in RecordState, Emit(o, state)
  PROVE  /\ shown' \in [Operations -> {"none"} \cup RecordState]
         /\ shown'[o] = state
         /\ \A q \in Operations : q # o => shown'[q] = shown[q]
BY DEF TypeOK, Emit

\* The record of o is the one written, and no other record changed.
LEMMA PersistWrites ==
  ASSUME TypeOK, NEW o \in Operations, NEW state \in RecordState, Persist(o, state)
  PROVE  /\ record' \in [Operations -> {"absent"} \cup RecordState]
         /\ dbErrors' \in Nat
         /\ record'[o] = state
         /\ \A q \in Operations : q # o => record'[q] = record[q]
BY DEF TypeOK, Persist

\* A write that fails leaves every record alone.
LEMMA PersistFailsKeeps ==
  ASSUME TypeOK, PersistFails
  PROVE  record' = record /\ dbErrors' \in Nat
BY DEF TypeOK, PersistFails

-----------------------------------------------------------------------------
(* Type correctness.                                                       *)

InRecipe == {"step", "working", "prompting", "awaiting"}

\* Typing is not inductive by itself: the index of a task inside a recipe names
\* a recipe of its plan, and a task that closes has announced a conclusion.
Grounded(o) ==
  /\ at[o] >= 1
  /\ pc[o] \in InRecipe => at[o] <= Len(Plan[o])
  /\ pc[o] = "closing" => shown[o] \in Terminal
TypeInv == TypeOK /\ \A o \in Operations : Grounded(o)

\* The recipe a task is inside of is a recipe.
LEMMA CurrentIsRecipe ==
  ASSUME TypeInv, NEW o \in Operations, at[o] <= Len(Plan[o])
  PROVE  Current(o) \in Recipes
BY EngineAssumption DEF Current, TypeInv, TypeOK, Grounded

\* The initial state has every variable in its type.
LEMMA InitType == Init => TypeInv
BY EngineAssumption DEF Init, TypeInv, TypeOK, Grounded, InRecipe, Locks, Phase,
     RecordState, Terminal, Outcome

\* A step of the shared statements that touches only the phases, the events and
\* the records, and keeps those in their types, keeps every type.
LEMMA KeepsType ==
  ASSUME TypeOK,
         UNCHANGED <<at, step, outcome, sawPrefix, talk, locks, points, disk, crashes>>,
         pc' \in [Operations -> Phase],
         shown' \in [Operations -> {"none"} \cup RecordState],
         record' \in [Operations -> {"absent"} \cup RecordState], dbErrors' \in Nat
  PROVE  TypeOK'
BY DEF TypeOK, talk, locks, disk, Phase, RecordState, Outcome, Locks

\* The record and the event of a step that starts, or of its failure, are states.
LEMMA StartStepTyped ==
  ASSUME TypeOK, NEW o \in Operations, StartStep(o)
  PROVE  TypeOK'
<1>1. pc' \in [Operations -> Phase] /\ shown' \in [Operations -> {"none"} \cup RecordState]
  BY GotoMoves, EmitShows DEF StartStep, Finish, Phase, Holding, RecordState, Terminal
<1>2. record' \in [Operations -> {"absent"} \cup RecordState] /\ dbErrors' \in Nat
  BY PersistWrites, PersistFailsKeeps DEF StartStep, TypeOK, RecordState
<1>3. UNCHANGED <<at, step, outcome, sawPrefix, talk, locks, points, disk, crashes>>
  BY DEF StartStep
<1> QED
  BY <1>1, <1>2, <1>3, KeepsType

\* A step that is killed announces a cancellation, which is a state.
LEMMA KillStepTyped ==
  ASSUME TypeOK, NEW o \in Operations, KillStep(o)
  PROVE  TypeOK'
<1>1. pc' \in [Operations -> Phase] /\ shown' \in [Operations -> {"none"} \cup RecordState]
  BY GotoMoves, EmitShows DEF KillStep, Finish, Phase, Holding, RecordState, Terminal
<1>2. record' \in [Operations -> {"absent"} \cup RecordState] /\ dbErrors' \in Nat
  BY PersistWrites, PersistFailsKeeps DEF KillStep, TypeOK, RecordState
<1>3. UNCHANGED <<at, step, outcome, sawPrefix, talk, locks, points, disk, crashes>>
  BY DEF KillStep
<1> QED
  BY <1>1, <1>2, <1>3, KeepsType

\* Every step keeps every variable in its type.
LEMMA TypeStep == TypeInv /\ [Next]_vars => TypeInv'
<1> SUFFICES ASSUME TypeInv, [Next]_vars
             PROVE  TypeInv'
  OBVIOUS
<1> USE EngineAssumption
    DEF TypeInv, TypeOK, Grounded, InRecipe, Phase, Holding, RecordState, Terminal,
        Outcome, Finish, Abandon, task, talk, locks, disk
<1>1. ASSUME NEW o \in Operations, Start(o) PROVE TypeInv'
  <2>1. pc' \in [Operations -> Phase] /\ shown' \in [Operations -> {"none"} \cup RecordState]
    BY <1>1, GotoMoves, EmitShows DEF Start
  <2>2. record' \in [Operations -> {"absent"} \cup RecordState] /\ dbErrors' \in Nat
    BY <1>1, PersistWrites, PersistFailsKeeps DEF Start
  <2>3. ASSUME NEW q \in Operations PROVE Grounded(q)'
    BY <1>1 DEF Start, Goto, Emit
  <2> QED
    BY <2>1, <2>2, <2>3, <1>1 DEF Start
<1>2. ASSUME NEW o \in Operations, Run(o) PROVE TypeInv'
  BY <1>2 DEF Run, Goto, Emit, Locks, LockOf
<1>3. ASSUME NEW o \in Operations, RequestLock(o) PROVE TypeInv'
  BY <1>3 DEF RequestLock, Goto, Emit, Locks, LockOf
<1>4. ASSUME NEW o \in Operations, AcquireLock(o) PROVE TypeInv'
  <2>1. TypeOK'
    BY <1>4, SMTT(30) DEF AcquireLock, Goto, Locks, LockOf
  <2>2. ASSUME NEW q \in Operations PROVE Grounded(q)'
    BY <1>4 DEF AcquireLock, Goto
  <2> QED
    BY <2>1, <2>2
<1>5. ASSUME NEW o \in Operations, RejectPlan(o) PROVE TypeInv'
  <2>1. pc' \in [Operations -> Phase] /\ shown' \in [Operations -> {"none"} \cup RecordState]
    BY <1>5, GotoMoves, EmitShows DEF RejectPlan
  <2>2. record' \in [Operations -> {"absent"} \cup RecordState] /\ dbErrors' \in Nat
    BY <1>5, PersistWrites, PersistFailsKeeps DEF RejectPlan
  <2>3. ASSUME NEW q \in Operations PROVE Grounded(q)'
    BY <1>5 DEF RejectPlan, Goto, Emit
  <2> QED
    BY <2>1, <2>2, <2>3, <1>5 DEF RejectPlan
<1>6. ASSUME NEW o \in Operations, BeginPreflight(o) PROVE TypeInv'
  <2>1. pc' \in [Operations -> Phase] /\ shown' \in [Operations -> {"none"} \cup RecordState]
    BY <1>6, GotoMoves, EmitShows DEF BeginPreflight
  <2>2. record' \in [Operations -> {"absent"} \cup RecordState] /\ dbErrors' \in Nat
    BY <1>6, PersistWrites, PersistFailsKeeps DEF BeginPreflight
  <2>3. ASSUME NEW q \in Operations PROVE Grounded(q)'
    <3>1. CASE q = o
      BY <1>6, <3>1 DEF BeginPreflight, Goto, Emit
    <3>2. CASE q # o
      BY <1>6, <3>2 DEF BeginPreflight, Goto, Emit
    <3> QED
      BY <3>1, <3>2
  <2> QED
    BY <2>1, <2>2, <2>3, <1>6 DEF BeginPreflight
<1>7. ASSUME NEW o \in Operations, RefusePreflight(o) PROVE TypeInv'
  <2>1. pc' \in [Operations -> Phase] /\ shown' \in [Operations -> {"none"} \cup RecordState]
    BY <1>7, GotoMoves, EmitShows DEF RefusePreflight
  <2>2. record' \in [Operations -> {"absent"} \cup RecordState] /\ dbErrors' \in Nat
    BY <1>7, PersistWrites, PersistFailsKeeps DEF RefusePreflight
  <2>3. ASSUME NEW q \in Operations PROVE Grounded(q)'
    BY <1>7 DEF RefusePreflight, Goto, Emit
  <2> QED
    BY <2>1, <2>2, <2>3, <1>7 DEF RefusePreflight
<1>8. ASSUME NEW o \in Operations, PassPreflight(o) PROVE TypeInv'
  BY <1>8 DEF PassPreflight, Goto, Emit, Locks, LockOf
<1>9. ASSUME NEW o \in Operations, InitializePrefix(o) PROVE TypeInv'
  <2>1. pc' \in [Operations -> Phase] /\ shown' \in [Operations -> {"none"} \cup RecordState]
    BY <1>9, GotoMoves, EmitShows DEF InitializePrefix
  <2>2. record' \in [Operations -> {"absent"} \cup RecordState] /\ dbErrors' \in Nat
    BY <1>9, PersistWrites, PersistFailsKeeps DEF InitializePrefix
  <2>3. ASSUME NEW q \in Operations PROVE Grounded(q)'
    BY <1>9 DEF InitializePrefix, Goto, Emit
  <2> QED
    BY <2>1, <2>2, <2>3, <1>9 DEF InitializePrefix
<1>10. ASSUME NEW o \in Operations, CreateSnapshot(o) PROVE TypeInv'
  <2>1. pc' \in [Operations -> Phase] /\ shown' \in [Operations -> {"none"} \cup RecordState]
    BY <1>10, GotoMoves, EmitShows DEF CreateSnapshot
  <2>2. record' \in [Operations -> {"absent"} \cup RecordState] /\ dbErrors' \in Nat
    BY <1>10, PersistWrites, PersistFailsKeeps DEF CreateSnapshot
  <2>3. ASSUME NEW q \in Operations PROVE Grounded(q)'
    <3>1. CASE q = o
      BY <1>10, <3>1 DEF CreateSnapshot, Goto, Emit
    <3>2. CASE q # o
      BY <1>10, <3>2 DEF CreateSnapshot, Goto, Emit
    <3> QED
      BY <3>1, <3>2
  <2> QED
    BY <2>1, <2>2, <2>3, <1>10 DEF CreateSnapshot
<1>11. ASSUME NEW o \in Operations, BeginRunning(o) PROVE TypeInv'
  <2>1. pc' \in [Operations -> Phase] /\ shown' \in [Operations -> {"none"} \cup RecordState]
    BY <1>11, GotoMoves, EmitShows DEF BeginRunning
  <2>2. record' \in [Operations -> {"absent"} \cup RecordState] /\ dbErrors' \in Nat
    BY <1>11, PersistWrites, PersistFailsKeeps DEF BeginRunning
  <2>3. ASSUME NEW q \in Operations PROVE Grounded(q)'
    <3>1. CASE q = o
      BY <1>11, <3>1 DEF BeginRunning, Goto, Emit
    <3>2. CASE q # o
      BY <1>11, <3>2 DEF BeginRunning, Goto, Emit
    <3> QED
      BY <3>1, <3>2
  <2> QED
    BY <2>1, <2>2, <2>3, <1>11 DEF BeginRunning
<1>12. ASSUME NEW o \in Operations, SkipRecipe(o) PROVE TypeInv'
  <2>1. pc' \in [Operations -> Phase] /\ shown' \in [Operations -> {"none"} \cup RecordState]
    BY <1>12, GotoMoves, EmitShows DEF SkipRecipe, GiveUpRecipe
  <2>2. record' \in [Operations -> {"absent"} \cup RecordState] /\ dbErrors' \in Nat
    BY <1>12, PersistWrites, PersistFailsKeeps DEF SkipRecipe, GiveUpRecipe
  <2>3. ASSUME NEW q \in Operations PROVE Grounded(q)'
    <3>1. CASE q = o
      BY <1>12, <3>1 DEF SkipRecipe, GiveUpRecipe, Goto
    <3>2. CASE q # o
      BY <1>12, <3>2 DEF SkipRecipe, GiveUpRecipe, Goto, Emit
    <3> QED
      BY <3>1, <3>2
  <2>4. /\ at' \in [Operations -> Nat] /\ step' \in [Operations -> Nat]
        /\ outcome' \in [Operations -> [Recipes -> Outcome]]
        /\ answer' \in [Operations -> {"none", "continue", "cancel"}]
    BY <1>12, CurrentIsRecipe, SMTT(30) DEF SkipRecipe, GiveUpRecipe
  <2> QED
    BY <2>1, <2>2, <2>3, <2>4, <1>12 DEF SkipRecipe, GiveUpRecipe
<1>13. ASSUME NEW o \in Operations, EnterRecipe(o) PROVE TypeInv'
  BY <1>13 DEF EnterRecipe, Goto, Emit, Locks, LockOf
<1>14. ASSUME NEW o \in Operations, FinishPlan(o) PROVE TypeInv'
  <2>1. pc' \in [Operations -> Phase] /\ shown' \in [Operations -> {"none"} \cup RecordState]
    BY <1>14, GotoMoves, EmitShows DEF FinishPlan
  <2>2. record' \in [Operations -> {"absent"} \cup RecordState] /\ dbErrors' \in Nat
    BY <1>14, PersistWrites, PersistFailsKeeps DEF FinishPlan
  <2>3. ASSUME NEW q \in Operations PROVE Grounded(q)'
    BY <1>14 DEF FinishPlan, Goto, Emit
  <2> QED
    BY <2>1, <2>2, <2>3, <1>14 DEF FinishPlan
<1>15. ASSUME NEW o \in Operations, StopBeforeStep(o) PROVE TypeInv'
  <2>1. pc' \in [Operations -> Phase] /\ shown' \in [Operations -> {"none"} \cup RecordState]
    BY <1>15, GotoMoves, EmitShows DEF StopBeforeStep
  <2>2. record' \in [Operations -> {"absent"} \cup RecordState] /\ dbErrors' \in Nat
    BY <1>15, PersistWrites, PersistFailsKeeps DEF StopBeforeStep
  <2>3. ASSUME NEW q \in Operations PROVE Grounded(q)'
    BY <1>15 DEF StopBeforeStep, Goto, Emit
  <2> QED
    BY <2>1, <2>2, <2>3, <1>15 DEF StopBeforeStep
<1>16. ASSUME NEW o \in Operations, StartStep(o) PROVE TypeInv'
  <2>1. TypeOK'
    BY <1>16, StartStepTyped
  <2>2. ASSUME NEW q \in Operations PROVE Grounded(q)'
    <3>1. /\ at' = at /\ pc[o] = "step" /\ pc'[o] \in InRecipe \cup {"closing"}
          /\ pc'[o] = "closing" => shown'[o] = "failed"
          /\ q # o => pc'[q] = pc[q] /\ shown'[q] = shown[q]
      BY <1>16 DEF StartStep, Goto, Emit
    <3>2. CASE q = o
      BY <3>1, <3>2
    <3>3. CASE q # o
      BY <3>1, <3>3
    <3> QED
      BY <3>2, <3>3
  <2> QED
    BY <2>1, <2>2
<1>17. ASSUME NEW o \in Operations, StartVerification(o) PROVE TypeInv'
  BY <1>17 DEF StartVerification, Goto, Emit, Locks, LockOf
<1>18. ASSUME NEW o \in Operations, KillStep(o) PROVE TypeInv'
  <2>1. TypeOK'
    BY <1>18, KillStepTyped
  <2>2. ASSUME NEW q \in Operations PROVE Grounded(q)'
    BY <1>18 DEF KillStep, Goto, Emit
  <2> QED
    BY <2>1, <2>2
<1>19. ASSUME NEW o \in Operations, CompleteRecipe(o) PROVE TypeInv'
  <2>1. TypeOK'
    BY <1>19, CurrentIsRecipe, SMTT(30) DEF CompleteRecipe, Goto, Locks
  <2>2. ASSUME NEW q \in Operations PROVE Grounded(q)'
    <3>1. /\ at'[q] \in Nat /\ at'[q] >= 1 /\ shown' = shown
          /\ q # o => pc'[q] = pc[q] /\ at'[q] = at[q]
          /\ pc'[o] = "recipe"
      BY <1>19 DEF CompleteRecipe, Goto
    <3> QED
      BY <3>1
  <2> QED
    BY <2>1, <2>2
<1>20. ASSUME NEW o \in Operations, LogFails(o) PROVE TypeInv'
  <2>1. pc' \in [Operations -> Phase] /\ shown' \in [Operations -> {"none"} \cup RecordState]
    BY <1>20, GotoMoves, EmitShows DEF LogFails, GiveUpRecipe
  <2>2. record' \in [Operations -> {"absent"} \cup RecordState] /\ dbErrors' \in Nat
    BY <1>20, PersistWrites, PersistFailsKeeps DEF LogFails, GiveUpRecipe
  <2>3. ASSUME NEW q \in Operations PROVE Grounded(q)'
    <3>1. CASE q = o
      BY <1>20, <3>1 DEF LogFails, GiveUpRecipe, Goto
    <3>2. CASE q # o
      BY <1>20, <3>2 DEF LogFails, GiveUpRecipe, Goto, Emit
    <3> QED
      BY <3>1, <3>2
  <2>4. /\ at' \in [Operations -> Nat] /\ step' \in [Operations -> Nat]
        /\ outcome' \in [Operations -> [Recipes -> Outcome]]
        /\ answer' \in [Operations -> {"none", "continue", "cancel"}]
    BY <1>20, CurrentIsRecipe DEF LogFails, GiveUpRecipe
  <2> QED
    BY <2>1, <2>2, <2>3, <2>4, <1>20 DEF LogFails, GiveUpRecipe
<1>21. ASSUME NEW o \in Operations, OpenPrompt(o) PROVE TypeInv'
  <2>1. pc' \in [Operations -> Phase] /\ shown' \in [Operations -> {"none"} \cup RecordState]
    BY <1>21, GotoMoves, EmitShows DEF OpenPrompt
  <2>2. record' \in [Operations -> {"absent"} \cup RecordState] /\ dbErrors' \in Nat
    BY <1>21, PersistWrites, PersistFailsKeeps DEF OpenPrompt
  <2>3. ASSUME NEW q \in Operations PROVE Grounded(q)'
    BY <1>21 DEF OpenPrompt, Goto, Emit
  <2>4. /\ at' \in [Operations -> Nat] /\ step' \in [Operations -> Nat]
        /\ outcome' \in [Operations -> [Recipes -> Outcome]]
        /\ answer' \in [Operations -> {"none", "continue", "cancel"}]
    BY <1>21 DEF OpenPrompt
  <2> QED
    BY <2>1, <2>2, <2>3, <2>4, <1>21 DEF OpenPrompt
<1>22. ASSUME NEW o \in Operations, TakeAnswer(o) PROVE TypeInv'
  <2>1. pc' \in [Operations -> Phase] /\ shown' \in [Operations -> {"none"} \cup RecordState]
    BY <1>22, GotoMoves, EmitShows DEF TakeAnswer
  <2>2. record' \in [Operations -> {"absent"} \cup RecordState] /\ dbErrors' \in Nat
    BY <1>22, PersistWrites, PersistFailsKeeps DEF TakeAnswer
  <2>3. ASSUME NEW q \in Operations PROVE Grounded(q)'
    BY <1>22 DEF TakeAnswer, Goto, Emit
  <2>4. /\ at' \in [Operations -> Nat] /\ step' \in [Operations -> Nat]
        /\ outcome' \in [Operations -> [Recipes -> Outcome]]
        /\ answer' \in [Operations -> {"none", "continue", "cancel"}]
    <3>1. CASE answer[o] = "continue"
      <4>1. step' = [step EXCEPT ![o] = @ + 1] /\ UNCHANGED <<at, outcome, answer>>
        BY <1>22, <3>1 DEF TakeAnswer
      <4> QED
        BY <4>1
    <3>2. CASE answer[o] = "cancel"
      BY <1>22, <3>2 DEF TakeAnswer
    <3> QED
      BY <1>22, <3>1, <3>2 DEF TakeAnswer
  <2> QED
    BY <2>1, <2>2, <2>3, <2>4, <1>22 DEF TakeAnswer
<1>23. ASSUME NEW o \in Operations, Close(o) PROVE TypeInv'
  <2>1. pc' \in [Operations -> Phase] /\ shown' \in [Operations -> {"none"} \cup RecordState]
    BY <1>23, GotoMoves, EmitShows DEF Close
  <2>2. record' \in [Operations -> {"absent"} \cup RecordState] /\ dbErrors' \in Nat
    BY <1>23, PersistWrites, PersistFailsKeeps DEF Close
  <2>3. ASSUME NEW q \in Operations PROVE Grounded(q)'
    BY <1>23 DEF Close, Goto, Emit
  <2> QED
    BY <2>1, <2>2, <2>3, <1>23 DEF Close
<1>24. ASSUME NEW o \in Operations, Leave(o) PROVE TypeInv'
  BY <1>24 DEF Leave, Goto, Emit, Locks, LockOf
<1>25. ASSUME NEW o \in Operations, StepSucceeds(o) PROVE TypeInv'
  BY <1>25 DEF StepSucceeds, Goto, Emit, Locks, LockOf
<1>26. ASSUME NEW o \in Operations, StepFails(o) PROVE TypeInv'
  <2>1. pc' \in [Operations -> Phase] /\ shown' \in [Operations -> {"none"} \cup RecordState]
    BY <1>26, GotoMoves, EmitShows DEF StepFails, GiveUpRecipe
  <2>2. record' \in [Operations -> {"absent"} \cup RecordState] /\ dbErrors' \in Nat
    BY <1>26, PersistWrites, PersistFailsKeeps DEF StepFails, GiveUpRecipe
  <2>3. ASSUME NEW q \in Operations PROVE Grounded(q)'
    <3>1. CASE q = o
      BY <1>26, <3>1 DEF StepFails, GiveUpRecipe, Goto
    <3>2. CASE q # o
      BY <1>26, <3>2 DEF StepFails, GiveUpRecipe, Goto, Emit
    <3> QED
      BY <3>1, <3>2
  <2>4. /\ at' \in [Operations -> Nat] /\ step' \in [Operations -> Nat]
        /\ outcome' \in [Operations -> [Recipes -> Outcome]]
        /\ answer' \in [Operations -> {"none", "continue", "cancel"}]
    BY <1>26, CurrentIsRecipe DEF StepFails, GiveUpRecipe
  <2> QED
    BY <2>1, <2>2, <2>3, <2>4, <1>26 DEF StepFails, GiveUpRecipe
<1>27. ASSUME NEW o \in Operations, StepIsFatal(o) PROVE TypeInv'
  <2>1. pc' \in [Operations -> Phase] /\ shown' \in [Operations -> {"none"} \cup RecordState]
    BY <1>27, GotoMoves, EmitShows DEF StepIsFatal
  <2>2. record' \in [Operations -> {"absent"} \cup RecordState] /\ dbErrors' \in Nat
    BY <1>27, PersistWrites, PersistFailsKeeps DEF StepIsFatal
  <2>3. ASSUME NEW q \in Operations PROVE Grounded(q)'
    BY <1>27 DEF StepIsFatal, Goto, Emit
  <2> QED
    BY <2>1, <2>2, <2>3, <1>27 DEF StepIsFatal
<1>28. ASSUME NEW o \in Operations, Cancel(o) PROVE TypeInv'
  BY <1>28 DEF Cancel, Goto, Emit, Locks, LockOf
<1>29. ASSUME NEW o \in Operations, Answered(o) PROVE TypeInv'
  BY <1>29 DEF Answered, Respond, Goto, Emit, Locks, LockOf
<1>30. ASSUME ClearHistory PROVE TypeInv'
  BY <1>30 DEF ClearHistory
<1>31. ASSUME ClearSnapshots PROVE TypeInv'
  BY <1>31 DEF ClearSnapshots
<1>32. ASSUME NEW p \in Processes, Crash(p) PROVE TypeInv'
  BY <1>32 DEF Crash
<1>33. ASSUME UNCHANGED vars PROVE TypeInv'
  BY <1>33 DEF vars
<1> QED
  BY <1>1, <1>2, <1>3, <1>4, <1>5, <1>6, <1>7, <1>8, <1>9, <1>10, <1>11, <1>12,
     <1>13, <1>14, <1>15, <1>16, <1>17, <1>18, <1>19, <1>20, <1>21, <1>22, <1>23,
     <1>24, <1>25, <1>26, <1>27, <1>28, <1>29, <1>30, <1>31, <1>32, <1>33 DEF Next,
     Proceed, StepEnds, AllOver


\* The types hold throughout.
THEOREM TypeCorrect == Spec => []TypeOK
<1>1. TypeInv => TypeOK
  BY DEF TypeInv
<1> QED
  BY InitType, TypeStep, <1>1, PTL DEF Spec

\* What the types rest on, for the invariants to come.
LEMMA TypeInvariant == Spec => []TypeInv
BY InitType, TypeStep, PTL DEF Spec

-----------------------------------------------------------------------------
(* Mutual exclusion at the lock of a prefix.                               *)

\* Whoever is between acquiring and dropping the guard is the lock's holder.
HolderIsHeld(o) == pc[o] \in Holding => holder[LockOf(o)] = o
LockInv == \A o \in Operations : HolderIsHeld(o)


\* Every step keeps holders and holding tasks together.
LEMMA LockStep == TypeInv /\ LockInv /\ [Next]_vars => LockInv'
<1> SUFFICES ASSUME TypeInv, LockInv, [Next]_vars, NEW q \in Operations
             PROVE  HolderIsHeld(q)'
  BY DEF LockInv
<1> USE EngineAssumption
    DEF TypeInv, TypeOK, LockInv, HolderIsHeld, Phase, Holding, Finish, Abandon,
        GiveUpRecipe, task, talk, locks, Locks, LockOf, Goto
<1>1. ASSUME NEW o \in Operations, Start(o) PROVE HolderIsHeld(q)'
  BY <1>1 DEF Start
<1>2. ASSUME NEW o \in Operations, Run(o) PROVE HolderIsHeld(q)'
  BY <1>2 DEF Run
<1>3. ASSUME NEW o \in Operations, RequestLock(o) PROVE HolderIsHeld(q)'
  BY <1>3 DEF RequestLock
<1>4. ASSUME NEW o \in Operations, AcquireLock(o) PROVE HolderIsHeld(q)'
  <2>1. /\ LockOf(o) \in Locks
        /\ pc' = [pc EXCEPT ![o] = "admitted"]
        /\ holder' = [holder EXCEPT ![LockOf(o)] = o]
        /\ holder[LockOf(o)] = NoOperation
    BY <1>4 DEF AcquireLock, LockFree
  <2>2. CASE q = o
    BY <2>1, <2>2
  <2>3. CASE q # o
    <3>1. pc'[q] = pc[q]
      BY <2>1, <2>3
    <3>2. pc[q] \in Holding => holder[LockOf(q)] # NoOperation
      BY DEF HolderIsHeld
    <3>3. pc[q] \in Holding => LockOf(q) # LockOf(o) /\ holder'[LockOf(q)] = q
      BY <2>1, <3>2
    <3> QED
      BY <3>1, <3>3
  <2> QED
    BY <2>2, <2>3
<1>5. ASSUME NEW o \in Operations, RejectPlan(o) PROVE HolderIsHeld(q)'
  BY <1>5 DEF RejectPlan
<1>6. ASSUME NEW o \in Operations, BeginPreflight(o) PROVE HolderIsHeld(q)'
  BY <1>6 DEF BeginPreflight
<1>7. ASSUME NEW o \in Operations, RefusePreflight(o) PROVE HolderIsHeld(q)'
  BY <1>7 DEF RefusePreflight
<1>8. ASSUME NEW o \in Operations, PassPreflight(o) PROVE HolderIsHeld(q)'
  BY <1>8 DEF PassPreflight
<1>9. ASSUME NEW o \in Operations, InitializePrefix(o) PROVE HolderIsHeld(q)'
  BY <1>9 DEF InitializePrefix
<1>10. ASSUME NEW o \in Operations, CreateSnapshot(o) PROVE HolderIsHeld(q)'
  BY <1>10 DEF CreateSnapshot
<1>11. ASSUME NEW o \in Operations, BeginRunning(o) PROVE HolderIsHeld(q)'
  BY <1>11 DEF BeginRunning
<1>12. ASSUME NEW o \in Operations, SkipRecipe(o) PROVE HolderIsHeld(q)'
  BY <1>12 DEF SkipRecipe
<1>13. ASSUME NEW o \in Operations, EnterRecipe(o) PROVE HolderIsHeld(q)'
  BY <1>13 DEF EnterRecipe
<1>14. ASSUME NEW o \in Operations, FinishPlan(o) PROVE HolderIsHeld(q)'
  BY <1>14 DEF FinishPlan
<1>15. ASSUME NEW o \in Operations, StopBeforeStep(o) PROVE HolderIsHeld(q)'
  BY <1>15 DEF StopBeforeStep
<1>16. ASSUME NEW o \in Operations, StartStep(o) PROVE HolderIsHeld(q)'
  BY <1>16 DEF StartStep
<1>17. ASSUME NEW o \in Operations, StartVerification(o) PROVE HolderIsHeld(q)'
  BY <1>17 DEF StartVerification
<1>18. ASSUME NEW o \in Operations, KillStep(o) PROVE HolderIsHeld(q)'
  BY <1>18 DEF KillStep
<1>19. ASSUME NEW o \in Operations, CompleteRecipe(o) PROVE HolderIsHeld(q)'
  BY <1>19 DEF CompleteRecipe
<1>20. ASSUME NEW o \in Operations, LogFails(o) PROVE HolderIsHeld(q)'
  BY <1>20 DEF LogFails
<1>21. ASSUME NEW o \in Operations, OpenPrompt(o) PROVE HolderIsHeld(q)'
  BY <1>21 DEF OpenPrompt
<1>22. ASSUME NEW o \in Operations, TakeAnswer(o) PROVE HolderIsHeld(q)'
  BY <1>22 DEF TakeAnswer
<1>23. ASSUME NEW o \in Operations, Close(o) PROVE HolderIsHeld(q)'
  BY <1>23 DEF Close
<1>24. ASSUME NEW o \in Operations, Leave(o) PROVE HolderIsHeld(q)'
  BY <1>24 DEF Leave
<1>25. ASSUME NEW o \in Operations, StepSucceeds(o) PROVE HolderIsHeld(q)'
  BY <1>25 DEF StepSucceeds
<1>26. ASSUME NEW o \in Operations, StepFails(o) PROVE HolderIsHeld(q)'
  BY <1>26 DEF StepFails
<1>27. ASSUME NEW o \in Operations, StepIsFatal(o) PROVE HolderIsHeld(q)'
  BY <1>27 DEF StepIsFatal
<1>28. ASSUME NEW o \in Operations, Cancel(o) PROVE HolderIsHeld(q)'
  BY <1>28 DEF Cancel
<1>29. ASSUME NEW o \in Operations, Answered(o) PROVE HolderIsHeld(q)'
  BY <1>29 DEF Answered, Respond
<1>30. ASSUME ClearHistory PROVE HolderIsHeld(q)'
  BY <1>30 DEF ClearHistory
<1>31. ASSUME ClearSnapshots PROVE HolderIsHeld(q)'
  BY <1>31 DEF ClearSnapshots
<1>32. ASSUME NEW p \in Processes, Crash(p) PROVE HolderIsHeld(q)'
  BY <1>32 DEF Crash
<1>33. ASSUME UNCHANGED vars PROVE HolderIsHeld(q)'
  BY <1>33 DEF vars
<1> QED
  BY <1>1, <1>2, <1>3, <1>4, <1>5, <1>6, <1>7, <1>8, <1>9, <1>10, <1>11, <1>12,
     <1>13, <1>14, <1>15, <1>16, <1>17, <1>18, <1>19, <1>20, <1>21, <1>22, <1>23,
     <1>24, <1>25, <1>26, <1>27, <1>28, <1>29, <1>30, <1>31, <1>32, <1>33 DEF Next,
     Proceed, StepEnds, AllOver

\* One task at most is between acquiring and dropping the guard of a prefix in
\* one process.
THEOREM MutualExclusion == Spec => []OneMutatorPerPrefix
<1>1. Init => LockInv
  BY DEF Init, LockInv, HolderIsHeld, Holding
<1>2. TypeInv /\ LockInv => OneMutatorPerPrefix
  BY DEF LockInv, HolderIsHeld, OneMutatorPerPrefix
<1> QED
  BY <1>1, <1>2, LockStep, TypeInvariant, PTL DEF Spec

-----------------------------------------------------------------------------
(* Restore points of executing operations.                                 *)

\* From preflight to its last recipe an operation has a record that protects
\* its restore point: clearing the history cannot take the record, clearing the
\* restore points cannot take the point.
Guarded(o) ==
  /\ pc[o] \in {"preflight", "initialize", "snapshot"} \cup Executing => Protected(o)
  /\ o \in WantsSnapshot \cap sawPrefix /\ pc[o] \in Executing => o \in points
  /\ pc[o] = "initialize" => o \notin sawPrefix
GuardInv == \A o \in Operations : Guarded(o)

\* Every step leaves the restore points of executing operations guarded.
LEMMA GuardStep == TypeInv /\ GuardInv /\ [Next]_vars => GuardInv'
<1> SUFFICES ASSUME TypeInv, GuardInv, [Next]_vars, NEW q \in Operations
             PROVE  Guarded(q)'
  BY DEF GuardInv
<1> USE EngineAssumption
    DEF TypeInv, TypeOK, GuardInv, Guarded, Protected, Executing, Phase, Holding,
        Terminal, Finish, Abandon, GiveUpRecipe, Persist, PersistFails, task, talk,
        disk, Goto
<1>1. ASSUME NEW o \in Operations, Start(o) PROVE Guarded(q)'
  BY <1>1 DEF Start
<1>2. ASSUME NEW o \in Operations, Run(o) PROVE Guarded(q)'
  BY <1>2 DEF Run
<1>3. ASSUME NEW o \in Operations, RequestLock(o) PROVE Guarded(q)'
  BY <1>3 DEF RequestLock
<1>4. ASSUME NEW o \in Operations, AcquireLock(o) PROVE Guarded(q)'
  BY <1>4 DEF AcquireLock
<1>5. ASSUME NEW o \in Operations, RejectPlan(o) PROVE Guarded(q)'
  BY <1>5 DEF RejectPlan
<1>6. ASSUME NEW o \in Operations, BeginPreflight(o) PROVE Guarded(q)'
  BY <1>6 DEF BeginPreflight
<1>7. ASSUME NEW o \in Operations, RefusePreflight(o) PROVE Guarded(q)'
  BY <1>7 DEF RefusePreflight
<1>8. ASSUME NEW o \in Operations, PassPreflight(o) PROVE Guarded(q)'
  BY <1>8 DEF PassPreflight
<1>9. ASSUME NEW o \in Operations, InitializePrefix(o) PROVE Guarded(q)'
  BY <1>9 DEF InitializePrefix
<1>10. ASSUME NEW o \in Operations, CreateSnapshot(o) PROVE Guarded(q)'
  BY <1>10 DEF CreateSnapshot
<1>11. ASSUME NEW o \in Operations, BeginRunning(o) PROVE Guarded(q)'
  BY <1>11 DEF BeginRunning
<1>12. ASSUME NEW o \in Operations, SkipRecipe(o) PROVE Guarded(q)'
  BY <1>12 DEF SkipRecipe
<1>13. ASSUME NEW o \in Operations, EnterRecipe(o) PROVE Guarded(q)'
  BY <1>13 DEF EnterRecipe
<1>14. ASSUME NEW o \in Operations, FinishPlan(o) PROVE Guarded(q)'
  BY <1>14 DEF FinishPlan
<1>15. ASSUME NEW o \in Operations, StopBeforeStep(o) PROVE Guarded(q)'
  BY <1>15 DEF StopBeforeStep
<1>16. ASSUME NEW o \in Operations, StartStep(o) PROVE Guarded(q)'
  BY <1>16 DEF StartStep
<1>17. ASSUME NEW o \in Operations, StartVerification(o) PROVE Guarded(q)'
  BY <1>17 DEF StartVerification
<1>18. ASSUME NEW o \in Operations, KillStep(o) PROVE Guarded(q)'
  BY <1>18 DEF KillStep
<1>19. ASSUME NEW o \in Operations, CompleteRecipe(o) PROVE Guarded(q)'
  BY <1>19 DEF CompleteRecipe
<1>20. ASSUME NEW o \in Operations, LogFails(o) PROVE Guarded(q)'
  BY <1>20 DEF LogFails
<1>21. ASSUME NEW o \in Operations, OpenPrompt(o) PROVE Guarded(q)'
  BY <1>21 DEF OpenPrompt
<1>22. ASSUME NEW o \in Operations, TakeAnswer(o) PROVE Guarded(q)'
  BY <1>22 DEF TakeAnswer
<1>23. ASSUME NEW o \in Operations, Close(o) PROVE Guarded(q)'
  BY <1>23 DEF Close
<1>24. ASSUME NEW o \in Operations, Leave(o) PROVE Guarded(q)'
  BY <1>24 DEF Leave
<1>25. ASSUME NEW o \in Operations, StepSucceeds(o) PROVE Guarded(q)'
  BY <1>25 DEF StepSucceeds
<1>26. ASSUME NEW o \in Operations, StepFails(o) PROVE Guarded(q)'
  BY <1>26 DEF StepFails
<1>27. ASSUME NEW o \in Operations, StepIsFatal(o) PROVE Guarded(q)'
  BY <1>27 DEF StepIsFatal
<1>28. ASSUME NEW o \in Operations, Cancel(o) PROVE Guarded(q)'
  BY <1>28 DEF Cancel
<1>29. ASSUME NEW o \in Operations, Answered(o) PROVE Guarded(q)'
  BY <1>29 DEF Answered, Respond
<1>30. ASSUME ClearHistory PROVE Guarded(q)'
  BY <1>30 DEF ClearHistory
<1>31. ASSUME ClearSnapshots PROVE Guarded(q)'
  BY <1>31 DEF ClearSnapshots
<1>32. ASSUME NEW p \in Processes, Crash(p) PROVE Guarded(q)'
  BY <1>32 DEF Crash
<1>33. ASSUME UNCHANGED vars PROVE Guarded(q)'
  BY <1>33 DEF vars
<1> QED
  BY <1>1, <1>2, <1>3, <1>4, <1>5, <1>6, <1>7, <1>8, <1>9, <1>10, <1>11, <1>12,
     <1>13, <1>14, <1>15, <1>16, <1>17, <1>18, <1>19, <1>20, <1>21, <1>22, <1>23,
     <1>24, <1>25, <1>26, <1>27, <1>28, <1>29, <1>30, <1>31, <1>32, <1>33 DEF Next,
     Proceed, StepEnds, AllOver

\* An executing operation that asked for a restore point of an existing prefix
\* has it, whatever anybody clears meanwhile.
THEOREM SnapshotOutlivesOperation == Spec => []RestorePointKept
<1>1. Init => GuardInv
  BY DEF Init, GuardInv, Guarded, Executing
<1>2. GuardInv => RestorePointKept
  BY EngineAssumption DEF GuardInv, Guarded, RestorePointKept
<1> QED
  BY <1>1, <1>2, GuardStep, TypeInvariant, PTL DEF Spec

-----------------------------------------------------------------------------
(* Prompts.                                                                *)

Answerable(o) == pc[o] = "awaiting" => (o \in prompts <=> answer[o] = "none")

\* Every step leaves a waiting task with a sender or an answer, not both.
LEMMA PromptStep == TypeInv /\ AwaitingIsAnswerable /\ [Next]_vars => AwaitingIsAnswerable'
<1> SUFFICES ASSUME TypeInv, AwaitingIsAnswerable, [Next]_vars, NEW q \in Operations
             PROVE  Answerable(q)'
  BY DEF AwaitingIsAnswerable, Answerable
<1> USE EngineAssumption
    DEF TypeInv, TypeOK, AwaitingIsAnswerable, Answerable, Phase, Holding, Finish,
        Abandon, GiveUpRecipe, task, talk, Goto
<1>1. ASSUME NEW o \in Operations, Start(o) PROVE Answerable(q)'
  BY <1>1 DEF Start
<1>2. ASSUME NEW o \in Operations, Run(o) PROVE Answerable(q)'
  BY <1>2 DEF Run
<1>3. ASSUME NEW o \in Operations, RequestLock(o) PROVE Answerable(q)'
  BY <1>3 DEF RequestLock
<1>4. ASSUME NEW o \in Operations, AcquireLock(o) PROVE Answerable(q)'
  BY <1>4 DEF AcquireLock
<1>5. ASSUME NEW o \in Operations, RejectPlan(o) PROVE Answerable(q)'
  BY <1>5 DEF RejectPlan
<1>6. ASSUME NEW o \in Operations, BeginPreflight(o) PROVE Answerable(q)'
  BY <1>6 DEF BeginPreflight
<1>7. ASSUME NEW o \in Operations, RefusePreflight(o) PROVE Answerable(q)'
  BY <1>7 DEF RefusePreflight
<1>8. ASSUME NEW o \in Operations, PassPreflight(o) PROVE Answerable(q)'
  BY <1>8 DEF PassPreflight
<1>9. ASSUME NEW o \in Operations, InitializePrefix(o) PROVE Answerable(q)'
  BY <1>9 DEF InitializePrefix
<1>10. ASSUME NEW o \in Operations, CreateSnapshot(o) PROVE Answerable(q)'
  BY <1>10 DEF CreateSnapshot
<1>11. ASSUME NEW o \in Operations, BeginRunning(o) PROVE Answerable(q)'
  BY <1>11 DEF BeginRunning
<1>12. ASSUME NEW o \in Operations, SkipRecipe(o) PROVE Answerable(q)'
  BY <1>12 DEF SkipRecipe
<1>13. ASSUME NEW o \in Operations, EnterRecipe(o) PROVE Answerable(q)'
  BY <1>13 DEF EnterRecipe
<1>14. ASSUME NEW o \in Operations, FinishPlan(o) PROVE Answerable(q)'
  BY <1>14 DEF FinishPlan
<1>15. ASSUME NEW o \in Operations, StopBeforeStep(o) PROVE Answerable(q)'
  BY <1>15 DEF StopBeforeStep
<1>16. ASSUME NEW o \in Operations, StartStep(o) PROVE Answerable(q)'
  BY <1>16 DEF StartStep
<1>17. ASSUME NEW o \in Operations, StartVerification(o) PROVE Answerable(q)'
  BY <1>17 DEF StartVerification
<1>18. ASSUME NEW o \in Operations, KillStep(o) PROVE Answerable(q)'
  BY <1>18 DEF KillStep
<1>19. ASSUME NEW o \in Operations, CompleteRecipe(o) PROVE Answerable(q)'
  BY <1>19 DEF CompleteRecipe
<1>20. ASSUME NEW o \in Operations, LogFails(o) PROVE Answerable(q)'
  BY <1>20 DEF LogFails
<1>21. ASSUME NEW o \in Operations, OpenPrompt(o) PROVE Answerable(q)'
  BY <1>21 DEF OpenPrompt
<1>22. ASSUME NEW o \in Operations, TakeAnswer(o) PROVE Answerable(q)'
  BY <1>22 DEF TakeAnswer
<1>23. ASSUME NEW o \in Operations, Close(o) PROVE Answerable(q)'
  BY <1>23 DEF Close
<1>24. ASSUME NEW o \in Operations, Leave(o) PROVE Answerable(q)'
  BY <1>24 DEF Leave
<1>25. ASSUME NEW o \in Operations, StepSucceeds(o) PROVE Answerable(q)'
  BY <1>25 DEF StepSucceeds
<1>26. ASSUME NEW o \in Operations, StepFails(o) PROVE Answerable(q)'
  BY <1>26 DEF StepFails
<1>27. ASSUME NEW o \in Operations, StepIsFatal(o) PROVE Answerable(q)'
  BY <1>27 DEF StepIsFatal
<1>28. ASSUME NEW o \in Operations, Cancel(o) PROVE Answerable(q)'
  BY <1>28 DEF Cancel
<1>29. ASSUME NEW o \in Operations, Answered(o) PROVE Answerable(q)'
  BY <1>29 DEF Answered, Respond
<1>30. ASSUME ClearHistory PROVE Answerable(q)'
  BY <1>30 DEF ClearHistory
<1>31. ASSUME ClearSnapshots PROVE Answerable(q)'
  BY <1>31 DEF ClearSnapshots
<1>32. ASSUME NEW p \in Processes, Crash(p) PROVE Answerable(q)'
  BY <1>32 DEF Crash
<1>33. ASSUME UNCHANGED vars PROVE Answerable(q)'
  BY <1>33 DEF vars
<1> QED
  BY <1>1, <1>2, <1>3, <1>4, <1>5, <1>6, <1>7, <1>8, <1>9, <1>10, <1>11, <1>12,
     <1>13, <1>14, <1>15, <1>16, <1>17, <1>18, <1>19, <1>20, <1>21, <1>22, <1>23,
     <1>24, <1>25, <1>26, <1>27, <1>28, <1>29, <1>30, <1>31, <1>32, <1>33 DEF Next,
     Proceed, StepEnds, AllOver

\* No waiting task is stranded: cancel() and respond() never both miss it.
THEOREM PromptsAreAnswerable == Spec => []AwaitingIsAnswerable
<1>1. Init => AwaitingIsAnswerable
  BY DEF Init, AwaitingIsAnswerable
<1> QED
  BY <1>1, PromptStep, TypeInvariant, PTL DEF Spec

-----------------------------------------------------------------------------
(* Isolation of failures.                                                  *)

\* How far an operation is, read off its outcomes: the recipes before its index
\* are settled and no others; an ok recipe is in winetricks.log with all it
\* depends on ok; a task is only inside a recipe none of whose dependencies was
\* unsuccessful; an unsuccessful recipe failed or depends on a doomed one.
Isolated(o) ==
  /\ \A i \in DOMAIN Plan[o] : i < at[o] <=> outcome[o][Plan[o][i]] # "pending"
  /\ \A r \in Recipes : outcome[o][r] # "pending" => r \in Planned(o)
  /\ \A r \in Recipes : outcome[o][r] = "ok" =>
       /\ r \in installed[PrefixOf[o]]
       /\ \A d \in DependsOn[r] : outcome[o][d] = "ok"
  /\ pc[o] \in InRecipe => DependsOn[Current(o)] \cap Unsuccessful(o) = {}
  /\ Unsuccessful(o) \subseteq Doomed(o)
IsolationInv == \A o \in Operations : Isolated(o)

\* An operation whose outcomes and index do not change stays isolated if it only
\* enters a recipe none of whose dependencies was unsuccessful.
LEMMA OthersStayIsolated ==
  ASSUME TypeInv, NEW q \in Operations, Isolated(q),
         outcome'[q] = outcome[q], at'[q] = at[q],
         installed[PrefixOf[q]] \subseteq installed'[PrefixOf[q]],
         pc'[q] \in InRecipe =>
           pc[q] \in InRecipe \/ DependsOn[Current(q)] \cap Unsuccessful(q) = {}
  PROVE  Isolated(q)'
BY DEF Isolated, Unsuccessful, FailedOnly, Doomed, Current, Planned

\* A recipe of the plan, what precedes it and what it depends on.
LEMMA CurrentInPlan ==
  ASSUME TypeInv, NEW o \in Operations, at[o] <= Len(Plan[o])
  PROVE  /\ at[o] \in DOMAIN Plan[o]
         /\ Current(o) \in Planned(o)
         /\ Current(o) \notin DependsOn[Current(o)]
         /\ \A d \in DependsOn[Current(o)] :
              \E j \in DOMAIN Plan[o] : j < at[o] /\ d = Plan[o][j]
         /\ \A j \in DOMAIN Plan[o] : Plan[o][j] = Current(o) => j = at[o]
<1>1. Plan[o] \in Seq(Recipes) /\ at[o] \in 1..Len(Plan[o])
  BY EngineAssumption DEF TypeInv, TypeOK, Grounded
<1>2. at[o] \in DOMAIN Plan[o] /\ DOMAIN Plan[o] = 1..Len(Plan[o])
  BY <1>1
<1>3. ASSUME NEW d \in DependsOn[Current(o)]
      PROVE  \E j \in DOMAIN Plan[o] : j < at[o] /\ d = Plan[o][j]
  <2>1. d \in {Plan[o][j] : j \in 1..(at[o] - 1)}
    BY <1>2, PlanAssumption DEF Current
  <2>2. PICK j \in 1..(at[o] - 1) : d = Plan[o][j]
    BY <2>1
  <2> QED
    BY <1>1, <1>2, <2>2
<1>4. \A j \in DOMAIN Plan[o] : Plan[o][j] = Current(o) => j = at[o]
  BY <1>2, PlanAssumption DEF Current
<1>5. Current(o) \notin DependsOn[Current(o)]
  <2> SUFFICES ASSUME Current(o) \in DependsOn[Current(o)] PROVE FALSE
    OBVIOUS
  <2>1. PICK j \in DOMAIN Plan[o] : j < at[o] /\ Current(o) = Plan[o][j]
    BY <1>3
  <2> QED
    BY <1>1, <1>4, <2>1
<1> QED
  BY <1>2, <1>3, <1>4, <1>5 DEF Current, Planned

\* A settled recipe that is given up leaves the rest of the plan isolated.
LEMMA GiveUpIsolates ==
  ASSUME TypeInv, NEW o \in Operations, NEW q \in Operations, Isolated(o), Isolated(q),
         at[o] <= Len(Plan[o]), installed' = installed,
         NEW how \in {"failed", "skipped"}, GiveUpRecipe(o, how),
         how = "skipped" => DependsOn[Current(o)] \cap Unsuccessful(o) # {}
  PROVE  Isolated(q)'
<1> DEFINE r == Current(o)
<1>0. r \in Recipes
  BY CurrentIsRecipe
<1>1. /\ at' = [at EXCEPT ![o] = @ + 1]
      /\ outcome' = [outcome EXCEPT ![o][r] = how]
      /\ pc'[o] \notin InRecipe
      /\ \A p \in Operations : p # o => pc'[p] = pc[p]
  BY DEF GiveUpRecipe, Goto, InRecipe, TypeInv, TypeOK
<1>2. CASE q # o
  BY <1>1, <1>2, OthersStayIsolated DEF TypeInv, TypeOK
<1>3. CASE q = o
  <2>1. /\ at'[o] = at[o] + 1
        /\ outcome'[o][r] = how
        /\ \A p \in Recipes : p # r => outcome'[o][p] = outcome[o][p]
    BY <1>0, <1>1 DEF TypeInv, TypeOK
  <2>2. outcome[o][r] = "pending"
    BY CurrentInPlan DEF Isolated, TypeInv, TypeOK, Current
  <2>3. \A i \in DOMAIN Plan[o] : i < at'[o] <=> outcome'[o][Plan[o][i]] # "pending"
    <3> SUFFICES ASSUME NEW i \in DOMAIN Plan[o]
                 PROVE  i < at'[o] <=> outcome'[o][Plan[o][i]] # "pending"
      OBVIOUS
    <3>1. i \in Nat /\ at[o] \in Nat /\ Plan[o][i] \in Recipes
      BY EngineAssumption DEF TypeInv, TypeOK
    <3>2. CASE i = at[o]
      BY <2>1, <3>1, <3>2 DEF Current
    <3>3. CASE i # at[o]
      BY <2>1, <3>1, <3>3, CurrentInPlan DEF Isolated
    <3> QED
      BY <3>2, <3>3
  <2>4. \A p \in Recipes : outcome'[o][p] # "pending" => p \in Planned(o)
    BY <2>1, CurrentInPlan DEF Isolated
  <2>5. \A p \in Recipes : outcome'[o][p] = "ok" =>
          /\ p \in installed'[PrefixOf[o]]
          /\ \A d \in DependsOn[p] : outcome'[o][d] = "ok"
    <3> SUFFICES ASSUME NEW p \in Recipes, outcome'[o][p] = "ok"
                 PROVE  /\ p \in installed'[PrefixOf[o]]
                        /\ \A d \in DependsOn[p] : outcome'[o][d] = "ok"
      OBVIOUS
    <3>1. p # r /\ outcome[o][p] = "ok"
      BY <2>1, <2>2
    <3>2. \A d \in DependsOn[p] : d \in Recipes /\ outcome[o][d] = "ok"
      BY <3>1, EngineAssumption DEF Isolated
    <3>3. \A d \in DependsOn[p] : d # r
      BY <2>2, <3>2
    <3> QED
      BY <2>1, <3>1, <3>2, <3>3 DEF Isolated
  <2>6. Unsuccessful(o)' = Unsuccessful(o) \cup {r}
    BY <1>0, <2>1 DEF Unsuccessful
  <2>7. FailedOnly(o) \subseteq FailedOnly(o)' /\ (how = "failed" => r \in FailedOnly(o)')
    BY <1>0, <2>1, <2>2 DEF FailedOnly
  <2>8. ASSUME NEW p \in Unsuccessful(o)', NEW S \in SUBSET Recipes,
               FailedOnly(o)' \subseteq S,
               \A x \in Planned(o) : DependsOn[x] \cap S # {} => x \in S
        PROVE  p \in S
    <3>1. Unsuccessful(o) \subseteq S
      BY <2>7, <2>8 DEF Isolated, Doomed
    <3>2. r \in S
      BY <2>7, <2>8, <3>1, CurrentInPlan
    <3> QED
      BY <2>6, <3>1, <3>2
  <2>9. Unsuccessful(o)' \subseteq Planned(o)
    BY <2>4 DEF Unsuccessful
  <2>10. Unsuccessful(o)' \subseteq Doomed(o)'
    BY <2>8, <2>9 DEF Doomed, Planned
  <2> QED
    BY <1>1, <1>3, <2>3, <2>4, <2>5, <2>10 DEF Isolated, Planned
<1> QED
  BY <1>2, <1>3

\* A recipe that is carried out leaves the rest of the plan isolated.
LEMMA CompletionIsolates ==
  ASSUME TypeInv, NEW o \in Operations, NEW q \in Operations, Isolated(o), Isolated(q),
         CompleteRecipe(o)
  PROVE  Isolated(q)'
<1> DEFINE r == Current(o)
<1>1. /\ pc[o] \in InRecipe /\ at[o] <= Len(Plan[o])
      /\ at' = [at EXCEPT ![o] = @ + 1]
      /\ outcome' = [outcome EXCEPT ![o][r] = "ok"]
      /\ installed' = [installed EXCEPT ![PrefixOf[o]] = @ \cup {r}]
      /\ pc'[o] \notin InRecipe
      /\ \A p \in Operations : p # o => pc'[p] = pc[p]
  BY DEF CompleteRecipe, Goto, InRecipe, TypeInv, TypeOK, Grounded
<1>2. r \in Recipes
  BY <1>1, CurrentIsRecipe
<1>3. \A p \in Prefixes : installed[p] \subseteq installed'[p]
  BY <1>1 DEF TypeInv, TypeOK
<1>4. r \in installed'[PrefixOf[o]]
  BY <1>1, EngineAssumption DEF TypeInv, TypeOK
<1>5. CASE q # o
  <2>1. installed[PrefixOf[q]] \subseteq installed'[PrefixOf[q]]
    BY <1>3, EngineAssumption
  <2> QED
    BY <1>1, <1>5, <2>1, OthersStayIsolated DEF TypeInv, TypeOK
<1>6. CASE q = o
  <2>1. /\ at'[o] = at[o] + 1
        /\ outcome'[o][r] = "ok"
        /\ \A p \in Recipes : p # r => outcome'[o][p] = outcome[o][p]
    BY <1>1, <1>2 DEF TypeInv, TypeOK
  <2>2. outcome[o][r] = "pending"
    BY <1>1, CurrentInPlan DEF Isolated, TypeInv, TypeOK, Current
  <2>3. ASSUME NEW d \in DependsOn[r] PROVE outcome[o][d] = "ok"
    <3>1. d \in Recipes
      BY <1>2, EngineAssumption
    <3>2. outcome[o][d] # "pending"
      BY <1>1, CurrentInPlan DEF Isolated
    <3>3. d \notin Unsuccessful(o)
      BY <1>1 DEF Isolated
    <3> QED
      BY <3>1, <3>2, <3>3 DEF Unsuccessful, Outcome, TypeInv, TypeOK
  <2>4. \A i \in DOMAIN Plan[o] : i < at'[o] <=> outcome'[o][Plan[o][i]] # "pending"
    <3> SUFFICES ASSUME NEW i \in DOMAIN Plan[o]
                 PROVE  i < at'[o] <=> outcome'[o][Plan[o][i]] # "pending"
      OBVIOUS
    <3>1. i \in Nat /\ at[o] \in Nat /\ Plan[o][i] \in Recipes
      BY EngineAssumption DEF TypeInv, TypeOK
    <3>2. CASE i = at[o]
      BY <2>1, <3>1, <3>2 DEF Current
    <3>3. CASE i # at[o]
      BY <1>1, <2>1, <3>1, <3>3, CurrentInPlan DEF Isolated
    <3> QED
      BY <3>2, <3>3
  <2>5. \A p \in Recipes : outcome'[o][p] # "pending" => p \in Planned(o)
    BY <1>1, <2>1, CurrentInPlan DEF Isolated
  <2>6. ASSUME NEW p \in Recipes, outcome'[o][p] = "ok"
        PROVE  /\ p \in installed'[PrefixOf[o]]
               /\ \A d \in DependsOn[p] : outcome'[o][d] = "ok"
    <3>1. CASE p = r
      BY <1>1, <1>4, <2>1, <2>3, <3>1, CurrentInPlan, EngineAssumption
    <3>2. CASE p # r
      BY <1>3, <2>1, <2>6, <3>2, EngineAssumption DEF Isolated
    <3> QED
      BY <3>1, <3>2
  <2>7. Unsuccessful(o)' = Unsuccessful(o) /\ FailedOnly(o)' = FailedOnly(o)
    BY <1>2, <2>1, <2>2 DEF Unsuccessful, FailedOnly
  <2>8. Doomed(o)' = Doomed(o)
    BY <2>7 DEF Doomed, Planned
  <2> QED
    BY <1>1, <1>6, <2>4, <2>5, <2>6, <2>7, <2>8 DEF Isolated, Planned
<1> QED
  BY <1>5, <1>6

\* Every step keeps failures isolated.
LEMMA IsolationStep == TypeInv /\ IsolationInv /\ [Next]_vars => IsolationInv'
<1> SUFFICES ASSUME TypeInv, IsolationInv, [Next]_vars, NEW q \in Operations
             PROVE  Isolated(q)'
  BY DEF IsolationInv
<1> USE DEF TypeInv, TypeOK, IsolationInv, Goto, Finish, Abandon, InRecipe, task, disk
<1>1. ASSUME NEW o \in Operations, Start(o) PROVE Isolated(q)'
  BY <1>1, OthersStayIsolated DEF Start
<1>2. ASSUME NEW o \in Operations, Run(o) PROVE Isolated(q)'
  BY <1>2, OthersStayIsolated DEF Run
<1>3. ASSUME NEW o \in Operations, RequestLock(o) PROVE Isolated(q)'
  BY <1>3, OthersStayIsolated DEF RequestLock
<1>4. ASSUME NEW o \in Operations, AcquireLock(o) PROVE Isolated(q)'
  BY <1>4, OthersStayIsolated DEF AcquireLock
<1>5. ASSUME NEW o \in Operations, RejectPlan(o) PROVE Isolated(q)'
  BY <1>5, OthersStayIsolated DEF RejectPlan
<1>6. ASSUME NEW o \in Operations, BeginPreflight(o) PROVE Isolated(q)'
  BY <1>6, OthersStayIsolated DEF BeginPreflight
<1>7. ASSUME NEW o \in Operations, RefusePreflight(o) PROVE Isolated(q)'
  BY <1>7, OthersStayIsolated DEF RefusePreflight
<1>8. ASSUME NEW o \in Operations, PassPreflight(o) PROVE Isolated(q)'
  BY <1>8, OthersStayIsolated DEF PassPreflight
<1>9. ASSUME NEW o \in Operations, InitializePrefix(o) PROVE Isolated(q)'
  BY <1>9, OthersStayIsolated DEF InitializePrefix
<1>10. ASSUME NEW o \in Operations, CreateSnapshot(o) PROVE Isolated(q)'
  BY <1>10, OthersStayIsolated DEF CreateSnapshot
<1>11. ASSUME NEW o \in Operations, BeginRunning(o) PROVE Isolated(q)'
  BY <1>11, OthersStayIsolated DEF BeginRunning
<1>12. ASSUME NEW o \in Operations, SkipRecipe(o) PROVE Isolated(q)'
  <2>1. /\ at[o] <= Len(Plan[o])
        /\ \E how \in {"failed", "skipped"} :
             /\ GiveUpRecipe(o, how)
             /\ how = "skipped" => DependsOn[Current(o)] \cap Unsuccessful(o) # {}
        /\ installed' = installed
    BY <1>12 DEF SkipRecipe, TypeInv, Grounded, InRecipe, disk
  <2> QED
    BY <2>1, GiveUpIsolates DEF IsolationInv
<1>13. ASSUME NEW o \in Operations, EnterRecipe(o) PROVE Isolated(q)'
  BY <1>13, OthersStayIsolated DEF EnterRecipe
<1>14. ASSUME NEW o \in Operations, FinishPlan(o) PROVE Isolated(q)'
  BY <1>14, OthersStayIsolated DEF FinishPlan
<1>15. ASSUME NEW o \in Operations, StopBeforeStep(o) PROVE Isolated(q)'
  BY <1>15, OthersStayIsolated DEF StopBeforeStep
<1>16. ASSUME NEW o \in Operations, StartStep(o) PROVE Isolated(q)'
  BY <1>16, OthersStayIsolated DEF StartStep
<1>17. ASSUME NEW o \in Operations, StartVerification(o) PROVE Isolated(q)'
  BY <1>17, OthersStayIsolated DEF StartVerification
<1>18. ASSUME NEW o \in Operations, KillStep(o) PROVE Isolated(q)'
  BY <1>18, OthersStayIsolated DEF KillStep
<1>19. ASSUME NEW o \in Operations, CompleteRecipe(o) PROVE Isolated(q)'
  BY <1>19, CompletionIsolates DEF IsolationInv
<1>20. ASSUME NEW o \in Operations, LogFails(o) PROVE Isolated(q)'
  <2>1. /\ at[o] <= Len(Plan[o])
        /\ \E how \in {"failed", "skipped"} :
             /\ GiveUpRecipe(o, how)
             /\ how = "skipped" => DependsOn[Current(o)] \cap Unsuccessful(o) # {}
        /\ installed' = installed
    BY <1>20 DEF LogFails, TypeInv, Grounded, InRecipe, disk
  <2> QED
    BY <2>1, GiveUpIsolates DEF IsolationInv
<1>21. ASSUME NEW o \in Operations, OpenPrompt(o) PROVE Isolated(q)'
  BY <1>21, OthersStayIsolated DEF OpenPrompt
<1>22. ASSUME NEW o \in Operations, TakeAnswer(o) PROVE Isolated(q)'
  BY <1>22, OthersStayIsolated DEF TakeAnswer
<1>23. ASSUME NEW o \in Operations, Close(o) PROVE Isolated(q)'
  BY <1>23, OthersStayIsolated DEF Close
<1>24. ASSUME NEW o \in Operations, Leave(o) PROVE Isolated(q)'
  BY <1>24, OthersStayIsolated DEF Leave
<1>25. ASSUME NEW o \in Operations, StepSucceeds(o) PROVE Isolated(q)'
  BY <1>25, OthersStayIsolated DEF StepSucceeds
<1>26. ASSUME NEW o \in Operations, StepFails(o) PROVE Isolated(q)'
  <2>1. /\ at[o] <= Len(Plan[o])
        /\ \E how \in {"failed", "skipped"} :
             /\ GiveUpRecipe(o, how)
             /\ how = "skipped" => DependsOn[Current(o)] \cap Unsuccessful(o) # {}
        /\ installed' = installed
    BY <1>26 DEF StepFails, TypeInv, Grounded, InRecipe, disk
  <2> QED
    BY <2>1, GiveUpIsolates DEF IsolationInv
<1>27. ASSUME NEW o \in Operations, StepIsFatal(o) PROVE Isolated(q)'
  BY <1>27, OthersStayIsolated DEF StepIsFatal
<1>28. ASSUME NEW o \in Operations, Cancel(o) PROVE Isolated(q)'
  BY <1>28, OthersStayIsolated DEF Cancel
<1>29. ASSUME NEW o \in Operations, Answered(o) PROVE Isolated(q)'
  BY <1>29, OthersStayIsolated DEF Answered, Respond
<1>30. ASSUME ClearHistory PROVE Isolated(q)'
  BY <1>30, OthersStayIsolated DEF ClearHistory
<1>31. ASSUME ClearSnapshots PROVE Isolated(q)'
  BY <1>31, OthersStayIsolated DEF ClearSnapshots
<1>32. ASSUME NEW p \in Processes, Crash(p) PROVE Isolated(q)'
  BY <1>32, OthersStayIsolated DEF Crash
<1>33. ASSUME UNCHANGED vars PROVE Isolated(q)'
  BY <1>33, OthersStayIsolated DEF vars
<1> QED
  BY <1>1, <1>2, <1>3, <1>4, <1>5, <1>6, <1>7, <1>8, <1>9, <1>10, <1>11, <1>12,
     <1>13, <1>14, <1>15, <1>16, <1>17, <1>18, <1>19, <1>20, <1>21, <1>22, <1>23,
     <1>24, <1>25, <1>26, <1>27, <1>28, <1>29, <1>30, <1>31, <1>32, <1>33 DEF Next,
     Proceed, StepEnds, AllOver

\* A task that has gone through its plan has no pending recipe left.
LEMMA WentThrough ==
  ASSUME TypeInv, NEW o \in Operations, Isolated(o), at[o] > Len(Plan[o])
  PROVE  /\ Unsuccessful(o) = Doomed(o)
         /\ \A r \in Planned(o) \ Doomed(o) : outcome[o][r] = "ok"
<1>1. ASSUME NEW r \in Planned(o)
      PROVE  r \in Recipes /\ outcome[o][r] \in {"ok", "failed", "skipped"}
  <2>1. PICK i \in DOMAIN Plan[o] : r = Plan[o][i]
    BY <1>1 DEF Planned
  <2>2. i \in 1..Len(Plan[o]) /\ r \in Recipes /\ at[o] \in Nat /\ Len(Plan[o]) \in Nat
    BY <2>1, EngineAssumption DEF TypeInv, TypeOK
  <2>3. i < at[o]
    BY <2>2
  <2> QED
    BY <2>1, <2>2, <2>3 DEF Isolated, TypeInv, TypeOK, Outcome
<1>2. ASSUME NEW r \in Planned(o), DependsOn[r] \cap Unsuccessful(o) # {}
      PROVE  r \in Unsuccessful(o)
  <2>1. PICK d \in DependsOn[r] : d \in Unsuccessful(o)
    BY <1>2
  <2>2. outcome[o][r] # "ok"
    BY <1>1, <2>1 DEF Isolated, Unsuccessful
  <2> QED
    BY <1>1, <2>2 DEF Unsuccessful
<1>3. FailedOnly(o) \subseteq Unsuccessful(o) /\ Unsuccessful(o) \subseteq Recipes
  BY DEF FailedOnly, Unsuccessful
<1>4. Doomed(o) \subseteq Unsuccessful(o)
  BY <1>2, <1>3 DEF Doomed
<1> QED
  BY <1>1, <1>4 DEF Isolated, Unsuccessful

\* A failing recipe costs its dependants and nobody else: see FailureIsolation.
THEOREM FailuresAreIsolated == Spec => []FailureIsolation
<1>1. Init => IsolationInv
  BY EngineAssumption DEF Init, IsolationInv, Isolated, InRecipe, Unsuccessful, Doomed
<1>2. TypeInv /\ IsolationInv => FailureIsolation
  BY WentThrough DEF IsolationInv, FailureIsolation
<1> QED
  BY <1>1, <1>2, IsolationStep, TypeInvariant, PTL DEF Spec

-----------------------------------------------------------------------------
(* Dependencies in winetricks.log.                                         *)

\* What the recipe that is carried out depends on is in the log already.
LEMMA CompletionKeepsDependencies ==
  ASSUME TypeInv, DependenciesInstalled, NEW o \in Operations, Isolated(o), CompleteRecipe(o)
  PROVE  DependenciesInstalled'
<1> DEFINE r == Current(o)
<1>1. /\ pc[o] \in InRecipe /\ at[o] <= Len(Plan[o])
      /\ installed' = [installed EXCEPT ![PrefixOf[o]] = @ \cup {r}]
  BY DEF CompleteRecipe, InRecipe, TypeInv, Grounded
<1>2. r \in Recipes
  BY <1>1, CurrentIsRecipe
<1>3. ASSUME NEW d \in DependsOn[r] PROVE d \in installed[PrefixOf[o]]
  <2>1. d \in Recipes
    BY <1>2, EngineAssumption
  <2>2. outcome[o][d] # "pending" /\ d \notin Unsuccessful(o)
    BY <1>1, CurrentInPlan DEF Isolated
  <2>3. outcome[o][d] = "ok"
    BY <2>1, <2>2 DEF Unsuccessful, Outcome, TypeInv, TypeOK
  <2> QED
    BY <2>1, <2>3 DEF Isolated
<1>4. ASSUME NEW p \in Prefixes, NEW x \in installed'[p]
      PROVE  DependsOn[x] \subseteq installed'[p]
  <2>1. CASE p = PrefixOf[o] /\ x = r
    BY <1>1, <1>3, <2>1 DEF TypeInv, TypeOK
  <2>2. CASE ~(p = PrefixOf[o] /\ x = r)
    BY <1>1, <2>2 DEF TypeInv, TypeOK, DependenciesInstalled
  <2> QED
    BY <2>1, <2>2
<1> QED
  BY <1>4 DEF DependenciesInstalled

\* Every step keeps the recipes of winetricks.log closed under dependency.
LEMMA DependenciesStep ==
  TypeInv /\ IsolationInv /\ DependenciesInstalled /\ [Next]_vars => DependenciesInstalled'
<1> SUFFICES ASSUME TypeInv, IsolationInv, DependenciesInstalled, [Next]_vars
             PROVE  DependenciesInstalled'
  OBVIOUS
<1> USE DEF DependenciesInstalled, disk
<1>1. ASSUME NEW o \in Operations, Start(o) PROVE DependenciesInstalled'
  BY <1>1 DEF Start
<1>2. ASSUME NEW o \in Operations, Run(o) PROVE DependenciesInstalled'
  BY <1>2 DEF Run
<1>3. ASSUME NEW o \in Operations, RequestLock(o) PROVE DependenciesInstalled'
  BY <1>3 DEF RequestLock
<1>4. ASSUME NEW o \in Operations, AcquireLock(o) PROVE DependenciesInstalled'
  BY <1>4 DEF AcquireLock
<1>5. ASSUME NEW o \in Operations, RejectPlan(o) PROVE DependenciesInstalled'
  BY <1>5 DEF RejectPlan
<1>6. ASSUME NEW o \in Operations, BeginPreflight(o) PROVE DependenciesInstalled'
  BY <1>6 DEF BeginPreflight
<1>7. ASSUME NEW o \in Operations, RefusePreflight(o) PROVE DependenciesInstalled'
  BY <1>7 DEF RefusePreflight
<1>8. ASSUME NEW o \in Operations, PassPreflight(o) PROVE DependenciesInstalled'
  BY <1>8 DEF PassPreflight
<1>9. ASSUME NEW o \in Operations, InitializePrefix(o) PROVE DependenciesInstalled'
  BY <1>9 DEF InitializePrefix
<1>10. ASSUME NEW o \in Operations, CreateSnapshot(o) PROVE DependenciesInstalled'
  BY <1>10 DEF CreateSnapshot
<1>11. ASSUME NEW o \in Operations, BeginRunning(o) PROVE DependenciesInstalled'
  BY <1>11 DEF BeginRunning
<1>12. ASSUME NEW o \in Operations, SkipRecipe(o) PROVE DependenciesInstalled'
  BY <1>12 DEF SkipRecipe
<1>13. ASSUME NEW o \in Operations, EnterRecipe(o) PROVE DependenciesInstalled'
  BY <1>13 DEF EnterRecipe
<1>14. ASSUME NEW o \in Operations, FinishPlan(o) PROVE DependenciesInstalled'
  BY <1>14 DEF FinishPlan
<1>15. ASSUME NEW o \in Operations, StopBeforeStep(o) PROVE DependenciesInstalled'
  BY <1>15 DEF StopBeforeStep
<1>16. ASSUME NEW o \in Operations, StartStep(o) PROVE DependenciesInstalled'
  BY <1>16 DEF StartStep
<1>17. ASSUME NEW o \in Operations, StartVerification(o) PROVE DependenciesInstalled'
  BY <1>17 DEF StartVerification
<1>18. ASSUME NEW o \in Operations, KillStep(o) PROVE DependenciesInstalled'
  BY <1>18 DEF KillStep
<1>19. ASSUME NEW o \in Operations, CompleteRecipe(o) PROVE DependenciesInstalled'
  BY <1>19, CompletionKeepsDependencies DEF IsolationInv
<1>20. ASSUME NEW o \in Operations, LogFails(o) PROVE DependenciesInstalled'
  BY <1>20 DEF LogFails
<1>21. ASSUME NEW o \in Operations, OpenPrompt(o) PROVE DependenciesInstalled'
  BY <1>21 DEF OpenPrompt
<1>22. ASSUME NEW o \in Operations, TakeAnswer(o) PROVE DependenciesInstalled'
  BY <1>22 DEF TakeAnswer
<1>23. ASSUME NEW o \in Operations, Close(o) PROVE DependenciesInstalled'
  BY <1>23 DEF Close
<1>24. ASSUME NEW o \in Operations, Leave(o) PROVE DependenciesInstalled'
  BY <1>24 DEF Leave
<1>25. ASSUME NEW o \in Operations, StepSucceeds(o) PROVE DependenciesInstalled'
  BY <1>25 DEF StepSucceeds
<1>26. ASSUME NEW o \in Operations, StepFails(o) PROVE DependenciesInstalled'
  BY <1>26 DEF StepFails
<1>27. ASSUME NEW o \in Operations, StepIsFatal(o) PROVE DependenciesInstalled'
  BY <1>27 DEF StepIsFatal
<1>28. ASSUME NEW o \in Operations, Cancel(o) PROVE DependenciesInstalled'
  BY <1>28 DEF Cancel
<1>29. ASSUME NEW o \in Operations, Answered(o) PROVE DependenciesInstalled'
  BY <1>29 DEF Answered, Respond
<1>30. ASSUME ClearHistory PROVE DependenciesInstalled'
  BY <1>30 DEF ClearHistory
<1>31. ASSUME ClearSnapshots PROVE DependenciesInstalled'
  BY <1>31 DEF ClearSnapshots
<1>32. ASSUME NEW p \in Processes, Crash(p) PROVE DependenciesInstalled'
  BY <1>32 DEF Crash
<1>33. ASSUME UNCHANGED vars PROVE DependenciesInstalled'
  BY <1>33 DEF vars
<1> QED
  BY <1>1, <1>2, <1>3, <1>4, <1>5, <1>6, <1>7, <1>8, <1>9, <1>10, <1>11, <1>12,
     <1>13, <1>14, <1>15, <1>16, <1>17, <1>18, <1>19, <1>20, <1>21, <1>22, <1>23,
     <1>24, <1>25, <1>26, <1>27, <1>28, <1>29, <1>30, <1>31, <1>32, <1>33 DEF Next,
     Proceed, StepEnds, AllOver

\* winetricks.log never names a recipe before what it depends on.
THEOREM DependenciesComeFirst == Spec => []DependenciesInstalled
<1>1. Init => IsolationInv /\ DependenciesInstalled
  BY EngineAssumption DEF Init, IsolationInv, Isolated, InRecipe, Unsuccessful, Doomed,
     DependenciesInstalled
<1> QED
  BY <1>1, IsolationStep, DependenciesStep, TypeInvariant, PTL DEF Spec

-----------------------------------------------------------------------------
(* Phases, events and records.                                             *)

Busy == {"running", "waiting_for_user"}

\* What the last event and the record of a task are, by where the task stands.
Fits(phase, event, state) ==
  /\ phase = "idle" => event = "none" /\ state = "absent"
  /\ phase \in {"spawned", "queued", "admitted"} =>
       event = "none" /\ state \in {"absent", "planned"}
  /\ phase \in {"preflight", "initialize", "snapshot", "begin"} =>
       event = "preflight" /\ state = "preflight"
  /\ phase \in {"recipe", "step", "working"} => event \in Busy /\ state \in Busy
  /\ phase = "prompting" => event = "running" /\ state = "running"
  /\ phase = "awaiting" => event = "waiting_for_user" /\ state = "waiting_for_user"
  /\ phase = "closing" => event \in Terminal
  /\ state \in Terminal => state = event /\ phase \in {"returned", "done", "dead"}

\* Without a fault a task ends with a conclusion.
Concluded(o) ==
  dbErrors + crashes = 0 =>
    /\ pc[o] \notin {"dead", "refused"}
    /\ pc[o] \in {"returned", "done"} =>
         shown[o] \in Terminal /\ record[o] \in Terminal \cup {"absent"}

\* An announced success is one.
Succeeded(o) == shown[o] = "succeeded" => Planned(o) \subseteq installed[PrefixOf[o]]

Told(o) == Fits(pc[o], shown[o], record[o]) /\ Concluded(o) /\ Succeeded(o)
RecordInv == \A o \in Operations : Told(o)

\* A plan gone through without an unsuccessful recipe is all in winetricks.log.
LEMMA SuccessIsInstalled ==
  ASSUME TypeInv, NEW o \in Operations, Isolated(o), at[o] > Len(Plan[o]),
         Unsuccessful(o) = {}
  PROVE  Planned(o) \subseteq installed[PrefixOf[o]]
<1>1. ASSUME NEW r \in Planned(o) PROVE r \in Recipes /\ outcome[o][r] = "ok"
  <2>1. r \notin Doomed(o)
    BY WentThrough
  <2>2. outcome[o][r] = "ok"
    BY <2>1, WentThrough
  <2>3. PICK i \in DOMAIN Plan[o] : r = Plan[o][i]
    BY DEF Planned
  <2> QED
    BY <2>2, <2>3, EngineAssumption
<1> QED
  BY <1>1 DEF Isolated

\* Every step keeps phase, event and record of every operation together.
LEMMA RecordStep == TypeInv /\ IsolationInv /\ RecordInv /\ [Next]_vars => RecordInv'
<1> SUFFICES ASSUME TypeInv, IsolationInv, RecordInv, [Next]_vars, NEW q \in Operations
             PROVE  Told(q)'
  BY DEF RecordInv
<1>i. Told(q) /\ q \in Operations
  BY DEF RecordInv
<1> USE <1>i, EngineAssumption
    DEF TypeInv, TypeOK, Told, Fits, Concluded, Succeeded, Busy, Terminal, RecordState,
        Phase, Holding, Finish, Abandon, GiveUpRecipe, Persist, PersistFails, Emit, Goto,
        task, talk, locks, disk
<1>1. ASSUME NEW o \in Operations, Start(o) PROVE Told(q)'
  BY <1>1 DEF Start
<1>2. ASSUME NEW o \in Operations, Run(o) PROVE Told(q)'
  BY <1>2 DEF Run
<1>3. ASSUME NEW o \in Operations, RequestLock(o) PROVE Told(q)'
  BY <1>3 DEF RequestLock
<1>4. ASSUME NEW o \in Operations, AcquireLock(o) PROVE Told(q)'
  BY <1>4 DEF AcquireLock
<1>5. ASSUME NEW o \in Operations, RejectPlan(o) PROVE Told(q)'
  BY <1>5 DEF RejectPlan
<1>6. ASSUME NEW o \in Operations, BeginPreflight(o) PROVE Told(q)'
  BY <1>6 DEF BeginPreflight
<1>7. ASSUME NEW o \in Operations, RefusePreflight(o) PROVE Told(q)'
  BY <1>7 DEF RefusePreflight
<1>8. ASSUME NEW o \in Operations, PassPreflight(o) PROVE Told(q)'
  BY <1>8 DEF PassPreflight
<1>9. ASSUME NEW o \in Operations, InitializePrefix(o) PROVE Told(q)'
  BY <1>9 DEF InitializePrefix
<1>10. ASSUME NEW o \in Operations, CreateSnapshot(o) PROVE Told(q)'
  BY <1>10 DEF CreateSnapshot
<1>11. ASSUME NEW o \in Operations, BeginRunning(o) PROVE Told(q)'
  BY <1>11 DEF BeginRunning
<1>12. ASSUME NEW o \in Operations, SkipRecipe(o) PROVE Told(q)'
  BY <1>12 DEF SkipRecipe
<1>13. ASSUME NEW o \in Operations, EnterRecipe(o) PROVE Told(q)'
  BY <1>13 DEF EnterRecipe
<1>14. ASSUME NEW o \in Operations, FinishPlan(o) PROVE Told(q)'
  <2>1. UNCHANGED <<installed, record, dbErrors, crashes>> /\ pc' = [pc EXCEPT ![o] = "closing"]
    BY <1>14 DEF FinishPlan
  <2>2. CASE q # o
    BY <1>14, <2>2 DEF FinishPlan
  <2>3. CASE q = o
    <3>1. Fits(pc[o], shown[o], record[o])' /\ Concluded(o)'
      BY <1>14, <2>3 DEF FinishPlan
    <3>2. shown'[o] = "succeeded" => Unsuccessful(o) = {} /\ at[o] > Len(Plan[o])
      BY <1>14 DEF FinishPlan
    <3>3. Succeeded(o)'
      BY <2>1, <3>2, SuccessIsInstalled DEF IsolationInv
    <3> QED
      BY <2>3, <3>1, <3>3
  <2> QED
    BY <2>2, <2>3
<1>15. ASSUME NEW o \in Operations, StopBeforeStep(o) PROVE Told(q)'
  BY <1>15 DEF StopBeforeStep
<1>16. ASSUME NEW o \in Operations, StartStep(o) PROVE Told(q)'
  BY <1>16 DEF StartStep
<1>17. ASSUME NEW o \in Operations, StartVerification(o) PROVE Told(q)'
  BY <1>17 DEF StartVerification
<1>18. ASSUME NEW o \in Operations, KillStep(o) PROVE Told(q)'
  BY <1>18 DEF KillStep
<1>19. ASSUME NEW o \in Operations, CompleteRecipe(o) PROVE Told(q)'
  BY <1>19 DEF CompleteRecipe
<1>20. ASSUME NEW o \in Operations, LogFails(o) PROVE Told(q)'
  BY <1>20 DEF LogFails
<1>21. ASSUME NEW o \in Operations, OpenPrompt(o) PROVE Told(q)'
  BY <1>21 DEF OpenPrompt
<1>22. ASSUME NEW o \in Operations, TakeAnswer(o) PROVE Told(q)'
  <2>1. CASE q = o
    BY <1>22, <2>1 DEF TakeAnswer
  <2>2. CASE q # o
    BY <1>22, <2>2 DEF TakeAnswer
  <2> QED
    BY <2>1, <2>2
<1>23. ASSUME NEW o \in Operations, Close(o) PROVE Told(q)'
  BY <1>23 DEF Close
<1>24. ASSUME NEW o \in Operations, Leave(o) PROVE Told(q)'
  BY <1>24 DEF Leave
<1>25. ASSUME NEW o \in Operations, StepSucceeds(o) PROVE Told(q)'
  BY <1>25 DEF StepSucceeds
<1>26. ASSUME NEW o \in Operations, StepFails(o) PROVE Told(q)'
  BY <1>26 DEF StepFails
<1>27. ASSUME NEW o \in Operations, StepIsFatal(o) PROVE Told(q)'
  BY <1>27 DEF StepIsFatal
<1>28. ASSUME NEW o \in Operations, Cancel(o) PROVE Told(q)'
  BY <1>28 DEF Cancel
<1>29. ASSUME NEW o \in Operations, Answered(o) PROVE Told(q)'
  BY <1>29 DEF Answered, Respond
<1>30. ASSUME ClearHistory PROVE Told(q)'
  BY <1>30 DEF ClearHistory
<1>31. ASSUME ClearSnapshots PROVE Told(q)'
  BY <1>31 DEF ClearSnapshots
<1>32. ASSUME NEW p \in Processes, Crash(p) PROVE Told(q)'
  BY <1>32 DEF Crash
<1>33. ASSUME UNCHANGED vars PROVE Told(q)'
  BY <1>33 DEF vars
<1> QED
  BY <1>1, <1>2, <1>3, <1>4, <1>5, <1>6, <1>7, <1>8, <1>9, <1>10, <1>11, <1>12,
     <1>13, <1>14, <1>15, <1>16, <1>17, <1>18, <1>19, <1>20, <1>21, <1>22, <1>23, <1>24,
     <1>25, <1>26, <1>27, <1>28, <1>29, <1>30, <1>31, <1>32, <1>33 DEF Next,
     Proceed, StepEnds, AllOver

\* The inductive invariant holds, whatever fails or dies.
LEMMA RecordInvariant == Spec => [](TypeInv /\ RecordInv)
<1>1. Init => IsolationInv
  BY EngineAssumption DEF Init, IsolationInv, Isolated, InRecipe, Unsuccessful, Doomed
<1>2. Init => RecordInv
  BY DEF Init, RecordInv, Told, Fits, Concluded, Succeeded, Terminal
<1> QED
  BY <1>1, <1>2, IsolationStep, RecordStep, TypeInvariant, PTL DEF Spec

\* The history never says of an operation what its events did not announce, says
\* it only when its task is through, and calls no operation a success that left a
\* recipe out.
THEOREM HistoryIsTrue == Spec => []RecordsTellTheTruth
<1>1. RecordInv => RecordsTellTheTruth
  BY DEF RecordInv, Told, Fits, Succeeded, Terminal, RecordsTellTheTruth
<1> QED
  BY RecordInvariant, <1>1, PTL

\* On every way through run_plan, the early returns included, an operation is
\* announced and recorded as concluded, unless a write fails or a process dies.
THEOREM EveryEndIsRecorded == Spec => []UnfinishedNeedsFault
<1>1. TypeInv /\ RecordInv => UnfinishedNeedsFault
  BY DEF RecordInv, Told, Concluded, Terminal, UnfinishedNeedsFault, Gone
<1> QED
  BY RecordInvariant, <1>1, PTL

-----------------------------------------------------------------------------
(* The engine implements the lifecycle.                                    *)

ClosedTasks == {o \in Operations : Gone(o) \/ pc[o] = "returned"}
Abstract == <<record, shown, ClosedTasks>>

\* What Lifecycle has as the stages of a record and the ways to end.
Stages == {"planned", "preflight", "running", "waiting_for_user"}
Transitions ==
  { <<"absent", "planned">>, <<"absent", "preflight">>, <<"planned", "preflight">>,
    <<"preflight", "running">>, <<"running", "running">>,
    <<"running", "waiting_for_user">>, <<"waiting_for_user", "running">> }
Closings == ({"none", "preflight"} \X {"failed"}) \cup (Busy \X Terminal)

\* A task that goes on closes nothing.
LEMMA StaysOpen ==
  ASSUME TypeOK, NEW o \in Operations, NEW phase \in Phase, Goto(o, phase),
         phase \notin {"returned", "done", "dead", "refused"},
         pc[o] \notin {"returned", "done", "dead", "refused"}
  PROVE  ClosedTasks' = ClosedTasks /\ o \notin ClosedTasks
BY DEF TypeOK, Goto, ClosedTasks, Gone

\* A task that returns, or is not started, is closed.
LEMMA GetsClosed ==
  ASSUME TypeOK, NEW o \in Operations, Goto(o, "returned") \/ Goto(o, "refused"),
         pc[o] \notin {"returned", "done", "dead", "refused"}
  PROVE  ClosedTasks' = ClosedTasks \cup {o} /\ o \notin ClosedTasks
BY DEF TypeOK, Goto, ClosedTasks, Gone

\* Under the refinement mapping, which keeps the record and the last event, and
\* closes a task when it is through: a record climbs a stage.
LEMMA AbstractAdvance ==
  ASSUME NEW o \in Operations, NEW stage \in Stages, o \notin ClosedTasks,
         shown[o] \notin Terminal, <<record[o], stage>> \in Transitions,
         record' = [record EXCEPT ![o] = stage],
         shown' = IF stage = "planned" THEN shown ELSE [shown EXCEPT ![o] = stage],
         ClosedTasks' = ClosedTasks
  PROVE  Lifecycle!Next
BY DEF Stages, Transitions, ClosedTasks, Terminal, Lifecycle!Next, Lifecycle!Advance, Lifecycle!Stages,
       Lifecycle!Conclusions

\* A progress or log event, perhaps the last one of a task that a failed write ends.
LEMMA AbstractReport ==
  ASSUME NEW o \in Operations, o \notin ClosedTasks, shown[o] \in Busy,
         shown' = [shown EXCEPT ![o] = "running"], record' = record,
         ClosedTasks' \in {ClosedTasks, ClosedTasks \cup {o}}
  PROVE  Lifecycle!Next
<1>1. Lifecycle!Report(o)
  BY DEF ClosedTasks, Busy, Lifecycle!Report
<1> QED
  BY <1>1 DEF Lifecycle!Next

\* A conclusion is announced, and not recorded yet.
LEMMA AbstractAnnounce ==
  ASSUME NEW o \in Operations, NEW end \in Terminal, o \notin ClosedTasks,
         <<shown[o], end>> \in Closings,
         shown' = [shown EXCEPT ![o] = end], record' = record, ClosedTasks' = ClosedTasks
  PROVE  Lifecycle!Next
<1>1. Lifecycle!Announce(o, end)
  BY DEF ClosedTasks, Terminal, Busy, Closings, Lifecycle!Announce, Lifecycle!Endings, Lifecycle!Conclusions
<1> QED
  BY <1>1 DEF Terminal, Lifecycle!Next, Lifecycle!Conclusions

\* The announced conclusion is recorded.
LEMMA AbstractKeep ==
  ASSUME NEW o \in Operations, o \notin ClosedTasks, shown[o] \in Terminal,
         record' = [record EXCEPT ![o] = shown[o]], shown' = shown,
         ClosedTasks' = ClosedTasks \cup {o}
  PROVE  Lifecycle!Next
<1>1. Lifecycle!Keep(o)
  BY DEF ClosedTasks, Terminal, Lifecycle!Keep, Lifecycle!Conclusions
<1> QED
  BY <1>1 DEF Lifecycle!Next

\* Tasks end without a word.
LEMMA AbstractVanish ==
  ASSUME ClosedTasks \subseteq ClosedTasks', record' = record, shown' = shown
  PROVE  Lifecycle!Next
<1>1. ClosedTasks' \in SUBSET Operations
  BY DEF ClosedTasks
<1>2. Lifecycle!Vanish
  BY <1>1 DEF ClosedTasks, Lifecycle!Vanish
<1> QED
  BY <1>2 DEF Lifecycle!Next

\* The history is cleared of what is concluded.
LEMMA AbstractClear ==
  ASSUME record' = [o \in Operations |->
                      IF record[o] \in Terminal /\ o \in ClosedTasks THEN "absent" ELSE record[o]],
         shown' = shown, ClosedTasks' = ClosedTasks
  PROVE  Lifecycle!Next
<1>1. Lifecycle!Clear
  BY DEF ClosedTasks, Terminal, Lifecycle!Clear, Lifecycle!Conclusions
<1> QED
  BY <1>1 DEF Lifecycle!Next

\* Every step of the engine is one of the lifecycle, or changes nothing that an
\* observer sees.
LEMMA LifecycleStep == TypeInv /\ RecordInv /\ [Next]_vars => [Lifecycle!Next]_Abstract
<1> SUFFICES ASSUME TypeInv, RecordInv, [Next]_vars
             PROVE  Lifecycle!Next \/ UNCHANGED Abstract
  OBVIOUS
<1>t. TypeOK
  BY DEF TypeInv
<1>f. \A o \in Operations : Fits(pc[o], shown[o], record[o])
  BY DEF RecordInv, Told
<1> USE <1>t, <1>f
    DEF Fits, Busy, Terminal, Phase, Holding, Finish, Persist, PersistFails, Emit,
        talk, locks, disk, task, Abstract
<1>1. ASSUME NEW o \in Operations, Start(o) PROVE Lifecycle!Next \/ UNCHANGED Abstract
  BY <1>1, StaysOpen, GetsClosed, AbstractAdvance, AbstractVanish
     DEF Start, Stages, Transitions
<1>2. ASSUME NEW o \in Operations, Run(o) PROVE Lifecycle!Next \/ UNCHANGED Abstract
  BY <1>2, StaysOpen DEF Run
<1>3. ASSUME NEW o \in Operations, RequestLock(o) PROVE Lifecycle!Next \/ UNCHANGED Abstract
  BY <1>3, StaysOpen DEF RequestLock
<1>4. ASSUME NEW o \in Operations, AcquireLock(o) PROVE Lifecycle!Next \/ UNCHANGED Abstract
  BY <1>4, StaysOpen DEF AcquireLock
<1>5. ASSUME NEW o \in Operations, RejectPlan(o) PROVE Lifecycle!Next \/ UNCHANGED Abstract
  BY <1>5, StaysOpen, AbstractAnnounce DEF RejectPlan, Closings
<1>6. ASSUME NEW o \in Operations, BeginPreflight(o) PROVE Lifecycle!Next \/ UNCHANGED Abstract
  BY <1>6, StaysOpen, GetsClosed, AbstractAdvance, AbstractVanish
     DEF BeginPreflight, Abandon, Stages, Transitions
<1>7. ASSUME NEW o \in Operations, RefusePreflight(o) PROVE Lifecycle!Next \/ UNCHANGED Abstract
  BY <1>7, StaysOpen, AbstractAnnounce DEF RefusePreflight, Closings
<1>8. ASSUME NEW o \in Operations, PassPreflight(o) PROVE Lifecycle!Next \/ UNCHANGED Abstract
  BY <1>8, StaysOpen DEF PassPreflight
<1>9. ASSUME NEW o \in Operations, InitializePrefix(o) PROVE Lifecycle!Next \/ UNCHANGED Abstract
  BY <1>9, StaysOpen, AbstractAnnounce DEF InitializePrefix, Closings
<1>10. ASSUME NEW o \in Operations, CreateSnapshot(o) PROVE Lifecycle!Next \/ UNCHANGED Abstract
  <2>1. CASE Goto(o, "begin") /\ Emit(o, "preflight")
    BY <1>10, <2>1, StaysOpen DEF CreateSnapshot, TypeOK
  <2>2. CASE Goto(o, "closing") /\ Emit(o, "failed")
    BY <1>10, <2>2, StaysOpen, AbstractAnnounce DEF CreateSnapshot, Closings
  <2> QED
    BY <1>10, <2>1, <2>2 DEF CreateSnapshot
<1>11. ASSUME NEW o \in Operations, BeginRunning(o) PROVE Lifecycle!Next \/ UNCHANGED Abstract
  BY <1>11, StaysOpen, GetsClosed, AbstractAdvance, AbstractVanish
     DEF BeginRunning, Abandon, Stages, Transitions
<1>12. ASSUME NEW o \in Operations, SkipRecipe(o) PROVE Lifecycle!Next \/ UNCHANGED Abstract
  BY <1>12, StaysOpen, GetsClosed, AbstractAdvance, AbstractReport
     DEF SkipRecipe, GiveUpRecipe, Stages, Transitions
<1>13. ASSUME NEW o \in Operations, EnterRecipe(o) PROVE Lifecycle!Next \/ UNCHANGED Abstract
  BY <1>13, StaysOpen DEF EnterRecipe
<1>14. ASSUME NEW o \in Operations, FinishPlan(o) PROVE Lifecycle!Next \/ UNCHANGED Abstract
  BY <1>14, StaysOpen, AbstractAnnounce DEF FinishPlan, Closings
<1>15. ASSUME NEW o \in Operations, StopBeforeStep(o) PROVE Lifecycle!Next \/ UNCHANGED Abstract
  BY <1>15, StaysOpen, AbstractAnnounce DEF StopBeforeStep, Closings
<1>16. ASSUME NEW o \in Operations, StartStep(o) PROVE Lifecycle!Next \/ UNCHANGED Abstract
  BY <1>16, StaysOpen, AbstractAdvance, AbstractAnnounce
     DEF StartStep, Stages, Transitions, Closings
<1>17. ASSUME NEW o \in Operations, StartVerification(o) PROVE Lifecycle!Next \/ UNCHANGED Abstract
  BY <1>17, StaysOpen, AbstractReport DEF StartVerification
<1>18. ASSUME NEW o \in Operations, KillStep(o) PROVE Lifecycle!Next \/ UNCHANGED Abstract
  BY <1>18, StaysOpen, AbstractAnnounce DEF KillStep, Closings
<1>19. ASSUME NEW o \in Operations, CompleteRecipe(o) PROVE Lifecycle!Next \/ UNCHANGED Abstract
  BY <1>19, StaysOpen DEF CompleteRecipe
<1>20. ASSUME NEW o \in Operations, LogFails(o) PROVE Lifecycle!Next \/ UNCHANGED Abstract
  BY <1>20, StaysOpen, GetsClosed, AbstractAdvance, AbstractReport
     DEF LogFails, GiveUpRecipe, Stages, Transitions
<1>21. ASSUME NEW o \in Operations, OpenPrompt(o) PROVE Lifecycle!Next \/ UNCHANGED Abstract
  BY <1>21, StaysOpen, AbstractAdvance, AbstractAnnounce
     DEF OpenPrompt, Stages, Transitions, Closings
<1>22. ASSUME NEW o \in Operations, TakeAnswer(o) PROVE Lifecycle!Next \/ UNCHANGED Abstract
  BY <1>22, StaysOpen, AbstractAnnounce DEF TakeAnswer, Closings
<1>23. ASSUME NEW o \in Operations, Close(o) PROVE Lifecycle!Next \/ UNCHANGED Abstract
  BY <1>23, GetsClosed, AbstractKeep, AbstractVanish DEF Close
<1>24. ASSUME NEW o \in Operations, Leave(o) PROVE Lifecycle!Next \/ UNCHANGED Abstract
  BY <1>24 DEF Leave, Goto, TypeOK, ClosedTasks, Gone
<1>25. ASSUME NEW o \in Operations, StepSucceeds(o) PROVE Lifecycle!Next \/ UNCHANGED Abstract
  BY <1>25, StaysOpen DEF StepSucceeds
<1>26. ASSUME NEW o \in Operations, StepFails(o) PROVE Lifecycle!Next \/ UNCHANGED Abstract
  BY <1>26, StaysOpen, GetsClosed, AbstractAdvance, AbstractReport
     DEF StepFails, GiveUpRecipe, Stages, Transitions
<1>27. ASSUME NEW o \in Operations, StepIsFatal(o) PROVE Lifecycle!Next \/ UNCHANGED Abstract
  BY <1>27, StaysOpen, AbstractAnnounce DEF StepIsFatal, Closings
<1>28. ASSUME NEW o \in Operations, Cancel(o) PROVE Lifecycle!Next \/ UNCHANGED Abstract
  BY <1>28 DEF Cancel, ClosedTasks, Gone
<1>29. ASSUME NEW o \in Operations, Answered(o) PROVE Lifecycle!Next \/ UNCHANGED Abstract
  BY <1>29 DEF Answered, Respond, ClosedTasks, Gone
<1>30. ASSUME ClearHistory PROVE Lifecycle!Next \/ UNCHANGED Abstract
  <2>1. ClosedTasks' = ClosedTasks
    BY <1>30 DEF ClearHistory, ClosedTasks, Gone
  <2>2. \A o \in Operations : record[o] \in Terminal => o \in ClosedTasks
    BY DEF ClosedTasks, Gone
  <2> QED
    BY <1>30, <2>1, <2>2, AbstractClear DEF ClearHistory
<1>31. ASSUME ClearSnapshots PROVE Lifecycle!Next \/ UNCHANGED Abstract
  BY <1>31 DEF ClearSnapshots, ClosedTasks, Gone
<1>32. ASSUME NEW p \in Processes, Crash(p) PROVE Lifecycle!Next \/ UNCHANGED Abstract
  <2>1. ClosedTasks \subseteq ClosedTasks'
    BY <1>32 DEF Crash, ClosedTasks, Gone, TypeOK
  <2> QED
    BY <1>32, <2>1, AbstractVanish DEF Crash
<1>33. ASSUME UNCHANGED vars PROVE Lifecycle!Next \/ UNCHANGED Abstract
  BY <1>33 DEF vars, ClosedTasks, Gone
<1> QED
  BY <1>1, <1>2, <1>3, <1>4, <1>5, <1>6, <1>7, <1>8, <1>9, <1>10, <1>11, <1>12,
     <1>13, <1>14, <1>15, <1>16, <1>17, <1>18, <1>19, <1>20, <1>21, <1>22, <1>23, <1>24,
     <1>25, <1>26, <1>27, <1>28, <1>29, <1>30, <1>31, <1>32, <1>33 DEF Next,
     Proceed, StepEnds, AllOver

\* What an observer of events and history relies on is what the engine does.
THEOREM EngineImplementsLifecycle == Spec => ImplementsLifecycle
<1>1. Init => Lifecycle!Init
  BY DEF Init, Lifecycle!Init, Gone
<1>2. TypeInv /\ RecordInv /\ [Next]_vars => [Lifecycle!Next]_Abstract
  BY LifecycleStep
<1> QED
  BY RecordInvariant, <1>1, <1>2, PTL
     DEF Spec, ImplementsLifecycle, Lifecycle!Spec, Abstract, ClosedTasks

-----------------------------------------------------------------------------
(* The engine and the restore points of its operations.                    *)

Visible == <<points, PointPhase>>
Open(o) == record[o] \notin Terminal \cup {"absent"}

\* An operation with a restore point has said something.
PointInv == \A o \in points : shown[o] # "none"

\* Points are taken and cleared by two actions, which show and record nothing.
LEMMA PointsChange ==
  ASSUME TypeInv, RecordInv, [Next]_vars
  PROVE  \/ points' = points
         \/ /\ record' = record /\ shown' = shown
            /\ \E o \in Operations : /\ Open(o) /\ shown[o] = "preflight"
                                     /\ points' = points \cup {o}
         \/ /\ record' = record /\ shown' = shown
            /\ points' \in SUBSET points
            /\ \A o \in points : Open(o) => o \in points'
<1> DEFINE Goal == \/ points' = points
                   \/ /\ record' = record /\ shown' = shown
                      /\ \E o \in Operations : /\ Open(o) /\ shown[o] = "preflight"
                                               /\ points' = points \cup {o}
                   \/ /\ record' = record /\ shown' = shown
                      /\ points' \in SUBSET points
                      /\ \A o \in points : Open(o) => o \in points'
<1>1. ASSUME NEW o \in Operations, CreateSnapshot(o) PROVE Goal
  <2>1. CASE points' = points \cup {o} /\ Emit(o, "preflight")
    <3>1. shown[o] = "preflight" /\ record[o] = "preflight"
      BY <1>1 DEF CreateSnapshot, RecordInv, Told, Fits
    <3>2. shown' = shown
      BY <2>1, <3>1 DEF Emit, TypeInv, TypeOK
    <3>3. record' = record
      BY <1>1 DEF CreateSnapshot
    <3> QED
      BY <2>1, <3>1, <3>2, <3>3 DEF Open, Terminal
  <2>2. CASE points' = points
    BY <2>2
  <2> QED
    BY <1>1, <2>1, <2>2 DEF CreateSnapshot
<1>2. ASSUME ClearSnapshots PROVE Goal
  <2>1. PICK cleared \in SUBSET {o \in points : ~Protected(o)} : points' = points \ cleared
    BY <1>2 DEF ClearSnapshots
  <2>2. record' = record /\ shown' = shown
    BY <1>2 DEF ClearSnapshots
  <2> QED
    BY <2>1, <2>2 DEF Protected, Open
<1>3. ASSUME NEW o \in Operations,
             \/ Start(o) \/ Run(o) \/ RequestLock(o) \/ AcquireLock(o) \/ RejectPlan(o)
             \/ BeginPreflight(o) \/ RefusePreflight(o) \/ PassPreflight(o)
             \/ InitializePrefix(o) \/ BeginRunning(o)
      PROVE  points' = points
  BY <1>3 DEF Start, Run, RequestLock, AcquireLock, RejectPlan, BeginPreflight,
     RefusePreflight, PassPreflight, InitializePrefix, BeginRunning
<1>4. ASSUME NEW o \in Operations,
             \/ SkipRecipe(o) \/ EnterRecipe(o) \/ FinishPlan(o) \/ StopBeforeStep(o)
             \/ StartStep(o) \/ StartVerification(o) \/ KillStep(o) \/ CompleteRecipe(o)
             \/ LogFails(o)
      PROVE  points' = points
  BY <1>4 DEF SkipRecipe, EnterRecipe, FinishPlan, StopBeforeStep, StartStep,
     StartVerification, KillStep, CompleteRecipe, LogFails
<1>5. ASSUME NEW o \in Operations,
             \/ OpenPrompt(o) \/ TakeAnswer(o) \/ Close(o) \/ Leave(o) \/ StepSucceeds(o)
             \/ StepFails(o) \/ StepIsFatal(o) \/ Cancel(o) \/ Answered(o)
      PROVE  points' = points
  BY <1>5 DEF OpenPrompt, TakeAnswer, Close, Leave, StepSucceeds, StepFails, StepIsFatal,
     Cancel, Answered, Respond
<1>6. ASSUME ClearHistory \/ UNCHANGED vars PROVE points' = points
  BY <1>6 DEF ClearHistory, vars
<1>7. ASSUME NEW p \in Processes, Crash(p) PROVE points' = points
  BY <1>7 DEF Crash
<1> QED
  BY <1>1, <1>2, <1>3, <1>4, <1>5, <1>6, <1>7 DEF Next, Proceed, StepEnds, AllOver

\* Nothing that was said is taken back.
LEMMA SaidStays ==
  ASSUME TypeInv, RecordInv, [Next]_vars, NEW o \in Operations, shown[o] # "none"
  PROVE  shown'[o] # "none"
<1> USE DEF TypeInv, TypeOK
<1>1. Lifecycle!Next \/ UNCHANGED Abstract
  BY LifecycleStep
<1>2. ASSUME NEW q \in Operations, NEW stage \in Stages, Lifecycle!Advance(q, stage)
      PROVE  shown'[o] # "none"
  BY <1>2 DEF Lifecycle!Advance, Stages
<1>3. ASSUME NEW q \in Operations, Lifecycle!Report(q) PROVE shown'[o] # "none"
  BY <1>3 DEF Lifecycle!Report
<1>4. ASSUME NEW q \in Operations, NEW end \in Terminal, Lifecycle!Announce(q, end)
      PROVE  shown'[o] # "none"
  BY <1>4 DEF Lifecycle!Announce, Terminal
<1>5. ASSUME NEW q \in Operations, Lifecycle!Keep(q) PROVE shown'[o] # "none"
  BY <1>5 DEF Lifecycle!Keep
<1>6. ASSUME Lifecycle!Vanish \/ Lifecycle!Clear \/ UNCHANGED Abstract
      PROVE  shown'[o] # "none"
  BY <1>6 DEF Lifecycle!Vanish, Lifecycle!Clear, Abstract
<1> QED
  BY <1>1, <1>2, <1>3, <1>4, <1>5, <1>6
     DEF Lifecycle!Next, Lifecycle!Conclusions, Terminal, Stages

\* So an operation with a point stays one that has said something.
LEMMA PointStep == TypeInv /\ RecordInv /\ PointInv /\ [Next]_vars => PointInv'
<1> SUFFICES ASSUME TypeInv, RecordInv, PointInv, [Next]_vars, NEW o \in points'
             PROVE  shown'[o] # "none"
  BY DEF PointInv
<1>1. o \in Operations /\ shown[o] # "none"
  BY PointsChange DEF PointInv, TypeInv, TypeOK
<1> QED
  BY <1>1, SaidStays

\* A step of the lifecycle takes the phase of one operation further, or of none.
LEMMA PhaseStep ==
  ASSUME TypeInv, RecordInv, PointInv, [Next]_vars, points' = points
  PROVE  Snapshots!Next \/ UNCHANGED Visible
<1> USE DEF TypeInv, TypeOK
<1>1. Lifecycle!Next \/ UNCHANGED Abstract
  BY LifecycleStep
<1>f. \A o \in Operations : Fits(pc[o], shown[o], record[o])
  BY DEF RecordInv, Told
<1>a. ASSUME NEW o \in Operations, PointPhase[o] = "none",
             PointPhase' = [PointPhase EXCEPT ![o] = "unfinished"]
      PROVE  Snapshots!Next
  <2>1. o \notin points
    BY <1>a, <1>f DEF PointInv, PointPhase
  <2>2. Snapshots!Ask(o)
    BY <1>a, <2>1 DEF Snapshots!Ask
  <2> QED
    BY <2>2 DEF Snapshots!Next
<1>c. ASSUME NEW o \in Operations, PointPhase[o] # "over",
             PointPhase' = [PointPhase EXCEPT ![o] = "over"]
      PROVE  Snapshots!Next
  <2>1. Snapshots!Conclude(o)
    BY <1>c DEF Snapshots!Conclude
  <2> QED
    BY <2>1 DEF Snapshots!Next
<1>s. ASSUME PointPhase' = PointPhase PROVE UNCHANGED Visible
  BY <1>s DEF Visible
<1>e. \A o \in Operations : PointPhase = [PointPhase EXCEPT ![o] = PointPhase[o]]
  <2>1. ASSUME NEW F, F \in [Operations -> {"none", "unfinished", "over"}], NEW o \in Operations
        PROVE  F = [F EXCEPT ![o] = F[o]]
    BY <2>1
  <2>2. PointPhase \in [Operations -> {"none", "unfinished", "over"}]
    BY DEF PointPhase
  <2> QED
    BY <2>1, <2>2
<1>2. ASSUME NEW q \in Operations, NEW stage \in Stages, Lifecycle!Advance(q, stage)
      PROVE  Snapshots!Next \/ UNCHANGED Visible
  <2>1. /\ record' = [record EXCEPT ![q] = stage]
        /\ shown' = IF stage = "planned" THEN shown ELSE [shown EXCEPT ![q] = stage]
        /\ shown[q] \notin Terminal /\ q \notin ClosedTasks
    BY <1>2 DEF Lifecycle!Advance, Lifecycle!Conclusions, Terminal, ClosedTasks
  <2>2. PointPhase' = [PointPhase EXCEPT ![q] = "unfinished"]
    BY <2>1 DEF PointPhase, Stages, Terminal
  <2>3. PointPhase[q] \in {"none", "unfinished"}
    BY <1>f, <2>1 DEF PointPhase, Fits, ClosedTasks, Gone, Terminal, Busy, Phase, Holding
  <2>4. CASE PointPhase[q] = "none"
    BY <1>a, <2>2, <2>4
  <2>5. CASE PointPhase[q] = "unfinished"
    BY <1>s, <1>e, <2>2, <2>5
  <2> QED
    BY <2>3, <2>4, <2>5
<1>3. ASSUME NEW q \in Operations, Lifecycle!Report(q)
      PROVE  Snapshots!Next \/ UNCHANGED Visible
  <2>1. PointPhase' = PointPhase
    BY <1>3 DEF Lifecycle!Report, PointPhase
  <2> QED
    BY <1>s, <2>1
<1>4. ASSUME NEW q \in Operations, NEW end \in Terminal, Lifecycle!Announce(q, end)
      PROVE  Snapshots!Next \/ UNCHANGED Visible
  <2>1. shown' = [shown EXCEPT ![q] = end] /\ record' = record
    BY <1>4 DEF Lifecycle!Announce
  <2>2. CASE Open(q) \/ shown[q] # "none"
    <3>1. PointPhase' = PointPhase
      BY <2>1, <2>2 DEF Open, PointPhase, Terminal
    <3> QED
      BY <1>s, <3>1
  <2>3. CASE ~Open(q) /\ shown[q] = "none"
    <3>1. PointPhase' = [PointPhase EXCEPT ![q] = "over"] /\ PointPhase[q] # "over"
      BY <2>1, <2>3 DEF Open, PointPhase, Terminal
    <3> QED
      BY <1>c, <3>1
  <2> QED
    BY <2>2, <2>3
<1>5. ASSUME NEW q \in Operations, Lifecycle!Keep(q)
      PROVE  Snapshots!Next \/ UNCHANGED Visible
  <2>1. record' = [record EXCEPT ![q] = shown[q]] /\ shown' = shown /\ shown[q] \in Terminal
    BY <1>5 DEF Lifecycle!Keep, Lifecycle!Conclusions, Terminal
  <2>2. PointPhase' = [PointPhase EXCEPT ![q] = "over"]
    BY <2>1 DEF PointPhase, Terminal
  <2>3. CASE PointPhase[q] = "over"
    BY <1>s, <1>e, <2>2, <2>3
  <2>4. CASE PointPhase[q] # "over"
    BY <1>c, <2>2, <2>4
  <2> QED
    BY <2>3, <2>4
<1>6. ASSUME Lifecycle!Vanish \/ UNCHANGED Abstract
      PROVE  Snapshots!Next \/ UNCHANGED Visible
  <2>1. PointPhase' = PointPhase
    BY <1>6 DEF Lifecycle!Vanish, Abstract, PointPhase
  <2> QED
    BY <1>s, <2>1
<1>7. ASSUME Lifecycle!Clear PROVE Snapshots!Next \/ UNCHANGED Visible
  <2>1. \A o \in Operations : record[o] \in Terminal => shown[o] # "none"
    BY <1>f DEF Fits, Terminal
  <2>2. /\ shown' = shown
        /\ record' = [o \in Operations |->
                        IF record[o] \in Terminal /\ o \in ClosedTasks THEN "absent"
                                                                      ELSE record[o]]
    BY <1>7 DEF Lifecycle!Clear, Lifecycle!Conclusions, Terminal, ClosedTasks
  <2>3. PointPhase' = PointPhase
    BY <2>1, <2>2 DEF PointPhase
  <2> QED
    BY <1>s, <2>3
<1> QED
  BY <1>1, <1>2, <1>3, <1>4, <1>5, <1>6, <1>7
     DEF Lifecycle!Next, Lifecycle!Conclusions, Terminal, Stages

\* Every step of the engine is one that the recovery manager expects, or one that it
\* cannot see.
LEMMA RestorePointsStep ==
  TypeInv /\ RecordInv /\ PointInv /\ [Next]_vars => [Snapshots!Next]_Visible
<1> SUFFICES ASSUME TypeInv, RecordInv, PointInv, [Next]_vars
             PROVE  Snapshots!Next \/ UNCHANGED Visible
  OBVIOUS
<1>1. CASE points' = points
  BY <1>1, PhaseStep
<1>2. ASSUME record' = record, shown' = shown, NEW o \in Operations, Open(o),
             points' = points \cup {o}, o \notin points
      PROVE  Snapshots!Next
  <2>1. PointPhase' = PointPhase /\ PointPhase[o] = "unfinished"
    BY <1>2 DEF PointPhase, Open
  <2>2. Snapshots!Take(o)
    BY <1>2, <2>1 DEF Snapshots!Take
  <2> QED
    BY <2>2 DEF Snapshots!Next
<1>3. ASSUME record' = record, shown' = shown, points' \in SUBSET points,
             \A o \in points : Open(o) => o \in points'
      PROVE  Snapshots!Next
  <2>1. PointPhase' = PointPhase
    BY <1>3 DEF PointPhase
  <2>2. {o \in points : PointPhase[o] = "unfinished"} \subseteq points'
    BY <1>3 DEF PointPhase, Open, TypeInv, TypeOK
  <2>3. Snapshots!Clear
    BY <1>3, <2>1, <2>2 DEF Snapshots!Clear
  <2> QED
    BY <2>3 DEF Snapshots!Next
<1> QED
  BY <1>1, <1>2, <1>3, PointsChange

\* An operation asks for its restore point with a record that protects it, and is never
\* unfinished again behind its conclusion; nothing in the engine takes its point away.
THEOREM EngineImplementsRestorePoints == Spec => ImplementsRestorePoints
<1>1. Init => Snapshots!Init /\ PointInv
  BY DEF Init, PointPhase, PointInv, Terminal, Snapshots!Init
<1>2. TypeInv /\ RecordInv /\ PointInv /\ [Next]_vars => [Snapshots!Next]_Visible
  BY RestorePointsStep
<1> QED
  BY RecordInvariant, PointStep, <1>1, <1>2, PTL
     DEF Spec, ImplementsRestorePoints, Snapshots!Spec, Visible

=============================================================================
