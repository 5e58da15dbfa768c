------------------------- MODULE RecipePlannerProofs -------------------------
(***************************************************************************)
(* What holds of the dependency walk for any set of recipes, any finite    *)
(* catalogs, any requests and any number of reloads.                       *)
(***************************************************************************)
EXTENDS RecipePlanner, SequenceTheorems, FiniteSetTheorems, TLAPS

-----------------------------------------------------------------------------
(* The stack of calls.                                                     *)

\* The frame on top is a frame.
LEMMA TopIsFrame ==
  ASSUME TypeOK
  PROVE  /\ Depth \in Nat \ {0}
         /\ DOMAIN stack = 1..Depth
         /\ \A i \in 1..Depth : stack[i] \in Frame
         /\ Top.recipe \in Recipes \cup {Caller}
         /\ Top.todo \in Seq(Recipes)
<1>1. Depth \in Nat \ {0} /\ DOMAIN stack = 1..Depth
  BY EmptySeq, LenProperties DEF TypeOK, Depth
<1>2. \A i \in 1..Depth : stack[i] \in Frame
  BY ElementOfSeq DEF TypeOK, Depth
<1> QED
  BY <1>1, <1>2 DEF Top, Frame

\* Looking at the next recipe takes it off the list of the top frame and leaves
\* everything else on the stack.
LEMMA AdvancedStack ==
  ASSUME TypeOK, Top.todo # <<>>
  PROVE  /\ Child \in Recipes
         /\ Range(Top.todo) = {Child} \cup Range(Tail(Top.todo))
         /\ Tail(Top.todo) \in Seq(Recipes)
         /\ Advanced \in Seq(Frame) \ {<<>>}
         /\ Len(Advanced) = Depth
         /\ \A i \in 1..Depth :
              /\ Advanced[i].recipe = stack[i].recipe
              /\ Advanced[i].todo = IF i = Depth THEN Tail(Top.todo) ELSE stack[i].todo
<1> DEFINE frame == [Top EXCEPT !.todo = Tail(Top.todo)]
<1>1. /\ Child \in Recipes
      /\ Tail(Top.todo) \in Seq(Recipes)
      /\ Len(Tail(Top.todo)) = Len(Top.todo) - 1
      /\ \A i \in 1..Len(Tail(Top.todo)) : Tail(Top.todo)[i] = Top.todo[i + 1]
  BY TopIsFrame, HeadTailProperties DEF Child
<1>2. Range(Top.todo) = {Child} \cup Range(Tail(Top.todo))
  <2>1. DOMAIN Top.todo = 1..Len(Top.todo) /\ Len(Top.todo) \in Nat \ {0}
    BY TopIsFrame, EmptySeq, LenProperties
  <2>2. DOMAIN Tail(Top.todo) = 1..(Len(Top.todo) - 1)
    BY <1>1, LenProperties
  <2>3. Child = Top.todo[1]
    BY TopIsFrame DEF Child
  <2>4. ASSUME NEW i \in DOMAIN Top.todo
        PROVE  Top.todo[i] \in {Child} \cup Range(Tail(Top.todo))
    <3>1. CASE i = 1
      BY <2>3, <3>1
    <3>2. CASE i # 1
      <4>1. i - 1 \in DOMAIN Tail(Top.todo) /\ Tail(Top.todo)[i - 1] = Top.todo[i]
        BY <1>1, <2>1, <2>2, <2>4, <3>2
      <4> QED
        BY <4>1 DEF Range
    <3> QED
      BY <3>1, <3>2
  <2>5. ASSUME NEW i \in DOMAIN Tail(Top.todo)
        PROVE  Tail(Top.todo)[i] \in Range(Top.todo)
    <3>1. i + 1 \in DOMAIN Top.todo /\ Tail(Top.todo)[i] = Top.todo[i + 1]
      BY <1>1, <2>1, <2>2, <2>5
    <3> QED
      BY <3>1 DEF Range
  <2>6. Child \in Range(Top.todo)
    BY <2>1, <2>3 DEF Range
  <2> QED
    BY <2>4, <2>5, <2>6 DEF Range
<1>3. frame \in Frame /\ Depth \in 1..Depth /\ stack \in Seq(Frame)
  <2>1. Top \in Frame /\ Depth \in 1..Depth
    BY TopIsFrame DEF Top
  <2> QED
    BY <1>1, <2>1 DEF TypeOK, Frame
<1>4. Advanced = [stack EXCEPT ![Depth] = frame]
  BY TopIsFrame DEF Advanced, Top
<1>5. /\ Advanced \in Seq(Frame)
      /\ Len(Advanced) = Depth
      /\ \A i \in 1..Depth : Advanced[i] = IF i = Depth THEN frame ELSE stack[i]
  <2> HIDE DEF frame
  <2> QED
    BY <1>3, <1>4, ExceptSeq DEF Depth
<1>6. Advanced # <<>>
  BY <1>5, TopIsFrame, EmptySeq
<1>7. frame.recipe = stack[Depth].recipe /\ frame.todo = Tail(Top.todo)
  BY TopIsFrame DEF Top, Frame
<1> QED
  BY <1>1, <1>2, <1>5, <1>6, <1>7, TopIsFrame


\* The caller's loop alone is on the stack when a walk starts.
LEMMA StartedStack ==
  ASSUME NEW roots \in Seq(Recipes), StartWalk(roots)
  PROVE  /\ stack' \in Seq(Frame) \ {<<>>}
         /\ Depth' = 1
         /\ stack'[1].todo = roots
BY DEF StartWalk, Frame, Depth

\* Skipping a known recipe only shortens the list of the top frame.
LEMMA SkippedStack ==
  ASSUME TypeOK, SkipKnown
  PROVE  /\ stack' \in Seq(Frame) \ {<<>>}
         /\ Depth' = Depth
         /\ \A i \in 1..Depth :
              /\ stack'[i].recipe = stack[i].recipe
              /\ stack'[i].todo = IF i = Depth THEN Tail(Top.todo) ELSE stack[i].todo
BY AdvancedStack DEF SkipKnown, Depth

\* A call puts one frame on top of the advanced stack.
LEMMA DescendedStack ==
  ASSUME TypeOK, Descend
  PROVE  /\ Child \in Recipes
         /\ catalog[Child] \in Seq(Recipes)
         /\ stack' \in Seq(Frame) \ {<<>>}
         /\ Depth' = Depth + 1
         /\ \A i \in 1..Depth :
              /\ stack'[i].recipe = stack[i].recipe
              /\ stack'[i].todo = IF i = Depth THEN Tail(Top.todo) ELSE stack[i].todo
         /\ stack'[Depth + 1].recipe = Child
         /\ stack'[Depth + 1].todo = catalog[Child]
<1> DEFINE frame == [recipe |-> Child, todo |-> catalog[Child]]
<1>1. Child \in Recipes /\ catalog[Child] \in Seq(Recipes)
  BY PlannerAssumption, AdvancedStack DEF TypeOK, Descend
<1>2. frame \in Frame
  BY <1>1 DEF Frame
<1>3. stack' = Append(Advanced, frame)
  BY DEF Descend
<1>4. frame.recipe = Child /\ frame.todo = catalog[Child]
  OBVIOUS
<1>5. /\ Advanced \in Seq(Frame)
      /\ Len(Advanced) = Depth
      /\ \A i \in 1..Depth :
           /\ Advanced[i].recipe = stack[i].recipe
           /\ Advanced[i].todo = IF i = Depth THEN Tail(Top.todo) ELSE stack[i].todo
  BY AdvancedStack DEF Descend
<1>6. /\ stack' \in Seq(Frame) \ {<<>>}
      /\ Len(stack') = Depth + 1
      /\ \A i \in 1..Depth : stack'[i] = Advanced[i]
      /\ stack'[Depth + 1] = frame
  <2> HIDE DEF frame
  <2> QED
    BY <1>2, <1>3, <1>5, AppendProperties
<1>7. Depth' = Depth + 1
  BY <1>6 DEF Depth
<1> HIDE DEF frame
<1> QED
  BY <1>1, <1>4, <1>5, <1>6, <1>7

\* A return takes the top frame away.
LEMMA ReturnedStack ==
  ASSUME TypeOK, Return
  PROVE  /\ stack' \in Seq(Frame) \ {<<>>}
         /\ Depth' = Depth - 1
         /\ Depth' \in Nat \ {0}
         /\ \A i \in 1..(Depth - 1) : stack'[i] = stack[i]
<1>1. stack' = SubSeq(stack, 1, Depth - 1) /\ Depth > 1
  BY DEF Return
<1>2. Depth \in Nat /\ \A i \in 1..(Depth - 1) : stack[i] \in Frame
  BY TopIsFrame
<1>3. /\ stack' \in Seq(Frame)
      /\ Len(stack') = Depth - 1
      /\ \A i \in 1..(Depth - 1) : stack'[i] = stack[i]
  BY <1>1, <1>2, SubSeqProperties
<1>4. stack' # <<>>
  <2>1. Len(stack') > 0 /\ Len(<<>>) = 0
    BY <1>1, <1>2, <1>3
  <2> QED
    BY <2>1
<1>5. Depth' = Depth - 1
  BY <1>3 DEF Depth
<1>6. Depth' \in Nat \ {0}
  BY <1>1, <1>2, <1>5
<1> QED
  BY <1>3, <1>4, <1>5, <1>6

-----------------------------------------------------------------------------
(* Type correctness.                                                       *)

\* A walk starts from a list of all recipes of the catalog, each once.
LEMMA OrderIsList ==
  ASSUME NEW c \in Catalogs,
         NEW order \in Bijection(1..Cardinality(DOMAIN c), DOMAIN c)
  PROVE  order \in Seq(Recipes) /\ Range(order) = DOMAIN c
<1>1. Cardinality(DOMAIN c) \in Nat /\ DOMAIN c \subseteq Recipes
  BY PlannerAssumption, FS_CardinalityType
<1>2. /\ order \in [1..Cardinality(DOMAIN c) -> DOMAIN c]
      /\ \A r \in DOMAIN c : \E i \in 1..Cardinality(DOMAIN c) : order[i] = r
  BY DEF Bijection, Injection, Surjection
<1>3. order \in Seq(DOMAIN c)
  BY <1>1, <1>2, SeqDef
<1>4. order \in Seq(Recipes)
  BY <1>1, <1>3, SeqMonotonic
<1> QED
  BY <1>2, <1>4 DEF Range

\* Whatever happens to the walk is the start of one or a step of its recursion.
LEMMA WalkCases ==
  ASSUME TypeOK, [Next]_vars
  PROVE  \/ UNCHANGED walk
         \/ \E roots \in Seq(Recipes) : StartWalk(roots)
         \/ SkipKnown \/ Descend \/ Return
<1>1. CASE CheckRecipes
  BY <1>1, OrderIsList DEF CheckRecipes, TypeOK
<1>2. ASSUME NEW q \in Requests, Request(q)
      PROVE  \E roots \in Seq(Recipes) : StartWalk(roots)
  BY <1>2, PlannerAssumption DEF Request
<1>3. CASE UNCHANGED vars
  BY <1>3 DEF vars
<1>4. CASE RefuseRecipes \/ FallBack \/ FindCycle \/ MissRecipe \/ FinishWalk \/ Assemble
  BY <1>4 DEF RefuseRecipes, FallBack, FindCycle, MissRecipe, FinishWalk, Assemble
<1>5. ASSUME NEW c \in SoundCatalogs, Reload(c) PROVE UNCHANGED walk
  BY <1>5 DEF Reload
<1> QED
  BY <1>1, <1>2, <1>3, <1>4, <1>5 DEF Next, Step

\* The calls in progress are those of the recipes in `visiting`, each once, and
\* no finished recipe is among them.
Shape ==
  /\ visiting = {stack[i].recipe : i \in 2..Depth}
  /\ \A i, j \in 2..Depth : stack[i].recipe = stack[j].recipe => i = j
  /\ visiting \cap permanent = {}
TypeInv == TypeOK /\ Shape

\* The initial state has every variable in its type.
LEMMA InitType == Init => TypeInv
<1> SUFFICES ASSUME Init PROVE TypeInv
  OBVIOUS
<1>1. stack \in Seq(Frame) \ {<<>>} /\ Depth = 1
  BY DEF Init, Frame, Depth
<1>2. TypeOK
  BY <1>1, PlannerAssumption DEF Init, TypeOK, Phase
<1>3. Shape
  BY <1>1 DEF Init, Shape
<1> QED
  BY <1>2, <1>3 DEF TypeInv

\* Every step keeps the shape of the stack and the type of what the walk uses.
LEMMA WalkTypeStep ==
  ASSUME TypeInv, [Next]_vars
  PROVE  /\ Shape'
         /\ stack' \in Seq(Frame) \ {<<>>}
         /\ visiting' \subseteq Recipes /\ permanent' \subseteq Recipes
         /\ output' \in Seq(Recipes) /\ read' \in [Recipes -> Seq(Recipes)]
<1> DEFINE Goal == /\ Shape'
                   /\ stack' \in Seq(Frame) \ {<<>>}
                   /\ visiting' \subseteq Recipes /\ permanent' \subseteq Recipes
                   /\ output' \in Seq(Recipes) /\ read' \in [Recipes -> Seq(Recipes)]
<1> USE DEF TypeInv
<1>1. CASE UNCHANGED walk
  BY <1>1 DEF walk, Shape, TypeOK, Depth
<1>2. ASSUME NEW roots \in Seq(Recipes), StartWalk(roots) PROVE Goal
  BY <1>2, StartedStack DEF StartWalk, Shape
<1>3. CASE SkipKnown
  <2>1. visiting' = visiting /\ permanent' = permanent
    BY <1>3 DEF SkipKnown
  <2>2. Depth' = Depth /\ \A i \in 2..Depth : stack'[i].recipe = stack[i].recipe
    BY <1>3, SkippedStack, TopIsFrame
  <2>3. Shape'
    BY <2>1, <2>2 DEF Shape
  <2> QED
    BY <2>3, <1>3, SkippedStack DEF SkipKnown, TypeOK
<1>4. CASE Descend
  <2>1. Child \notin visiting /\ Child \notin permanent
    BY <1>4 DEF Descend
  <2>2. visiting' = visiting \cup {Child} /\ permanent' = permanent /\ output' = output
    BY <1>4 DEF Descend
  <2>3. read' = [read EXCEPT ![Child] = catalog[Child]]
    BY <1>4 DEF Descend
  <2>4. Depth' = Depth + 1 /\ Depth \in Nat \ {0}
    BY <1>4, DescendedStack, TopIsFrame
  <2>5. \A i \in 2..(Depth + 1) :
          stack'[i].recipe = IF i = Depth + 1 THEN Child ELSE stack[i].recipe
    BY <1>4, <2>4, DescendedStack
  <2>6. visiting' = {stack'[i].recipe : i \in 2..Depth'}
    <3>1. visiting \subseteq {stack'[i].recipe : i \in 2..Depth'}
      BY <2>4, <2>5 DEF Shape
    <3>2. Child \in {stack'[i].recipe : i \in 2..Depth'}
      BY <2>4, <2>5
    <3>3. {stack'[i].recipe : i \in 2..Depth'} \subseteq visiting \cup {Child}
      BY <2>4, <2>5 DEF Shape
    <3> QED
      BY <2>2, <3>1, <3>2, <3>3
  <2>7. \A i, j \in 2..Depth' : stack'[i].recipe = stack'[j].recipe => i = j
    BY <2>1, <2>4, <2>5 DEF Shape
  <2>8. Shape'
    BY <2>1, <2>2, <2>6, <2>7 DEF Shape
  <2> QED
    BY <1>4, <2>2, <2>3, <2>8, DescendedStack DEF TypeOK
<1>5. CASE Return
  <2>1. Top.recipe \in visiting /\ Top.recipe \in Recipes
    BY <1>5, TopIsFrame DEF Return, Shape, Top, TypeOK
  <2>2. visiting' = visiting \ {Top.recipe} /\ permanent' = permanent \cup {Top.recipe}
    BY <1>5 DEF Return
  <2>3. read' = read /\ output' \in Seq(Recipes)
    BY <1>5, <2>1, AppendProperties DEF Return, TypeOK
  <2>4. visiting' = {stack'[i].recipe : i \in 2..Depth'}
    BY <1>5, <2>2, ReturnedStack, TopIsFrame DEF Shape, Top
  <2>5. \A i, j \in 2..Depth' : stack'[i].recipe = stack'[j].recipe => i = j
    BY <1>5, ReturnedStack, TopIsFrame DEF Shape
  <2>6. Shape'
    BY <2>1, <2>2, <2>4, <2>5 DEF Shape
  <2> QED
    BY <1>5, <2>1, <2>2, <2>3, <2>6, ReturnedStack DEF TypeOK
<1> QED
  BY <1>1, <1>2, <1>3, <1>4, <1>5, WalkCases

\* What was asked and what the environment holds are of their types.
GivenTyped ==
  /\ request \in {<<>>} \cup {q.recipes : q \in Requests}
  /\ inputs \in {<<>>} \cup {q.inputs : q \in Requests}
  /\ environment \in Environments

\* Every step keeps every variable in its type.
LEMMA TypeStep == TypeInv /\ [Next]_vars => TypeInv'
<1> SUFFICES ASSUME TypeInv, [Next]_vars PROVE TypeInv'
  OBVIOUS
<1>1. /\ phase' \in Phase /\ catalog' \in Catalogs
      /\ GivenTyped' /\ reloads' \in Nat
  <2> USE DEF TypeInv, TypeOK, Phase, GivenTyped, asked
  <2>1. CASE UNCHANGED vars
    BY <2>1 DEF vars
  <2>2. CASE CheckRecipes \/ RefuseRecipes \/ FallBack
    BY <2>2, PlannerAssumption DEF CheckRecipes, RefuseRecipes, FallBack
  <2>3. CASE SkipKnown \/ Descend \/ Return
    BY <2>3 DEF SkipKnown, Descend, Return
  <2>4. CASE FindCycle \/ MissRecipe \/ FinishWalk \/ Assemble
    BY <2>4 DEF FindCycle, MissRecipe, FinishWalk, Assemble
  <2>5. ASSUME NEW q \in Requests, Request(q)
        PROVE  /\ phase' \in Phase /\ catalog' \in Catalogs
               /\ GivenTyped' /\ reloads' \in Nat
    BY <2>5 DEF Request
  <2>6. ASSUME NEW c \in SoundCatalogs, Reload(c)
        PROVE  /\ phase' \in Phase /\ catalog' \in Catalogs
               /\ GivenTyped' /\ reloads' \in Nat
    BY <2>6 DEF Reload, SoundCatalogs
  <2> QED
    BY <2>1, <2>2, <2>3, <2>4, <2>5, <2>6 DEF Next, Step
<1>2. /\ Shape'
      /\ stack' \in Seq(Frame) \ {<<>>}
      /\ visiting' \subseteq Recipes /\ permanent' \subseteq Recipes
      /\ output' \in Seq(Recipes) /\ read' \in [Recipes -> Seq(Recipes)]
  BY WalkTypeStep
<1> QED
  BY <1>1, <1>2 DEF TypeInv, TypeOK, GivenTyped

\* Type correctness: plan() and the validation of a catalog never leave the
\* types of their sets, lists and of the calls in progress.
THEOREM TypeCorrect == Spec => []TypeOK
<1>1. Spec => []TypeInv
  BY InitType, TypeStep, PTL DEF Spec
<1>2. TypeInv => TypeOK
  BY DEF TypeInv
<1> QED
  BY <1>1, <1>2, PTL


-----------------------------------------------------------------------------
(* Dependencies come first.                                                *)

\* Where the recipes are that frame i still waits for or has seen finished.
Pending(i) ==
  Range(stack[i].todo) \cup permanent
    \cup (IF i < Depth THEN {stack[i + 1].recipe} ELSE {})

\* Between a call and its return, everything the recipe was seen to depend on is
\* finished, is the call above it, or is still to be looked at.
Calls ==
  \A i \in 2..Depth :
    /\ Range(read[stack[i].recipe]) \subseteq Pending(i)
    /\ Range(stack[i].todo) \subseteq Range(read[stack[i].recipe])
    /\ i < Depth => stack[i + 1].recipe \in Range(read[stack[i].recipe])

\* What is finished depends on finished recipes only.
Closing == \A r \in permanent : Range(read[r]) \subseteq permanent

WalkInv == TypeInv /\ Calls /\ Closing

\* The initial state has no call in progress and nothing finished.
LEMMA InitWalk == Init => WalkInv
<1> SUFFICES ASSUME Init PROVE WalkInv
  OBVIOUS
<1>1. Depth = 1 /\ permanent = {}
  BY DEF Init, Depth
<1> QED
  BY <1>1, InitType DEF WalkInv, Calls, Closing

\* Skipping a known recipe keeps what is known of every call.
LEMMA SkipWalk ==
  ASSUME WalkInv, SkipKnown
  PROVE  Calls' /\ Closing'
<1> USE DEF WalkInv, TypeInv
<1>1. Child \in permanent /\ permanent' = permanent /\ read' = read
  BY DEF SkipKnown
<1>2. Range(Top.todo) = {Child} \cup Range(Tail(Top.todo))
  BY AdvancedStack DEF SkipKnown
<1>3. /\ Depth' = Depth /\ Depth \in Nat \ {0}
      /\ \A i \in 1..Depth :
           /\ stack'[i].recipe = stack[i].recipe
           /\ stack'[i].todo = IF i = Depth THEN Tail(Top.todo) ELSE stack[i].todo
  BY SkippedStack, TopIsFrame
<1>4. ASSUME NEW i \in 2..Depth
      PROVE  Range(stack'[i].todo) \subseteq Range(stack[i].todo)
             /\ Range(stack[i].todo) \subseteq Range(stack'[i].todo) \cup permanent
  <2>1. CASE i = Depth
    BY <1>1, <1>2, <1>3, <2>1 DEF Top
  <2>2. CASE i # Depth
    BY <1>3, <2>2
  <2> QED
    BY <2>1, <2>2
<1>5. ASSUME NEW i \in 2..Depth, i < Depth
      PROVE  stack'[i + 1].recipe = stack[i + 1].recipe
  BY <1>3, <1>5
<1>6. ASSUME NEW i \in 2..Depth' PROVE Pending(i) \subseteq Pending(i)'
  BY <1>1, <1>3, <1>4, <1>5 DEF Pending
<1>7. ASSUME NEW i \in 2..Depth'
      PROVE  /\ Range(read'[stack'[i].recipe]) \subseteq Pending(i)'
             /\ Range(stack'[i].todo) \subseteq Range(read'[stack'[i].recipe])
             /\ i < Depth' => stack'[i + 1].recipe \in Range(read'[stack'[i].recipe])
  <2>1. i \in 2..Depth /\ read'[stack'[i].recipe] = read[stack[i].recipe]
    BY <1>1, <1>3
  <2>2. Range(read[stack[i].recipe]) \subseteq Pending(i)'
    BY <1>6, <2>1 DEF Calls
  <2>3. Range(stack'[i].todo) \subseteq Range(read[stack[i].recipe])
    BY <1>4, <2>1 DEF Calls
  <2>4. i < Depth' => stack'[i + 1].recipe \in Range(read[stack[i].recipe])
    BY <1>3, <1>5, <2>1 DEF Calls
  <2> QED
    BY <2>1, <2>2, <2>3, <2>4
<1>8. Calls'
  BY <1>7 DEF Calls
<1> QED
  BY <1>1, <1>8 DEF Closing

\* A call reads what its recipe depends on and puts all of it on its list.
LEMMA DescendWalk ==
  ASSUME WalkInv, Descend
  PROVE  Calls' /\ Closing'
<1> USE DEF WalkInv, TypeInv
<1>1. Child \notin visiting /\ Child \notin permanent /\ permanent' = permanent
  BY DEF Descend
<1>2. Range(Top.todo) = {Child} \cup Range(Tail(Top.todo))
  BY AdvancedStack DEF Descend
<1>3. /\ Depth' = Depth + 1 /\ Depth \in Nat \ {0}
      /\ \A i \in 1..Depth :
           /\ stack'[i].recipe = stack[i].recipe
           /\ stack'[i].todo = IF i = Depth THEN Tail(Top.todo) ELSE stack[i].todo
      /\ stack'[Depth + 1].recipe = Child
      /\ stack'[Depth + 1].todo = catalog[Child]
  BY DescendedStack, TopIsFrame
<1>4. /\ read'[Child] = catalog[Child]
      /\ \A r \in Recipes : r # Child => read'[r] = read[r]
  BY DescendedStack DEF Descend, TypeOK
<1>5. \A i \in 2..Depth : stack[i].recipe \in Recipes /\ stack[i].recipe # Child
  BY <1>1 DEF Shape, TypeOK
<1>6. ASSUME NEW i \in 2..Depth
      PROVE  /\ Range(read'[stack'[i].recipe]) \subseteq Pending(i)'
             /\ Range(stack'[i].todo) \subseteq Range(read'[stack'[i].recipe])
             /\ stack'[i + 1].recipe \in Range(read'[stack'[i].recipe])
  <2>1. read'[stack'[i].recipe] = read[stack[i].recipe]
    BY <1>3, <1>4, <1>5
  <2>2. CASE i = Depth
    <3>1. Range(stack'[i].todo) = Range(Tail(Top.todo)) /\ stack'[i + 1].recipe = Child
      BY <1>3, <2>2
    <3>2. Range(read[stack[i].recipe]) \subseteq Range(Top.todo) \cup permanent
      BY <2>2 DEF Calls, Pending, Top
    <3>3. Range(Top.todo) \subseteq Range(read[stack[i].recipe])
      BY <2>2 DEF Calls, Top
    <3>4. Pending(i)' = Range(Tail(Top.todo)) \cup permanent \cup {Child}
      BY <1>1, <1>3, <2>2, <3>1 DEF Pending
    <3> QED
      BY <1>2, <2>1, <3>1, <3>2, <3>3, <3>4
  <2>3. CASE i # Depth
    <3>1. /\ i < Depth
          /\ stack'[i].todo = stack[i].todo
          /\ stack'[i + 1].recipe = stack[i + 1].recipe
      BY <1>3, <2>3
    <3>2. Pending(i)' = Pending(i)
      BY <1>1, <1>3, <3>1 DEF Pending
    <3> QED
      BY <2>1, <3>1, <3>2 DEF Calls
  <2> QED
    BY <2>2, <2>3
<1>7. ASSUME NEW i \in {Depth'}
      PROVE  /\ Range(read'[stack'[i].recipe]) \subseteq Pending(i)'
             /\ Range(stack'[i].todo) \subseteq Range(read'[stack'[i].recipe])
  <2>1. stack'[i].recipe = Child /\ stack'[i].todo = read'[Child]
    BY <1>3, <1>4
  <2> QED
    BY <2>1 DEF Pending
<1>8. Calls'
  <2>1. \A i \in 2..Depth' : i \in 2..Depth \/ (i \in {Depth'} /\ ~(i < Depth'))
    BY <1>3
  <2> QED
    BY <1>6, <1>7, <2>1 DEF Calls
<1>9. Closing'
  BY <1>1, <1>4 DEF Closing, TypeOK
<1> QED
  BY <1>8, <1>9

\* A call returns when everything its recipe depends on is finished.
LEMMA ReturnWalk ==
  ASSUME WalkInv, Return
  PROVE  /\ Top.recipe \in visiting
         /\ Range(read[Top.recipe]) \subseteq permanent
         /\ Calls' /\ Closing'
<1> USE DEF WalkInv, TypeInv
<1>1. Top.todo = <<>> /\ Depth > 1 /\ Depth \in Nat \ {0}
  BY TopIsFrame DEF Return
<1>2. permanent' = permanent \cup {Top.recipe} /\ read' = read
  BY DEF Return
<1>3. Range(Top.todo) = {}
  BY <1>1 DEF Range
<1>4. Top.recipe \in visiting
  BY <1>1 DEF Shape, Top
<1>5. Range(read[Top.recipe]) \subseteq permanent
  BY <1>1, <1>3 DEF Calls, Pending, Top
<1>6. Depth' = Depth - 1 /\ \A i \in 1..(Depth - 1) : stack'[i] = stack[i]
  BY ReturnedStack
<1>7. ASSUME NEW i \in 2..(Depth - 1)
      PROVE  /\ Range(read[stack[i].recipe]) \subseteq Pending(i)'
             /\ Range(stack[i].todo) \subseteq Range(read[stack[i].recipe])
             /\ i < Depth - 1 => stack'[i + 1].recipe \in Range(read[stack[i].recipe])
  <2>1. Range(read[stack[i].recipe])
          \subseteq Range(stack[i].todo) \cup permanent \cup {stack[i + 1].recipe}
    BY <1>1 DEF Calls, Pending
  <2>2. /\ Range(stack[i].todo) \subseteq Range(read[stack[i].recipe])
        /\ stack[i + 1].recipe \in Range(read[stack[i].recipe])
    BY <1>1 DEF Calls
  <2>3. i \in 1..(Depth - 1) /\ stack'[i] = stack[i]
    BY <1>1, <1>6
  <2>4. CASE i = Depth - 1
    <3>1. stack[i + 1].recipe = Top.recipe
      BY <1>1, <2>4 DEF Top
    <3>2. ~(i < Depth')
      BY <1>1, <1>6, <2>4
    <3>3. Pending(i)' = Range(stack[i].todo) \cup permanent \cup {Top.recipe}
      BY <1>2, <2>3, <3>2 DEF Pending
    <3>4. ~(i < Depth - 1)
      BY <1>1, <2>4
    <3> QED
      BY <2>1, <2>2, <3>1, <3>3, <3>4
  <2>5. CASE i # Depth - 1
    <3>1. i + 1 \in 1..(Depth - 1) /\ i < Depth'
      BY <1>1, <1>6, <2>5
    <3>2. stack'[i + 1] = stack[i + 1]
      BY <1>6, <3>1
    <3>3. Pending(i)' = Range(stack[i].todo) \cup permanent'
                          \cup {stack[i + 1].recipe}
      BY <2>3, <3>1, <3>2 DEF Pending
    <3>4. permanent \subseteq permanent'
      BY <1>2
    <3> QED
      BY <2>1, <2>2, <3>2, <3>3, <3>4
  <2> QED
    BY <2>4, <2>5
<1>8. Calls'
  <2>1. Depth' = Depth - 1 /\ \A i \in 2..(Depth - 1) : stack'[i] = stack[i]
    BY <1>6
  <2> QED
    BY <1>2, <1>7, <2>1 DEF Calls
<1>9. Closing'
  BY <1>2, <1>5 DEF Closing
<1> QED
  BY <1>4, <1>5, <1>8, <1>9

\* Every step keeps what is known of the calls and of the finished recipes.
LEMMA WalkStep == WalkInv /\ [Next]_vars => WalkInv'
<1> SUFFICES ASSUME WalkInv, [Next]_vars PROVE WalkInv'
  OBVIOUS
<1>1. TypeInv'
  BY TypeStep DEF WalkInv
<1>2. CASE UNCHANGED walk
  <2>1. Depth' = Depth /\ \A i \in 2..Depth : Pending(i)' = Pending(i)
    BY <1>2 DEF walk, Pending, Depth
  <2>2. Calls' /\ Closing'
    BY <1>2, <2>1 DEF walk, WalkInv, Calls, Closing
  <2> QED
    BY <1>1, <2>2 DEF WalkInv
<1>3. ASSUME NEW roots \in Seq(Recipes), StartWalk(roots) PROVE Calls' /\ Closing'
  BY <1>3, StartedStack DEF StartWalk, Calls, Closing
<1> QED
  BY <1>1, <1>2, <1>3, WalkCases, SkipWalk, DescendWalk, ReturnWalk
     DEF WalkInv, TypeInv


\* While a request is worked on, what is listed is what is finished.
Listing == {"resolving", "assembling", "planned"}
Listed ==
  /\ Range(output) \subseteq permanent
  /\ phase \in Listing => permanent \subseteq Range(output)
OrderInv == WalkInv /\ Listed /\ DependenciesFirst

\* Appending adds one element behind the others.
LEMMA RangeOfAppend ==
  ASSUME NEW S, NEW seq \in Seq(S), NEW e \in S
  PROVE  /\ DOMAIN Append(seq, e) = 1..(Len(seq) + 1)
         /\ DOMAIN seq = 1..Len(seq) /\ Len(seq) \in Nat
         /\ \A i \in 1..Len(seq) : Append(seq, e)[i] = seq[i]
         /\ Append(seq, e)[Len(seq) + 1] = e
         /\ Range(Append(seq, e)) = Range(seq) \cup {e}
<1>1. /\ DOMAIN Append(seq, e) = 1..(Len(seq) + 1)
      /\ DOMAIN seq = 1..Len(seq) /\ Len(seq) \in Nat
      /\ \A i \in 1..Len(seq) : Append(seq, e)[i] = seq[i]
      /\ Append(seq, e)[Len(seq) + 1] = e
  BY AppendProperties, LenProperties
<1>2. \A i \in 1..(Len(seq) + 1) : i \in 1..Len(seq) \/ i = Len(seq) + 1
  BY <1>1
<1>3. Len(seq) + 1 \in 1..(Len(seq) + 1) /\ 1..Len(seq) \subseteq 1..(Len(seq) + 1)
  BY <1>1
<1> QED
  BY <1>1, <1>2, <1>3 DEF Range

\* Nothing is listed at first.
LEMMA InitOrder == Init => OrderInv
<1> SUFFICES ASSUME Init PROVE OrderInv
  OBVIOUS
<1>1. output = <<>> /\ phase = "checking"
  BY DEF Init
<1>2. DOMAIN output = {}
  BY <1>1
<1> QED
  BY <1>1, <1>2, InitWalk DEF OrderInv, Listed, Listing, DependenciesFirst, Range,
     IsInjective

\* A recipe is listed when its call returns, behind all it depends on.
LEMMA ReturnOrder ==
  ASSUME OrderInv, Return
  PROVE  Listed' /\ DependenciesFirst'
<1> USE DEF OrderInv
<1>1. /\ Top.recipe \in visiting /\ Top.recipe \in Recipes
      /\ Top.recipe \notin permanent
      /\ Range(read[Top.recipe]) \subseteq permanent
  BY ReturnWalk DEF WalkInv, TypeInv, TypeOK, Shape
<1>2. /\ read' = read /\ phase' = phase
      /\ permanent' = permanent \cup {Top.recipe}
  BY DEF Return
<1>3. CASE phase # "resolving"
  <2>1. output' = output /\ phase \notin Listing
    BY <1>3 DEF Return, Listing, Walking
  <2> QED
    BY <1>2, <2>1 DEF Listed, DependenciesFirst
<1>4. CASE phase = "resolving"
  <2> DEFINE n == Len(output)
  <2>1. output' = Append(output, Top.recipe) /\ output \in Seq(Recipes)
    BY <1>4 DEF Return, WalkInv, TypeInv, TypeOK
  <2>2. /\ DOMAIN output' = 1..(n + 1)
        /\ DOMAIN output = 1..n /\ n \in Nat
        /\ \A i \in 1..n : output'[i] = output[i]
        /\ output'[n + 1] = Top.recipe
        /\ Range(output') = Range(output) \cup {Top.recipe}
    BY <1>1, <2>1, RangeOfAppend
  <2>3. Listed'
    BY <1>2, <2>2 DEF Listed, Listing
  <2>4. permanent = Range(output) /\ Range(output) = {output[j] : j \in 1..n}
    BY <1>4, <2>2 DEF Listed, Listing, Range
  <2>5. \A i \in 1..n : output[i] # Top.recipe
    BY <1>1, <2>4
  <2>6. IsInjective(output')
    BY <2>2, <2>5 DEF DependenciesFirst, IsInjective
  <2>7. ASSUME NEW i \in 1..(n + 1)
        PROVE  Range(read'[output'[i]]) \subseteq {output'[j] : j \in 1..(i - 1)}
    <3>1. CASE i \in 1..n
      <4>1. Range(read[output[i]]) \subseteq {output[j] : j \in 1..(i - 1)}
        BY <2>2, <3>1 DEF DependenciesFirst
      <4>2. \A j \in 1..(i - 1) : output'[j] = output[j]
        BY <2>2, <3>1
      <4> QED
        BY <1>2, <2>2, <3>1, <4>1, <4>2
    <3>2. CASE i = n + 1
      <4>1. Range(read[Top.recipe]) \subseteq {output[j] : j \in 1..n}
        BY <1>1, <2>4
      <4> QED
        BY <1>2, <2>2, <3>2, <4>1
    <3> QED
      BY <2>2, <3>1, <3>2
  <2> QED
    BY <2>2, <2>3, <2>6, <2>7 DEF DependenciesFirst
<1> QED
  BY <1>3, <1>4

\* A call reads a recipe that is not listed.
LEMMA DescendOrder ==
  ASSUME OrderInv, Descend
  PROVE  Listed' /\ DependenciesFirst'
<1> USE DEF OrderInv, WalkInv, TypeInv
<1>1. /\ Child \notin permanent /\ permanent' = permanent
      /\ output' = output /\ phase' = phase
      /\ read' = [read EXCEPT ![Child] = catalog[Child]]
  BY DEF Descend
<1>2. \A i \in DOMAIN output : output[i] \in permanent
  BY DEF Listed, Range
<1>3. \A r \in permanent : read'[r] = read[r]
  BY <1>1 DEF TypeOK
<1> QED
  BY <1>1, <1>2, <1>3 DEF Listed, DependenciesFirst

\* Every step keeps the list in order.
LEMMA OrderStep == OrderInv /\ [Next]_vars => OrderInv'
<1> SUFFICES ASSUME OrderInv, [Next]_vars PROVE OrderInv'
  OBVIOUS
<1>1. WalkInv' /\ TypeOK
  BY WalkStep DEF OrderInv, WalkInv, TypeInv
<1>2. CASE UNCHANGED walk /\ (phase' \in Listing => phase \in Listing)
  BY <1>1, <1>2 DEF walk, OrderInv, Listed, DependenciesFirst
<1>3. ASSUME NEW roots, StartWalk(roots) PROVE OrderInv'
  <2>1. output' = <<>> /\ permanent' = {} /\ DOMAIN output' = {}
    BY <1>3 DEF StartWalk
  <2> QED
    BY <1>1, <2>1 DEF OrderInv, Listed, DependenciesFirst, Range, IsInjective
<1>4. CASE SkipKnown
  BY <1>1, <1>4 DEF SkipKnown, OrderInv, Listed, DependenciesFirst
<1>5. CASE Descend \/ Return
  BY <1>1, <1>5, DescendOrder, ReturnOrder DEF OrderInv
<1>6. CASE UNCHANGED vars
  BY <1>2, <1>6 DEF vars
<1>7. CASE CheckRecipes
  BY <1>3, <1>7 DEF CheckRecipes
<1>8. CASE RefuseRecipes \/ FallBack \/ FindCycle \/ MissRecipe \/ FinishWalk \/ Assemble
  BY <1>2, <1>8 DEF RefuseRecipes, FallBack, FindCycle, MissRecipe, FinishWalk,
     Assemble, Listing, Walking
<1>9. ASSUME NEW q \in Requests, Request(q) PROVE OrderInv'
  BY <1>3, <1>9 DEF Request
<1>10. ASSUME NEW c \in SoundCatalogs, Reload(c) PROVE OrderInv'
  BY <1>2, <1>10 DEF Reload, Listing
<1> QED
  BY <1>4, <1>5, <1>6, <1>7, <1>8, <1>9, <1>10 DEF Next, Step

\* resolve() lists a recipe once and behind everything it was seen to depend on,
\* whatever is requested and however often the catalog is replaced meanwhile:
\* what the engine's PlanAssumption takes for granted.
THEOREM PlansAreOrdered == Spec => []DependenciesFirst
<1>1. Spec => []OrderInv
  BY InitOrder, OrderStep, PTL DEF Spec
<1>2. OrderInv => DependenciesFirst
  BY DEF OrderInv
<1> QED
  BY <1>1, <1>2, PTL


-----------------------------------------------------------------------------
(* What a walk means for the catalog it reads.                             *)

\* What a walk started from is finished, called or still to be looked at.
Rooted ==
  /\ phase = "validating" =>
       /\ DOMAIN catalog # {} /\ Closed(catalog)
       /\ DOMAIN catalog \subseteq Pending(1)
       /\ Range(stack[1].todo) \subseteq DOMAIN catalog
  /\ phase = "resolving" =>
       /\ request # <<>> /\ Range(request) \subseteq Pending(1)
       /\ Range(stack[1].todo) \subseteq Range(request)
  /\ phase \in {"assembling", "planned"} =>
       request # <<>> /\ Range(request) \subseteq permanent

\* Only a request is disturbed by a reload, and until it is, the walk saw what
\* the catalog holds.
Fresh ==
  /\ phase \in {"checking", "validating", "refused", "panicked", "loaded"} => reloads = 0
  /\ phase \notin {"checking", "refused"} /\ reloads = 0 =>
       \A r \in visiting \cup permanent : r \in DOMAIN catalog /\ read[r] = catalog[r]

\* No set of finished recipes depends on itself.
WellFounded ==
  \A S \in SUBSET permanent : S # {} => \E r \in S : Range(read[r]) \cap S = {}

\* Nothing is called that the request does not need.
Minimal ==
  phase \in Listing /\ reloads = 0 =>
    visiting \cup permanent \subseteq Required(catalog, Range(request))

CatalogInv ==
  /\ OrderInv /\ Rooted /\ Fresh /\ WellFounded /\ Minimal
  /\ AcceptsExactlySound /\ NeverPanics /\ LoadedCatalogsResolve

\* What is required is closed under dependency and holds what was wanted.
LEMMA RequiredIsClosed ==
  ASSUME NEW c, NEW wanted \in SUBSET Recipes
  PROVE  /\ wanted \subseteq Required(c, wanted)
         /\ \A r \in Required(c, wanted) \cap DOMAIN c :
              \A s \in Recipes : s \in Range(c[r]) => s \in Required(c, wanted)
BY DEF Required

\* A step of the recursion loses none of what the walk started from.
LEMMA RootsStay ==
  ASSUME WalkInv, SkipKnown \/ Descend \/ Return
  PROVE  /\ Pending(1) \subseteq Pending(1)'
         /\ Range(stack'[1].todo) \subseteq Range(stack[1].todo)
<1> USE DEF WalkInv, TypeInv
<1>1. Depth \in Nat \ {0}
  BY TopIsFrame
<1>2. CASE SkipKnown
  <2>1. Child \in permanent /\ permanent' = permanent
    BY <1>2 DEF SkipKnown
  <2>2. Range(Top.todo) = {Child} \cup Range(Tail(Top.todo))
    BY <1>2, AdvancedStack DEF SkipKnown
  <2>3. /\ Depth' = Depth
        /\ \A i \in 1..Depth :
             /\ stack'[i].recipe = stack[i].recipe
             /\ stack'[i].todo = IF i = Depth THEN Tail(Top.todo) ELSE stack[i].todo
    BY <1>2, SkippedStack
  <2>4. /\ Range(stack'[1].todo) \subseteq Range(stack[1].todo)
        /\ Range(stack[1].todo) \subseteq Range(stack'[1].todo) \cup permanent
    <3>1. CASE Depth = 1
      BY <2>1, <2>2, <2>3, <3>1 DEF Top
    <3>2. CASE Depth # 1
      BY <1>1, <2>3, <3>2
    <3> QED
      BY <3>1, <3>2
  <2>5. 1 < Depth => stack'[2].recipe = stack[2].recipe
    BY <1>1, <2>3
  <2> QED
    BY <2>1, <2>3, <2>4, <2>5 DEF Pending
<1>3. CASE Descend
  <2>1. permanent' = permanent
    BY <1>3 DEF Descend
  <2>2. Range(Top.todo) = {Child} \cup Range(Tail(Top.todo))
    BY <1>3, AdvancedStack DEF Descend
  <2>3. /\ Depth' = Depth + 1
        /\ \A i \in 1..Depth :
             /\ stack'[i].recipe = stack[i].recipe
             /\ stack'[i].todo = IF i = Depth THEN Tail(Top.todo) ELSE stack[i].todo
        /\ stack'[Depth + 1].recipe = Child
    BY <1>3, DescendedStack
  <2>4. CASE Depth = 1
    <3>1. stack'[1].todo = Tail(Top.todo) /\ stack'[2].recipe = Child /\ Top = stack[1]
      BY <2>3, <2>4 DEF Top
    <3> QED
      BY <2>1, <2>2, <2>3, <2>4, <3>1 DEF Pending
  <2>5. CASE Depth # 1
    <3>1. stack'[1].todo = stack[1].todo /\ stack'[2].recipe = stack[2].recipe
      BY <1>1, <2>3, <2>5
    <3> QED
      BY <1>1, <2>1, <2>3, <2>5, <3>1 DEF Pending
  <2> QED
    BY <2>4, <2>5
<1>4. CASE Return
  <2>1. Depth > 1 /\ permanent' = permanent \cup {Top.recipe}
    BY <1>4 DEF Return
  <2>2. Depth' = Depth - 1 /\ \A i \in 1..(Depth - 1) : stack'[i] = stack[i]
    BY <1>4, ReturnedStack
  <2>3. stack'[1] = stack[1]
    BY <1>1, <2>1, <2>2
  <2>4. CASE Depth = 2
    BY <2>1, <2>2, <2>3, <2>4 DEF Pending, Top
  <2>5. CASE Depth # 2
    <3>1. stack'[2] = stack[2] /\ 1 < Depth' /\ 1 < Depth
      BY <1>1, <2>1, <2>2, <2>5
    <3> QED
      BY <2>1, <2>3, <3>1 DEF Pending
  <2> QED
    BY <2>3, <2>4, <2>5
<1> QED
  BY <1>2, <1>3, <1>4


\* The walk started from the recipe it looks at, or a recipe that the catalog
\* holds depends on it.
LEMMA ChildIsAsked ==
  ASSUME CatalogInv, Walking, reloads = 0, Top.todo # <<>>
  PROVE  \/ Child \in Range(stack[1].todo)
         \/ /\ Top.recipe \in visiting /\ Top.recipe \in DOMAIN catalog
            /\ Child \in Range(catalog[Top.recipe])
<1> USE DEF CatalogInv, OrderInv, WalkInv, TypeInv
<1>1. Depth \in Nat \ {0} /\ Child \in Range(Top.todo)
  BY TopIsFrame, AdvancedStack
<1>2. CASE Depth = 1
  BY <1>1, <1>2 DEF Top
<1>3. CASE Depth # 1
  <2>1. Top.recipe \in visiting /\ Range(Top.todo) \subseteq Range(read[Top.recipe])
    BY <1>1, <1>3 DEF Calls, Shape, Top
  <2>2. Top.recipe \in DOMAIN catalog /\ read[Top.recipe] = catalog[Top.recipe]
    BY <2>1 DEF Fresh, Walking
  <2> QED
    BY <1>1, <2>1, <2>2
<1> QED
  BY <1>2, <1>3

\* Recipes that all depend on one another leave no order to install them in.
LEMMA LoopIsCycle ==
  ASSUME NEW c, NEW S \in SUBSET DOMAIN c, NEW e \in S,
         \A r \in S : Range(c[r]) \cap S # {}
  PROVE  ~Acyclic(c)
BY DEF Acyclic

\* A recipe that is called while it is being visited closes a cycle: the calls
\* from its own up to the top depend on one another.
LEMMA CycleIsReal ==
  ASSUME CatalogInv, FindCycle, reloads = 0
  PROVE  ~Acyclic(catalog)
<1> USE DEF CatalogInv, OrderInv, WalkInv, TypeInv
<1>1. Depth \in Nat \ {0} /\ Child \in Range(Top.todo) /\ Child \in visiting
  BY TopIsFrame, AdvancedStack DEF FindCycle
<1>2. PICK k \in 2..Depth : stack[k].recipe = Child
  BY <1>1 DEF Shape
<1> DEFINE cycle == {stack[i].recipe : i \in k..Depth}
<1>3. \A i \in k..Depth : i \in 2..Depth /\ stack[i].recipe \in visiting
  BY <1>2 DEF Shape
<1>4. \A r \in cycle : r \in DOMAIN catalog /\ read[r] = catalog[r]
  BY <1>3 DEF Fresh, FindCycle, Walking
<1>5. Child \in cycle
  BY <1>1, <1>2
<1>6. ASSUME NEW i \in k..Depth
      PROVE  Range(read[stack[i].recipe]) \cap cycle # {}
  <2>1. CASE i < Depth
    <3>1. i + 1 \in k..Depth
      BY <1>1, <1>2, <2>1
    <3>2. stack[i + 1].recipe \in Range(read[stack[i].recipe])
      BY <1>3, <2>1 DEF Calls
    <3> QED
      BY <3>1, <3>2
  <2>2. CASE ~(i < Depth)
    <3>1. i = Depth /\ i \in 2..Depth
      BY <1>1, <1>3, <2>2
    <3>2. Child \in Range(read[stack[i].recipe])
      BY <1>1, <3>1 DEF Calls, Top
    <3> QED
      BY <1>5, <3>2
  <2> QED
    BY <2>1, <2>2
<1> HIDE DEF CatalogInv, OrderInv, WalkInv, TypeInv
<1>7. ASSUME NEW r \in cycle PROVE Range(catalog[r]) \cap cycle # {}
  <2>1. PICK i \in k..Depth : r = stack[i].recipe
    OBVIOUS
  <2>2. read[r] = catalog[r]
    BY <1>4
  <2> QED
    BY <1>6, <2>1, <2>2
<1> HIDE DEF cycle
<1> QED
  BY <1>4, <1>5, <1>7, LoopIsCycle

\* A walk of a closed catalog misses nothing but what was asked for.
LEMMA MissIsAsked ==
  ASSUME CatalogInv, MissRecipe, reloads = 0
  PROVE  /\ phase = "resolving"
         /\ request # <<>> => ~(Range(request) \subseteq DOMAIN catalog)
<1> USE DEF CatalogInv, MissRecipe
<1>1. Closed(catalog)
  BY DEF Rooted, AcceptsExactlySound, Sound, Walking
<1>2. Child \in Range(stack[1].todo)
  BY <1>1, ChildIsAsked DEF Closed
<1> QED
  BY <1>2 DEF Rooted, Walking

\* A validation that finishes has walked all of a sound catalog.
LEMMA FinishedIsSound ==
  ASSUME CatalogInv, FinishWalk, phase = "validating"
  PROVE  Sound(catalog)
<1> USE DEF CatalogInv, FinishWalk
<1>1. reloads = 0 /\ Range(stack[1].todo) = {}
  BY DEF Fresh, Top, Range
<1>2. DOMAIN catalog \subseteq permanent /\ DOMAIN catalog # {} /\ Closed(catalog)
  BY <1>1 DEF Rooted, Pending
<1>3. \A r \in permanent : r \in DOMAIN catalog /\ read[r] = catalog[r]
  BY <1>1 DEF Fresh
<1>4. Acyclic(catalog)
  BY <1>2, <1>3 DEF Acyclic, WellFounded
<1> QED
  BY <1>2, <1>4 DEF Sound

\* What the first look at the recipes refuses is not sound.
LEMMA RefusedIsUnsound ==
  ASSUME RefuseRecipes
  PROVE  ~Sound(catalog)
<1>1. CASE DOMAIN catalog = {} \/ ~Closed(catalog)
  BY <1>1 DEF Sound
<1>2. ASSUME NEW r \in DOMAIN catalog, r \in Range(catalog[r])
      PROVE  ~Acyclic(catalog)
  <2>1. {r} \in SUBSET DOMAIN catalog /\ {r} # {}
    OBVIOUS
  <2>2. \A q \in {r} : Range(catalog[q]) \cap {r} # {}
    BY <1>2
  <2> QED
    BY <2>1, <2>2 DEF Acyclic
<1> QED
  BY <1>1, <1>2 DEF RefuseRecipes, Sound

\* Finishing a recipe whose dependencies are finished adds no set of recipes
\* that depends on itself.
LEMMA WellFoundedStep ==
  ASSUME OrderInv, WellFounded, [Next]_vars
  PROVE  WellFounded'
<1> USE DEF OrderInv, WalkInv, TypeInv
<1>1. CASE UNCHANGED walk
  BY <1>1 DEF walk, WellFounded
<1>2. ASSUME NEW roots \in Seq(Recipes), StartWalk(roots) PROVE WellFounded'
  BY <1>2 DEF StartWalk, WellFounded
<1>3. CASE SkipKnown
  BY <1>3 DEF SkipKnown, WellFounded
<1>4. CASE Descend
  <2>1. permanent' = permanent /\ \A r \in permanent : read'[r] = read[r]
    BY <1>4 DEF Descend, TypeOK
  <2> QED
    BY <2>1 DEF WellFounded
<1>5. CASE Return
  <2> DEFINE top == Top.recipe
  <2>1. /\ top \notin permanent
        /\ Range(read[top]) \subseteq permanent
    BY <1>5, ReturnWalk DEF Shape
  <2>2. permanent' = permanent \cup {top} /\ read' = read
    BY <1>5 DEF Return
  <2> HIDE DEF top
  <2>3. ASSUME NEW S \in SUBSET (permanent \cup {top}), S # {}
        PROVE  \E r \in S : Range(read[r]) \cap S = {}
    <3>1. CASE S \ {top} = {}
      <4>1. S = {top}
        BY <2>3, <3>1
      <4>2. Range(read[top]) \cap {top} = {}
        BY <2>1
      <4> QED
        BY <4>1, <4>2
    <3>2. CASE S \ {top} # {}
      <4>1. PICK r \in S \ {top} : Range(read[r]) \cap (S \ {top}) = {}
        BY <3>2, S \ {top} \in SUBSET permanent DEF WellFounded
      <4>2. r \in permanent /\ Range(read[r]) \subseteq permanent
        BY <4>1 DEF Closing
      <4>3. Range(read[r]) \cap S = {}
        BY <2>1, <4>1, <4>2
      <4> QED
        BY <4>1, <4>3
    <3> QED
      BY <3>1, <3>2
  <2> QED
    BY <2>2, <2>3 DEF WellFounded
<1> QED
  BY <1>1, <1>2, <1>3, <1>4, <1>5, WalkCases


\* Every step keeps track of what the walk started from.
LEMMA RootedStep ==
  ASSUME CatalogInv, [Next]_vars
  PROVE  Rooted'
<1> USE DEF CatalogInv, OrderInv
<1>1. CASE UNCHANGED vars
  <2>1. Pending(1)' = Pending(1)
    BY <1>1 DEF vars, walk, Pending, Depth
  <2> QED
    BY <1>1, <2>1 DEF vars, walk, asked, Rooted
<1>2. CASE CheckRecipes
  <2>1. PICK order \in Bijection(1..Cardinality(DOMAIN catalog), DOMAIN catalog) :
               StartWalk(order)
    BY <1>2 DEF CheckRecipes
  <2>2. order \in Seq(Recipes) /\ Range(order) = DOMAIN catalog
    BY OrderIsList DEF WalkInv, TypeInv, TypeOK
  <2>3. stack'[1].todo = order
    BY <2>1, <2>2, StartedStack
  <2> QED
    BY <1>2, <2>2, <2>3 DEF CheckRecipes, Rooted, Pending
<1>3. CASE RefuseRecipes \/ FallBack \/ FindCycle \/ MissRecipe
  BY <1>3 DEF RefuseRecipes, FallBack, FindCycle, MissRecipe, Rooted
<1>4. CASE SkipKnown \/ Descend \/ Return
  <2>1. phase' = phase /\ catalog' = catalog /\ request' = request /\ Walking
    BY <1>4 DEF SkipKnown, Descend, Return, asked
  <2>2. /\ Pending(1) \subseteq Pending(1)'
        /\ Range(stack'[1].todo) \subseteq Range(stack[1].todo)
    BY <1>4, RootsStay
  <2> QED
    BY <2>1, <2>2 DEF Rooted, Walking
<1>5. CASE FinishWalk
  <2>1. Pending(1) = permanent
    BY <1>5 DEF FinishWalk, Pending, Top, Range
  <2> QED
    BY <1>5, <2>1 DEF FinishWalk, Rooted, Walking, walk, asked
<1>6. CASE Assemble
  BY <1>6 DEF Assemble, Rooted, walk, asked
<1>7. ASSUME NEW q \in Requests, Request(q) PROVE Rooted'
  <2>1. stack'[1].todo = q.recipes
    BY <1>7, PlannerAssumption, StartedStack DEF Request
  <2> QED
    BY <1>7, <2>1 DEF Request, Rooted, Pending
<1>8. ASSUME NEW c \in SoundCatalogs, Reload(c) PROVE Rooted'
  <2>1. Pending(1)' = Pending(1)
    BY <1>8 DEF Reload, walk, Pending, Depth
  <2> QED
    BY <1>8, <2>1 DEF Reload, walk, asked, Rooted
<1> QED
  BY <1>1, <1>2, <1>3, <1>4, <1>5, <1>6, <1>7, <1>8 DEF Next, Step

\* Every step of an undisturbed walk keeps what it saw equal to the catalog.
LEMMA FreshStep ==
  ASSUME CatalogInv, [Next]_vars
  PROVE  Fresh'
<1> USE DEF CatalogInv, OrderInv
<1>1. CASE UNCHANGED vars
  BY <1>1 DEF vars, walk, Fresh
<1>2. CASE CheckRecipes
  BY <1>2 DEF CheckRecipes, StartWalk, Fresh
<1>3. CASE RefuseRecipes \/ FallBack
  BY <1>3 DEF RefuseRecipes, FallBack, Fresh
<1>4. CASE SkipKnown
  BY <1>4 DEF SkipKnown, Fresh
<1>5. CASE Descend
  <2>1. Child \in Recipes /\ Child \in DOMAIN catalog
    BY <1>5, DescendedStack DEF Descend, WalkInv, TypeInv
  <2>2. /\ visiting' = visiting \cup {Child} /\ permanent' = permanent
        /\ phase' = phase /\ catalog' = catalog /\ reloads' = reloads
        /\ read' = [read EXCEPT ![Child] = catalog[Child]]
    BY <1>5 DEF Descend
  <2>3. read \in [Recipes -> Seq(Recipes)]
        /\ visiting \subseteq Recipes /\ permanent \subseteq Recipes
    BY DEF WalkInv, TypeInv, TypeOK
  <2> QED
    BY <2>1, <2>2, <2>3 DEF Fresh
<1>6. CASE Return
  <2>1. Top.recipe \in visiting
    BY <1>6, ReturnWalk
  <2> QED
    BY <1>6, <2>1 DEF Return, Fresh
<1>7. CASE FindCycle \/ MissRecipe \/ FinishWalk
  BY <1>7 DEF FindCycle, MissRecipe, FinishWalk, Fresh, Walking, walk
<1>8. CASE Assemble
  BY <1>8 DEF Assemble, Fresh, walk
<1>9. ASSUME NEW q \in Requests, Request(q) PROVE Fresh'
  BY <1>9 DEF Request, StartWalk, Fresh
<1>10. ASSUME NEW c \in SoundCatalogs, Reload(c) PROVE Fresh'
  BY <1>10 DEF Reload, Fresh, WalkInv, TypeInv, TypeOK
<1> QED
  BY <1>1, <1>2, <1>3, <1>4, <1>5, <1>6, <1>7, <1>8, <1>9, <1>10 DEF Next, Step

\* Every step of an undisturbed walk calls only what the request needs.
LEMMA MinimalStep ==
  ASSUME CatalogInv, [Next]_vars
  PROVE  Minimal'
<1> USE DEF CatalogInv, OrderInv
<1>1. CASE UNCHANGED vars
  BY <1>1 DEF vars, walk, asked, Minimal
<1>2. CASE CheckRecipes \/ RefuseRecipes \/ FallBack \/ FindCycle \/ MissRecipe
  BY <1>2 DEF CheckRecipes, RefuseRecipes, FallBack, FindCycle, MissRecipe,
     Minimal, Listing
<1>3. CASE SkipKnown
  BY <1>3 DEF SkipKnown, asked, Minimal
<1>4. CASE Descend
  <2>1. /\ visiting' = visiting \cup {Child} /\ permanent' = permanent
        /\ phase' = phase /\ catalog' = catalog /\ reloads' = reloads
        /\ request' = request
        /\ Walking /\ Top.todo # <<>>
    BY <1>4 DEF Descend, asked
  <2>2. ASSUME phase \in Listing, reloads = 0
        PROVE  Child \in Required(catalog, Range(request))
    <3>1. phase = "resolving" /\ Child \in Recipes
      BY <1>4, <2>1, <2>2, DescendedStack DEF Listing, Walking, WalkInv, TypeInv
    <3>2. Range(request) \in SUBSET Recipes
      BY PlannerAssumption, LenProperties DEF WalkInv, TypeInv, TypeOK, Range
    <3>3. CASE Child \in Range(stack[1].todo)
      BY <3>1, <3>2, <3>3, RequiredIsClosed DEF Rooted
    <3>4. CASE /\ Top.recipe \in visiting /\ Top.recipe \in DOMAIN catalog
               /\ Child \in Range(catalog[Top.recipe])
      <4>1. Top.recipe \in Required(catalog, Range(request))
        BY <2>2, <3>4 DEF Minimal
      <4> QED
        BY <3>1, <3>2, <3>4, <4>1, RequiredIsClosed
    <3> QED
      BY <2>1, <2>2, <3>3, <3>4, ChildIsAsked
  <2> QED
    BY <2>1, <2>2 DEF Minimal
<1>5. CASE Return
  <2>1. Top.recipe \in visiting
    BY <1>5, ReturnWalk
  <2> QED
    BY <1>5, <2>1 DEF Return, asked, Minimal
<1>6. CASE FinishWalk \/ Assemble
  BY <1>6 DEF FinishWalk, Assemble, Minimal, Listing, Walking, walk, asked
<1>7. ASSUME NEW q \in Requests, Request(q) PROVE Minimal'
  BY <1>7 DEF Request, StartWalk, Minimal
<1>8. ASSUME NEW c \in SoundCatalogs, Reload(c) PROVE Minimal'
  BY <1>8 DEF Reload, Minimal, WalkInv, TypeInv, TypeOK
<1> QED
  BY <1>1, <1>2, <1>3, <1>4, <1>5, <1>6, <1>7, <1>8 DEF Next, Step

\* What an undisturbed walk listed is closed under dependency and holds the
\* request, and no more than that.
LEMMA ListedIsRequired ==
  ASSUME OrderInv, Rooted, Fresh, Minimal,
         phase \in {"assembling", "planned"}, reloads = 0
  PROVE  Range(output) = Required(catalog, Range(request))
<1> USE DEF OrderInv, WalkInv, TypeInv
<1>1. Range(output) = permanent /\ permanent \subseteq Recipes
  BY DEF Listed, Listing, TypeOK
<1>2. Range(request) \subseteq permanent
  BY DEF Rooted
<1>3. \A r \in permanent : Range(catalog[r]) \subseteq permanent
  BY DEF Fresh, Closing
<1>4. Required(catalog, Range(request)) \subseteq permanent
  BY <1>1, <1>2, <1>3 DEF Required
<1>5. permanent \subseteq Required(catalog, Range(request))
  BY DEF Minimal, Listing
<1> QED
  BY <1>1, <1>4, <1>5

\* Every step keeps the verdicts on catalogs and requests right.
LEMMA VerdictStep ==
  ASSUME CatalogInv, [Next]_vars
  PROVE  AcceptsExactlySound' /\ NeverPanics' /\ LoadedCatalogsResolve'
<1> USE DEF CatalogInv, AcceptsExactlySound, NeverPanics, LoadedCatalogsResolve
<1>1. CASE UNCHANGED vars
  BY <1>1 DEF vars, asked, Misgiven, GivenTo
<1>2. CASE CheckRecipes \/ FallBack
  BY <1>2 DEF CheckRecipes, FallBack
<1>3. CASE RefuseRecipes
  BY <1>3, RefusedIsUnsound DEF RefuseRecipes
<1>4. CASE SkipKnown \/ Descend \/ Return
  BY <1>4 DEF SkipKnown, Descend, Return, Walking
<1>5. CASE FindCycle
  <2>1. reloads = 0 => ~Sound(catalog)
    BY <1>5, CycleIsReal DEF Sound
  <2>2. phase = "validating" => reloads = 0
    BY DEF Fresh
  <2> QED
    BY <1>5, <2>1, <2>2 DEF FindCycle, Walking
<1>6. CASE MissRecipe
  <2>1. phase = "validating" => reloads = 0
    BY DEF Fresh
  <2>2. phase = "resolving"
    BY <1>6, <2>1, MissIsAsked DEF MissRecipe, Walking
  <2>3. reloads = 0 => ~(Range(request) \subseteq DOMAIN catalog)
    BY <1>6, <2>2, MissIsAsked DEF MissRecipe, Rooted
  <2> QED
    BY <1>6, <2>2, <2>3 DEF MissRecipe, asked
<1>7. CASE FinishWalk
  BY <1>7, FinishedIsSound DEF FinishWalk, Walking
<1>8. CASE Assemble
  <2>1. /\ phase' = "planned" \/ phase' = "failed"
        /\ phase' = "failed" <=> ~(Range(output) \subseteq DOMAIN catalog) \/ Misgiven(Range(output))
        /\ phase = "assembling" /\ catalog' = catalog /\ reloads' = reloads
        /\ request' = request /\ inputs' = inputs /\ environment' = environment
    BY <1>8 DEF Assemble, asked
  <2>2. ASSUME reloads = 0
        PROVE  phase' = "failed" <=> Misgiven(Required(catalog, Range(request)))
    <3>1. Range(output) \subseteq DOMAIN catalog
      BY <2>1, <2>2 DEF OrderInv, Listed, Listing, Fresh
    <3>2. Range(output) = Required(catalog, Range(request))
      BY <2>1, <2>2, ListedIsRequired
    <3> QED
      BY <2>1, <3>1, <3>2
  <2>3. reloads = 0 => request # <<>> /\ Range(request) \subseteq DOMAIN catalog
    BY <2>1 DEF Rooted, Fresh
  <2>4. Misgiven(Required(catalog, Range(request)))'
          <=> Misgiven(Required(catalog, Range(request)))
    BY <2>1 DEF Misgiven, GivenTo
  <2>5. LoadedCatalogsResolve'
    BY <2>1, <2>2, <2>3, <2>4
  <2> QED
    BY <2>1, <2>5
<1>9. ASSUME NEW q \in Requests, Request(q)
      PROVE  AcceptsExactlySound' /\ NeverPanics' /\ LoadedCatalogsResolve'
  BY <1>9 DEF Request
<1>10. ASSUME NEW c \in SoundCatalogs, Reload(c)
       PROVE  AcceptsExactlySound' /\ NeverPanics' /\ LoadedCatalogsResolve'
  BY <1>10 DEF Reload, SoundCatalogs
<1> QED
  BY <1>1, <1>2, <1>3, <1>4, <1>5, <1>6, <1>7, <1>8, <1>9, <1>10 DEF Next, Step

\* Nothing is claimed of a catalog before it was looked at.
LEMMA InitCatalog == Init => CatalogInv
<1> SUFFICES ASSUME Init PROVE CatalogInv
  OBVIOUS
<1>1. phase = "checking" /\ reloads = 0 /\ permanent = {}
  BY DEF Init
<1> QED
  BY <1>1, InitOrder DEF CatalogInv, Rooted, Fresh, WellFounded, Minimal, Listing,
     AcceptsExactlySound, NeverPanics, LoadedCatalogsResolve

\* Every step keeps all of it.
LEMMA CatalogStep == CatalogInv /\ [Next]_vars => CatalogInv'
<1> SUFFICES ASSUME CatalogInv, [Next]_vars PROVE CatalogInv'
  OBVIOUS
<1>1. OrderInv' /\ WellFounded'
  BY OrderStep, WellFoundedStep DEF CatalogInv
<1> QED
  BY <1>1, RootedStep, FreshStep, MinimalStep, VerdictStep DEF CatalogInv

\* What a plan lists is exactly what is required.
LEMMA PlannedIsExact == CatalogInv => PlanIsExact
BY ListedIsRequired DEF PlanIsExact, CatalogInv

\* The invariant of the catalog holds throughout.
LEMMA CatalogInvariant == Spec => []CatalogInv
BY InitCatalog, CatalogStep, PTL DEF Spec

\* validate_catalog_recipes accepts a catalog exactly if it is not empty, closed
\* under dependency and acyclic, whatever the order of the hash map.
THEOREM ValidationIsExact == Spec => []AcceptsExactlySound
<1>1. CatalogInv => AcceptsExactlySound
  BY DEF CatalogInv
<1> QED
  BY <1>1, CatalogInvariant, PTL

\* The index into the map of recipes in validate_dependency_tree cannot fail.
THEOREM ValidationNeverPanics == Spec => []NeverPanics
<1>1. CatalogInv => NeverPanics
  BY DEF CatalogInv
<1> QED
  BY <1>1, CatalogInvariant, PTL

\* plan() lists the requested recipes and their dependencies and nothing else.
THEOREM PlansAreExact == Spec => []PlanIsExact
BY PlannedIsExact, CatalogInvariant, PTL

\* plan() of a loaded catalog fails exactly for no recipe, an unknown recipe, a
\* value that no step may use or a value for an input that nothing required has.
THEOREM PlanningSucceeds == Spec => []LoadedCatalogsResolve
<1>1. CatalogInv => LoadedCatalogsResolve
  BY DEF CatalogInv
<1> QED
  BY <1>1, CatalogInvariant, PTL

=============================================================================
