---------------------------- MODULE RecipePlanner ----------------------------
(***************************************************************************)
(* The dependency walk of bettertricks-core in its two uses.  A catalog is *)
(* accepted only after validate_catalog_recipes (catalog.rs) walked all of *)
(* it; Planner::resolve (planner.rs) walks what was requested and lists it *)
(* in the order of execution.  Both are the same recursion; its calls are  *)
(* the frames of `stack`, one action per statement that looks at a recipe. *)
(*                                                                         *)
(* resolve() asks the catalog for one recipe after the other and the       *)
(* catalog may be replaced in between, so that `read`, what the walk saw,  *)
(* need not be what the catalog holds when the walk is over.               *)
(*                                                                         *)
(* CheckNothing, RequestUnclean, SkipStuck, FindCycleAsKnown and Return's  *)
(* variants are faulty forms of the definition they precede, which no      *)
(* specification uses.                                                     *)
(***************************************************************************)
EXTENDS Naturals, Sequences, FiniteSets, Functions

CONSTANTS
  Recipes,      \* identifiers a request or a catalog may name
  Catalogs,     \* contents of catalog directories: each maps the recipes it
                \* has to their dependencies followed by the recipes they call
  Bundled,      \* the catalog that comes with the program
  Requests,     \* what may be requested: recipes, and values for inputs
  Asking,       \* recipes with an input, in every catalog alike
  Unsupported,  \* values that are too long or of more than one line
  Environments, \* what the variables named by inputs may hold, by recipe
  MaxReloads,   \* bound on reloads during one request
  Caller        \* the frame of the loop that calls the recursion

ASSUME PlannerAssumption ==
  /\ Bundled \in Catalogs
  /\ \A c \in Catalogs : /\ DOMAIN c \subseteq Recipes
                         /\ IsFiniteSet(DOMAIN c)
                         /\ \A r \in DOMAIN c : c[r] \in Seq(Recipes)
  /\ \A q \in Requests : q.recipes \in Seq(Recipes)
  /\ MaxReloads \in Nat
  /\ Caller \notin Recipes

Phase ==
  { "checking", "validating", "refused", "panicked", "loaded", "resolving",
    "assembling", "planned", "failed" }
Frame == [recipe : Recipes \cup {Caller}, todo : Seq(Recipes)]

VARIABLES
  phase,
  catalog,      \* the catalog being validated, later the one in memory
  request,      \* request.recipes
  inputs,       \* request.input_values: a value under the name of a recipe
  environment,
  stack,        \* calls of the recursion, the caller's loop first
  visiting,
  permanent,    \* `visited` in the catalog's validation
  output,
  read,         \* what Catalog::get returned for a recipe
  reloads

walk == <<stack, visiting, permanent, output, read>>
asked == <<request, inputs, environment>>
vars == <<phase, catalog, asked, walk, reloads>>

Init ==
  /\ phase = "checking"
  /\ catalog \in Catalogs
  /\ request = <<>>
  /\ inputs = <<>>
  /\ environment \in Environments
  /\ stack = <<[recipe |-> Caller, todo |-> <<>>]>>
  /\ visiting = {}
  /\ permanent = {}
  /\ output = <<>>
  /\ read = [r \in Recipes |-> <<>>]
  /\ reloads = 0

-----------------------------------------------------------------------------
(* What validation and planning are meant to compute.                      *)

Closed(c) == \A r \in DOMAIN c : Range(c[r]) \subseteq DOMAIN c

\* A finite graph has a cycle where every member of some set has a successor
\* in that set.
Acyclic(c) ==
  \A S \in SUBSET DOMAIN c : S # {} => \E r \in S : Range(c[r]) \cap S = {}

Sound(c) == DOMAIN c # {} /\ Closed(c) /\ Acyclic(c)
SoundCatalogs == {c \in Catalogs : Sound(c)}

\* The least set that holds the requested recipes and their dependencies.
Required(c, wanted) ==
  {r \in Recipes : \A S \in SUBSET Recipes :
     wanted \subseteq S /\ (\A s \in S \cap DOMAIN c : Range(c[s]) \subseteq S)
       => r \in S}

-----------------------------------------------------------------------------
StartWalk(roots) ==
  /\ stack' = <<[recipe |-> Caller, todo |-> roots]>>
  /\ visiting' = {}
  /\ permanent' = {}
  /\ output' = <<>>
  /\ read' = [r \in Recipes |-> <<>>]

CheckNothing ==
  /\ phase = "checking" /\ DOMAIN catalog # {}
  /\ phase' = "validating"
  /\ \E order \in Bijection(1..Cardinality(DOMAIN catalog), DOMAIN catalog) :
       StartWalk(order)
  /\ UNCHANGED <<catalog, asked, reloads>>

\* The walk starts from every recipe, in the order of a hash map.
CheckRecipes ==
  /\ phase = "checking"
  /\ DOMAIN catalog # {} /\ Closed(catalog)
  /\ \A r \in DOMAIN catalog : r \notin Range(catalog[r])
  /\ phase' = "validating"
  /\ \E order \in Bijection(1..Cardinality(DOMAIN catalog), DOMAIN catalog) :
       StartWalk(order)
  /\ UNCHANGED <<catalog, asked, reloads>>

\* An empty catalog, a recipe that depends on itself or on one that is missing.
RefuseRecipes ==
  /\ phase = "checking"
  /\ \/ DOMAIN catalog = {}
     \/ ~Closed(catalog)
     \/ \E r \in DOMAIN catalog : r \in Range(catalog[r])
  /\ phase' = "refused"
  /\ UNCHANGED <<catalog, asked, walk, reloads>>

\* build_state: the active catalog does not load, the bundled one has to.
FallBack ==
  /\ phase = "refused" /\ catalog # Bundled
  /\ catalog' = Bundled
  /\ phase' = "checking"
  /\ UNCHANGED <<asked, walk, reloads>>

RequestUnclean(q) ==
  /\ phase \in {"loaded", "planned", "failed"}
  /\ request' = q.recipes
  /\ inputs' = q.inputs
  /\ phase' = IF q.recipes = <<>> THEN "failed" ELSE "resolving"
  /\ stack' = <<[recipe |-> Caller, todo |-> q.recipes]>>
  /\ visiting' = {}
  /\ output' = <<>>
  /\ read' = [r \in Recipes |-> <<>>]
  /\ reloads' = 0
  /\ UNCHANGED <<catalog, environment, permanent>>

\* plan() up to its first resolve().
Request(q) ==
  /\ phase \in {"loaded", "planned", "failed"}
  /\ request' = q.recipes
  /\ inputs' = q.inputs
  /\ phase' = IF q.recipes = <<>> THEN "failed" ELSE "resolving"
  /\ StartWalk(q.recipes)
  /\ reloads' = 0
  /\ UNCHANGED <<catalog, environment>>

\* Another thread installs or rolls back: the new catalog was validated.
Reload(c) ==
  /\ phase \in {"resolving", "assembling"}
  /\ reloads < MaxReloads
  /\ catalog' = c
  /\ reloads' = reloads + 1
  /\ UNCHANGED <<phase, asked, walk>>

-----------------------------------------------------------------------------
(* The recursion.                                                          *)

Walking == phase \in {"validating", "resolving"}
Depth == Len(stack)
Top == stack[Depth]
Child == Head(Top.todo)
Advanced == [stack EXCEPT ![Depth].todo = Tail(@)]

SkipStuck ==
  /\ Walking /\ Top.todo # <<>>
  /\ Child \in permanent
  /\ UNCHANGED vars

SkipKnown ==
  /\ Walking /\ Top.todo # <<>>
  /\ Child \in permanent
  /\ stack' = Advanced
  /\ UNCHANGED <<phase, catalog, asked, visiting, permanent, output, read, reloads>>

FindCycleAsKnown ==
  /\ Walking /\ Top.todo # <<>>
  /\ Child \notin permanent /\ Child \in visiting
  /\ stack' = Advanced
  /\ UNCHANGED <<phase, catalog, asked, visiting, permanent, output, read, reloads>>

FindCycle ==
  /\ Walking /\ Top.todo # <<>>
  /\ Child \notin permanent /\ Child \in visiting
  /\ phase' = IF phase = "validating" THEN "refused" ELSE "failed"
  /\ UNCHANGED <<catalog, asked, walk, reloads>>

\* The validation indexes a map, resolve() asks the catalog.
MissRecipe ==
  /\ Walking /\ Top.todo # <<>>
  /\ Child \notin permanent \cup visiting
  /\ Child \notin DOMAIN catalog
  /\ phase' = IF phase = "validating" THEN "panicked" ELSE "failed"
  /\ UNCHANGED <<catalog, asked, walk, reloads>>

Descend ==
  /\ Walking /\ Top.todo # <<>>
  /\ Child \notin permanent \cup visiting
  /\ Child \in DOMAIN catalog
  /\ stack' = Append(Advanced, [recipe |-> Child, todo |-> catalog[Child]])
  /\ visiting' = visiting \cup {Child}
  /\ read' = [read EXCEPT ![Child] = catalog[Child]]
  /\ UNCHANGED <<phase, catalog, asked, permanent, output, reloads>>

ReturnUnfinished ==
  /\ Walking /\ Top.todo = <<>> /\ Depth > 1
  /\ stack' = SubSeq(stack, 1, Depth - 1)
  /\ output' = IF phase = "resolving" THEN Append(output, Top.recipe) ELSE output
  /\ UNCHANGED <<phase, catalog, asked, visiting, permanent, read, reloads>>

ReturnPrepending ==
  /\ Walking /\ Top.todo = <<>> /\ Depth > 1
  /\ stack' = SubSeq(stack, 1, Depth - 1)
  /\ visiting' = visiting \ {Top.recipe}
  /\ permanent' = permanent \cup {Top.recipe}
  /\ output' = IF phase = "resolving" THEN <<Top.recipe>> \o output ELSE output
  /\ UNCHANGED <<phase, catalog, asked, read, reloads>>

Return ==
  /\ Walking /\ Top.todo = <<>> /\ Depth > 1
  /\ stack' = SubSeq(stack, 1, Depth - 1)
  /\ visiting' = visiting \ {Top.recipe}
  /\ permanent' = permanent \cup {Top.recipe}
  /\ output' = IF phase = "resolving" THEN Append(output, Top.recipe) ELSE output
  /\ UNCHANGED <<phase, catalog, asked, read, reloads>>

FinishWalk ==
  /\ Walking /\ Top.todo = <<>> /\ Depth = 1
  /\ phase' = IF phase = "validating" THEN "loaded" ELSE "assembling"
  /\ UNCHANGED <<catalog, asked, walk, reloads>>

\* The value of a recipe's input, if it has one.
GivenTo(r) ==
  IF r \in DOMAIN inputs THEN {inputs[r]}
  ELSE IF r \in DOMAIN environment THEN {environment[r]} ELSE {}

\* An input of a listed recipe has a value that no step may use, or a value was
\* given to an input that no listed recipe has.
Misgiven(listed) ==
  \/ \E r \in listed \cap Asking : GivenTo(r) \cap Unsupported # {}
  \/ ~(DOMAIN inputs \subseteq listed \cap Asking)

\* plan() asks for every resolved recipe again to describe its steps, and looks
\* at the values of their inputs.
Assemble ==
  /\ phase = "assembling"
  /\ phase' = IF Range(output) \subseteq DOMAIN catalog /\ ~Misgiven(Range(output))
              THEN "planned" ELSE "failed"
  /\ UNCHANGED <<catalog, asked, walk, reloads>>

Step ==
  \/ CheckRecipes \/ RefuseRecipes \/ FallBack
  \/ SkipKnown \/ FindCycle \/ MissRecipe \/ Descend \/ Return \/ FinishWalk
  \/ Assemble

Next ==
  \/ Step
  \/ \E q \in Requests : Request(q)
  \/ \E c \in SoundCatalogs : Reload(c)

Spec == Init /\ [][Next]_vars

\* Both walks are plain function calls.
FairSpec == Spec /\ WF_vars(Step)

-----------------------------------------------------------------------------
(* Properties.                                                             *)

\* Every variable keeps its type, and the caller's loop stays on the stack.
TypeOK ==
  /\ phase \in Phase
  /\ catalog \in Catalogs
  /\ request \in {<<>>} \cup {q.recipes : q \in Requests}
  /\ inputs \in {<<>>} \cup {q.inputs : q \in Requests}
  /\ environment \in Environments
  /\ stack \in Seq(Frame) \ {<<>>}
  /\ visiting \subseteq Recipes
  /\ permanent \subseteq Recipes
  /\ output \in Seq(Recipes)
  /\ read \in [Recipes -> Seq(Recipes)]
  /\ reloads \in Nat

\* A catalog is taken into memory exactly if it is not empty, names no missing
\* recipe and has no cycle, from whichever recipe the walk starts.
AcceptsExactlySound ==
  /\ phase = "refused" => ~Sound(catalog)
  /\ phase \notin {"checking", "validating", "refused"} => Sound(catalog)

\* The checks in front of the validation's walk cover all it indexes.
NeverPanics == phase # "panicked"

\* What the operation engine relies on: a recipe is listed once and after
\* everything that it was seen to depend on, even if the catalog was replaced
\* while the plan was made.
DependenciesFirst ==
  /\ IsInjective(output)
  /\ \A i \in DOMAIN output :
       Range(read[output[i]]) \subseteq {output[j] : j \in 1..(i - 1)}

\* A plan made of one catalog lists what was requested and what that needs,
\* and nothing else.
PlanIsExact ==
  phase = "planned" /\ reloads = 0 =>
    Range(output) = Required(catalog, Range(request))

\* "The planner ... rejects cycles" (docs/architecture.md:50) is never heard of
\* a loaded catalog: as long as the catalog stays, planning fails exactly for a
\* request that names nothing or an unknown recipe, for a value that no step may
\* use of an input of what is required, and for a value given to an input that
\* nothing required has.
LoadedCatalogsResolve ==
  phase \in {"planned", "failed"} /\ reloads = 0 =>
    (phase = "failed" <=>
       \/ request = <<>>
       \/ ~(Range(request) \subseteq DOMAIN catalog)
       \/ Misgiven(Required(catalog, Range(request))))

\* Both recursions end, on every catalog: cycles are noticed.
WalksEnd == Walking ~> ~Walking

=============================================================================
