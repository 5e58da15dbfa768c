----------------------------- MODULE StepExecution -----------------------------
(***************************************************************************)
(* What the steps of native recipes do to a prefix (execute_recipe,        *)
(* execute_step, native_action and their helpers in operation.rs).         *)
(* OperationEngine decides which recipe runs when; here one recipe after   *)
(* another is attempted on one prefix, and an attempt may end anywhere: a  *)
(* step fails, a cancellation kills its child, or the process is gone.     *)
(* What it has done stays, and the recipe may be attempted again.          *)
(*                                                                         *)
(* A step is expanded, when it begins, into the changes that its handler   *)
(* makes to the prefix, in their order; each handler is one operator.      *)
(* A group of steps for 64-bit prefixes is its steps, each of which asks:  *)
(* what a prefix is does not change between two steps of an attempt.       *)
(*                                                                         *)
(* OneView and RegisterFirst are faulty variants of the definition they    *)
(* precede.                                                                *)
(***************************************************************************)
EXTENDS Naturals, Sequences, SequencesExt

CONSTANTS
  Recipes,      \* native recipes
  StepsOf,      \* the steps of each, the verification last
  Files,        \* files of the prefix
  Fonts,        \* those that are fonts; a font is registered under its own name
  Keys,         \* other registry values; a key is the values beneath it
  Data,         \* what recipes set them to
  Unset,        \* no value
  Stock,        \* what Wine sets them to
  Links,        \* Wine's links to places outside of the prefix
  HomeLinks,    \* those in the user's folder that lead into HOME
  NoRecipe,     \* none
  MaxAttempts   \* bound on the attempts

VARIABLES
  arch,         \* the prefix: "none", "win32", "wow64", or "win64" without the 32-bit half
  file,         \* each file: "absent", "half" or "whole"
  registry,     \* what each value is in each view of the registry
  linked,       \* links that are there
  mono,         \* whether Wine Mono is installed
  shims,        \* whether its DLLs are in the system directories
  installed,    \* recipes named by winetricks.log
  recipe,       \* the recipe attempted
  assumed,      \* the architecture its plan holds
  begun,        \* how many of its steps have begun
  todo,         \* what is left of the current one
  attempts,     \* attempts so far
  torn,         \* files cut off while they were replaced
  overwritten,  \* values that a recipe set, and another wrote after it was installed
  blind,        \* recipes installed by a plan that did not know the prefix
  monoCut       \* whether a removal of Mono ended behind the uninstaller

prefix  == <<arch, file, registry, linked, mono, shims, installed>>
attempt == <<recipe, assumed, begun, todo, attempts>>
history == <<torn, overwritten, blind, monoCut>>
stepVars == <<prefix, attempt, history>>

Views == {"32", "64"}
Values == Keys \cup Fonts

\* What a registry file sets some of the names to, or deletes with Unset.
Settings(names, data) == UNION {[some -> data] : some \in SUBSET names}

-----------------------------------------------------------------------------
(* Recipes.                                                                *)

\* Of fonts with one file name the first is installed, and listed here.
FontEntries == [source : Files \ Fonts, file : Fonts]

Steps ==
  [kind : {"write"}, only64 : BOOLEAN, files : Seq(Files)] \cup
  [kind : {"copy", "move"}, only64 : BOOLEAN, from : Files, to : Files] \cup
  [kind : {"remove", "verify"}, only64 : BOOLEAN, file : Files] \cup
  [kind : {"fonts"}, only64 : BOOLEAN, fonts : Seq(FontEntries)] \cup
  [kind : {"registry"}, only64 : BOOLEAN,
   architecture : {"prefix", "win32", "win64"}, values : Settings(Keys, Data \cup {Unset})] \cup
  [kind : {"remove_symlink"}, only64 : BOOLEAN, link : Links] \cup
  [kind : {"isolate_home", "remove_mono"}, only64 : BOOLEAN]

FontFiles(step) == {font.file : font \in ToSet(step.fonts)}

\* A font's name is set to its file.
FontNames(step) == [f \in FontFiles(step) |-> f]

\* The files that a step reads or asks for, leaves whole, and takes away; and those
\* it installs for good.
Uses(step) ==
  CASE step.kind \in {"copy", "move"} -> {step.from}
    [] step.kind = "fonts" -> {font.source : font \in ToSet(step.fonts)}
    [] step.kind = "verify" -> {step.file}
    [] OTHER -> {}
Provides(step) ==
  CASE step.kind \in {"copy", "move"} -> {step.to}
    [] step.kind = "fonts" -> FontFiles(step)
    [] OTHER -> {}
Leaves(step) == IF step.kind = "write" THEN ToSet(step.files) ELSE Provides(step)
Takes(step) ==
  CASE step.kind = "move" -> {step.from}
    [] step.kind = "remove" -> {step.file}
    [] OTHER -> {}

\* Step i of a recipe finds a file there because step j left it.
FindsFrom(r, i, j, f) ==
  /\ f \in Leaves(StepsOf[r][j])
  /\ StepsOf[r][j].only64 => StepsOf[r][i].only64
  /\ \A k \in j + 1 .. i - 1 : f \notin Takes(StepsOf[r][k])

\* Two steps do not set one value to different data.
Agree(step, other) ==
  step.kind = "registry" /\ other.kind = "registry" =>
    \A k \in DOMAIN step.values \cap DOMAIN other.values : step.values[k] = other.values[k]

\* A recipe uses the files that it has downloaded, extracted or copied before, none
\* takes away what one installs, and none sets a value twice.  Different recipes
\* may well set one value to different data.
StepAssumption ==
  /\ MaxAttempts \in Nat /\ NoRecipe \notin Recipes
  /\ Fonts \subseteq Files /\ HomeLinks \subseteq Links
  /\ Keys \cap Fonts = {} /\ Unset \notin Data \cup Fonts
  /\ Stock \in [Keys -> Data \cup {Unset}]
  /\ StepsOf \in [Recipes -> Seq(Steps)]
  /\ \A r \in Recipes : \A i \in DOMAIN StepsOf[r] : \A f \in Uses(StepsOf[r][i]) :
       \E j \in 1 .. i - 1 : FindsFrom(r, i, j, f)
  /\ \A r, q \in Recipes : \A step \in ToSet(StepsOf[r]), given \in ToSet(StepsOf[q]) :
       Takes(step) \cap (Fonts \cup Provides(given)) = {}
  /\ \A r \in Recipes : \A step, other \in ToSet(StepsOf[r]) : Agree(step, other)

ASSUME StepAssumption

-----------------------------------------------------------------------------
StepInit ==
  /\ arch \in {"none", "win32", "win64", "wow64"}
  /\ file = [f \in Files |-> "absent"]
  /\ registry = [v \in Views |-> [k \in Values |-> IF k \in Fonts THEN Unset ELSE Stock[k]]]
  /\ linked = Links
  /\ mono \in BOOLEAN /\ shims = mono
  /\ installed = {}
  /\ recipe = NoRecipe /\ assumed = "unknown" /\ begun = 0 /\ todo = <<>>
  /\ attempts = 0
  /\ torn = {} /\ overwritten = {} /\ blind = {} /\ monoCut = FALSE

-----------------------------------------------------------------------------
(* The handlers.                                                           *)

\* C:\windows\regedit.exe, and what an architecture means in the prefix.
Wide == arch \in {"win64", "wow64"}
NativeView == IF Wide THEN "64" ELSE "32"
ViewsOf(architecture) ==
  CASE architecture = "win32" -> {"32"}
    [] architecture = "win64" -> {NativeView}
    [] OTHER -> IF Wide THEN {"32", "64"} ELSE {"32"}

OneView(architecture) == <<NativeView>>

\* registry_invocations() knows the prefix from the plan alone.
Invocations(architecture) ==
  CASE architecture = "prefix" /\ assumed \in {"win64", "wow64"} -> <<"32", "64">>
    [] architecture = "win32" /\ assumed \in {"win64", "wow64"} -> <<"32">>
    [] OTHER -> <<NativeView>>

ImportRegistry(architecture, values) ==
  [i \in DOMAIN Invocations(architecture) |->
     [do |-> "import", view |-> Invocations(architecture)[i], values |-> values]]

\* Archive tools and programs overwrite what is there.
WriteFiles(files) == [i \in DOMAIN files |-> [do |-> "write", file |-> files[i]]]

CopyFile(from, to) == <<[do |-> "need", file |-> from], [do |-> "write", file |-> to]>>

ReplaceFonts(fonts) ==
  [i \in DOMAIN fonts |-> [do |-> "replace", from |-> fonts[i].source, file |-> fonts[i].file]]

RegisterFirst(step) == ImportRegistry("prefix", FontNames(step)) \o ReplaceFonts(step.fonts)

\* Once the Wine server has ended, all are registered.
InstallFonts(step) == ReplaceFonts(step.fonts) \o ImportRegistry("prefix", FontNames(step))

\* Without an entry in the list of uninstallers nothing is done.
RemoveMono == IF mono THEN <<[do |-> "uninstall_mono"], [do |-> "remove_shims"]>> ELSE <<>>

\* On64BitPrefix asks the plan, and the disk for the 32-bit half.
Is64Bit == assumed \in {"win64", "wow64"} \/ arch = "wow64"

Handle(step) ==
  CASE step.kind = "write" -> WriteFiles(step.files)
    [] step.kind = "copy" -> CopyFile(step.from, step.to)
    [] step.kind = "move" -> <<[do |-> "move", from |-> step.from, file |-> step.to]>>
    [] step.kind = "remove" -> <<[do |-> "remove", file |-> step.file]>>
    [] step.kind = "fonts" -> InstallFonts(step)
    [] step.kind = "registry" -> ImportRegistry(step.architecture, step.values)
    [] step.kind = "remove_symlink" -> <<[do |-> "unlink", link |-> step.link]>>
    [] step.kind = "isolate_home" -> <<[do |-> "isolate_home"]>>
    [] step.kind = "remove_mono" -> RemoveMono
    [] step.kind = "verify" -> <<[do |-> "need", file |-> step.file]>>

Expand(step) == IF step.only64 /\ ~Is64Bit THEN <<>> ELSE Handle(step)

-----------------------------------------------------------------------------
(* An attempt.                                                             *)

\* A plan made before the prefix existed knows nothing of it and initialises it.
BeginAttempt(r) ==
  /\ recipe = NoRecipe /\ attempts < MaxAttempts
  /\ attempts' = attempts + 1
  /\ recipe' = r /\ begun' = 0
  /\ \/ arch # "none" /\ assumed' = arch /\ todo' = <<>>
     \/ assumed' = "unknown" /\ todo' = <<[do |-> "initialize"]>>
  /\ UNCHANGED <<prefix, history>>

BeginStep ==
  /\ recipe # NoRecipe /\ todo = <<>> /\ begun < Len(StepsOf[recipe])
  /\ todo' = Expand(StepsOf[recipe][begun + 1]) /\ begun' = begun + 1
  /\ UNCHANGED <<prefix, recipe, assumed, attempts, history>>

Doing(change) == todo # <<>> /\ Head(todo).do = change
Proceed == UNCHANGED <<recipe, assumed, begun, attempts, blind>>
Done == todo' = Tail(todo) /\ Proceed

\* wineboot; WINEARCH is win64 unless the plan says win32.
InitializePrefix ==
  /\ Doing("initialize") /\ Done
  /\ arch' = IF arch = "none" THEN "wow64" ELSE arch
  /\ UNCHANGED <<file, registry, linked, mono, shims, installed, torn, overwritten, monoCut>>

\* regedit sets and deletes some of the values of its file.
Set(v, values, some) ==
  /\ registry' = [registry EXCEPT ![v] = [k \in Values |-> IF k \in some THEN values[k] ELSE @[k]]]
  /\ overwritten' = overwritten \cup ((Recipes \ {recipe}) \X {v} \X (some \cap Keys))

\* A prefix without the 32-bit half has no regedit for that view, and the run fails.
HasEditor(v) == v = "32" => arch # "win64"

Import ==
  /\ Doing("import") /\ Done /\ HasEditor(Head(todo).view)
  /\ Set(Head(todo).view, Head(todo).values, DOMAIN Head(todo).values)
  /\ UNCHANGED <<arch, file, linked, mono, shims, installed, torn, monoCut>>

\* The source of a copy, or a file that is verified.
Need ==
  /\ Doing("need") /\ Done
  /\ file[Head(todo).file] # "absent"
  /\ UNCHANGED <<prefix, torn, overwritten, monoCut>>

Write ==
  LET f == Head(todo).file IN
  /\ Doing("write") /\ Done
  /\ file' = [file EXCEPT ![f] = "whole"] /\ torn' = torn \ {f}
  /\ UNCHANGED <<arch, registry, linked, mono, shims, installed, overwritten, monoCut>>

\* A font is looked up among the extracted files, and the file of its name is
\* removed; it is copied then.
ClearFont ==
  LET f == Head(todo).file IN
  /\ Doing("replace") /\ file[Head(todo).from] # "absent"
  /\ torn' = IF file[f] = "absent" THEN torn ELSE torn \cup {f}
  /\ file' = [file EXCEPT ![f] = "absent"]
  /\ todo' = [todo EXCEPT ![1] = [do |-> "write", file |-> f]] /\ Proceed
  /\ UNCHANGED <<arch, registry, linked, mono, shims, installed, overwritten, monoCut>>

\* rename() replaces what is at its target.
Move ==
  LET from == Head(todo).from
      to == Head(todo).file
  IN
  /\ Doing("move") /\ Done
  /\ file[from] # "absent"
  /\ file' = [file EXCEPT ![from] = "absent", ![to] = file[from]]
  /\ torn' = IF file[from] = "whole" THEN torn \ {to} ELSE torn
  /\ UNCHANGED <<arch, registry, linked, mono, shims, installed, overwritten, monoCut>>

Delete ==
  /\ Doing("remove") /\ Done
  /\ file' = [file EXCEPT ![Head(todo).file] = "absent"]
  /\ UNCHANGED <<arch, registry, linked, mono, shims, installed, torn, overwritten, monoCut>>

Unlink ==
  /\ Doing("unlink") /\ Done
  /\ linked' = linked \ {Head(todo).link}
  /\ UNCHANGED <<arch, file, registry, mono, shims, installed, torn, overwritten, monoCut>>

\* isolate_home_links() walks the user's folder, in any order.
IsolateHome ==
  /\ Doing("isolate_home")
  /\ \/ \E link \in linked \cap HomeLinks : linked' = linked \ {link} /\ UNCHANGED todo /\ Proceed
     \/ linked \cap HomeLinks = {} /\ UNCHANGED linked /\ Done
  /\ UNCHANGED <<arch, file, registry, mono, shims, installed, torn, overwritten, monoCut>>

UninstallMono ==
  /\ Doing("uninstall_mono") /\ Done
  /\ mono' = FALSE
  /\ UNCHANGED <<arch, file, registry, linked, shims, installed, torn, overwritten, monoCut>>

\* The keys of .NET are deleted before; that failing is ignored.
RemoveShims ==
  /\ Doing("remove_shims") /\ Done
  /\ shims' = FALSE
  /\ UNCHANGED <<arch, file, registry, linked, mono, installed, torn, overwritten, monoCut>>

\* append_installed_log()
Complete ==
  /\ recipe # NoRecipe /\ todo = <<>> /\ begun = Len(StepsOf[recipe])
  /\ installed' = installed \cup {recipe}
  /\ overwritten' = {e \in overwritten : e[1] # recipe}
  /\ blind' = IF assumed = "unknown" THEN blind \cup {recipe} ELSE blind \ {recipe}
  /\ recipe' = NoRecipe /\ assumed' = "unknown" /\ begun' = 0
  /\ UNCHANGED <<arch, file, registry, linked, mono, shims, todo, attempts, torn, monoCut>>

\* The attempt ends in front of or in the middle of a change: it fails, its child
\* is killed, or the process is gone.
Interrupt ==
  /\ recipe # NoRecipe
  /\ \/ UNCHANGED <<prefix, torn, overwritten>>
     \/ LET f == Head(todo).file IN
        /\ Doing("write")
        /\ file' = [file EXCEPT ![f] = "half"]
        /\ torn' = IF file[f] = "whole" THEN torn \cup {f} ELSE torn
        /\ UNCHANGED <<arch, registry, linked, mono, shims, installed, overwritten>>
     \/ /\ Doing("import") /\ HasEditor(Head(todo).view)
        /\ \E some \in SUBSET DOMAIN Head(todo).values :
             Set(Head(todo).view, Head(todo).values, some)
        /\ UNCHANGED <<arch, file, linked, mono, shims, installed, torn>>
     \/ /\ Doing("uninstall_mono")
        /\ mono' = FALSE
        /\ UNCHANGED <<arch, file, registry, linked, shims, installed, torn, overwritten>>
  /\ monoCut' = (monoCut \/ Doing("uninstall_mono") \/ Doing("remove_shims"))
  /\ recipe' = NoRecipe /\ assumed' = "unknown" /\ begun' = 0 /\ todo' = <<>>
  /\ UNCHANGED <<attempts, blind>>

StepNext ==
  \/ \E r \in Recipes : BeginAttempt(r)
  \/ BeginStep
  \/ InitializePrefix \/ Import \/ Need \/ Write \/ ClearFont \/ Move \/ Delete
  \/ Unlink \/ IsolateHome \/ UninstallMono \/ RemoveShims
  \/ Complete \/ Interrupt

StepSpec == StepInit /\ [][StepNext]_stepVars

-----------------------------------------------------------------------------
(* Properties.                                                             *)

\* The changes that handlers make.
Changes ==
  [do : {"initialize", "isolate_home", "uninstall_mono", "remove_shims"}] \cup
  [do : {"need", "write", "remove"}, file : Files] \cup
  [do : {"replace", "move"}, from : Files, file : Files] \cup
  [do : {"import"}, view : Views, values : Settings(Values, Data \cup Fonts \cup {Unset})] \cup
  [do : {"unlink"}, link : Links]

StepTypeOK ==
  /\ arch \in {"none", "win32", "win64", "wow64"}
  /\ assumed \in {"unknown", "win32", "win64", "wow64"}
  /\ file \in [Files -> {"absent", "half", "whole"}]
  /\ registry \in [Views -> [Values -> Data \cup Fonts \cup {Unset}]]
  /\ overwritten \subseteq Recipes \X Views \X Keys
  /\ linked \subseteq Links /\ mono \in BOOLEAN /\ shims \in BOOLEAN /\ monoCut \in BOOLEAN
  /\ installed \subseteq Recipes /\ blind \subseteq installed
  /\ recipe \in Recipes \cup {NoRecipe}
  /\ todo \in Seq(Changes)
  /\ IF recipe = NoRecipe THEN begun = 0 /\ todo = <<>> ELSE begun \in 0 .. Len(StepsOf[recipe])
  /\ attempts \in 0 .. MaxAttempts /\ torn \subseteq Files

Written(f) == file[f] = "whole" \/ f \in torn
Registered(r, architecture, values) ==
  r \in blind \/
    \A v \in ViewsOf(architecture), k \in DOMAIN values :
      registry[v][k] = values[k] \/ <<r, v, k>> \in overwritten

\* What a step promises of the prefix for good.
Holds(r, step) ==
  (step.only64 => IF r \in blind THEN arch = "wow64" ELSE Wide) =>
    /\ \A f \in Provides(step) : Written(f)
    /\ step.kind = "fonts" => Registered(r, "prefix", FontNames(step))
    /\ step.kind = "registry" => Registered(r, step.architecture, step.values)
    /\ step.kind = "remove_symlink" => step.link \notin linked
    /\ step.kind = "isolate_home" => linked \cap HomeLinks = {}
    /\ step.kind = "remove_mono" => ~mono /\ (shims => monoCut)

\* A recipe that winetricks.log names has had all its lasting effects, in every
\* view of the registry, however many attempts were cut off before, and nothing
\* takes them back but another recipe that sets one of its values anew, wholly or
\* cut off, and an attempt cut off while it replaces one of its fonts
\* (operation.rs 400-446, 984-1006, 1902-2308).  Left out are a plan that did not
\* know the prefix, and a removal of Mono that was cut off.
InstalledMeansApplied ==
  \A r \in installed : \A s \in ToSet(StepsOf[r]) : Holds(r, s)

\* What cut off attempts leave behind does no harm: the registry names no font
\* that is not there, unless it was being replaced, and no attempt fails for want
\* of a file (operation.rs 1943-2017, 649-685, 618-639).
LeftoversDoNoHarm ==
  /\ \A f \in Fonts, v \in Views : registry[v][f] # Unset => Written(f)
  /\ Doing("need") => file[Head(todo).file] # "absent"
  /\ Doing("replace") \/ Doing("move") => file[Head(todo).from] # "absent"

=============================================================================
