-------------------------- MODULE StepExecutionProofs --------------------------
(***************************************************************************)
(* What holds of the steps of native recipes, for any recipes that use     *)
(* what they have fetched and take away nothing that one installs, and for *)
(* any number of attempts, each cut off anywhere; and of the four parts of *)
(* an operation's work side by side.                                       *)
(***************************************************************************)
EXTENDS MCExecution, DownloadCacheProofs, LegacyProofs, TLAPS

-----------------------------------------------------------------------------
(* The invariant.                                                          *)

\* What registry files hold; what is left of the current step; the steps of the
\* attempt, those of them that are meant for this prefix, and the files that what is
\* left will write.
RegistryFiles == Settings(Values, Data \cup Fonts \cup {Unset})
Left == ToSet(todo)
Step(i) == StepsOf[recipe][i]
Reached(i) == Step(i).only64 => Is64Bit
Coming(f) == \E change \in Left : change.do \in {"write", "replace", "move"} /\ change.file = f

\* The changes of a step, or what is left of them, by their form.
DoAt(effects, i) == effects[i].do
Replaces(change) == change.from \notin Fonts /\ change.file \in Fonts
FormAt(effects, i) ==
  /\ DoAt(effects, i) \in {"initialize", "move", "remove"} => Len(effects) = 1
  /\ DoAt(effects, i) = "need" => i = 1
  /\ DoAt(effects, i) = "replace" => Replaces(effects[i])
  /\ DoAt(effects, i) = "uninstall_mono" =>
       i = 1 /\ Len(effects) = 2 /\ DoAt(effects, 2) = "remove_shims"
  /\ DoAt(effects, i) = "remove_shims" =>
       \/ Len(effects) = 1
       \/ Len(effects) = 2 /\ i = 2 /\ DoAt(effects, 1) = "uninstall_mono"
  /\ DoAt(effects, i) = "import" => \A k \in i .. Len(effects) : DoAt(effects, k) = "import"

Form(effects) == \A i \in DOMAIN effects : FormAt(effects, i)

\* What takes a file away is what the current step says.
Fitting ==
  /\ Doing("initialize") => begun = 0
  /\ Doing("move") => /\ begun > 0 /\ Step(begun).kind = "move"
                      /\ Step(begun).from = Head(todo).from /\ Step(begun).to = Head(todo).file
  /\ Doing("remove") => /\ begun > 0 /\ Step(begun).kind = "remove"
                        /\ Step(begun).file = Head(todo).file

\* An attempt knows its prefix or initialises it first.
Architecture ==
  /\ installed # {} => arch # "none"
  /\ recipe # NoRecipe /\ assumed # "unknown" => arch = assumed
  /\ recipe # NoRecipe /\ arch = "none" => Doing("initialize")

ShapeInv == StepTypeOK /\ Architecture /\ Form(todo) /\ Fitting

\* What the rest of the step needs is there.
SourcesWhole ==
  \A change \in Left :
    /\ change.do = "need" => file[change.file] = "whole"
    /\ change.do \in {"replace", "move"} => file[change.from] = "whole"

\* What the steps begun have left is there, or will be, unless one took it away.
Supplied ==
  recipe # NoRecipe =>
    \A i \in 1 .. begun : Reached(i) =>
      \A f \in Leaves(Step(i)) :
        \/ file[f] = "whole" \/ Coming(f)
        \/ \E k \in i + 1 .. begun : f \in Takes(Step(k))

\* What a step promises holds, or the rest of the step will see to it.
IsSet(v, values) == \A k \in DOMAIN values : registry[v][k] = values[k]
Imported(v, values) ==
  \/ IsSet(v, values)
  \/ \E change \in Left : change.do = "import" /\ change.view = v /\ change.values = values

Honoured(step) ==
  /\ \A f \in Provides(step) : Written(f) \/ Coming(f)
  /\ step.kind = "fonts" /\ assumed # "unknown" =>
       \A v \in ViewsOf("prefix") : Imported(v, FontNames(step))
  /\ step.kind = "registry" /\ assumed # "unknown" =>
       \A v \in ViewsOf(step.architecture) : Imported(v, step.values)
  /\ step.kind = "remove_symlink" /\ step.link \in linked =>
       \E change \in Left : change.do = "unlink" /\ change.link = step.link
  /\ step.kind = "isolate_home" /\ linked \cap HomeLinks # {} =>
       \E change \in Left : change.do = "isolate_home"
  /\ step.kind = "remove_mono" /\ mono => \E change \in Left : change.do = "uninstall_mono"

\* Every step begun that is meant for this prefix has its promise honoured.
Pledged == {Step(i) : i \in {k \in 1 .. begun : Reached(k)}}
Promised == recipe # NoRecipe => \A step \in Pledged : Honoured(step)

\* The DLLs of Mono outlive it only until they are removed, or by a cut off removal.
Shimmed == ~mono /\ shims /\ ~monoCut => \E change \in Left : change.do = "remove_shims"

\* What a recipe sets values to: what one of its steps says, or a font to itself.
Sourced(values) ==
  \/ \E step \in ToSet(StepsOf[recipe]) : step.kind = "registry" /\ values = step.values
  \/ DOMAIN values \subseteq Fonts /\ \A f \in DOMAIN values : values[f] = f

\* Fonts are registered only behind their files, and what is left to be imported is
\* what the recipe says.
Backed ==
  /\ \A f \in Fonts, v \in Views : registry[v][f] # Unset => Written(f)
  /\ \A change \in Left : change.do = "import" =>
       /\ Sourced(change.values)
       /\ \A f \in DOMAIN change.values \cap Fonts : Written(f) \/ Coming(f)

StepInv == ShapeInv /\ SourcesWhole /\ Supplied /\ Promised /\ Shimmed /\ Backed /\ InstalledMeansApplied
-----------------------------------------------------------------------------
(* Steps, changes, and what is left of a step.                             *)

\* A step has what its handler asks for.
LEMMA StepTypes ==
  ASSUME NEW step \in Steps
  PROVE  /\ step.only64 \in BOOLEAN
         /\ step.kind \in {"write", "copy", "move", "remove", "verify", "fonts", "registry",
                           "remove_symlink", "isolate_home", "remove_mono"}
         /\ step.kind = "write" => step.files \in Seq(Files)
         /\ step.kind \in {"copy", "move"} => step.from \in Files /\ step.to \in Files
         /\ step.kind \in {"remove", "verify"} => step.file \in Files
         /\ step.kind = "fonts" => step.fonts \in Seq(FontEntries)
         /\ step.kind = "registry" => /\ step.architecture \in {"prefix", "win32", "win64"}
                                      /\ step.values \in Settings(Keys, Data \cup {Unset})
         /\ step.kind = "remove_symlink" => step.link \in Links
BY DEF Steps

\* Settings set some of the names to data.
LEMMA SettingsAre ==
  ASSUME NEW names, NEW data, NEW values \in Settings(names, data)
  PROVE  /\ DOMAIN values \subseteq names /\ values = [k \in DOMAIN values |-> values[k]]
         /\ \A k \in DOMAIN values : values[k] \in data
BY DEF Settings

LEMMA SettingsMade ==
  ASSUME NEW names, NEW data, NEW some \in SUBSET names, NEW values \in [some -> data]
  PROVE  values \in Settings(names, data)
BY DEF Settings

\* What a step sets values to is a registry file, and so are the names of fonts.
LEMMA FilesMade ==
  ASSUME NEW step \in Steps
  PROVE  /\ step.kind = "registry" => /\ step.values \in RegistryFiles
                                      /\ DOMAIN step.values \subseteq Keys
         /\ FontFiles(step) \subseteq Fonts => FontNames(step) \in RegistryFiles
         /\ DOMAIN FontNames(step) = FontFiles(step)
         /\ \A f \in FontFiles(step) : FontNames(step)[f] = f
<1>1. ASSUME step.kind = "registry"
      PROVE  step.values \in RegistryFiles /\ DOMAIN step.values \subseteq Keys
  <2>1. step.values \in Settings(Keys, Data \cup {Unset})
    BY <1>1, StepTypes
  <2>2. PICK some \in SUBSET Keys : step.values \in [some -> Data \cup {Unset}]
    BY <2>1 DEF Settings
  <2>3. step.values \in [some -> Data \cup Fonts \cup {Unset}] /\ some \in SUBSET Values
    BY <2>2 DEF Values
  <2> QED
    BY <2>2, <2>3, SettingsMade DEF RegistryFiles
<1>2. ASSUME FontFiles(step) \subseteq Fonts PROVE FontNames(step) \in RegistryFiles
  <2>1. FontNames(step) \in [FontFiles(step) -> Data \cup Fonts \cup {Unset}]
    BY <1>2 DEF FontNames
  <2>2. FontFiles(step) \in SUBSET Values
    BY <1>2 DEF Values
  <2> QED
    BY <2>1, <2>2, SettingsMade DEF RegistryFiles
<1> QED
  BY <1>1, <1>2 DEF FontNames

\* The steps of a recipe are steps.
LEMMA StepsTyped ==
  ASSUME NEW r \in Recipes
  PROVE  /\ StepsOf[r] \in Seq(Steps)
         /\ Len(StepsOf[r]) \in Nat /\ DOMAIN StepsOf[r] = 1 .. Len(StepsOf[r])
         /\ \A i \in 1 .. Len(StepsOf[r]) : StepsOf[r][i] \in Steps
         /\ ToSet(StepsOf[r]) = {StepsOf[r][i] : i \in 1 .. Len(StepsOf[r])}
<1>1. StepsOf[r] \in Seq(Steps)
  BY StepAssumption DEF StepAssumption
<1> QED
  BY <1>1 DEF ToSet

\* A change has what its action asks for.
LEMMA ChangeTypes ==
  ASSUME NEW change \in Changes
  PROVE  /\ change.do \in {"initialize", "isolate_home", "uninstall_mono", "remove_shims",
                           "need", "write", "remove", "replace", "move", "import", "unlink"}
         /\ change.do \in {"need", "write", "remove", "replace", "move"} => change.file \in Files
         /\ change.do \in {"replace", "move"} => change.from \in Files
         /\ change.do = "import" => /\ change.view \in Views
                                    /\ change.values \in RegistryFiles
         /\ change.do = "unlink" => change.link \in Links
BY DEF Changes, RegistryFiles

\* The first change and those behind it are all that is left.
LEMMA TailLeft ==
  ASSUME NEW S, NEW s \in Seq(S), s # <<>>
  PROVE  /\ Tail(s) \in Seq(S) /\ Len(s) \in Nat \ {0} /\ Len(Tail(s)) = Len(s) - 1
         /\ DOMAIN s = 1 .. Len(s) /\ DOMAIN Tail(s) = 1 .. Len(s) - 1
         /\ Head(s) = s[1] /\ Head(s) \in S /\ Head(s) \in ToSet(s)
         /\ \A i \in 1 .. Len(s) - 1 : Tail(s)[i] = s[i + 1] /\ i + 1 \in 1 .. Len(s)
         /\ ToSet(s) = {Head(s)} \cup ToSet(Tail(s))
<1>1. /\ Tail(s) \in Seq(S) /\ Len(s) \in Nat \ {0} /\ Len(Tail(s)) = Len(s) - 1
      /\ DOMAIN s = 1 .. Len(s) /\ DOMAIN Tail(s) = 1 .. Len(s) - 1
      /\ Head(s) = s[1] /\ Head(s) \in S
      /\ \A i \in 1 .. Len(s) - 1 : Tail(s)[i] = s[i + 1] /\ i + 1 \in 1 .. Len(s)
  OBVIOUS
<1>2. ASSUME NEW change \in ToSet(s) PROVE change \in {Head(s)} \cup ToSet(Tail(s))
  <2>1. PICK i \in DOMAIN s : change = s[i]
    BY <1>2 DEF ToSet
  <2>2. CASE i = 1
    BY <1>1, <2>1, <2>2
  <2>3. CASE i # 1
    <3>1. i - 1 \in 1 .. Len(s) - 1 /\ Tail(s)[i - 1] = s[i]
      BY <1>1, <2>1, <2>3
    <3> QED
      BY <1>1, <2>1, <3>1 DEF ToSet
  <2> QED
    BY <2>2, <2>3
<1>3. Head(s) \in ToSet(s) /\ ToSet(Tail(s)) \subseteq ToSet(s)
  BY <1>1 DEF ToSet
<1> QED
  BY <1>1, <1>2, <1>3

\* Every change that is left is at some place of todo, and no other.
LEMMA LeftTypes ==
  ASSUME todo \in Seq(Changes)
  PROVE  /\ Left \subseteq Changes
         /\ Len(todo) \in Nat /\ DOMAIN todo = 1 .. Len(todo)
         /\ \A i \in 1 .. Len(todo) : todo[i] \in Left /\ todo[i] \in Changes
         /\ \A change \in Left : \E i \in 1 .. Len(todo) : change = todo[i]
         /\ todo = <<>> => Left = {}
BY DEF Left, ToSet

-----------------------------------------------------------------------------
(* What the handlers expand to.                                            *)

\* The changes that handlers make are changes.
LEMMA ChangesMade ==
  /\ \A f \in Files : /\ [do |-> "write", file |-> f] \in Changes
                     /\ [do |-> "need", file |-> f] \in Changes
                     /\ [do |-> "remove", file |-> f] \in Changes
  /\ \A f, from \in Files : /\ [do |-> "replace", from |-> from, file |-> f] \in Changes
                           /\ [do |-> "move", from |-> from, file |-> f] \in Changes
  /\ \A v \in Views, values \in RegistryFiles :
       [do |-> "import", view |-> v, values |-> values] \in Changes
  /\ \A link \in Links : [do |-> "unlink", link |-> link] \in Changes
  /\ \A name \in {"initialize", "isolate_home", "uninstall_mono", "remove_shims"} :
       [do |-> name] \in Changes
BY DEF Changes, RegistryFiles

\* One change, two changes, and the changes of one sequence behind those of another.
LEMMA OneChange ==
  ASSUME NEW change \in Changes
  PROVE  /\ <<change>> \in Seq(Changes) /\ Len(<<change>>) = 1 /\ DOMAIN <<change>> = {1}
         /\ <<change>>[1] = change
OBVIOUS

LEMMA TwoChanges ==
  ASSUME NEW change \in Changes, NEW next \in Changes
  PROVE  /\ <<change, next>> \in Seq(Changes) /\ Len(<<change, next>>) = 2
         /\ DOMAIN <<change, next>> = {1, 2}
         /\ <<change, next>>[1] = change /\ <<change, next>>[2] = next
OBVIOUS

LEMMA JoinedChanges ==
  ASSUME NEW front \in Seq(Changes), NEW back \in Seq(Changes)
  PROVE  /\ front \o back \in Seq(Changes) /\ Len(front \o back) = Len(front) + Len(back)
         /\ \A i \in 1 .. Len(front) : (front \o back)[i] = front[i]
         /\ \A i \in Len(front) + 1 .. Len(front) + Len(back) :
              (front \o back)[i] = back[i - Len(front)]
         /\ \A i \in 1 .. Len(back) : (front \o back)[Len(front) + i] = back[i]
<1>1. /\ front \o back \in Seq(Changes) /\ Len(front \o back) = Len(front) + Len(back)
      /\ Len(front) \in Nat /\ Len(back) \in Nat
      /\ \A i \in 1 .. Len(front) : (front \o back)[i] = front[i]
      /\ \A i \in Len(front) + 1 .. Len(front) + Len(back) :
           (front \o back)[i] = back[i - Len(front)]
  OBVIOUS
<1>2. \A i \in 1 .. Len(back) :
        /\ Len(front) + i \in Len(front) + 1 .. Len(front) + Len(back)
        /\ (Len(front) + i) - Len(front) = i
  BY <1>1
<1> QED
  BY <1>1, <1>2

\* An entry of a list of fonts names a file and a font.
LEMMA EntriesAre ==
  ASSUME NEW fonts \in Seq(FontEntries)
  PROVE  /\ Len(fonts) \in Nat /\ DOMAIN fonts = 1 .. Len(fonts)
         /\ \A i \in 1 .. Len(fonts) : fonts[i].source \in Files \ Fonts /\ fonts[i].file \in Fonts
<1>1. \A i \in 1 .. Len(fonts) : fonts[i] \in FontEntries
  OBVIOUS
<1>2. \A entry \in FontEntries : entry.source \in Files \ Fonts /\ entry.file \in Fonts
  BY DEF FontEntries
<1> QED
  BY <1>1, <1>2

\* A plan that knows the prefix imports into every view that is meant.
LEMMA InvocationsAre ==
  ASSUME NEW architecture \in {"prefix", "win32", "win64"}
  PROVE  /\ Invocations(architecture) \in Seq(Views) /\ Len(Invocations(architecture)) \in {1, 2}
         /\ assumed # "unknown" /\ arch = assumed /\ assumed \in {"win32", "win64", "wow64"} =>
              \A v \in ViewsOf(architecture) :
                \E i \in 1 .. Len(Invocations(architecture)) : Invocations(architecture)[i] = v
<1>1. CASE architecture \in {"prefix", "win32"} /\ assumed \in {"win64", "wow64"}
  <2>1. CASE architecture = "prefix"
    <3>1. Invocations(architecture) = <<"32", "64">>
      BY <1>1, <2>1 DEF Invocations
    <3>2. \A v \in ViewsOf(architecture) : v = "32" \/ v = "64"
      BY <2>1 DEF ViewsOf, NativeView, Wide
    <3> QED
      BY <3>1, <3>2 DEF Views
  <2>2. CASE architecture = "win32"
    <3>1. Invocations(architecture) = <<"32">>
      BY <1>1, <2>2 DEF Invocations
    <3>2. \A v \in ViewsOf(architecture) : v = "32"
      BY <2>2 DEF ViewsOf
    <3> QED
      BY <3>1, <3>2 DEF Views
  <2> QED
    BY <1>1, <2>1, <2>2
<1>2. CASE ~(architecture \in {"prefix", "win32"} /\ assumed \in {"win64", "wow64"})
  <2>1. Invocations(architecture) = <<NativeView>>
    BY <1>2 DEF Invocations
  <2>2. arch = assumed /\ assumed \in {"win32", "win64", "wow64"} =>
          \A v \in ViewsOf(architecture) : v = NativeView
    BY <1>2 DEF ViewsOf, NativeView, Wide
  <2>3. NativeView \in Views
    BY DEF NativeView, Views, Wide
  <2> QED
    BY <2>1, <2>2, <2>3
<1> QED
  BY <1>1, <1>2

\* Imported(v, values) is on its way for each of these views.
LEMMA ImportsAre ==
  ASSUME NEW architecture \in {"prefix", "win32", "win64"}, NEW values \in RegistryFiles
  PROVE  LET imports == ImportRegistry(architecture, values) IN
         /\ imports \in Seq(Changes) /\ Len(imports) \in {1, 2}
         /\ \A i \in 1 .. Len(imports) :
              /\ imports[i].do = "import" /\ imports[i].values = values
              /\ imports[i].view = Invocations(architecture)[i]
<1>1. Invocations(architecture) \in Seq(Views) /\ Len(Invocations(architecture)) \in {1, 2}
  BY InvocationsAre
<1>2. \A i \in 1 .. Len(Invocations(architecture)) :
        [do |-> "import", view |-> Invocations(architecture)[i], values |-> values] \in Changes
  <2>1. \A i \in 1 .. Len(Invocations(architecture)) : Invocations(architecture)[i] \in Views
    BY <1>1
  <2> QED
    BY <2>1, ChangesMade
<1> QED
  BY <1>1, <1>2 DEF ImportRegistry

\* Every file is written.
LEMMA WritesAre ==
  ASSUME NEW files_ \in Seq(Files)
  PROVE  LET effects == WriteFiles(files_) IN
         /\ effects \in Seq(Changes) /\ DOMAIN effects = DOMAIN files_
         /\ \A i \in DOMAIN effects : effects[i].do = "write" /\ effects[i].file = files_[i]
<1>1. \A i \in 1 .. Len(files_) : files_[i] \in Files
  OBVIOUS
<1>2. \A i \in 1 .. Len(files_) : [do |-> "write", file |-> files_[i]] \in Changes
  BY <1>1, ChangesMade
<1> QED
  BY <1>2 DEF WriteFiles

\* First every font is replaced, then all are registered.
LEMMA FontsAre ==
  ASSUME NEW step \in Steps, step.kind = "fonts"
  PROVE  LET effects == InstallFonts(step)
             n == Len(step.fonts)
             imports == ImportRegistry("prefix", FontNames(step))
         IN  /\ effects \in Seq(Changes) /\ n \in Nat /\ Len(imports) \in {1, 2}
             /\ Len(effects) = n + Len(imports)
             /\ \A i \in 1 .. n : /\ effects[i].do = "replace"
                                  /\ effects[i].from = step.fonts[i].source
                                  /\ effects[i].file = step.fonts[i].file
             /\ \A i \in n + 1 .. Len(effects) : effects[i] = imports[i - n]
             /\ \A i \in 1 .. Len(imports) : effects[n + i] = imports[i]
             /\ FontFiles(step) = {step.fonts[i].file : i \in 1 .. n}
             /\ FontFiles(step) \subseteq Fonts
<1> DEFINE n == Len(step.fonts)
           imports == ImportRegistry("prefix", FontNames(step))
           fonts == ReplaceFonts(step.fonts)
<1>1. step.fonts \in Seq(FontEntries)
  BY StepTypes
<1>2. n \in Nat /\ DOMAIN step.fonts = 1 .. n /\ FontFiles(step) = {step.fonts[i].file : i \in 1 .. n}
      /\ FontFiles(step) \subseteq Fonts
      /\ \A i \in 1 .. n : step.fonts[i].source \in Files \ Fonts /\ step.fonts[i].file \in Fonts
  <2>1. /\ n \in Nat /\ DOMAIN step.fonts = 1 .. n
        /\ \A i \in 1 .. n : step.fonts[i].source \in Files \ Fonts /\ step.fonts[i].file \in Fonts
    BY <1>1, EntriesAre
  <2>2. ToSet(step.fonts) = {step.fonts[i] : i \in 1 .. n}
    BY <2>1 DEF ToSet
  <2>3. FontFiles(step) = {step.fonts[i].file : i \in 1 .. n}
    BY <2>2 DEF FontFiles
  <2> QED
    BY <2>1, <2>3
<1>3. imports \in Seq(Changes) /\ Len(imports) \in {1, 2}
  <2>1. FontNames(step) \in RegistryFiles
    BY <1>2, FilesMade
  <2> QED
    BY <2>1, ImportsAre
<1>4. \A i \in 1 .. n :
        [do |-> "replace", from |-> step.fonts[i].source, file |-> step.fonts[i].file] \in Changes
  <2>1. Fonts \subseteq Files
    BY StepAssumption DEF StepAssumption
  <2> QED
    BY <1>2, <2>1, ChangesMade
<1>5. fonts \in Seq(Changes) /\ Len(fonts) = n
      /\ \A i \in 1 .. n :
           fonts[i] = [do |-> "replace", from |-> step.fonts[i].source, file |-> step.fonts[i].file]
  BY <1>2, <1>4 DEF ReplaceFonts
<1>6. /\ fonts \o imports \in Seq(Changes) /\ Len(fonts \o imports) = n + Len(imports)
      /\ \A i \in 1 .. n : (fonts \o imports)[i] = fonts[i]
      /\ \A i \in n + 1 .. n + Len(imports) : (fonts \o imports)[i] = imports[i - n]
      /\ \A i \in 1 .. Len(imports) : (fonts \o imports)[n + i] = imports[i]
  <2>1. fonts \in Seq(Changes) /\ imports \in Seq(Changes) /\ Len(fonts) = n
    BY <1>3, <1>5
  <2> HIDE DEF fonts, imports, n
  <2>2. /\ fonts \o imports \in Seq(Changes) /\ Len(fonts \o imports) = Len(fonts) + Len(imports)
        /\ \A i \in 1 .. Len(fonts) : (fonts \o imports)[i] = fonts[i]
        /\ \A i \in Len(fonts) + 1 .. Len(fonts) + Len(imports) :
             (fonts \o imports)[i] = imports[i - Len(fonts)]
        /\ \A i \in 1 .. Len(imports) : (fonts \o imports)[Len(fonts) + i] = imports[i]
    BY <2>1, JoinedChanges
  <2> QED
    BY <2>1, <2>2, Zenon
<1>7. InstallFonts(step) = fonts \o imports
  BY DEF InstallFonts
<1>8. \A i \in 1 .. n : /\ fonts[i].do = "replace"
                        /\ fonts[i].from = step.fonts[i].source
                        /\ fonts[i].file = step.fonts[i].file
  <2> TAKE i \in 1 .. n
  <2> DEFINE from == step.fonts[i].source
             to == step.fonts[i].file
  <2>1. fonts[i] = [do |-> "replace", from |-> from, file |-> to]
    BY <1>5
  <2> HIDE DEF fonts, from, to
  <2>2. fonts[i].do = "replace" /\ fonts[i].from = from /\ fonts[i].file = to
    BY <2>1
  <2> QED
    BY <2>2 DEF from, to
<1>9. \A i \in 1 .. n : /\ InstallFonts(step)[i].do = "replace"
                        /\ InstallFonts(step)[i].from = step.fonts[i].source
                        /\ InstallFonts(step)[i].file = step.fonts[i].file
  <2> HIDE DEF fonts, imports, n
  <2> QED
    BY <1>6, <1>7, <1>8
<1> HIDE DEF fonts, imports, n
<1>10. /\ InstallFonts(step) \in Seq(Changes) /\ Len(InstallFonts(step)) = n + Len(imports)
       /\ \A i \in n + 1 .. Len(InstallFonts(step)) : InstallFonts(step)[i] = imports[i - n]
       /\ \A i \in 1 .. Len(imports) : InstallFonts(step)[n + i] = imports[i]
  BY <1>6, <1>7
<1> QED
  BY <1>2, <1>3, <1>9, <1>10 DEF n, imports

\* What the changes of a step do for what the step says.
Serves(effects, step) ==
  /\ \A i \in DOMAIN effects :
       /\ effects[i].do = "need" => effects[i].file \in Uses(step)
       /\ effects[i].do \in {"replace", "move"} => effects[i].from \in Uses(step)
       /\ effects[i].do = "move" => /\ step.kind = "move"
                                    /\ step.from = effects[i].from /\ step.to = effects[i].file
       /\ effects[i].do = "remove" => step.kind = "remove" /\ step.file = effects[i].file
       /\ effects[i].do = "import" => \/ step.kind = "fonts" /\ effects[i].values = FontNames(step)
                                      \/ step.kind = "registry" /\ effects[i].values = step.values
       /\ effects[i].do # "initialize"
  /\ \A f \in Leaves(step) : \E i \in DOMAIN effects :
       effects[i].do \in {"write", "replace", "move"} /\ effects[i].file = f
  /\ step.kind = "fonts" /\ assumed # "unknown" /\ arch = assumed =>
       \A v \in ViewsOf("prefix") : \E i \in DOMAIN effects :
         effects[i].do = "import" /\ effects[i].view = v /\ effects[i].values = FontNames(step)
  /\ step.kind = "registry" /\ assumed # "unknown" /\ arch = assumed =>
       \A v \in ViewsOf(step.architecture) : \E i \in DOMAIN effects :
         effects[i].do = "import" /\ effects[i].view = v /\ effects[i].values = step.values
  /\ step.kind = "remove_symlink" =>
       \E i \in DOMAIN effects : effects[i].do = "unlink" /\ effects[i].link = step.link
  /\ step.kind = "isolate_home" => \E i \in DOMAIN effects : effects[i].do = "isolate_home"
  /\ step.kind = "remove_mono" /\ mono =>
       \E i \in DOMAIN effects : effects[i].do = "uninstall_mono"

\* Every handler makes changes of its form that serve its step.
LEMMA Handled ==
  ASSUME NEW step \in Steps, StepTypeOK
  PROVE  Handle(step) \in Seq(Changes) /\ Form(Handle(step)) /\ Serves(Handle(step), step)
<1>1. /\ arch \in {"none", "win32", "win64", "wow64"} /\ assumed \in {"unknown", "win32", "win64", "wow64"}
      /\ mono \in BOOLEAN
  BY DEF StepTypeOK
<1>2. Fonts \subseteq Files /\ Keys \cap Fonts = {}
  BY StepAssumption DEF StepAssumption
<1> DEFINE effects == Handle(step)
<1>3. CASE step.kind = "write"
  <2>1. step.files \in Seq(Files)
    BY <1>3, StepTypes
  <2>2. effects = WriteFiles(step.files)
    BY <1>3 DEF Handle
  <2>3. /\ effects \in Seq(Changes) /\ DOMAIN effects = DOMAIN step.files
        /\ \A i \in DOMAIN effects : effects[i].do = "write" /\ effects[i].file = step.files[i]
    BY <2>1, <2>2, WritesAre
  <2> HIDE DEF effects
  <2>4. Form(effects)
    BY <2>3 DEF Form, FormAt, DoAt, Replaces
  <2>5. \A f \in Leaves(step) : \E i \in DOMAIN effects : f = step.files[i]
    BY <1>3, <2>3 DEF Leaves, ToSet
  <2>6. Serves(effects, step)
    BY <1>3, <2>3, <2>5 DEF Serves
  <2> QED
    BY <2>3, <2>4, <2>6 DEF effects
<1>4. CASE step.kind = "copy"
  <2>1. step.from \in Files /\ step.to \in Files
    BY <1>4, StepTypes
  <2>2. effects = <<[do |-> "need", file |-> step.from], [do |-> "write", file |-> step.to]>>
    BY <1>4 DEF Handle, CopyFile
  <2>3. /\ [do |-> "need", file |-> step.from] \in Changes
        /\ [do |-> "write", file |-> step.to] \in Changes
    BY <2>1 DEF Changes
  <2>4. /\ effects \in Seq(Changes) /\ Len(effects) = 2 /\ DOMAIN effects = {1, 2}
        /\ effects[1].do = "need" /\ effects[1].file = step.from
        /\ effects[2].do = "write" /\ effects[2].file = step.to
    BY <2>2, <2>3
  <2> HIDE DEF effects
  <2>5. Form(effects)
    BY <2>4 DEF Form, FormAt, DoAt, Replaces
  <2>6. Uses(step) = {step.from} /\ Leaves(step) = {step.to}
    BY <1>4 DEF Uses, Leaves, Provides
  <2>7. Serves(effects, step)
    BY <1>4, <2>4, <2>6 DEF Serves
  <2> QED
    BY <2>4, <2>5, <2>7 DEF effects
<1>5. CASE step.kind = "move"
  <2>1. step.from \in Files /\ step.to \in Files
    BY <1>5, StepTypes
  <2>2. effects = <<[do |-> "move", from |-> step.from, file |-> step.to]>>
    BY <1>5 DEF Handle
  <2>3. [do |-> "move", from |-> step.from, file |-> step.to] \in Changes
    BY <2>1 DEF Changes
  <2>4. /\ effects \in Seq(Changes) /\ Len(effects) = 1 /\ DOMAIN effects = {1}
        /\ effects[1].do = "move" /\ effects[1].from = step.from /\ effects[1].file = step.to
    BY <2>2, <2>3
  <2> HIDE DEF effects
  <2>5. Form(effects)
    BY <2>4 DEF Form, FormAt, DoAt, Replaces
  <2>6. Uses(step) = {step.from} /\ Leaves(step) = {step.to}
    BY <1>5 DEF Uses, Leaves, Provides
  <2>7. Serves(effects, step)
    BY <1>5, <2>4, <2>6 DEF Serves
  <2> QED
    BY <2>4, <2>5, <2>7 DEF effects
<1>6. CASE step.kind \in {"remove", "verify"}
  <2> DEFINE what == IF step.kind = "remove" THEN "remove" ELSE "need"
  <2>1. step.file \in Files
    BY <1>6, StepTypes
  <2>2. effects = <<[do |-> what, file |-> step.file]>>
    BY <1>6 DEF Handle
  <2>3. [do |-> what, file |-> step.file] \in Changes
    BY <2>1 DEF Changes
  <2>4. /\ effects \in Seq(Changes) /\ Len(effects) = 1 /\ DOMAIN effects = {1}
        /\ effects[1].do = what /\ effects[1].file = step.file
    BY <2>2, <2>3
  <2> HIDE DEF effects
  <2>5. Form(effects)
    BY <2>4 DEF Form, FormAt, DoAt, Replaces
  <2>6. Leaves(step) = {} /\ (step.kind = "verify" => Uses(step) = {step.file})
    BY <1>6 DEF Uses, Leaves, Provides
  <2>7. Serves(effects, step)
    BY <1>6, <2>4, <2>6 DEF Serves
  <2> QED
    BY <2>4, <2>5, <2>7 DEF effects
<1>7. CASE step.kind = "fonts"
  <2> DEFINE n == Len(step.fonts)
             imports == ImportRegistry("prefix", FontNames(step))
  <2>1. effects = InstallFonts(step)
    BY <1>7 DEF Handle
  <2>2. step.fonts \in Seq(FontEntries)
    BY <1>7, StepTypes
  <2>3. /\ effects \in Seq(Changes) /\ n \in Nat /\ Len(imports) \in {1, 2}
        /\ Len(effects) = n + Len(imports) /\ DOMAIN effects = 1 .. n + Len(imports)
        /\ \A i \in 1 .. n : /\ effects[i].do = "replace"
                             /\ effects[i].from = step.fonts[i].source
                             /\ effects[i].file = step.fonts[i].file
        /\ \A i \in n + 1 .. Len(effects) : effects[i] = imports[i - n]
        /\ \A i \in 1 .. Len(imports) : effects[n + i] = imports[i]
        /\ FontFiles(step) = {step.fonts[i].file : i \in 1 .. n}
        /\ FontFiles(step) \subseteq Fonts
    BY <1>7, <2>1, FontsAre
  <2>4. \A i \in 1 .. Len(imports) :
          /\ imports[i].do = "import" /\ imports[i].values = FontNames(step)
          /\ imports[i].view = Invocations("prefix")[i]
    <3>1. FontNames(step) \in RegistryFiles
      BY <2>3, FilesMade
    <3> QED
      BY <3>1, ImportsAre
  <2>5. assumed # "unknown" /\ arch = assumed =>
          \A v \in ViewsOf("prefix") : \E i \in 1 .. Len(imports) : Invocations("prefix")[i] = v
    <3>1. Len(imports) = Len(Invocations("prefix"))
      BY InvocationsAre DEF ImportRegistry
    <3> QED
      BY <1>1, <3>1, InvocationsAre
  <2>6. Uses(step) = {step.fonts[i].source : i \in 1 .. n} /\ Leaves(step) = FontFiles(step)
    BY <1>7, <2>2 DEF Uses, Leaves, Provides, ToSet
  <2>7. \A i \in 1 .. n : step.fonts[i].source \notin Fonts /\ step.fonts[i].file \in Fonts
    BY <2>2, EntriesAre
  <2> HIDE DEF effects, n, imports
  <2>8. \A i \in DOMAIN effects : i \in 1 .. n \/ (i \in n + 1 .. Len(effects) /\ i - n \in 1 .. Len(imports))
    BY <2>3
  <2>9. \A i \in n + 1 .. Len(effects) : effects[i].do = "import" /\ effects[i].values = FontNames(step)
    BY <2>3, <2>4, <2>8
  <2>10. Form(effects)
    <3>1. \A i \in 1 .. n : effects[i].do = "replace" /\ effects[i].from \notin Fonts
                            /\ effects[i].file \in Fonts
      BY <2>3, <2>7
    <3>2. \A i \in n + 1 .. Len(effects) : \A k \in i .. Len(effects) : k \in n + 1 .. Len(effects)
      BY <2>3
    <3> QED
      BY <2>8, <2>9, <3>1, <3>2 DEF Form, FormAt, DoAt, Replaces
  <2>11. ASSUME NEW v \in ViewsOf("prefix"), assumed # "unknown", arch = assumed
         PROVE  \E i \in DOMAIN effects :
                  effects[i].do = "import" /\ effects[i].view = v /\ effects[i].values = FontNames(step)
    <3>1. PICK i \in 1 .. Len(imports) : Invocations("prefix")[i] = v
      BY <2>5, <2>11
    <3>2. n + i \in DOMAIN effects /\ effects[n + i] = imports[i]
      BY <2>3
    <3> QED
      BY <2>4, <3>1, <3>2
  <2>12. \A f \in Leaves(step) : \E i \in DOMAIN effects :
           effects[i].do = "replace" /\ effects[i].file = f
    <3> SUFFICES ASSUME NEW f \in Leaves(step)
                 PROVE  \E i \in DOMAIN effects : effects[i].do = "replace" /\ effects[i].file = f
      OBVIOUS
    <3>1. PICK i \in 1 .. n : f = step.fonts[i].file
      BY <2>3, <2>6
    <3>2. i \in DOMAIN effects
      BY <2>3
    <3>3. effects[i].do = "replace" /\ effects[i].file = step.fonts[i].file
      BY <2>3
    <3> QED
      BY <3>1, <3>2, <3>3
  <2>13. \A i \in DOMAIN effects : effects[i].do = "replace" => i \in 1 .. n
    BY <2>8, <2>9
  <2>14. \A i \in DOMAIN effects :
           /\ effects[i].do \in {"replace", "import"}
           /\ effects[i].do = "replace" => effects[i].from \in Uses(step)
           /\ effects[i].do = "import" => effects[i].values = FontNames(step)
    BY <2>3, <2>6, <2>8, <2>9
  <2>15. Serves(effects, step)
    BY <1>7, <2>11, <2>12, <2>14 DEF Serves
  <2> QED
    BY <2>3, <2>10, <2>15 DEF effects
<1>8. CASE step.kind = "registry"
  <2>1. step.architecture \in {"prefix", "win32", "win64"} /\ step.values \in RegistryFiles
    BY <1>8, StepTypes, FilesMade
  <2>2. effects = ImportRegistry(step.architecture, step.values)
    BY <1>8 DEF Handle
  <2>3. /\ effects \in Seq(Changes) /\ Len(effects) \in {1, 2}
        /\ \A i \in 1 .. Len(effects) :
             /\ effects[i].do = "import" /\ effects[i].values = step.values
             /\ effects[i].view = Invocations(step.architecture)[i]
    BY <2>1, <2>2, ImportsAre
  <2>4. assumed # "unknown" /\ arch = assumed =>
          \A v \in ViewsOf(step.architecture) :
            \E i \in 1 .. Len(effects) : Invocations(step.architecture)[i] = v
    <3>1. Len(effects) = Len(Invocations(step.architecture))
      BY <2>1, <2>2, InvocationsAre DEF ImportRegistry
    <3> QED
      BY <1>1, <2>1, <3>1, InvocationsAre
  <2>5. Leaves(step) = {} /\ DOMAIN effects = 1 .. Len(effects)
    BY <1>8, <2>3 DEF Leaves, Provides
  <2> HIDE DEF effects
  <2>6. Form(effects)
    <3>1. \A i \in 1 .. Len(effects) : \A k \in i .. Len(effects) : k \in 1 .. Len(effects)
      BY <2>3
    <3> QED
      BY <2>3, <2>5, <3>1 DEF Form, FormAt, DoAt, Replaces
  <2>7. Serves(effects, step)
    BY <1>8, <2>1, <2>3, <2>4, <2>5 DEF Serves
  <2> QED
    BY <2>3, <2>6, <2>7 DEF effects
<1>9. CASE step.kind = "remove_symlink"
  <2>1. step.link \in Links
    BY <1>9, StepTypes
  <2>2. effects = <<[do |-> "unlink", link |-> step.link]>>
    BY <1>9 DEF Handle
  <2>3. [do |-> "unlink", link |-> step.link] \in Changes
    BY <2>1 DEF Changes
  <2>4. /\ effects \in Seq(Changes) /\ Len(effects) = 1 /\ DOMAIN effects = {1}
        /\ effects[1].do = "unlink" /\ effects[1].link = step.link
    BY <2>2, <2>3
  <2> HIDE DEF effects
  <2>5. Leaves(step) = {}
    BY <1>9 DEF Leaves, Provides
  <2>6. Form(effects) /\ Serves(effects, step)
    BY <1>9, <2>4, <2>5 DEF Form, FormAt, DoAt, Replaces, Serves
  <2> QED
    BY <2>4, <2>6 DEF effects
<1>10. CASE step.kind = "isolate_home"
  <2> DEFINE isolate == [do |-> "isolate_home"]
  <2>1. effects = <<isolate>> /\ isolate \in Changes /\ isolate.do = "isolate_home"
    BY <1>10, ChangesMade DEF Handle
  <2>2. /\ effects \in Seq(Changes) /\ Len(effects) = 1 /\ DOMAIN effects = {1}
        /\ effects[1].do = "isolate_home"
    BY <2>1, OneChange
  <2> HIDE DEF effects
  <2>3. Leaves(step) = {}
    BY <1>10 DEF Leaves, Provides
  <2>4. Form(effects) /\ Serves(effects, step)
    BY <1>10, <2>2, <2>3 DEF Form, FormAt, DoAt, Replaces, Serves
  <2> QED
    BY <2>2, <2>4 DEF effects
<1>11. CASE step.kind = "remove_mono"
  <2>1. effects = RemoveMono
    BY <1>11 DEF Handle
  <2> DEFINE uninstall == [do |-> "uninstall_mono"]
             clean == [do |-> "remove_shims"]
  <2>2. /\ uninstall \in Changes /\ uninstall.do = "uninstall_mono"
        /\ clean \in Changes /\ clean.do = "remove_shims"
    BY ChangesMade
  <2>3. Leaves(step) = {}
    BY <1>11 DEF Leaves, Provides
  <2>4. CASE mono
    <3>1. effects = <<uninstall, clean>>
      BY <2>1, <2>4 DEF RemoveMono
    <3>2. /\ effects \in Seq(Changes) /\ Len(effects) = 2 /\ DOMAIN effects = {1, 2}
          /\ effects[1].do = "uninstall_mono" /\ effects[2].do = "remove_shims"
      <4>1. effects = <<uninstall, clean>> /\ uninstall \in Changes /\ clean \in Changes
        BY <2>2, <3>1
      <4>2. /\ effects \in Seq(Changes) /\ Len(effects) = 2 /\ DOMAIN effects = {1, 2}
            /\ effects[1] = uninstall /\ effects[2] = clean
        <5> HIDE DEF effects, uninstall, clean
        <5> QED
          BY <4>1, TwoChanges
      <4> QED
        BY <2>2, <4>2
    <3> HIDE DEF effects
    <3>3. Form(effects) /\ Serves(effects, step)
      BY <1>11, <2>3, <3>2 DEF Form, FormAt, DoAt, Replaces, Serves
    <3> QED
      BY <3>2, <3>3 DEF effects
  <2>5. CASE ~mono
    <3>1. effects \in Seq(Changes) /\ DOMAIN effects = {}
      <4>1. effects = <<>>
        BY <2>1, <2>5 DEF RemoveMono
      <4> QED
        BY <4>1
    <3> HIDE DEF effects
    <3>2. Form(effects) /\ Serves(effects, step)
      BY <1>11, <2>3, <2>5, <3>1 DEF Form, FormAt, DoAt, Replaces, Serves
    <3> QED
      BY <3>1, <3>2 DEF effects
  <2> QED
    BY <2>4, <2>5
<1> QED
  BY <1>3, <1>4, <1>5, <1>6, <1>7, <1>8, <1>9, <1>10, <1>11, StepTypes

-----------------------------------------------------------------------------
(* The form of an attempt.                                                 *)

\* An attempt's recipe is one, and so is its current step.
LEMMA CurrentStep ==
  ASSUME StepTypeOK, recipe # NoRecipe
  PROVE  /\ recipe \in Recipes /\ Len(StepsOf[recipe]) \in Nat /\ begun \in 0 .. Len(StepsOf[recipe])
         /\ \A i \in 1 .. Len(StepsOf[recipe]) : Step(i) \in Steps
         /\ ToSet(StepsOf[recipe]) = {Step(i) : i \in 1 .. Len(StepsOf[recipe])}
BY StepsTyped DEF StepTypeOK, Step

\* The change that is made is one, and its step's recipe is attempted.
LEMMA CurrentChange ==
  ASSUME ShapeInv, todo # <<>>
  PROVE  /\ recipe # NoRecipe /\ recipe \in Recipes
         /\ Head(todo) = todo[1] /\ Head(todo) \in Changes /\ Head(todo) \in Left
         /\ Len(todo) \in Nat \ {0} /\ DOMAIN todo = 1 .. Len(todo) /\ todo \in Seq(Changes)
         /\ Left = {Head(todo)} \cup ToSet(Tail(todo))
<1>1. todo \in Seq(Changes) /\ recipe # NoRecipe /\ recipe \in Recipes
  BY DEF ShapeInv, StepTypeOK
<1> QED
  BY <1>1, TailLeft DEF Left

\* A change that is made leaves the rest of its step.
LEMMA DoneShape ==
  ASSUME ShapeInv, todo # <<>>, todo' = Tail(todo)
  PROVE  /\ todo' \in Seq(Changes) /\ Form(todo') /\ Fitting'
         /\ Len(todo') = Len(todo) - 1
         /\ Left = {Head(todo)} \cup Left'
         /\ Len(todo) = 1 => Left' = {}
<1>1. /\ todo \in Seq(Changes) /\ Form(todo) /\ Len(todo) \in Nat \ {0}
      /\ DOMAIN todo = 1 .. Len(todo)
  BY CurrentChange DEF ShapeInv
<1>2. /\ todo' \in Seq(Changes) /\ Len(todo') = Len(todo) - 1
      /\ DOMAIN todo' = 1 .. Len(todo) - 1
      /\ \A i \in 1 .. Len(todo) - 1 : todo'[i] = todo[i + 1] /\ i + 1 \in 1 .. Len(todo)
      /\ ToSet(todo) = {Head(todo)} \cup ToSet(todo')
  BY <1>1, TailLeft
<1>3. Form(todo')
  <2> SUFFICES ASSUME NEW i \in 1 .. Len(todo) - 1 PROVE FormAt(todo', i)
    BY <1>2 DEF Form
  <2>1. /\ \A k \in 1 .. Len(todo) - 1 : DoAt(todo', k) = DoAt(todo, k + 1)
        /\ todo'[i] = todo[i + 1] /\ i + 1 \in DOMAIN todo /\ i + 1 # 1 /\ Len(todo) # 1
    BY <1>1, <1>2 DEF DoAt
  <2>2. FormAt(todo, i + 1)
    BY <1>1, <2>1 DEF Form
  <2>3. DoAt(todo', i) = "replace" => Replaces(todo'[i])
    BY <2>1, <2>2 DEF FormAt
  <2>4. ASSUME DoAt(todo', i) = "import", NEW k \in i .. Len(todo') PROVE DoAt(todo', k) = "import"
    <3>1. k \in 1 .. Len(todo) - 1 /\ k + 1 \in i + 1 .. Len(todo)
      BY <1>1, <1>2
    <3> QED
      BY <2>1, <2>2, <2>4, <3>1 DEF FormAt
  <2>5. DoAt(todo', i) = "remove_shims" => Len(todo') = 1
    <3>1. DoAt(todo, i + 1) = "remove_shims" => Len(todo) = 2
      BY <2>1, <2>2 DEF FormAt
    <3>2. DoAt(todo', i) = DoAt(todo, i + 1)
      BY <2>1
    <3>3. Len(todo) = 2 => Len(todo') = 1
      BY <1>2
    <3> QED
      BY <3>1, <3>2, <3>3
  <2>6. DoAt(todo', i) \notin {"initialize", "move", "remove", "need", "uninstall_mono"}
    BY <2>1, <2>2 DEF FormAt
  <2> QED
    BY <2>3, <2>4, <2>5, <2>6 DEF FormAt
<1>4. Fitting'
  <2>1. ASSUME todo' # <<>> PROVE Head(todo').do \notin {"initialize", "move", "remove"}
    <3>1. Len(todo) # 1 /\ Head(todo') = todo[2] /\ 2 \in DOMAIN todo
      BY <1>1, <1>2, <2>1
    <3>2. FormAt(todo, 2)
      BY <1>1, <3>1 DEF Form
    <3>3. DoAt(todo, 2) \notin {"initialize", "move", "remove"}
      BY <3>1, <3>2 DEF FormAt
    <3> QED
      BY <3>1, <3>3 DEF DoAt
  <2> QED
    BY <2>1 DEF Fitting, Doing
<1>5. Len(todo) = 1 => ToSet(todo') = {}
  BY <1>2 DEF ToSet
<1> QED
  BY <1>2, <1>3, <1>4, <1>5 DEF Left

\* A font that was cleared is written next, in the place of its change.
LEMMA ClearedShape ==
  ASSUME ShapeInv, ClearFont
  PROVE  LET font == [do |-> "write", file |-> Head(todo).file] IN
         /\ todo' \in Seq(Changes) /\ Form(todo') /\ Fitting'
         /\ font \in Left' /\ font.do = "write" /\ font.file = Head(todo).file
         /\ \A change \in Left : change = Head(todo) \/ change \in Left'
         /\ \A change \in Left' : change = font \/ change \in Left
         /\ \A change \in Left : change.do # "need"
         /\ \A change \in Left' : change.do # "need"
         /\ Head(todo).file \in Fonts /\ Head(todo).from \notin Fonts
<1> DEFINE f == Head(todo).file
           font == [do |-> "write", file |-> f]
<1>1. /\ todo # <<>> /\ Head(todo).do = "replace" /\ todo' = [todo EXCEPT ![1] = font]
  BY DEF ClearFont, Doing
<1>2. /\ todo \in Seq(Changes) /\ Form(todo) /\ Len(todo) \in Nat \ {0}
      /\ DOMAIN todo = 1 .. Len(todo) /\ Head(todo) = todo[1] /\ Head(todo) \in Changes
  BY <1>1, CurrentChange DEF ShapeInv
<1>3. f \in Files
  BY <1>1, <1>2, ChangeTypes
<1>4. font \in Changes /\ font.do = "write" /\ font.file = f
  BY <1>3, ChangesMade
<1> HIDE DEF font, f
<1>5. /\ todo' \in Seq(Changes) /\ Len(todo') = Len(todo) /\ DOMAIN todo' = 1 .. Len(todo)
      /\ todo'[1] = font /\ \A i \in 2 .. Len(todo) : todo'[i] = todo[i]
      /\ Head(todo') = font
  BY <1>1, <1>2, <1>4
<1>6. DoAt(todo, 1) = "replace" /\ DoAt(todo', 1) = "write"
  BY <1>1, <1>2, <1>4, <1>5 DEF DoAt
<1>7. \A i \in 2 .. Len(todo) : /\ i \in 1 .. Len(todo) /\ i # 1
                                /\ DoAt(todo', i) = DoAt(todo, i) /\ todo'[i] = todo[i]
  BY <1>2, <1>5 DEF DoAt
<1>14. \A i \in 1 .. Len(todo) : FormAt(todo, i)
  BY <1>2 DEF Form
<1>15. \A i \in 1 .. Len(todo) : DoAt(todo, i) # "need"
  BY <1>2, <1>6, <1>14 DEF FormAt
<1>8. Form(todo')
  <2> SUFFICES ASSUME NEW i \in 1 .. Len(todo) PROVE FormAt(todo', i)
    BY <1>5 DEF Form
  <2>1. CASE i = 1
    BY <1>6, <2>1 DEF FormAt
  <2>2. CASE i # 1
    <3>1. i \in 2 .. Len(todo) /\ \A k \in i .. Len(todo) : k \in 2 .. Len(todo)
      BY <1>2, <2>2
    <3>2. FormAt(todo, i) /\ DoAt(todo', i) = DoAt(todo, i) /\ todo'[i] = todo[i]
      BY <1>7, <1>14, <3>1
    <3>3. DoAt(todo, i) = "import" => \A k \in i .. Len(todo) : DoAt(todo', k) = "import"
      BY <1>7, <3>1, <3>2 DEF FormAt
    <3>4. DoAt(todo, i) \notin {"uninstall_mono", "need"}
      BY <2>2, <3>2 DEF FormAt
    <3>8. Len(todo) # 1
      BY <1>2, <2>2
    <3>5. DoAt(todo, i) # "remove_shims"
      BY <1>6, <3>2, <3>8 DEF FormAt
    <3>6. DoAt(todo, i) \notin {"initialize", "move", "remove"}
      BY <3>2, <3>8 DEF FormAt
    <3>7. DoAt(todo, i) = "replace" => Replaces(todo'[i])
      BY <3>2 DEF FormAt
    <3> QED
      BY <1>5, <3>2, <3>3, <3>4, <3>5, <3>6, <3>7 DEF FormAt
  <2> QED
    BY <2>1, <2>2
<1>9. Fitting'
  BY <1>4, <1>5 DEF Fitting, Doing
<1>10. /\ font \in ToSet(todo')
       /\ \A change \in ToSet(todo) : change = Head(todo) \/ change \in ToSet(todo')
       /\ \A change \in ToSet(todo') : change = font \/ change \in ToSet(todo)
  <2>1. \A i \in 1 .. Len(todo) : i = 1 \/ i \in 2 .. Len(todo)
    BY <1>2
  <2>2. ToSet(todo) = {todo[i] : i \in 1 .. Len(todo)} /\ ToSet(todo') = {todo'[i] : i \in 1 .. Len(todo)}
    BY <1>2, <1>5 DEF ToSet
  <2>3. 1 \in 1 .. Len(todo) /\ \A i \in 2 .. Len(todo) : i \in 1 .. Len(todo)
    BY <1>2
  <2> QED
    BY <1>2, <1>5, <2>1, <2>2, <2>3
<1>11. \A change \in ToSet(todo) : change.do # "need"
  BY <1>2, <1>15 DEF ToSet, DoAt
<1>12. f \in Fonts /\ Head(todo).from \notin Fonts
  <2>1. FormAt(todo, 1)
    BY <1>2, <1>14
  <2>2. Replaces(todo[1])
    BY <1>6, <2>1 DEF FormAt
  <2> QED
    BY <1>2, <2>2 DEF Replaces, f
<1>13. \A change \in ToSet(todo') : change.do # "need"
  BY <1>4, <1>10, <1>11
<1> QED
  BY <1>4, <1>5, <1>8, <1>9, <1>10, <1>11, <1>12, <1>13 DEF Left, font, f

\* A step that begins is expanded into changes of its form.
LEMMA BegunShape ==
  ASSUME ShapeInv, BeginStep
  PROVE  /\ recipe \in Recipes /\ todo = <<>> /\ Left = {} /\ arch # "none"
         /\ begun \in Nat /\ begun' = begun + 1 /\ begun + 1 \in 1 .. Len(StepsOf[recipe])
         /\ Step(begun + 1) \in Steps
         /\ todo' \in Seq(Changes) /\ Form(todo') /\ Fitting'
         /\ Reached(begun + 1) => Serves(todo', Step(begun + 1))
         /\ ~Reached(begun + 1) => todo' = <<>>
<1> DEFINE step == Step(begun + 1)
<1>1. /\ recipe # NoRecipe /\ todo = <<>> /\ begun < Len(StepsOf[recipe])
      /\ todo' = Expand(step) /\ begun' = begun + 1 /\ UNCHANGED <<recipe, arch, assumed>>
  BY DEF BeginStep, Step, prefix
<1>2. StepTypeOK /\ Architecture
  BY DEF ShapeInv
<1>3. /\ recipe \in Recipes /\ begun \in Nat /\ begun + 1 \in 1 .. Len(StepsOf[recipe])
      /\ step \in Steps
  BY <1>1, <1>2, CurrentStep
<1>4. arch # "none" /\ (assumed # "unknown" => arch = assumed)
  BY <1>1, <1>2 DEF Architecture, Doing
<1> HIDE DEF step
<1>6. CASE ~(step.only64 => Is64Bit)
  <2>1. todo' = <<>>
    BY <1>1, <1>6 DEF Expand
  <2>2. todo' \in Seq(Changes) /\ Form(todo') /\ Fitting'
    BY <2>1 DEF Form, FormAt, DoAt, Replaces, Fitting, Doing
  <2> QED
    BY <1>1, <1>3, <1>4, <1>6, <2>1, <2>2, LeftTypes DEF step, Reached
<1>7. CASE step.only64 => Is64Bit
  <2>1. step.only64 \in BOOLEAN
    BY <1>3, StepTypes
  <2>2. todo' = Handle(step)
    BY <1>1, <1>7, <2>1 DEF Expand
  <2>3. todo' \in Seq(Changes) /\ Form(todo') /\ Serves(todo', step)
    BY <1>2, <1>3, <2>2, Handled
  <2>4. Fitting'
    <3>1. CASE todo' = <<>>
      BY <3>1 DEF Fitting, Doing
    <3>2. CASE todo' # <<>>
      <4>1. Head(todo') = todo'[1] /\ 1 \in DOMAIN todo'
        BY <2>3, <3>2
      <4>2. Step(begun)' = step
        BY <1>1 DEF Step, step
      <4>3. begun' > 0
        BY <1>1, <1>3
      <4>4. todo'[1].do # "initialize"
        BY <2>3, <4>1 DEF Serves
      <4>5. todo'[1].do = "move" =>
              step.kind = "move" /\ step.from = todo'[1].from /\ step.to = todo'[1].file
        BY <2>3, <4>1 DEF Serves
      <4>6. todo'[1].do = "remove" => step.kind = "remove" /\ step.file = todo'[1].file
        BY <2>3, <4>1 DEF Serves
      <4> QED
        BY <4>1, <4>2, <4>3, <4>4, <4>5, <4>6 DEF Fitting, Doing
    <3> QED
      BY <3>1, <3>2
  <2> QED
    BY <1>1, <1>3, <1>4, <1>7, <2>3, <2>4, LeftTypes DEF step, Reached
<1> QED
  BY <1>6, <1>7


-----------------------------------------------------------------------------
(* The form of an attempt is kept.                                         *)

\* What is left stays with its attempt when a change of it is made.
LEMMA DoneFrame ==
  ASSUME ShapeInv, todo # <<>>, Done
  PROVE  /\ recipe' = recipe /\ begun' = begun /\ assumed' = assumed /\ attempts' = attempts
         /\ blind' = blind
         /\ todo' \in Seq(Changes) /\ Form(todo') /\ Fitting'
         /\ Left = {Head(todo)} \cup Left' /\ Left' \subseteq Left
         /\ recipe # NoRecipe /\ begun \in 0 .. Len(StepsOf[recipe])
         /\ arch' = arch /\ installed' = installed /\ ~Doing("initialize") => Architecture'
<1>1. recipe' = recipe /\ begun' = begun /\ assumed' = assumed /\ attempts' = attempts /\ blind' = blind
  BY DEF Done, Proceed
<1>2. todo' = Tail(todo)
  BY DEF Done
<1>3. /\ todo' \in Seq(Changes) /\ Form(todo') /\ Fitting'
      /\ Left = {Head(todo)} \cup Left'
  BY <1>2, DoneShape
<1>4. recipe # NoRecipe /\ begun \in 0 .. Len(StepsOf[recipe])
  BY CurrentChange DEF ShapeInv, StepTypeOK
<1>5. arch' = arch /\ installed' = installed /\ ~Doing("initialize") => Architecture'
  BY <1>1, <1>4 DEF ShapeInv, Architecture
<1> QED
  BY <1>1, <1>3, <1>4, <1>5

\* What is imported has the form of the registry.
RegistryOK ==
  /\ registry \in [Views -> [Values -> Data \cup Fonts \cup {Unset}]]
  /\ overwritten \subseteq Recipes \X Views \X Keys

LEMMA SetTyped ==
  ASSUME RegistryOK, NEW v \in Views, NEW values \in RegistryFiles, NEW some \in SUBSET DOMAIN values,
         Set(v, values, some)
  PROVE  RegistryOK'
<1>1. \A k \in some : values[k] \in Data \cup Fonts \cup {Unset}
  BY SettingsAre DEF RegistryFiles
<1> DEFINE now == [k \in Values |-> IF k \in some THEN values[k] ELSE registry[v][k]]
<1>2. registry' = [registry EXCEPT ![v] = now]
  BY DEF Set
<1>3. now \in [Values -> Data \cup Fonts \cup {Unset}]
  BY <1>1 DEF RegistryOK
<1> HIDE DEF now
<1>4. registry' \in [Views -> [Values -> Data \cup Fonts \cup {Unset}]]
  BY <1>2, <1>3 DEF RegistryOK
<1>5. overwritten' \subseteq Recipes \X Views \X Keys
  <2>1. (Recipes \ {recipe}) \X {v} \X (some \cap Keys) \subseteq Recipes \X Views \X Keys
    OBVIOUS
  <2> QED
    BY <2>1 DEF Set, RegistryOK
<1> QED
  BY <1>4, <1>5 DEF RegistryOK

\* No attempt leaves its form.
LEMMA ShapeStep ==
  ASSUME ShapeInv, [StepNext]_stepVars
  PROVE  ShapeInv'
<1>1. StepTypeOK /\ Architecture /\ Form(todo) /\ Fitting /\ RegistryOK
  BY DEF ShapeInv, StepTypeOK, RegistryOK
<1>2. ASSUME todo # <<>> PROVE Head(todo) \in Changes
  BY <1>2, CurrentChange
<1>3. CASE UNCHANGED stepVars
  <2>1. /\ UNCHANGED <<arch, file, registry, linked, mono, shims, installed>>
        /\ UNCHANGED <<recipe, assumed, begun, todo, attempts, torn, overwritten, blind, monoCut>>
    BY <1>3 DEF stepVars, prefix, attempt, history
  <2>2. StepTypeOK'
    BY <1>1, <2>1 DEF StepTypeOK
  <2>3. Architecture' /\ Form(todo')
    BY <1>1, <2>1 DEF Architecture, Doing
  <2>4. Fitting'
    BY <1>1, <2>1 DEF Fitting, Doing, Step
  <2> QED
    BY <2>2, <2>3, <2>4 DEF ShapeInv
<1>4. ASSUME NEW r \in Recipes, BeginAttempt(r) PROVE ShapeInv'
  <2>1. /\ recipe' = r /\ begun' = 0 /\ attempts' \in 0 .. MaxAttempts
        /\ UNCHANGED <<arch, file, registry, linked, mono, shims, installed, torn, overwritten, blind, monoCut>>
        /\ r # NoRecipe /\ StepsOf[r] \in Seq(Steps)
    BY <1>1, <1>4, StepAssumption, StepsTyped
       DEF BeginAttempt, StepTypeOK, StepAssumption, prefix, history
  <2>2. CASE arch # "none" /\ assumed' = arch /\ todo' = <<>>
    <3>1. StepTypeOK'
      BY <1>1, <2>1, <2>2 DEF StepTypeOK
    <3>2. Architecture' /\ Form(todo') /\ Fitting'
      BY <1>1, <2>1, <2>2 DEF Architecture, Form, Fitting, Doing
    <3> QED
      BY <3>1, <3>2 DEF ShapeInv
  <2>3. CASE assumed' = "unknown" /\ todo' = <<[do |-> "initialize"]>>
    <3>1. [do |-> "initialize"] \in Changes
      BY ChangesMade
    <3>2. PICK change \in Changes : change.do = "initialize" /\ todo' = <<change>>
      BY <2>3, <3>1
    <3>3. /\ todo' \in Seq(Changes) /\ Len(todo') = 1 /\ DOMAIN todo' = {1}
          /\ todo'[1].do = "initialize" /\ Head(todo') = todo'[1] /\ todo' # <<>>
      BY <3>2, OneChange
    <3>4. Form(todo')
      BY <3>3 DEF Form, FormAt, DoAt
    <3>5. StepTypeOK'
      BY <1>1, <2>1, <2>3, <3>3 DEF StepTypeOK
    <3>6. Architecture' /\ Fitting'
      BY <1>1, <2>1, <2>3, <3>3 DEF Architecture, Fitting, Doing
    <3> QED
      BY <3>4, <3>5, <3>6 DEF ShapeInv
  <2> QED
    BY <1>4, <2>2, <2>3 DEF BeginAttempt
<1>5. CASE BeginStep
  <2>1. /\ todo' \in Seq(Changes) /\ Form(todo') /\ Fitting' /\ arch # "none"
        /\ begun' \in 0 .. Len(StepsOf[recipe]) /\ recipe # NoRecipe
    <3>1. recipe \in Recipes /\ begun \in Nat /\ begun + 1 \in 1 .. Len(StepsOf[recipe]) /\ begun' = begun + 1
      BY <1>5, BegunShape
    <3> QED
      BY <1>5, <3>1, BegunShape DEF BeginStep
  <2>2. /\ UNCHANGED <<arch, file, registry, linked, mono, shims, installed, torn, overwritten, blind, monoCut>>
        /\ UNCHANGED <<recipe, assumed, attempts>>
    BY <1>5 DEF BeginStep, prefix, history
  <2>3. StepTypeOK'
    BY <1>1, <2>1, <2>2 DEF StepTypeOK
  <2>4. Architecture'
    BY <1>1, <2>1, <2>2 DEF Architecture
  <2> QED
    BY <2>1, <2>3, <2>4 DEF ShapeInv
<1>6. ASSUME todo # <<>>, Done,
             arch' \in {"none", "win32", "win64", "wow64"}, Architecture', UNCHANGED installed,
             file' \in [Files -> {"absent", "half", "whole"}],
             RegistryOK',
             linked' \subseteq Links, mono' \in BOOLEAN, shims' \in BOOLEAN, monoCut' \in BOOLEAN,
             torn' \subseteq Files
      PROVE  ShapeInv'
  <2>1. StepTypeOK'
    BY <1>1, <1>6, DoneFrame DEF StepTypeOK, RegistryOK
  <2> QED
    BY <1>6, <2>1, DoneFrame DEF ShapeInv
<1>7. CASE InitializePrefix
  <2>1. todo # <<>> /\ Done /\ recipe' = recipe /\ assumed' = assumed
    BY <1>7 DEF InitializePrefix, Doing, Done, Proceed
  <2>2. arch' \in {"win32", "win64", "wow64"} /\ (arch # "none" => arch' = arch)
    BY <1>1, <1>7 DEF InitializePrefix, StepTypeOK
  <2>3. assumed \in {"unknown", "win32", "win64", "wow64"} /\ installed' = installed
    BY <1>1, <1>7 DEF InitializePrefix, StepTypeOK
  <2>4. Architecture'
    BY <1>1, <2>1, <2>2, <2>3 DEF Architecture
  <2> QED
    BY <1>1, <1>6, <1>7, <2>1, <2>2, <2>4 DEF InitializePrefix, StepTypeOK, RegistryOK
<1>8. CASE Import
  <2>1. todo # <<>> /\ Done /\ Head(todo).do = "import" /\ ~Doing("initialize")
    BY <1>8 DEF Import, Doing
  <2>2. Head(todo).view \in Views /\ Head(todo).values \in RegistryFiles
    BY <1>2, <2>1, ChangeTypes
  <2>3. RegistryOK'
    BY <1>1, <1>8, <2>2, SetTyped DEF Import
  <2>4. Architecture'
    BY <1>8, <2>1, DoneFrame DEF Import
  <2>5. UNCHANGED <<arch, file, linked, mono, shims, installed, torn, monoCut>>
    BY <1>8 DEF Import
  <2> QED
    BY <1>1, <1>6, <2>1, <2>3, <2>4, <2>5 DEF StepTypeOK
<1>9. CASE Need
  <2>1. todo # <<>> /\ Done /\ ~Doing("initialize")
        /\ UNCHANGED <<prefix, torn, overwritten, monoCut>>
    BY <1>9 DEF Need, Doing
  <2>2. Architecture'
    BY <2>1, DoneFrame DEF prefix
  <2> QED
    BY <1>1, <1>6, <2>1, <2>2 DEF StepTypeOK, RegistryOK, prefix
<1>10. CASE Write
  <2>1. todo # <<>> /\ Done /\ Head(todo).do = "write" /\ ~Doing("initialize")
    BY <1>10 DEF Write, Doing
  <2>2. Head(todo).file \in Files
    BY <1>2, <2>1, ChangeTypes
  <2>3. file' \in [Files -> {"absent", "half", "whole"}] /\ torn' \subseteq Files
    BY <1>1, <1>10, <2>2 DEF Write, StepTypeOK
  <2>4. Architecture'
    BY <1>10, <2>1, DoneFrame DEF Write
  <2> QED
    BY <1>1, <1>6, <1>10, <2>1, <2>3, <2>4 DEF Write, StepTypeOK, RegistryOK
<1>11. CASE ClearFont
  <2>1. todo # <<>> /\ Head(todo).do = "replace" /\ ~Doing("initialize")
    BY <1>11 DEF ClearFont, Doing
  <2>2. Head(todo).file \in Files
    BY <1>2, <2>1, ChangeTypes
  <2>3. file' \in [Files -> {"absent", "half", "whole"}] /\ torn' \subseteq Files
    BY <1>1, <1>11, <2>2 DEF ClearFont, StepTypeOK
  <2>4. recipe # NoRecipe /\ begun \in 0 .. Len(StepsOf[recipe])
    BY <1>1, <2>1 DEF StepTypeOK
  <2>5. /\ UNCHANGED <<recipe, assumed, begun, attempts, blind>>
        /\ UNCHANGED <<arch, registry, linked, mono, shims, installed, overwritten, monoCut>>
    BY <1>11 DEF ClearFont, Proceed
  <2>6. todo' \in Seq(Changes) /\ Form(todo') /\ Fitting'
    BY <1>11, ClearedShape
  <2>7. StepTypeOK'
    BY <1>1, <2>3, <2>4, <2>5, <2>6 DEF StepTypeOK
  <2>8. Architecture'
    BY <1>1, <2>1, <2>4, <2>5 DEF Architecture
  <2> QED
    BY <2>6, <2>7, <2>8 DEF ShapeInv
<1>12. CASE Move
  <2>1. todo # <<>> /\ Done /\ Head(todo).do = "move" /\ ~Doing("initialize")
    BY <1>12 DEF Move, Doing
  <2>2. Head(todo).file \in Files /\ Head(todo).from \in Files
    BY <1>2, <2>1, ChangeTypes
  <2>3. file' \in [Files -> {"absent", "half", "whole"}] /\ torn' \subseteq Files
    BY <1>1, <1>12, <2>2 DEF Move, StepTypeOK
  <2>4. Architecture'
    BY <1>12, <2>1, DoneFrame DEF Move
  <2> QED
    BY <1>1, <1>6, <1>12, <2>1, <2>3, <2>4 DEF Move, StepTypeOK, RegistryOK
<1>13. CASE Delete
  <2>1. todo # <<>> /\ Done /\ ~Doing("initialize")
    BY <1>13 DEF Delete, Doing
  <2>2. file' \in [Files -> {"absent", "half", "whole"}]
    BY <1>1, <1>13 DEF Delete, StepTypeOK
  <2>3. Architecture'
    BY <1>13, <2>1, DoneFrame DEF Delete
  <2> QED
    BY <1>1, <1>6, <1>13, <2>1, <2>2, <2>3 DEF Delete, StepTypeOK, RegistryOK
<1>14. CASE Unlink
  <2>1. todo # <<>> /\ Done /\ ~Doing("initialize")
    BY <1>14 DEF Unlink, Doing
  <2>2. Architecture'
    BY <1>14, <2>1, DoneFrame DEF Unlink
  <2> QED
    BY <1>1, <1>6, <1>14, <2>1, <2>2 DEF Unlink, StepTypeOK, RegistryOK
<1>15. CASE IsolateHome
  <2>1. todo # <<>> /\ ~Doing("initialize") /\ linked' \subseteq linked
        /\ UNCHANGED <<arch, file, registry, mono, shims, installed, torn, overwritten, monoCut>>
    BY <1>15 DEF IsolateHome, Doing
  <2>2. CASE Done
    <3>1. Architecture'
      BY <2>1, <2>2, DoneFrame
    <3> QED
      BY <1>1, <1>6, <2>1, <2>2, <3>1 DEF StepTypeOK, RegistryOK
  <2>3. CASE UNCHANGED todo /\ Proceed
    <3>1. UNCHANGED <<recipe, assumed, begun, attempts, blind>>
      BY <2>3 DEF Proceed
    <3>2. StepTypeOK'
      BY <1>1, <2>1, <2>3, <3>1 DEF StepTypeOK
    <3>3. Architecture' /\ Form(todo') /\ Fitting'
      BY <1>1, <2>1, <2>3, <3>1 DEF Architecture, Fitting, Doing, Step
    <3> QED
      BY <3>2, <3>3 DEF ShapeInv
  <2> QED
    BY <1>15, <2>2, <2>3 DEF IsolateHome
<1>16. CASE UninstallMono
  <2>1. todo # <<>> /\ Done /\ ~Doing("initialize")
    BY <1>16 DEF UninstallMono, Doing
  <2>2. Architecture'
    BY <1>16, <2>1, DoneFrame DEF UninstallMono
  <2> QED
    BY <1>1, <1>6, <1>16, <2>1, <2>2 DEF UninstallMono, StepTypeOK, RegistryOK
<1>17. CASE RemoveShims
  <2>1. todo # <<>> /\ Done /\ ~Doing("initialize")
    BY <1>17 DEF RemoveShims, Doing
  <2>2. Architecture'
    BY <1>17, <2>1, DoneFrame DEF RemoveShims
  <2> QED
    BY <1>1, <1>6, <1>17, <2>1, <2>2 DEF RemoveShims, StepTypeOK, RegistryOK
<1>18. CASE Complete
  <2>1. /\ recipe \in Recipes /\ todo = <<>> /\ todo' = <<>> /\ arch # "none"
        /\ installed' = installed \cup {recipe} /\ blind' \subseteq blind \cup {recipe}
        /\ recipe' = NoRecipe /\ assumed' = "unknown" /\ begun' = 0
        /\ UNCHANGED <<arch, file, registry, linked, mono, shims, attempts, torn, monoCut>>
        /\ overwritten' \subseteq overwritten
    BY <1>1, <1>18 DEF Complete, StepTypeOK, Architecture, Doing
  <2>2. StepTypeOK'
    BY <1>1, <2>1 DEF StepTypeOK
  <2> QED
    BY <2>1, <2>2 DEF ShapeInv, Architecture, Form, Fitting, Doing
<1>19. CASE Interrupt
  <2>1. /\ recipe # NoRecipe /\ recipe' = NoRecipe /\ assumed' = "unknown" /\ begun' = 0
        /\ todo' = <<>> /\ UNCHANGED <<attempts, blind>>
        /\ UNCHANGED <<arch, linked, shims, installed>>
    BY <1>19 DEF Interrupt, prefix
  <2>2. /\ Doing("write") => Head(todo).file \in Files
        /\ Doing("import") => /\ Head(todo).view \in Views
                              /\ Head(todo).values \in RegistryFiles
    BY <1>2, ChangeTypes DEF Doing
  <2>3. file' \in [Files -> {"absent", "half", "whole"}] /\ torn' \subseteq Files
    BY <1>1, <1>19, <2>2 DEF Interrupt, StepTypeOK, prefix
  <2>4. RegistryOK'
    <3>1. CASE UNCHANGED <<registry, overwritten>>
      BY <1>1, <3>1 DEF RegistryOK
    <3>2. CASE ~UNCHANGED <<registry, overwritten>>
      <4>1. Doing("import") /\ \E some \in SUBSET DOMAIN Head(todo).values :
                                Set(Head(todo).view, Head(todo).values, some)
        BY <1>19, <3>2 DEF Interrupt, prefix
      <4> QED
        BY <1>1, <2>2, <4>1, SetTyped
    <3> QED
      BY <3>1, <3>2
  <2>5. mono' \in BOOLEAN
    BY <1>1, <1>19 DEF Interrupt, StepTypeOK, prefix
  <2>6. monoCut' \in BOOLEAN
    BY <1>1, <1>19 DEF Interrupt, StepTypeOK
  <2>7. StepTypeOK'
    BY <1>1, <2>1, <2>3, <2>4, <2>5, <2>6 DEF StepTypeOK, RegistryOK
  <2> QED
    BY <1>1, <2>1, <2>7 DEF ShapeInv, Architecture, Form, Fitting, Doing
<1> QED
  BY <1>3, <1>4, <1>5, <1>7, <1>8, <1>9, <1>10, <1>11, <1>12, <1>13, <1>14, <1>15, <1>16, <1>17,
     <1>18, <1>19 DEF StepNext

-----------------------------------------------------------------------------
(* What the steps of an attempt never take back.                           *)

\* What is done to a prefix is not undone, but for its files.
LEMMA Progress ==
  ASSUME ShapeInv, [StepNext]_stepVars
  PROVE  /\ arch # "none" => arch' = arch
         /\ linked' \subseteq linked
         /\ (mono' => mono) /\ (shims' => shims) /\ (monoCut => monoCut')
<1>1. arch \in {"none", "win32", "win64", "wow64"}
  BY DEF ShapeInv, StepTypeOK
<1>2. CASE UNCHANGED stepVars
  BY <1>1, <1>2 DEF stepVars, prefix, attempt, history
<1>3. ASSUME NEW r \in Recipes, BeginAttempt(r)
      PROVE  UNCHANGED <<arch, linked, mono, shims, monoCut>>
  BY <1>3 DEF BeginAttempt, prefix, history
<1>4. CASE BeginStep \/ Need
  BY <1>1, <1>4 DEF BeginStep, Need, prefix, history
<1>5. CASE InitializePrefix
  BY <1>1, <1>5 DEF InitializePrefix
<1>6. CASE Import
  BY <1>1, <1>6 DEF Import
<1>7. CASE Write \/ Move \/ Delete \/ ClearFont
  BY <1>1, <1>7 DEF Write, Move, Delete, ClearFont
<1>8. CASE Unlink \/ IsolateHome
  <2>1. linked' \subseteq linked
    BY <1>8 DEF Unlink, IsolateHome
  <2>2. UNCHANGED <<arch, mono, shims, monoCut>>
    BY <1>8 DEF Unlink, IsolateHome
  <2> QED
    BY <2>1, <2>2
<1>9. CASE UninstallMono \/ RemoveShims
  <2>1. (mono' = FALSE \/ mono' = mono) /\ (shims' = FALSE \/ shims' = shims)
    BY <1>9 DEF UninstallMono, RemoveShims
  <2>2. UNCHANGED <<arch, linked, monoCut>>
    BY <1>9 DEF UninstallMono, RemoveShims
  <2> QED
    BY <2>1, <2>2
<1>10. CASE Complete
  BY <1>1, <1>10 DEF Complete
<1>11. CASE Interrupt
  <2>2. UNCHANGED <<arch, linked, shims>>
    BY <1>11 DEF Interrupt, prefix
  <2>3. mono' = FALSE \/ mono' = mono
    BY <1>11 DEF Interrupt, prefix
  <2>4. monoCut => monoCut'
    BY <1>11 DEF Interrupt
  <2> QED
    BY <2>2, <2>3, <2>4
<1> QED
  BY <1>2, <1>3, <1>4, <1>5, <1>6, <1>7, <1>8, <1>9, <1>10, <1>11 DEF StepNext

\* The registry changes by what the attempt imports, and the recipe that does is the
\* only one that has not had its values overwritten.
LEMMA RegistryStep ==
  ASSUME ShapeInv, [StepNext]_stepVars, NEW v \in Views, NEW k \in Values
  PROVE  \/ registry'[v][k] = registry[v][k]
         \/ /\ Doing("import") /\ recipe # NoRecipe /\ Head(todo) \in Left
            /\ Head(todo).view = v /\ k \in DOMAIN Head(todo).values
            /\ registry'[v][k] = Head(todo).values[k]
            /\ k \in Keys => \A r \in Recipes \ {recipe} : <<r, v, k>> \in overwritten'
<1> DEFINE w == Head(todo).view
           values == Head(todo).values
<1>1. RegistryOK
  BY DEF ShapeInv, StepTypeOK, RegistryOK
<1>2. CASE registry' = registry
  BY <1>2
<1>3. CASE registry' # registry
  <2>1. Import \/ Interrupt
    BY <1>3 DEF StepNext, stepVars, prefix, BeginAttempt, BeginStep, InitializePrefix, Need, Write,
                ClearFont, Move, Delete, Unlink, IsolateHome, UninstallMono, RemoveShims, Complete
  <2>2. Doing("import") /\ \E some \in SUBSET DOMAIN values : Set(w, values, some)
    BY <1>3, <2>1 DEF Import, Interrupt, prefix
  <2>3. PICK some \in SUBSET DOMAIN values : Set(w, values, some)
    BY <2>2
  <2>4. todo # <<>> /\ recipe # NoRecipe /\ Head(todo) \in Left
    BY <2>2, CurrentChange DEF Doing
  <2>5. registry' = [registry EXCEPT ![w] = [l \in Values |-> IF l \in some THEN values[l] ELSE registry[w][l]]]
    BY <2>3 DEF Set
  <2>6. overwritten' = overwritten \cup ((Recipes \ {recipe}) \X {w} \X (some \cap Keys))
    BY <2>3 DEF Set
  <2> HIDE DEF w, values
  <2>7. CASE w = v /\ k \in some
    <3>1. registry'[v][k] = values[k]
      BY <1>1, <2>5, <2>7 DEF RegistryOK
    <3>2. k \in Keys => \A r \in Recipes \ {recipe} : <<r, v, k>> \in overwritten'
      BY <2>6, <2>7
    <3> QED
      BY <2>2, <2>4, <2>7, <3>1, <3>2 DEF w, values
  <2>8. CASE ~(w = v /\ k \in some)
    <3>1. registry'[v][k] = registry[v][k]
      BY <1>1, <2>5, <2>8 DEF RegistryOK
    <3> QED
      BY <3>1
  <2> QED
    BY <2>7, <2>8
<1> QED
  BY <1>2, <1>3

\* What was overwritten stays so, but for the recipe that is installed.
LEMMA OverwrittenStays ==
  ASSUME [StepNext]_stepVars, NEW r, NEW v, NEW k, <<r, v, k>> \in overwritten,
         ~Complete \/ r # recipe
  PROVE  <<r, v, k>> \in overwritten'
<1>1. CASE Complete
  BY <1>1 DEF Complete
<1>2. CASE ~Complete
  BY <1>2 DEF StepNext, stepVars, history, BeginAttempt, BeginStep, InitializePrefix, Import, Need,
              Write, ClearFont, Move, Delete, Unlink, IsolateHome, UninstallMono, RemoveShims,
              Interrupt, Set
<1> QED
  BY <1>1, <1>2

\* An attempt that goes on keeps its recipe and its plan, and what it has begun; it
\* begins its first step in a prefix that is there.
LEMMA Continues ==
  ASSUME ShapeInv, [StepNext]_stepVars, recipe' # NoRecipe
  PROVE  \/ recipe = NoRecipe /\ \E r \in Recipes : BeginAttempt(r)
         \/ recipe # NoRecipe /\ BeginStep
         \/ /\ recipe # NoRecipe /\ recipe' = recipe /\ begun' = begun /\ assumed' = assumed
            /\ begun > 0 => arch' = arch
            /\ ~Interrupt /\ ~Complete
<1>1. \A r \in Recipes : ~(recipe # NoRecipe /\ BeginAttempt(r))
  BY DEF BeginAttempt
<1>2. ~Complete /\ ~Interrupt
  BY DEF Complete, Interrupt
<1>3. CASE recipe = NoRecipe
  <2>1. todo = <<>>
    BY <1>3 DEF ShapeInv, StepTypeOK
  <2>2. ~BeginStep
    BY <1>3 DEF BeginStep
  <2>3. UNCHANGED stepVars => recipe' = NoRecipe
    BY <1>3 DEF stepVars, attempt
  <2> QED
    BY <1>2, <1>3, <2>1, <2>2, <2>3
       DEF StepNext, InitializePrefix, Import, Need, Write, ClearFont, Move, Delete, Unlink,
           IsolateHome, UninstallMono, RemoveShims, Doing
<1>4. CASE recipe # NoRecipe
  <2>1. CASE UNCHANGED stepVars
    BY <1>2, <1>4, <2>1 DEF stepVars, prefix, attempt
  <2>2. CASE BeginStep
    BY <1>4, <2>2
  <2>3. CASE InitializePrefix
    <3>1. begun = 0
      BY <2>3 DEF InitializePrefix, ShapeInv, Fitting
    <3> QED
      BY <1>2, <1>4, <2>3, <3>1 DEF InitializePrefix, Done, Proceed
  <2>4. CASE Import \/ Need \/ Write \/ ClearFont \/ Move \/ Delete \/ Unlink \/ IsolateHome
             \/ UninstallMono \/ RemoveShims
    <3>1. UNCHANGED <<recipe, assumed, begun, arch>>
      BY <2>4 DEF Import, Need, Write, ClearFont, Move, Delete, Unlink, IsolateHome,
                  UninstallMono, RemoveShims, Done, Proceed, prefix
    <3> QED
      BY <1>2, <1>4, <3>1
  <2> QED
    BY <1>1, <1>2, <1>4, <2>1, <2>2, <2>3, <2>4 DEF StepNext
<1> QED
  BY <1>3, <1>4

\* What is left, by its form.
LEMMA FormLeft ==
  ASSUME ShapeInv
  PROVE  /\ Left \subseteq Changes
         /\ todo = <<>> => Left = {}
         /\ \A change \in Left :
              /\ todo # <<>>
              /\ change.do \in {"initialize", "move", "remove"} => Left = {change} /\ change = Head(todo)
              /\ change.do = "need" => change = Head(todo)
              /\ change.do = "replace" => change.from \notin Fonts /\ change.file \in Fonts
              /\ change.do = "remove_shims" => Doing("remove_shims") \/ Doing("uninstall_mono")
         /\ Doing("uninstall_mono") => \E change \in ToSet(Tail(todo)) : change.do = "remove_shims"
         /\ Doing("import") => \A change \in Left : change.do = "import"
<1>1. todo \in Seq(Changes) /\ Form(todo)
  BY DEF ShapeInv, StepTypeOK
<1>2. /\ Left \subseteq Changes /\ (todo = <<>> => Left = {})
      /\ Len(todo) \in Nat /\ DOMAIN todo = 1 .. Len(todo)
      /\ \A change \in Left : \E i \in 1 .. Len(todo) : change = todo[i]
  BY <1>1, LeftTypes
<1>3. \A i \in 1 .. Len(todo) : FormAt(todo, i)
  BY <1>1, <1>2 DEF Form
<1>4. ASSUME todo # <<>>
      PROVE  Head(todo) = todo[1] /\ 1 \in 1 .. Len(todo) /\ (Len(todo) = 1 => Left = {todo[1]})
  <2>1. Head(todo) = todo[1] /\ 1 \in 1 .. Len(todo)
    BY <1>1, <1>4
  <2>2. Len(todo) = 1 => Left = {todo[1]}
    BY <1>2 DEF Left, ToSet
  <2> QED
    BY <2>1, <2>2
<1>5. ASSUME NEW change \in Left
      PROVE  /\ todo # <<>>
             /\ change.do \in {"initialize", "move", "remove"} => Left = {change} /\ change = Head(todo)
             /\ change.do = "need" => change = Head(todo)
             /\ change.do = "replace" => change.from \notin Fonts /\ change.file \in Fonts
             /\ change.do = "remove_shims" => Doing("remove_shims") \/ Doing("uninstall_mono")
  <2>1. todo # <<>>
    BY <1>2, <1>5
  <2>2. PICK i \in 1 .. Len(todo) : change = todo[i]
    BY <1>2, <1>5
  <2>3. FormAt(todo, i) /\ DoAt(todo, i) = change.do
    BY <1>3, <2>2 DEF DoAt
  <2>4. ASSUME change.do \in {"initialize", "move", "remove"} PROVE Left = {change} /\ change = Head(todo)
    <3>1. Len(todo) = 1
      BY <2>3, <2>4 DEF FormAt
    <3> QED
      BY <1>4, <1>5, <2>1, <3>1
  <2>5. ASSUME change.do = "need" PROVE change = Head(todo)
    <3>1. i = 1
      BY <2>3, <2>5 DEF FormAt
    <3> QED
      BY <1>4, <2>1, <2>2, <3>1
  <2>6. ASSUME change.do = "replace" PROVE change.from \notin Fonts /\ change.file \in Fonts
    <3>1. Replaces(todo[i])
      BY <2>3, <2>6 DEF FormAt
    <3> QED
      BY <2>2, <3>1 DEF Replaces
  <2>7. ASSUME change.do = "remove_shims" PROVE Doing("remove_shims") \/ Doing("uninstall_mono")
    <3>1. Len(todo) = 1 \/ DoAt(todo, 1) = "uninstall_mono"
      BY <2>3, <2>7 DEF FormAt
    <3>2. CASE Len(todo) = 1
      BY <1>4, <1>5, <2>1, <2>7, <3>2 DEF Doing
    <3>3. CASE DoAt(todo, 1) = "uninstall_mono"
      BY <1>4, <2>1, <3>3 DEF Doing, DoAt
    <3> QED
      BY <3>1, <3>2, <3>3
  <2> QED
    BY <2>1, <2>4, <2>5, <2>6, <2>7
<1>6. ASSUME Doing("uninstall_mono")
      PROVE  \E change \in ToSet(Tail(todo)) : change.do = "remove_shims"
  <2>1. todo # <<>> /\ DoAt(todo, 1) = "uninstall_mono" /\ FormAt(todo, 1)
    BY <1>3, <1>4, <1>6 DEF Doing, DoAt
  <2>2. Len(todo) = 2 /\ DoAt(todo, 2) = "remove_shims"
    BY <2>1 DEF FormAt
  <2>3. DOMAIN Tail(todo) = 1 .. Len(todo) - 1 /\ \A i \in 1 .. Len(todo) - 1 : Tail(todo)[i] = todo[i + 1]
    BY <1>1, <2>1, TailLeft
  <2>6. Len(todo) = 2
    BY <2>2
  <2>4. 1 \in 1 .. Len(todo) - 1 /\ 1 + 1 = 2
    BY <2>6
  <2>5. 1 \in DOMAIN Tail(todo) /\ Tail(todo)[1] = todo[2]
    BY <2>3, <2>4
  <2> QED
    BY <2>2, <2>5 DEF ToSet, DoAt
<1>7. ASSUME Doing("import") PROVE \A change \in Left : change.do = "import"
  <2>1. todo # <<>> /\ DoAt(todo, 1) = "import" /\ FormAt(todo, 1)
    BY <1>3, <1>4, <1>7 DEF Doing, DoAt
  <2>2. \A i \in 1 .. Len(todo) : DoAt(todo, i) = "import"
    BY <2>1 DEF FormAt
  <2> QED
    BY <1>2, <2>2 DEF DoAt
<1> QED
  BY <1>2, <1>5, <1>6, <1>7

-----------------------------------------------------------------------------
(* The files of the prefix.                                                *)

Base == ShapeInv /\ SourcesWhole
Taken(f) == begun > 0 /\ f \in Takes(Step(begun))

\* The files that a step takes away are those of its kind.
LEMMA StepTakes ==
  ASSUME NEW step
  PROVE  /\ step.kind = "move" => Takes(step) = {step.from}
         /\ step.kind = "remove" => Takes(step) = {step.file}
         /\ step.kind \notin {"move", "remove"} => Takes(step) = {}
BY DEF Takes

\* What a change that moves or removes takes away is what its step takes.
LEMMA TakenByStep ==
  ASSUME ShapeInv
  PROVE  /\ Doing("move") => Taken(Head(todo).from)
         /\ Doing("remove") => Taken(Head(todo).file)
<1>1. ASSUME Doing("move") PROVE Taken(Head(todo).from)
  <2>1. begun > 0 /\ Step(begun).kind = "move" /\ Step(begun).from = Head(todo).from
    BY <1>1 DEF ShapeInv, Fitting
  <2> QED
    BY <2>1, StepTakes DEF Taken
<1>2. ASSUME Doing("remove") PROVE Taken(Head(todo).file)
  <2>1. begun > 0 /\ Step(begun).kind = "remove" /\ Step(begun).file = Head(todo).file
    BY <1>2 DEF ShapeInv, Fitting
  <2> QED
    BY <2>1, StepTakes DEF Taken
<1> QED
  BY <1>1, <1>2

\* What a step of any recipe installs, and every font, is a file that no step takes.
Safe(f) == \A r \in Recipes : \A step \in ToSet(StepsOf[r]) : f \notin Takes(step)

LEMMA ProvidedIsSafe ==
  ASSUME NEW r \in Recipes, NEW step \in ToSet(StepsOf[r]), NEW f \in Fonts \cup Provides(step)
  PROVE  Safe(f)
<1> SUFFICES ASSUME NEW q \in Recipes, NEW other_ \in ToSet(StepsOf[q]) PROVE f \notin Takes(other_)
  BY DEF Safe
<1>1. Takes(other_) \cap (Fonts \cup Provides(step)) = {}
  BY StepAssumption DEF StepAssumption
<1> QED
  BY <1>1

LEMMA FontsAreSafe ==
  ASSUME NEW f \in Fonts
  PROVE  Safe(f)
<1> SUFFICES ASSUME NEW q \in Recipes, NEW step \in ToSet(StepsOf[q]) PROVE f \notin Takes(step)
  BY DEF Safe
<1>1. Takes(step) \cap (Fonts \cup Provides(step)) = {}
  BY StepAssumption DEF StepAssumption
<1> QED
  BY <1>1

LEMMA SafeIsNotTaken ==
  ASSUME ShapeInv, recipe # NoRecipe, NEW f, Safe(f)
  PROVE  ~Taken(f)
<1>1. recipe \in Recipes /\ (begun > 0 => begun \in 1 .. Len(StepsOf[recipe]))
      /\ ToSet(StepsOf[recipe]) = {Step(i) : i \in 1 .. Len(StepsOf[recipe])}
  BY CurrentStep DEF ShapeInv
<1> QED
  BY <1>1 DEF Safe, Taken

\* A file that no step takes stays, unless it is cut off while it is replaced.
LEMMA WrittenStays ==
  ASSUME Base, [StepNext]_stepVars, NEW f \in Files, Safe(f), Written(f)
  PROVE  Written(f)'
<1>1. /\ file \in [Files -> {"absent", "half", "whole"}] /\ torn \subseteq Files
      /\ ShapeInv /\ SourcesWhole
  BY DEF Base, ShapeInv, StepTypeOK
<1>2. ASSUME UNCHANGED <<file, torn>> PROVE Written(f)'
  BY <1>2 DEF Written
<1>3. ASSUME todo # <<>>
      PROVE  recipe # NoRecipe /\ Head(todo) \in Left /\ Head(todo) \in Changes
  BY <1>1, <1>3, CurrentChange
<1>4. CASE UNCHANGED stepVars
  BY <1>2, <1>4 DEF stepVars, prefix, history
<1>5. ASSUME NEW r \in Recipes, BeginAttempt(r) PROVE Written(f)'
  BY <1>2, <1>5 DEF BeginAttempt, prefix, history
<1>6. CASE BeginStep \/ Need
  BY <1>2, <1>6 DEF BeginStep, Need, prefix, history
<1>7. CASE InitializePrefix \/ Import \/ Unlink \/ IsolateHome \/ UninstallMono \/ RemoveShims \/ Complete
  BY <1>2, <1>7 DEF InitializePrefix, Import, Unlink, IsolateHome, UninstallMono, RemoveShims, Complete
<1>8. CASE Write
  <2>1. file' = [file EXCEPT ![Head(todo).file] = "whole"] /\ torn' = torn \ {Head(todo).file}
    BY <1>8 DEF Write
  <2> QED
    BY <1>1, <2>1 DEF Written
<1>9. CASE ClearFont
  <2> DEFINE to == Head(todo).file
  <2>1. /\ file' = [file EXCEPT ![to] = "absent"]
        /\ torn' = IF file[to] = "absent" THEN torn ELSE torn \cup {to}
    BY <1>9 DEF ClearFont
  <2> HIDE DEF to
  <2> QED
    BY <1>1, <2>1 DEF Written
<1>10. CASE Move
  <2> DEFINE to == Head(todo).file
             from == Head(todo).from
  <2>1. /\ todo # <<>> /\ Doing("move") /\ Head(todo).do = "move"
        /\ file' = [file EXCEPT ![from] = "absent", ![to] = file[from]]
        /\ torn' = IF file[from] = "whole" THEN torn \ {to} ELSE torn
    BY <1>10 DEF Move, Doing
  <2>2. from \in Files /\ to \in Files /\ file[from] = "whole"
    BY <1>1, <1>3, <2>1, ChangeTypes DEF SourcesWhole
  <2>3. Taken(from)
    BY <1>1, <2>1, TakenByStep
  <2> HIDE DEF to, from
  <2>4. f # from
    BY <1>1, <1>3, <2>1, <2>3, SafeIsNotTaken
  <2> QED
    BY <1>1, <2>1, <2>2, <2>4 DEF Written
<1>11. CASE Delete
  <2> DEFINE gone == Head(todo).file
  <2>1. todo # <<>> /\ Doing("remove") /\ file' = [file EXCEPT ![gone] = "absent"] /\ torn' = torn
    BY <1>11 DEF Delete, Doing
  <2>2. Taken(gone)
    BY <1>1, <2>1, TakenByStep
  <2> HIDE DEF gone
  <2>3. f # gone
    BY <1>1, <1>3, <2>1, <2>2, SafeIsNotTaken
  <2> QED
    BY <1>1, <2>1, <2>3 DEF Written
<1>12. CASE Interrupt
  <2> DEFINE to == Head(todo).file
  <2>1. \/ UNCHANGED <<file, torn>>
        \/ /\ file' = [file EXCEPT ![to] = "half"]
           /\ torn' = IF file[to] = "whole" THEN torn \cup {to} ELSE torn
    BY <1>12 DEF Interrupt, prefix
  <2> HIDE DEF to
  <2> QED
    BY <1>1, <1>2, <2>1 DEF Written
<1> QED
  BY <1>4, <1>5, <1>6, <1>7, <1>8, <1>9, <1>10, <1>11, <1>12 DEF StepNext

\* A file that is there or will be is there or will be in the rest of the attempt,
\* unless the current step takes it away.
LEMMA FileStays ==
  ASSUME Base, [StepNext]_stepVars, recipe # NoRecipe, recipe' # NoRecipe,
         NEW f \in Files, file[f] = "whole" \/ Coming(f)
  PROVE  file'[f] = "whole" \/ Coming(f)' \/ Taken(f)
<1>1. file \in [Files -> {"absent", "half", "whole"}] /\ ShapeInv /\ SourcesWhole
  BY DEF Base, ShapeInv, StepTypeOK
<1>2. ASSUME todo # <<>>
      PROVE  Head(todo) \in Left /\ Head(todo) \in Changes
  BY <1>1, <1>2, CurrentChange
<1>3. ~Interrupt /\ ~Complete /\ \A r \in Recipes : ~BeginAttempt(r)
  BY DEF Interrupt, Complete, BeginAttempt
<1>4. ASSUME file' = file, Left \subseteq Left'
      PROVE  file'[f] = "whole" \/ Coming(f)'
  BY <1>4 DEF Coming
<1>5. CASE UNCHANGED stepVars
  BY <1>4, <1>5 DEF stepVars, prefix, attempt, Left
<1>6. CASE BeginStep
  <2>1. todo = <<>> /\ file' = file /\ Left = {}
    BY <1>1, <1>6, FormLeft DEF BeginStep, prefix
  <2> QED
    BY <1>4, <2>1
<1>7. ASSUME todo # <<>>, Done, file' = file, Head(todo).do \notin {"write", "replace", "move"}
      PROVE  file'[f] = "whole" \/ Coming(f)'
  <2>1. Left = {Head(todo)} \cup Left'
    BY <1>1, <1>7, DoneFrame
  <2> QED
    BY <1>7, <2>1 DEF Coming
<1>8. CASE InitializePrefix \/ Import \/ Unlink \/ UninstallMono \/ RemoveShims
  BY <1>7, <1>8 DEF InitializePrefix, Import, Unlink, UninstallMono, RemoveShims, Doing
<1>9. CASE Need
  BY <1>7, <1>9 DEF Need, Doing, prefix
<1>10. CASE IsolateHome
  <2>1. todo # <<>> /\ file' = file /\ Head(todo).do = "isolate_home"
    BY <1>10 DEF IsolateHome, Doing
  <2>2. CASE Done
    BY <1>7, <2>1, <2>2
  <2>3. CASE UNCHANGED todo
    BY <1>4, <2>1, <2>3 DEF Left
  <2> QED
    BY <1>10, <2>2, <2>3 DEF IsolateHome
<1>11. CASE Write
  <2>1. todo # <<>> /\ Done /\ file' = [file EXCEPT ![Head(todo).file] = "whole"]
    BY <1>11 DEF Write, Doing
  <2>2. Left = {Head(todo)} \cup Left'
    BY <1>1, <2>1, DoneFrame
  <2>3. CASE f = Head(todo).file
    BY <1>1, <2>1, <2>3
  <2>4. CASE f # Head(todo).file
    <3>1. Coming(f) => Coming(f)'
      BY <2>2, <2>4 DEF Coming
    <3>2. file'[f] = file[f]
      BY <1>1, <2>1, <2>4
    <3> QED
      BY <3>1, <3>2
  <2> QED
    BY <2>3, <2>4
<1>12. CASE ClearFont
  <2> DEFINE font == [do |-> "write", file |-> Head(todo).file]
             to == Head(todo).file
  <2>1. todo # <<>> /\ file' = [file EXCEPT ![to] = "absent"]
    BY <1>12 DEF ClearFont, Doing
  <2>2. /\ font \in Left' /\ font.do = "write" /\ font.file = to
        /\ \A change \in Left : change = Head(todo) \/ change \in Left'
    BY <1>1, <1>12, ClearedShape
  <2>3. ASSUME f = to PROVE Coming(f)'
    <3> HIDE DEF font, to
    <3> QED
      BY <2>2, <2>3 DEF Coming
  <2>4. ASSUME f # to PROVE Coming(f) => Coming(f)'
    <3>1. f # Head(todo).file
      BY <2>4
    <3> QED
      BY <2>2, <3>1 DEF Coming
  <2> HIDE DEF font, to
  <2>5. f # to => file'[f] = file[f]
    BY <1>1, <2>1
  <2> QED
    BY <2>3, <2>4, <2>5
<1>13. CASE Move
  <2> DEFINE to == Head(todo).file
             from == Head(todo).from
  <2>1. /\ todo # <<>> /\ Doing("move") /\ Head(todo).do = "move" /\ Done
        /\ file' = [file EXCEPT ![from] = "absent", ![to] = file[from]]
    BY <1>13 DEF Move, Doing
  <2>2. from \in Files /\ to \in Files /\ file[from] = "whole"
    BY <1>1, <1>2, <2>1, ChangeTypes DEF SourcesWhole
  <2>3. Taken(from)
    BY <1>1, <2>1, TakenByStep
  <2>4. Left = {Head(todo)} \cup Left'
    BY <1>1, <2>1, DoneFrame
  <2>5. ASSUME f # to PROVE Coming(f) => Coming(f)'
    <3>1. f # Head(todo).file
      BY <2>5
    <3> QED
      BY <2>4, <3>1 DEF Coming
  <2> HIDE DEF to, from
  <2>6. f = to => file'[f] = "whole"
    BY <1>1, <2>1, <2>2
  <2>7. f # to /\ f # from => file'[f] = file[f]
    BY <1>1, <2>1, <2>2
  <2> QED
    BY <2>3, <2>5, <2>6, <2>7
<1>14. CASE Delete
  <2> DEFINE gone == Head(todo).file
  <2>1. /\ todo # <<>> /\ Doing("remove") /\ Done /\ Head(todo).do = "remove"
        /\ file' = [file EXCEPT ![gone] = "absent"]
    BY <1>14 DEF Delete, Doing
  <2>2. Taken(gone)
    BY <1>1, <2>1, TakenByStep
  <2>3. Left = {Head(todo)} \cup Left'
    BY <1>1, <2>1, DoneFrame
  <2>4. Coming(f) => Coming(f)'
    BY <2>1, <2>3 DEF Coming
  <2> HIDE DEF gone
  <2>5. f # gone => file'[f] = file[f]
    BY <1>1, <2>1
  <2> QED
    BY <2>2, <2>4, <2>5
<1> QED
  BY <1>3, <1>5, <1>6, <1>8, <1>9, <1>10, <1>11, <1>12, <1>13, <1>14 DEF StepNext

\* What a step leaves are files, and what only passes through is taken by no step
\* that leaves it.
LEMMA LeavesFiles ==
  ASSUME NEW step \in Steps
  PROVE  Leaves(step) \subseteq Files /\ Provides(step) \subseteq Leaves(step)
<1>1. Fonts \subseteq Files
  BY StepAssumption DEF StepAssumption
<1>2. CASE step.kind = "write"
  <2>1. step.files \in Seq(Files)
    BY <1>2, StepTypes
  <2>2. ToSet(step.files) \subseteq Files
    BY <2>1 DEF ToSet
  <2>3. Leaves(step) = ToSet(step.files) /\ Provides(step) = {}
    BY <1>2 DEF Leaves, Provides
  <2> QED
    BY <2>2, <2>3
<1>3. CASE step.kind \in {"copy", "move"}
  <2>1. step.to \in Files
    BY <1>3, StepTypes
  <2>2. Leaves(step) = {step.to} /\ Provides(step) = {step.to}
    BY <1>3 DEF Leaves, Provides
  <2> QED
    BY <2>1, <2>2
<1>4. CASE step.kind = "fonts"
  <2>1. step.fonts \in Seq(FontEntries)
    BY <1>4, StepTypes
  <2>2. FontFiles(step) \subseteq Fonts
    <3>1. \A font \in ToSet(step.fonts) : font \in FontEntries
      BY <2>1 DEF ToSet
    <3>2. \A font \in FontEntries : font.file \in Fonts
      BY DEF FontEntries
    <3> QED
      BY <3>1, <3>2 DEF FontFiles
  <2>3. Leaves(step) = FontFiles(step) /\ Provides(step) = FontFiles(step)
    BY <1>4 DEF Leaves, Provides
  <2> QED
    BY <1>1, <2>2, <2>3
<1>5. CASE step.kind \notin {"write", "copy", "move", "fonts"}
  <2>1. Leaves(step) = {} /\ Provides(step) = {}
    BY <1>5 DEF Leaves, Provides
  <2> QED
    BY <2>1
<1> QED
  BY <1>2, <1>3, <1>4, <1>5

LEMMA LeavesOrTakes ==
  ASSUME NEW step \in Steps
  PROVE  Leaves(step) = Provides(step) \/ Takes(step) = {}
<1>1. CASE step.kind = "write"
  BY <1>1, StepTakes
<1>2. CASE step.kind # "write"
  BY <1>2 DEF Leaves
<1> QED
  BY <1>1, <1>2

\* What a step's changes do for it, wherever they are among them.
ServedBy(step, left) ==
  /\ \A change \in left :
       /\ change.do = "need" => change.file \in Uses(step)
       /\ change.do \in {"replace", "move"} => change.from \in Uses(step)
       /\ change.do = "import" => \/ step.kind = "fonts" /\ change.values = FontNames(step)
                                  \/ step.kind = "registry" /\ change.values = step.values
  /\ \A f \in Leaves(step) : \E change \in left :
       change.do \in {"write", "replace", "move"} /\ change.file = f
  /\ step.kind = "fonts" /\ assumed # "unknown" /\ arch = assumed =>
       \A v \in ViewsOf("prefix") : \E change \in left :
         change.do = "import" /\ change.view = v /\ change.values = FontNames(step)
  /\ step.kind = "registry" /\ assumed # "unknown" /\ arch = assumed =>
       \A v \in ViewsOf(step.architecture) : \E change \in left :
         change.do = "import" /\ change.view = v /\ change.values = step.values
  /\ step.kind = "remove_symlink" => \E change \in left :
       change.do = "unlink" /\ change.link = step.link
  /\ step.kind = "isolate_home" => \E change \in left : change.do = "isolate_home"
  /\ step.kind = "remove_mono" /\ mono =>
       \E change \in left : change.do = "uninstall_mono"

LEMMA ServesLeft ==
  ASSUME NEW effects \in Seq(Changes), NEW step \in Steps, Serves(effects, step)
  PROVE  ServedBy(step, ToSet(effects))
<1>1. /\ \A i \in DOMAIN effects : effects[i] \in ToSet(effects)
      /\ \A change \in ToSet(effects) : \E i \in DOMAIN effects : change = effects[i]
  BY DEF ToSet
<1>2. ASSUME NEW change \in ToSet(effects)
      PROVE  /\ change.do = "need" => change.file \in Uses(step)
             /\ change.do \in {"replace", "move"} => change.from \in Uses(step)
             /\ change.do = "import" => \/ step.kind = "fonts" /\ change.values = FontNames(step)
                                        \/ step.kind = "registry" /\ change.values = step.values
  <2>1. PICK i \in DOMAIN effects : change = effects[i]
    BY <1>1
  <2> QED
    BY <2>1 DEF Serves
<1>3. ASSUME NEW f \in Leaves(step)
      PROVE  \E change \in ToSet(effects) : change.do \in {"write", "replace", "move"} /\ change.file = f
  <2>1. PICK i \in DOMAIN effects : effects[i].do \in {"write", "replace", "move"} /\ effects[i].file = f
    BY DEF Serves
  <2> QED
    BY <1>1, <2>1
<1>4. ASSUME step.kind = "fonts", assumed # "unknown", arch = assumed, NEW v \in ViewsOf("prefix")
      PROVE  \E change \in ToSet(effects) :
               change.do = "import" /\ change.view = v /\ change.values = FontNames(step)
  <2>1. PICK i \in DOMAIN effects :
          effects[i].do = "import" /\ effects[i].view = v /\ effects[i].values = FontNames(step)
    BY <1>4 DEF Serves
  <2> QED
    BY <1>1, <2>1
<1>5. ASSUME step.kind = "registry", assumed # "unknown", arch = assumed,
             NEW v \in ViewsOf(step.architecture)
      PROVE  \E change \in ToSet(effects) :
               change.do = "import" /\ change.view = v /\ change.values = step.values
  <2>1. PICK i \in DOMAIN effects :
          effects[i].do = "import" /\ effects[i].view = v /\ effects[i].values = step.values
    BY <1>5 DEF Serves
  <2> QED
    BY <1>1, <2>1
<1>6. step.kind = "remove_symlink" => \E change \in ToSet(effects) :
        change.do = "unlink" /\ change.link = step.link
  BY <1>1 DEF Serves
<1>7. step.kind = "isolate_home" => \E change \in ToSet(effects) : change.do = "isolate_home"
  BY <1>1 DEF Serves
<1>8. step.kind = "remove_mono" /\ mono => \E change \in ToSet(effects) : change.do = "uninstall_mono"
  BY <1>1 DEF Serves
<1> QED
  BY <1>2, <1>3, <1>4, <1>5, <1>6, <1>7, <1>8 DEF ServedBy

\* What the steps begun have left is there for a step that begins.
LEMMA Found ==
  ASSUME Base, Supplied, BeginStep, Reached(begun + 1), NEW f \in Uses(Step(begun + 1))
  PROVE  file[f] = "whole"
<1>1. /\ recipe # NoRecipe /\ recipe \in Recipes /\ begun \in Nat /\ Left = {}
      /\ begun + 1 \in DOMAIN StepsOf[recipe]
  BY BegunShape, StepsTyped DEF Base, BeginStep
<1>2. PICK j \in 1 .. (begun + 1) - 1 : FindsFrom(recipe, begun + 1, j, f)
  BY <1>1, StepAssumption DEF StepAssumption, Step
<1>3. j \in 1 .. begun /\ (begun + 1) - 1 = begun
  BY <1>1
<1>4. /\ f \in Leaves(Step(j)) /\ (Step(j).only64 => Step(begun + 1).only64)
      /\ \A k \in j + 1 .. begun : f \notin Takes(Step(k))
  <2>1. f \in Leaves(Step(j))
    BY <1>2 DEF FindsFrom, Step
  <2>2. Step(j).only64 => Step(begun + 1).only64
    BY <1>2 DEF FindsFrom, Step
  <2>3. \A k \in j + 1 .. (begun + 1) - 1 : f \notin Takes(Step(k))
    <3>1. \A k \in j + 1 .. (begun + 1) - 1 : f \notin Takes(StepsOf[recipe][k])
      BY <1>2 DEF FindsFrom
    <3> QED
      BY <3>1 DEF Step
  <2> QED
    BY <1>3, <2>1, <2>2, <2>3
<1>5. Reached(j)
  BY <1>4 DEF Reached
<1>6. ~Coming(f)
  BY <1>1 DEF Coming
<1> QED
  BY <1>1, <1>3, <1>4, <1>5, <1>6 DEF Supplied

\* No change fails for want of a file.
LEMMA SourcesStep ==
  ASSUME Base, Supplied, [StepNext]_stepVars
  PROVE  SourcesWhole'
<1>1. /\ file \in [Files -> {"absent", "half", "whole"}] /\ ShapeInv /\ SourcesWhole
      /\ todo \in Seq(Changes)
  BY DEF Base, ShapeInv, StepTypeOK
<1>2. ShapeInv'
  BY <1>1, ShapeStep
<1>3. /\ Left \subseteq Changes /\ Left' \subseteq Changes
      /\ todo' = <<>> => Left' = {}
  <2>1. todo' \in Seq(Changes)
    BY <1>2 DEF ShapeInv, StepTypeOK
  <2>2. ToSet(todo') \subseteq Changes /\ (todo' = <<>> => ToSet(todo') = {})
    BY <2>1 DEF ToSet
  <2> QED
    BY <1>1, <2>2, FormLeft DEF Left
<1>4. ASSUME file' = file, Left' \subseteq Left PROVE SourcesWhole'
  BY <1>1, <1>4 DEF SourcesWhole
<1>5. ASSUME todo # <<>>, Done, file' = file PROVE SourcesWhole'
  BY <1>1, <1>4, <1>5, DoneFrame
<1>6. ASSUME todo' = <<>> PROVE SourcesWhole'
  BY <1>3, <1>6 DEF SourcesWhole
<1>7. CASE UNCHANGED stepVars
  BY <1>4, <1>7 DEF stepVars, prefix, attempt, Left
<1>8. ASSUME NEW r \in Recipes, BeginAttempt(r) PROVE SourcesWhole'
  <2>1. CASE todo' = <<>>
    BY <1>6, <2>1
  <2>2. CASE todo' = <<[do |-> "initialize"]>>
    <3>1. PICK change : change.do = "initialize" /\ todo' = <<change>>
      BY <2>2
    <3>2. ToSet(todo') = {change}
      BY <3>1 DEF ToSet
    <3> QED
      BY <3>1, <3>2 DEF SourcesWhole, Left
  <2> QED
    BY <1>8, <2>1, <2>2 DEF BeginAttempt
<1>9. CASE BeginStep
  <2>1. /\ todo' \in Seq(Changes) /\ Step(begun + 1) \in Steps
        /\ Reached(begun + 1) => Serves(todo', Step(begun + 1))
        /\ ~Reached(begun + 1) => todo' = <<>>
    BY <1>1, <1>9, BegunShape
  <2>2. CASE ~Reached(begun + 1)
    BY <1>6, <2>1, <2>2
  <2>3. CASE Reached(begun + 1)
    <3>1. file' = file
      BY <1>9 DEF BeginStep, prefix
    <3>2. \A f \in Uses(Step(begun + 1)) : file[f] = "whole"
      BY <1>9, <2>3, Found
    <3>3. \A change \in Left' :
            /\ change.do = "need" => change.file \in Uses(Step(begun + 1))
            /\ change.do \in {"replace", "move"} => change.from \in Uses(Step(begun + 1))
      <4>1. ServedBy(Step(begun + 1), Left')
        BY <2>1, <2>3, ServesLeft DEF Left
      <4> QED
        BY <4>1 DEF ServedBy
    <3> QED
      BY <3>1, <3>2, <3>3 DEF SourcesWhole
  <2> QED
    BY <2>2, <2>3
<1>10. CASE InitializePrefix \/ Import \/ Unlink \/ UninstallMono \/ RemoveShims
  BY <1>5, <1>10 DEF InitializePrefix, Import, Unlink, UninstallMono, RemoveShims, Doing
<1>11. CASE Need
  BY <1>5, <1>11 DEF Need, Doing, prefix
<1>12. CASE IsolateHome
  <2>1. todo # <<>> /\ file' = file /\ (Done \/ UNCHANGED todo)
    BY <1>12 DEF IsolateHome, Doing
  <2> QED
    BY <1>4, <1>5, <2>1 DEF Left
<1>13. CASE Write
  <2>1. todo # <<>> /\ Done /\ file' = [file EXCEPT ![Head(todo).file] = "whole"]
    BY <1>13 DEF Write, Doing
  <2>2. Left' \subseteq Left
    BY <1>1, <2>1, DoneFrame
  <2>3. \A f \in Files : file[f] = "whole" => file'[f] = "whole"
    BY <1>1, <2>1
  <2>4. ASSUME NEW change \in Left'
        PROVE  /\ change.do = "need" => file'[change.file] = "whole"
               /\ change.do \in {"replace", "move"} => file'[change.from] = "whole"
    <3>1. /\ change.do = "need" => change.file \in Files
          /\ change.do \in {"replace", "move"} => change.from \in Files
      BY <1>3, ChangeTypes
    <3>2. /\ change.do = "need" => file[change.file] = "whole"
          /\ change.do \in {"replace", "move"} => file[change.from] = "whole"
      BY <1>1, <2>2 DEF SourcesWhole
    <3> QED
      BY <2>3, <3>1, <3>2
  <2> QED
    BY <2>4 DEF SourcesWhole
<1>14. CASE ClearFont
  <2> DEFINE to == Head(todo).file
             font == [do |-> "write", file |-> Head(todo).file]
  <2>1. todo # <<>> /\ Doing("replace") /\ file' = [file EXCEPT ![to] = "absent"] /\ Head(todo) \in Left
    BY <1>1, <1>14, CurrentChange DEF ClearFont, Doing
  <2>2. /\ font.do = "write" /\ to \in Fonts
        /\ \A change \in Left' : change = font \/ change \in Left
        /\ \A change \in Left' : change.do # "need"
    BY <1>1, <1>14, ClearedShape
  <2>3. \A f \in Files \ {to} : file'[f] = file[f]
    <3> HIDE DEF to
    <3> QED
      BY <1>1, <2>1
  <2>4. ASSUME NEW change \in Left', change.do \in {"replace", "move"}
        PROVE  file'[change.from] = "whole"
    <3>1. change \in Left
      <4> HIDE DEF font
      <4> QED
        BY <2>2, <2>4
    <3>2. change.do # "move"
      BY <1>1, <2>1, <3>1, FormLeft DEF Doing
    <3>3. change.from \in Files /\ change.from \notin Fonts /\ file[change.from] = "whole"
      BY <1>1, <1>3, <2>4, <3>1, <3>2, FormLeft, ChangeTypes DEF SourcesWhole
    <3> HIDE DEF to
    <3> QED
      BY <2>2, <2>3, <3>3
  <2> QED
    BY <2>2, <2>4 DEF SourcesWhole
<1>15. CASE Move \/ Delete
  <2>1. todo # <<>> /\ Done /\ (Doing("move") \/ Doing("remove"))
    BY <1>15 DEF Move, Delete, Doing
  <2>2. Len(todo) = 1
    <3>1. DOMAIN todo = 1 .. Len(todo) /\ Len(todo) \in Nat \ {0} /\ Head(todo) = todo[1]
      BY <1>1, <2>1, CurrentChange
    <3>2. FormAt(todo, 1) /\ DoAt(todo, 1) \in {"move", "remove"}
      BY <1>1, <2>1, <3>1 DEF ShapeInv, Form, Doing, DoAt
    <3> QED
      BY <3>2 DEF FormAt
  <2>3. Left' = {}
    BY <1>1, <2>1, <2>2, DoneShape DEF Done
  <2> QED
    BY <2>3 DEF SourcesWhole
<1>16. CASE Complete \/ Interrupt
  <2>1. todo' = <<>>
    BY <1>16 DEF Complete, Interrupt
  <2> QED
    BY <1>6, <2>1
<1> QED
  BY <1>7, <1>8, <1>9, <1>10, <1>11, <1>12, <1>13, <1>14, <1>15, <1>16 DEF StepNext

\* What the steps begun have left stays until one takes it away.
LEMMA SuppliedStep ==
  ASSUME Base, Supplied, [StepNext]_stepVars
  PROVE  Supplied'
<1>1. ShapeInv
  BY DEF Base
<1> SUFFICES ASSUME recipe' # NoRecipe, NEW i \in 1 .. begun', Reached(i)', NEW f \in Leaves(Step(i)')
             PROVE  \/ file'[f] = "whole" \/ Coming(f)'
                    \/ \E k \in i + 1 .. begun' : f \in Takes(Step(k)')
  BY DEF Supplied
<1>2. CASE recipe = NoRecipe /\ \E r \in Recipes : BeginAttempt(r)
  <2>1. begun' = 0
    BY <1>2 DEF BeginAttempt
  <2> QED
    BY <2>1
<1>3. CASE recipe # NoRecipe /\ BeginStep
  <2>1. /\ begun \in Nat /\ begun' = begun + 1 /\ Left = {} /\ todo' \in Seq(Changes)
        /\ Reached(begun + 1) => Serves(todo', Step(begun + 1))
        /\ Step(begun + 1) \in Steps
    BY <1>1, <1>3, BegunShape
  <2>2. file' = file /\ recipe' = recipe /\ arch' = arch
    BY <1>3 DEF BeginStep, prefix
  <2>3. Step(i)' = Step(i) /\ (Reached(i)' => Reached(i)) /\ \A k : Step(k)' = Step(k)
    BY <1>3, <2>2 DEF Step, Reached, Is64Bit, BeginStep
  <2>4. CASE i = begun + 1
    <3>1. Serves(todo', Step(begun + 1)) /\ f \in Leaves(Step(begun + 1))
      BY <2>1, <2>3, <2>4
    <3>2. \E change \in ToSet(todo') : change.do \in {"write", "replace", "move"} /\ change.file = f
      <4>1. \A g \in Leaves(Step(begun + 1)) :
              \E change \in ToSet(todo') : change.do \in {"write", "replace", "move"} /\ change.file = g
        <5>1. ServedBy(Step(begun + 1), ToSet(todo'))
          BY <2>1, <3>1, ServesLeft
        <5> QED
          BY <5>1 DEF ServedBy
      <4> QED
        BY <3>1, <4>1
    <3> QED
      BY <3>2 DEF Coming, Left
  <2>5. CASE i # begun + 1
    <3>1. i \in 1 .. begun
      BY <2>1, <2>5
    <3>2. ~Coming(f)
      BY <2>1 DEF Coming
    <3>3. file[f] = "whole" \/ \E k \in i + 1 .. begun : f \in Takes(Step(k))
      BY <1>3, <2>3, <3>1, <3>2 DEF Supplied
    <3>4. \A k \in i + 1 .. begun : k \in i + 1 .. begun'
      BY <2>1
    <3> QED
      BY <2>2, <2>3, <3>3, <3>4
  <2> QED
    BY <2>4, <2>5
<1>4. CASE /\ recipe # NoRecipe /\ recipe' = recipe /\ begun' = begun /\ assumed' = assumed
           /\ begun > 0 => arch' = arch
  <2>1. /\ recipe \in Recipes /\ begun \in 0 .. Len(StepsOf[recipe]) /\ Len(StepsOf[recipe]) \in Nat
        /\ \A k \in 1 .. Len(StepsOf[recipe]) : Step(k) \in Steps
        /\ ToSet(StepsOf[recipe]) = {Step(k) : k \in 1 .. Len(StepsOf[recipe])}
    BY <1>1, <1>4, CurrentStep DEF ShapeInv
  <2>2. i \in 1 .. begun /\ begun > 0 /\ arch' = arch /\ i \in 1 .. Len(StepsOf[recipe])
    BY <1>4, <2>1
  <2>3. (Reached(i)' => Reached(i)) /\ \A k : Step(k)' = Step(k)
    BY <1>4, <2>2 DEF Step, Reached, Is64Bit
  <2>4. f \in Leaves(Step(i)) /\ f \in Files
    <3>1. f \in Leaves(Step(i)) /\ Step(i) \in Steps
      BY <2>1, <2>2, <2>3
    <3> QED
      BY <3>1, LeavesFiles
  <2>5. CASE \E k \in i + 1 .. begun : f \in Takes(Step(k))
    BY <1>4, <2>3, <2>5
  <2>6. CASE file[f] = "whole" \/ Coming(f)
    <3>1. file'[f] = "whole" \/ Coming(f)' \/ Taken(f)
      BY <1>4, <2>4, <2>6, FileStays
    <3>2. ASSUME Taken(f) PROVE \E k \in i + 1 .. begun : f \in Takes(Step(k))
      <4>1. f \in Takes(Step(begun)) /\ begun \in 1 .. Len(StepsOf[recipe])
        BY <2>1, <2>2, <3>2 DEF Taken
      <4>2. i # begun
        <5>1. ASSUME i = begun PROVE FALSE
          <6>1. Step(begun) \in ToSet(StepsOf[recipe]) /\ Step(begun) \in Steps
            BY <2>1, <4>1
          <6>2. Takes(Step(begun)) \cap Provides(Step(begun)) = {}
            BY <2>1, <6>1, StepAssumption DEF StepAssumption
          <6>3. Leaves(Step(begun)) = Provides(Step(begun)) \/ Takes(Step(begun)) = {}
            BY <6>1, LeavesOrTakes
          <6> QED
            BY <2>4, <4>1, <5>1, <6>2, <6>3
        <5> QED
          BY <5>1
      <4> QED
        BY <2>1, <2>2, <4>1, <4>2
    <3> QED
      BY <1>4, <2>3, <3>1, <3>2
  <2> QED
    BY <1>4, <2>2, <2>3, <2>4, <2>5, <2>6 DEF Supplied
<1> QED
  BY <1>1, <1>2, <1>3, <1>4, Continues

-----------------------------------------------------------------------------
(* What the steps of an attempt promise.                                   *)

\* A file that a step installs, or a font, stays once it is there or is coming.
LEMMA InstalledStays ==
  ASSUME Base, [StepNext]_stepVars, recipe # NoRecipe, recipe' # NoRecipe,
         NEW f \in Files, Safe(f), Written(f) \/ Coming(f)
  PROVE  Written(f)' \/ Coming(f)'
<1>1. CASE Written(f)
  BY <1>1, WrittenStays
<1>2. CASE Coming(f)
  <2>1. ~Taken(f)
    BY SafeIsNotTaken DEF Base
  <2>2. file'[f] = "whole" \/ Coming(f)'
    BY <1>2, <2>1, FileStays
  <2> QED
    BY <2>2 DEF Written
<1> QED
  BY <1>1, <1>2

\* A change that is left is made, or is left still.
LEMMA StillLeft ==
  ASSUME ShapeInv, [StepNext]_stepVars, recipe' # NoRecipe, NEW change \in Left
  PROVE  \/ change \in Left'
         \/ change = Head(todo) /\ todo # <<>> /\ ~Interrupt
<1>1. todo # <<>> /\ recipe # NoRecipe
  <2>1. todo # <<>>
    BY FormLeft
  <2> QED
    BY <2>1, CurrentChange
<1>2. ~Interrupt /\ ~Complete /\ ~BeginStep /\ \A r \in Recipes : ~BeginAttempt(r)
  BY <1>1 DEF Interrupt, Complete, BeginStep, BeginAttempt
<1>3. CASE Done
  BY <1>1, <1>2, <1>3, DoneFrame
<1>4. CASE UNCHANGED todo
  BY <1>4 DEF Left
<1>5. CASE ClearFont
  <2>1. change = Head(todo) \/ change \in Left'
    BY <1>5, ClearedShape
  <2> QED
    BY <1>1, <1>2, <2>1
<1>6. UNCHANGED stepVars => UNCHANGED todo
  BY DEF stepVars, attempt
<1> QED
  BY <1>2, <1>3, <1>4, <1>5, <1>6
     DEF StepNext, InitializePrefix, Import, Need, Write, Move, Delete, Unlink, IsolateHome,
         UninstallMono, RemoveShims

\* A change is made by the action of its kind.
LEMMA OnlyDoing ==
  ASSUME [StepNext]_stepVars, todo # <<>>, recipe # NoRecipe, ~Interrupt, ~UNCHANGED todo
  PROVE  /\ Doing("import") => Import
         /\ Doing("unlink") => Unlink
         /\ Doing("isolate_home") => IsolateHome
         /\ Doing("uninstall_mono") => UninstallMono
         /\ Doing("remove_shims") => RemoveShims
<1>1. ~UNCHANGED stepVars /\ ~BeginStep /\ ~Complete /\ \A r \in Recipes : ~BeginAttempt(r)
  BY DEF stepVars, attempt, BeginStep, Complete, BeginAttempt
<1> QED
  BY <1>1 DEF StepNext, InitializePrefix, Import, Need, Write, ClearFont, Move, Delete, Unlink,
              IsolateHome, UninstallMono, RemoveShims, Doing

\* A recipe sets no value twice.
LEMMA SourcedAgree ==
  ASSUME recipe \in Recipes, NEW one, NEW other_, Sourced(one), Sourced(other_),
         NEW k \in DOMAIN one \cap DOMAIN other_
  PROVE  one[k] = other_[k]
<1>1. \A step \in ToSet(StepsOf[recipe]) : step.kind = "registry" => DOMAIN step.values \subseteq Keys
  <2>1. \A step \in ToSet(StepsOf[recipe]) : step \in Steps
    <3>1. /\ ToSet(StepsOf[recipe]) = {StepsOf[recipe][i] : i \in 1 .. Len(StepsOf[recipe])}
          /\ \A i \in 1 .. Len(StepsOf[recipe]) : StepsOf[recipe][i] \in Steps
      BY StepsTyped
    <3> QED
      BY <3>1
  <2> QED
    BY <2>1, FilesMade
<1>2. Keys \cap Fonts = {}
  BY StepAssumption DEF StepAssumption
<1>3. ASSUME NEW step \in ToSet(StepsOf[recipe]), step.kind = "registry", one = step.values,
             NEW given \in ToSet(StepsOf[recipe]), given.kind = "registry", other_ = given.values
      PROVE  one[k] = other_[k]
  <2>1. Agree(step, given)
    BY StepAssumption DEF StepAssumption
  <2> QED
    BY <1>3, <2>1 DEF Agree
<1> QED
  BY <1>1, <1>2, <1>3 DEF Sourced

\* Values that are set, or are coming to be, stay so for the rest of the attempt.
LEMMA ImportedStays ==
  ASSUME ShapeInv, Backed, [StepNext]_stepVars, recipe # NoRecipe, recipe' # NoRecipe,
         NEW v \in Views, NEW values, DOMAIN values \subseteq Values, Sourced(values), Imported(v, values)
  PROVE  Imported(v, values)'
<1>1. recipe \in Recipes
  BY DEF ShapeInv, StepTypeOK
<1>2. CASE IsSet(v, values)
  <2> SUFFICES ASSUME NEW k \in DOMAIN values PROVE registry'[v][k] = values[k]
    BY DEF Imported, IsSet
  <2>1. registry[v][k] = values[k] /\ k \in Values
    BY <1>2 DEF IsSet
  <2>2. CASE registry'[v][k] = registry[v][k]
    BY <2>1, <2>2
  <2>3. CASE registry'[v][k] # registry[v][k]
    <3>1. /\ Doing("import") /\ Head(todo) \in Left /\ k \in DOMAIN Head(todo).values
          /\ registry'[v][k] = Head(todo).values[k]
      BY <2>1, <2>3, RegistryStep
    <3>2. Sourced(Head(todo).values)
      BY <3>1 DEF Backed, Doing
    <3> QED
      BY <1>1, <3>1, <3>2, SourcedAgree
  <2> QED
    BY <2>2, <2>3
<1>3. CASE \E change \in Left : change.do = "import" /\ change.view = v /\ change.values = values
  <2>1. PICK change \in Left : change.do = "import" /\ change.view = v /\ change.values = values
    BY <1>3
  <2>2. CASE change \in Left'
    BY <2>1, <2>2 DEF Imported
  <2>3. CASE change \notin Left'
    <3>1. change = Head(todo) /\ todo # <<>> /\ ~Interrupt
      BY <2>3, StillLeft
    <3>2. Doing("import")
      BY <2>1, <3>1 DEF Doing
    <3>3. ~UNCHANGED todo
      BY <2>1, <2>3 DEF Left
    <3>4. Import
      BY <3>1, <3>2, <3>3, OnlyDoing
    <3>5. RegistryOK
      BY DEF ShapeInv, StepTypeOK, RegistryOK
    <3>6. registry' = [registry EXCEPT ![v] =
                        [k \in Values |-> IF k \in DOMAIN values THEN values[k] ELSE registry[v][k]]]
      BY <2>1, <3>1, <3>4 DEF Import, Set
    <3>7. ASSUME NEW k \in DOMAIN values PROVE registry'[v][k] = values[k]
      BY <3>5, <3>6 DEF RegistryOK
    <3> QED
      BY <3>7 DEF Imported, IsSet
  <2> QED
    BY <2>2, <2>3
<1> QED
  BY <1>2, <1>3 DEF Imported

\* What a step says is what its recipe says.
LEMMA StepSays ==
  ASSUME NEW step \in Steps
  PROVE  /\ step.kind = "registry" => /\ DOMAIN step.values \subseteq Values
                                      /\ step \in ToSet(StepsOf[recipe]) => Sourced(step.values)
         /\ step.kind = "fonts" => /\ FontFiles(step) \subseteq Fonts
                                   /\ DOMAIN FontNames(step) = FontFiles(step)
                                   /\ DOMAIN FontNames(step) \subseteq Values
                                   /\ Sourced(FontNames(step))
<1>1. step.kind = "registry" => DOMAIN step.values \subseteq Keys
  BY FilesMade
<1>2. step.kind = "fonts" => FontFiles(step) \subseteq Fonts
  BY FontsAre
<1>3. DOMAIN FontNames(step) = FontFiles(step) /\ \A f \in FontFiles(step) : FontNames(step)[f] = f
  BY FilesMade
<1> QED
  BY <1>1, <1>2, <1>3 DEF Sourced, Values

\* A step's promise stays kept, once it has begun.
LEMMA KeptStays ==
  ASSUME Base, Backed, [StepNext]_stepVars, recipe # NoRecipe, recipe' # NoRecipe,
         arch' = arch, assumed' = assumed,
         NEW step \in ToSet(StepsOf[recipe]), step \in Steps, Honoured(step)
  PROVE  Honoured(step)'
<1>1. /\ ShapeInv /\ recipe \in Recipes /\ Left \subseteq Changes
      /\ arch \in {"none", "win32", "win64", "wow64"} /\ linked' \subseteq linked
  BY CurrentStep, FormLeft, Progress DEF Base, ShapeInv, StepTypeOK
<1>2. \A architecture : ViewsOf(architecture)' = ViewsOf(architecture) /\ ViewsOf(architecture) \subseteq Views
  BY DEF ViewsOf, NativeView, Views, Wide
<1>3. ASSUME NEW f \in Provides(step) PROVE Written(f)' \/ Coming(f)'
  <2>1. f \in Files /\ Safe(f) /\ (Written(f) \/ Coming(f))
    <3>1. Provides(step) \subseteq Files
      BY LeavesFiles
    <3>2. Safe(f)
      BY <1>1, ProvidedIsSafe
    <3> QED
      BY <3>1, <3>2 DEF Honoured
  <2> QED
    BY <2>1, InstalledStays
<1>4. ASSUME step.kind = "fonts", assumed' # "unknown", NEW v \in ViewsOf("prefix")'
      PROVE  Imported(v, FontNames(step))'
  <2>1. v \in Views /\ Imported(v, FontNames(step))
    BY <1>2, <1>4 DEF Honoured
  <2> QED
    BY <1>1, <1>4, <2>1, StepSays, ImportedStays
<1>5. ASSUME step.kind = "registry", assumed' # "unknown", NEW v \in ViewsOf(step.architecture)'
      PROVE  Imported(v, step.values)'
  <2>1. v \in Views /\ Imported(v, step.values)
    BY <1>2, <1>5 DEF Honoured
  <2> QED
    BY <1>1, <1>5, <2>1, StepSays, ImportedStays
<1>6. ASSUME step.kind = "remove_symlink", step.link \in linked'
      PROVE  \E change \in Left' : change.do = "unlink" /\ change.link = step.link
  <2>1. PICK change \in Left : change.do = "unlink" /\ change.link = step.link
    BY <1>1, <1>6 DEF Honoured
  <2>2. CASE change \in Left'
    BY <2>1, <2>2
  <2>3. CASE change \notin Left'
    <3>1. change = Head(todo) /\ todo # <<>> /\ ~Interrupt /\ ~UNCHANGED todo
      BY <1>1, <2>1, <2>3, StillLeft DEF Left
    <3>2. Unlink
      BY <1>1, <2>1, <3>1, OnlyDoing DEF Doing
    <3>3. linked' = linked \ {change.link}
      BY <3>1, <3>2 DEF Unlink
    <3> QED
      BY <1>6, <2>1, <3>3
  <2> QED
    BY <2>2, <2>3
<1>7. ASSUME step.kind = "isolate_home", linked' \cap HomeLinks # {}
      PROVE  \E change \in Left' : change.do = "isolate_home"
  <2>1. PICK change \in Left : change.do = "isolate_home"
    BY <1>1, <1>7 DEF Honoured
  <2>2. CASE change \in Left'
    BY <2>1, <2>2
  <2>3. CASE change \notin Left'
    <3>1. change = Head(todo) /\ todo # <<>> /\ ~Interrupt /\ ~UNCHANGED todo
      BY <1>1, <2>1, <2>3, StillLeft DEF Left
    <3>2. IsolateHome
      BY <1>1, <2>1, <3>1, OnlyDoing DEF Doing
    <3> QED
      BY <1>7, <3>1, <3>2 DEF IsolateHome
  <2> QED
    BY <2>2, <2>3
<1>8. ASSUME step.kind = "remove_mono", mono' = TRUE
      PROVE  \E change \in Left' : change.do = "uninstall_mono"
  <2>1. mono
    BY <1>1, <1>8, Progress
  <2>2. PICK change \in Left : change.do = "uninstall_mono"
    BY <1>8, <2>1 DEF Honoured
  <2>3. CASE change \in Left'
    BY <2>2, <2>3
  <2>4. CASE change \notin Left'
    <3>1. change = Head(todo) /\ todo # <<>> /\ ~Interrupt /\ ~UNCHANGED todo
      BY <1>1, <2>2, <2>4, StillLeft DEF Left
    <3>2. UninstallMono
      BY <1>1, <2>2, <3>1, OnlyDoing DEF Doing
    <3> QED
      BY <1>8, <3>2 DEF UninstallMono
  <2> QED
    BY <2>3, <2>4
<1>9. mono' \in BOOLEAN
  BY <1>1, ShapeStep DEF ShapeInv, StepTypeOK
<1> QED
  BY <1>3, <1>4, <1>5, <1>6, <1>7, <1>8, <1>9 DEF Honoured

\* A step that begins has all its promises before it.
LEMMA BegunKept ==
  ASSUME ShapeInv, BeginStep, Reached(begun + 1), NEW step \in Steps, step = Step(begun + 1)
  PROVE  Honoured(step)'
<1>1. /\ todo' \in Seq(Changes) /\ Serves(todo', step) /\ arch # "none" /\ recipe # NoRecipe
  BY BegunShape DEF BeginStep
<1>2. UNCHANGED <<arch, file, registry, linked, mono, assumed>>
  BY DEF BeginStep, prefix
<1>3. assumed # "unknown" => arch = assumed
  BY <1>1 DEF ShapeInv, Architecture
<1>4. \A architecture : ViewsOf(architecture)' = ViewsOf(architecture)
  BY <1>2 DEF ViewsOf, NativeView, Wide
<1>16. ServedBy(step, ToSet(todo'))
  BY <1>1, ServesLeft
<1>12. \A f \in Leaves(step) : \E change \in ToSet(todo') :
         change.do \in {"write", "replace", "move"} /\ change.file = f
  BY <1>16 DEF ServedBy
<1>13. step.kind = "fonts" /\ assumed # "unknown" /\ arch = assumed =>
         \A v \in ViewsOf("prefix") : \E change \in ToSet(todo') :
           change.do = "import" /\ change.view = v /\ change.values = FontNames(step)
  BY <1>16 DEF ServedBy
<1>14. step.kind = "registry" /\ assumed # "unknown" /\ arch = assumed =>
         \A v \in ViewsOf(step.architecture) : \E change \in ToSet(todo') :
           change.do = "import" /\ change.view = v /\ change.values = step.values
  BY <1>16 DEF ServedBy
<1>15. step.kind = "remove_symlink" => \E change \in ToSet(todo') :
         change.do = "unlink" /\ change.link = step.link
  BY <1>16 DEF ServedBy
<1>5. ASSUME NEW f \in Provides(step) PROVE Coming(f)'
  <2>1. f \in Leaves(step)
    BY LeavesFiles
  <2>2. PICK change \in ToSet(todo') : change.do \in {"write", "replace", "move"} /\ change.file = f
    BY <1>12, <2>1
  <2> QED
    BY <2>2 DEF Coming, Left
<1>6. ASSUME step.kind = "fonts", assumed' # "unknown", NEW v \in ViewsOf("prefix")'
      PROVE  Imported(v, FontNames(step))'
  <2>1. PICK change \in ToSet(todo') :
          change.do = "import" /\ change.view = v /\ change.values = FontNames(step)
    BY <1>2, <1>3, <1>4, <1>6, <1>13
  <2> QED
    BY <2>1 DEF Imported, Left
<1>7. ASSUME step.kind = "registry", assumed' # "unknown", NEW v \in ViewsOf(step.architecture)'
      PROVE  Imported(v, step.values)'
  <2>1. PICK change \in ToSet(todo') :
          change.do = "import" /\ change.view = v /\ change.values = step.values
    BY <1>2, <1>3, <1>4, <1>7, <1>14
  <2> QED
    BY <2>1 DEF Imported, Left
<1>8. step.kind = "remove_symlink" => \E change \in Left' : change.do = "unlink" /\ change.link = step.link
  BY <1>15 DEF Left
<1>9. step.kind = "isolate_home" => \E change \in Left' : change.do = "isolate_home"
  BY <1>16 DEF Left, ServedBy
<1>10. step.kind = "remove_mono" /\ mono' = TRUE => \E change \in Left' : change.do = "uninstall_mono"
  BY <1>2, <1>16 DEF Left, ServedBy
<1>11. mono' \in BOOLEAN
  BY <1>2 DEF ShapeInv, StepTypeOK
<1> QED
  BY <1>5, <1>6, <1>7, <1>8, <1>9, <1>10, <1>11 DEF Honoured

\* Every step that was begun and meant for this prefix has its promise kept.
LEMMA PromisedStep ==
  ASSUME Base, Backed, Promised, [StepNext]_stepVars
  PROVE  Promised'
<1>1. ShapeInv
  BY DEF Base
<1> SUFFICES ASSUME recipe' # NoRecipe, NEW step \in Pledged' PROVE Honoured(step)'
  BY DEF Promised
<1>2. CASE recipe = NoRecipe /\ \E r \in Recipes : BeginAttempt(r)
  <2>1. begun' = 0
    BY <1>2 DEF BeginAttempt
  <2>2. 1 .. begun' = {}
    BY <2>1
  <2> QED
    BY <2>2 DEF Pledged
<1>3. CASE recipe # NoRecipe /\ BeginStep
  <2>1. begun \in Nat /\ begun' = begun + 1 /\ begun + 1 \in 1 .. Len(StepsOf[recipe])
    BY <1>1, <1>3, BegunShape
  <2>2. recipe' = recipe /\ arch' = arch /\ assumed' = assumed
    BY <1>3 DEF BeginStep, prefix
  <2>3. PICK i \in 1 .. begun' : Reached(i)' /\ step = Step(i)'
    BY DEF Pledged
  <2>4. Reached(i) /\ step = Step(i)
    BY <2>2, <2>3 DEF Step, Reached, Is64Bit
  <2>5. /\ Len(StepsOf[recipe]) \in Nat /\ \A k \in 1 .. Len(StepsOf[recipe]) : Step(k) \in Steps
        /\ ToSet(StepsOf[recipe]) = {Step(k) : k \in 1 .. Len(StepsOf[recipe])}
    BY <1>1, <1>3, CurrentStep DEF ShapeInv
  <2>6. CASE i = begun + 1
    BY <1>1, <1>3, <2>1, <2>4, <2>5, <2>6, BegunKept
  <2>7. CASE i # begun + 1
    <3>1. i \in 1 .. begun
      BY <2>1, <2>3, <2>7
    <3>2. i \in 1 .. Len(StepsOf[recipe])
      BY <2>1, <2>5, <3>1
    <3>3. Honoured(step)
      BY <1>3, <2>4, <3>1 DEF Promised, Pledged
    <3> QED
      BY <1>3, <2>2, <2>4, <2>5, <3>2, <3>3, KeptStays
  <2> QED
    BY <2>6, <2>7
<1>4. CASE /\ recipe # NoRecipe /\ recipe' = recipe /\ begun' = begun /\ assumed' = assumed
           /\ begun > 0 => arch' = arch
  <2>1. /\ begun \in 0 .. Len(StepsOf[recipe]) /\ Len(StepsOf[recipe]) \in Nat
        /\ \A k \in 1 .. Len(StepsOf[recipe]) : Step(k) \in Steps
        /\ ToSet(StepsOf[recipe]) = {Step(k) : k \in 1 .. Len(StepsOf[recipe])}
    BY <1>1, <1>4, CurrentStep DEF ShapeInv
  <2>2. PICK i \in 1 .. begun' : Reached(i)' /\ step = Step(i)'
    BY DEF Pledged
  <2>3. i \in 1 .. begun /\ begun > 0 /\ arch' = arch /\ i \in 1 .. Len(StepsOf[recipe])
    BY <1>4, <2>1, <2>2
  <2>4. Reached(i) /\ step = Step(i)
    BY <1>4, <2>2, <2>3 DEF Step, Reached, Is64Bit
  <2>5. Honoured(step)
    BY <1>4, <2>3, <2>4 DEF Promised, Pledged
  <2> QED
    BY <1>4, <2>1, <2>3, <2>4, <2>5, KeptStays
<1> QED
  BY <1>1, <1>2, <1>3, <1>4, Continues

-----------------------------------------------------------------------------
(* The removal of Mono, and the fonts that the registry names.             *)

\* DLLs of Mono stay without it only while their removal is left, or was cut off.
LEMMA ShimmedStep ==
  ASSUME ShapeInv, Shimmed, [StepNext]_stepVars
  PROVE  Shimmed'
<1> SUFFICES ASSUME ~mono', shims', ~monoCut'
             PROVE  \E change \in Left' : change.do = "remove_shims"
  BY DEF Shimmed
<1>1. shims /\ ~monoCut
  BY Progress
<1>2. CASE mono
  <2>1. ~UNCHANGED mono
    BY <1>2, Zenon
  <2>2. UninstallMono \/ Interrupt
    BY <2>1 DEF StepNext, stepVars, prefix, BeginAttempt, BeginStep, InitializePrefix, Import, Need,
                Write, ClearFont, Move, Delete, Unlink, IsolateHome, RemoveShims, Complete
  <2>3. CASE UninstallMono
    <3>1. Doing("uninstall_mono") /\ todo' = Tail(todo)
      BY <2>3 DEF UninstallMono, Done
    <3> QED
      BY <3>1, FormLeft DEF Left
  <2>4. CASE Interrupt
    <3>1. Doing("uninstall_mono")
      BY <2>1, <2>4 DEF Interrupt, prefix
    <3>2. monoCut'
      BY <2>4, <3>1 DEF Interrupt
    <3> QED
      BY <3>2
  <2> QED
    BY <2>2, <2>3, <2>4
<1>3. CASE ~mono
  <2>1. PICK change \in Left : change.do = "remove_shims"
    BY <1>1, <1>3 DEF Shimmed
  <2>2. /\ todo # <<>> /\ recipe # NoRecipe
        /\ Doing("remove_shims") \/ Doing("uninstall_mono")
    BY <2>1, FormLeft, CurrentChange
  <2>3. ~Interrupt /\ ~Complete /\ ~BeginStep /\ \A r \in Recipes : ~BeginAttempt(r)
    BY <2>2 DEF Interrupt, Complete, BeginStep, BeginAttempt
  <2>4. CASE UNCHANGED todo
    BY <2>1, <2>4 DEF Left
  <2>5. CASE ~UNCHANGED todo
    <3>1. UninstallMono \/ RemoveShims
      BY <2>2, <2>3, <2>5, OnlyDoing
    <3>2. ~RemoveShims
      BY DEF RemoveShims
    <3>3. Doing("uninstall_mono") /\ todo' = Tail(todo)
      BY <3>1, <3>2 DEF UninstallMono, Done
    <3> QED
      BY <3>3, FormLeft DEF Left
  <2> QED
    BY <2>4, <2>5
<1> QED
  BY <1>2, <1>3

\* The registry names no font that is neither there nor being replaced.
LEMMA BackedStep ==
  ASSUME Base, Backed, [StepNext]_stepVars
  PROVE  Backed'
<1>1. /\ ShapeInv /\ Left \subseteq Changes
      /\ Fonts \subseteq Files
  BY FormLeft, StepAssumption DEF Base, ShapeInv, StepTypeOK, StepAssumption
<1>2. \A f \in Fonts : Written(f) => Written(f)'
  BY <1>1, WrittenStays, FontsAreSafe
<1>3. ASSUME NEW f \in Fonts, NEW v \in Views, registry'[v][f] # Unset PROVE Written(f)'
  <2>1. CASE registry'[v][f] = registry[v][f]
    BY <1>2, <1>3, <2>1 DEF Backed
  <2>2. CASE registry'[v][f] # registry[v][f]
    <3>1. f \in Values
      BY DEF Values
    <3>2. Doing("import") /\ Head(todo) \in Left /\ f \in DOMAIN Head(todo).values
      BY <1>1, <2>2, <3>1, RegistryStep
    <3>3. Written(f) \/ Coming(f)
      BY <3>2 DEF Backed, Doing
    <3>4. ~Coming(f)
      BY <1>1, <3>2, FormLeft DEF Coming
    <3> QED
      BY <1>2, <3>3, <3>4
  <2> QED
    BY <2>1, <2>2
<1>4. ASSUME NEW change \in Left', change.do = "import"
      PROVE  /\ Sourced(change.values)'
             /\ \A f \in DOMAIN change.values \cap Fonts : Written(f)' \/ Coming(f)'
  <2>1. ShapeInv'
    BY <1>1, ShapeStep
  <2>2. recipe' # NoRecipe
    <3>1. todo' # <<>>
      BY <1>4 DEF Left, ToSet
    <3> QED
      BY <2>1, <3>1 DEF ShapeInv, StepTypeOK
  <2>3. CASE recipe = NoRecipe /\ \E r \in Recipes : BeginAttempt(r)
    <3>1. todo' = <<>> \/ todo' = <<[do |-> "initialize"]>>
      BY <2>3 DEF BeginAttempt
    <3>2. PICK i \in DOMAIN todo' : todo'[i] = change
      BY DEF Left, ToSet
    <3>3. todo'[i].do = "initialize"
      BY <3>1, <3>2
    <3> QED
      BY <1>4, <3>2, <3>3
  <2>4. CASE recipe # NoRecipe /\ change \in Left
    <3>1. /\ Sourced(change.values)
          /\ \A f \in DOMAIN change.values \cap Fonts : Written(f) \/ Coming(f)
      BY <1>4, <2>4 DEF Backed
    <3>2. \A f \in Fonts : f \in Files /\ Safe(f)
      BY <1>1, FontsAreSafe
    <3>3. recipe' = recipe
      <4>1. ~Complete /\ ~Interrupt /\ \A r \in Recipes : ~BeginAttempt(r)
        BY <2>2, <2>4 DEF Complete, Interrupt, BeginAttempt
      <4> QED
        BY <1>1, <2>2, <2>4, <4>1, Continues DEF BeginStep
    <3>4. Sourced(change.values)'
      BY <3>1, <3>3 DEF Sourced
    <3>5. \A f \in DOMAIN change.values \cap Fonts : Written(f)' \/ Coming(f)'
      BY <2>2, <2>4, <3>1, <3>2, InstalledStays
    <3> QED
      BY <3>4, <3>5
  <2>5. CASE recipe # NoRecipe /\ BeginStep
    <3>1. /\ todo' \in Seq(Changes) /\ Step(begun + 1) \in Steps
          /\ Reached(begun + 1) => Serves(todo', Step(begun + 1))
          /\ ~Reached(begun + 1) => todo' = <<>>
      BY <1>1, <2>5, BegunShape
    <3>2. todo' # <<>>
      BY <1>4 DEF Left, ToSet
    <3>3. ServedBy(Step(begun + 1), Left')
      BY <3>1, <3>2, ServesLeft DEF Left
    <3>4. PICK step \in Steps : step = Step(begun + 1) /\ ServedBy(step, Left')
      BY <3>1, <3>3
    <3>5. \/ step.kind = "fonts" /\ change.values = FontNames(step)
          \/ step.kind = "registry" /\ change.values = step.values
      BY <1>4, <3>4 DEF ServedBy
    <3>6. /\ recipe' = recipe /\ step \in ToSet(StepsOf[recipe])
          /\ \A g \in Leaves(step) : \E given \in Left' :
               given.do \in {"write", "replace", "move"} /\ given.file = g
      <4>1. recipe' = recipe
        BY <2>5 DEF BeginStep
      <4>2. step \in ToSet(StepsOf[recipe])
        <5>1. begun + 1 \in 1 .. Len(StepsOf[recipe])
          BY <1>1, <2>5, BegunShape
        <5>2. ToSet(StepsOf[recipe]) = {Step(k) : k \in 1 .. Len(StepsOf[recipe])}
          BY <1>1, <2>5, CurrentStep DEF ShapeInv
        <5> QED
          BY <3>4, <5>1, <5>2
      <4> QED
        BY <3>4, <4>1, <4>2 DEF ServedBy
    <3>7. Sourced(change.values)'
      <4>1. Sourced(change.values)
        BY <3>4, <3>5, <3>6, StepSays
      <4> QED
        BY <3>6, <4>1 DEF Sourced
    <3>8. ASSUME NEW f \in DOMAIN change.values \cap Fonts PROVE Coming(f)'
      <4>1. step.kind = "fonts" /\ change.values = FontNames(step)
        <5>1. step.kind = "registry" => DOMAIN step.values \subseteq Keys
          BY <3>4, FilesMade
        <5>2. Keys \cap Fonts = {}
          BY StepAssumption DEF StepAssumption
        <5> QED
          BY <3>5, <3>8, <5>1, <5>2
      <4>2. f \in Leaves(step)
        <5>1. DOMAIN FontNames(step) = FontFiles(step)
          BY <3>4, <4>1, StepSays
        <5> QED
          BY <3>8, <4>1, <5>1 DEF Leaves, Provides
      <4> QED
        BY <3>6, <4>2 DEF Coming
    <3> QED
      BY <3>7, <3>8
  <2>6. CASE /\ recipe # NoRecipe /\ recipe' = recipe /\ ~Interrupt /\ ~Complete
             /\ ~BeginStep /\ change \notin Left
    <3>1. \A r \in Recipes : ~BeginAttempt(r)
      BY <2>6 DEF BeginAttempt
    <3>2. todo' # todo
      BY <2>6 DEF Left
    <3>3. ClearFont \/ (todo # <<>> /\ Done)
      BY <2>6, <3>1, <3>2 DEF StepNext, stepVars, attempt, InitializePrefix, Import, Need, Write, Move,
              Delete, Unlink, IsolateHome, UninstallMono, RemoveShims, Doing
    <3>4. CASE todo # <<>> /\ Done
      BY <1>1, <2>6, <3>4, DoneFrame
    <3>5. CASE ClearFont
      BY <1>1, <1>4, <2>6, <3>5, ClearedShape
    <3> QED
      BY <3>3, <3>4, <3>5
  <2> QED
    BY <1>1, <2>2, <2>3, <2>4, <2>5, <2>6, Continues
<1> QED
  BY <1>3, <1>4 DEF Backed

-----------------------------------------------------------------------------
(* What winetricks.log says.                                               *)

\* What one recipe set stays, unless another sets it anew.
LEMMA RegisteredStays ==
  ASSUME Base, Backed, [StepNext]_stepVars, NEW r \in Recipes, ~Complete \/ r # recipe,
         NEW step \in ToSet(StepsOf[r]), step \in Steps,
         NEW v \in Views, NEW values,
         \/ step.kind = "fonts" /\ values = FontNames(step)
         \/ step.kind = "registry" /\ values = step.values,
         NEW k \in DOMAIN values,
         registry[v][k] = values[k] \/ <<r, v, k>> \in overwritten
  PROVE  registry'[v][k] = values[k] \/ <<r, v, k>> \in overwritten'
<1>1. ShapeInv /\ k \in Values
  BY StepSays DEF Base
<1>2. CASE <<r, v, k>> \in overwritten
  BY <1>2, OverwrittenStays
<1>3. CASE registry[v][k] = values[k] /\ registry'[v][k] = registry[v][k]
  BY <1>3
<1>4. CASE registry[v][k] = values[k] /\ registry'[v][k] # registry[v][k]
  <2>1. /\ Doing("import") /\ recipe # NoRecipe /\ Head(todo) \in Left
        /\ k \in DOMAIN Head(todo).values /\ registry'[v][k] = Head(todo).values[k]
        /\ k \in Keys /\ r # recipe => <<r, v, k>> \in overwritten'
    BY <1>1, <1>4, RegistryStep
  <2>2. Sourced(Head(todo).values) /\ recipe \in Recipes
    BY <1>1, <2>1 DEF Backed, Doing, ShapeInv, StepTypeOK
  <2>3. CASE k \in Keys /\ r # recipe
    BY <2>1, <2>3
  <2>4. CASE r = recipe
    <3>1. Sourced(values)
      BY <2>4, StepSays
    <3> QED
      BY <2>1, <2>2, <3>1, SourcedAgree
  <2>5. CASE k \notin Keys
    <3>1. values = FontNames(step) /\ step.kind = "fonts"
      <4>1. step.kind = "registry" => DOMAIN step.values \subseteq Keys
        BY FilesMade
      <4> QED
        BY <2>5, <4>1
    <3>2. Sourced(values)
      BY <3>1, StepSays
    <3> QED
      BY <2>1, <2>2, <3>2, SourcedAgree
  <2> QED
    BY <2>3, <2>4, <2>5
<1> QED
  BY <1>2, <1>3, <1>4

\* The prefix is one that a step meant for 64 bits changed.
Meant(r, step) == step.only64 => IF r \in blind THEN arch = "wow64" ELSE Wide

\* What a step promises of the prefix stays so.
LEMMA HoldsStays ==
  ASSUME Base, Backed, [StepNext]_stepVars, arch # "none",
         NEW r \in Recipes, NEW step \in ToSet(StepsOf[r]), Holds(r, step), r \in blind <=> r \in blind',
         ~Complete \/ r # recipe
  PROVE  Holds(r, step)'
<1>1. /\ ShapeInv /\ arch' = arch /\ linked' \subseteq linked
      /\ (mono' => mono) /\ (shims' => shims) /\ (monoCut => monoCut')
  BY Progress DEF Base
<1>2. step \in Steps
  BY StepsTyped
<1>3. \A architecture : ViewsOf(architecture)' = ViewsOf(architecture) /\ ViewsOf(architecture) \subseteq Views
  BY <1>1 DEF ViewsOf, NativeView, Views, Wide
<1>4. ASSUME NEW architecture, NEW values, Registered(r, architecture, values),
             \/ step.kind = "fonts" /\ values = FontNames(step)
             \/ step.kind = "registry" /\ values = step.values
      PROVE  Registered(r, architecture, values)'
  <2> SUFFICES ASSUME r \notin blind', NEW v \in ViewsOf(architecture)', NEW k \in DOMAIN values
               PROVE  registry'[v][k] = values[k] \/ <<r, v, k>> \in overwritten'
    BY DEF Registered
  <2>1. v \in ViewsOf(architecture) /\ v \in Views
    BY <1>3
  <2>2. registry[v][k] = values[k] \/ <<r, v, k>> \in overwritten
    BY <1>4, <2>1 DEF Registered
  <2> QED
    BY <1>2, <1>4, <2>1, <2>2, RegisteredStays
<1>5. \A f \in Provides(step) : Written(f) => Written(f)'
  <2> SUFFICES ASSUME NEW f \in Provides(step), Written(f) PROVE Written(f)'
    OBVIOUS
  <2>1. f \in Files /\ Safe(f)
    BY <1>2, LeavesFiles, ProvidedIsSafe
  <2> QED
    BY <2>1, WrittenStays
<1>8. Meant(r, step)' => Meant(r, step)
  BY <1>1 DEF Meant, Wide
<1>6. ASSUME Meant(r, step)'
      PROVE  /\ \A f \in Provides(step) : Written(f)
             /\ step.kind = "fonts" => Registered(r, "prefix", FontNames(step))
             /\ step.kind = "registry" => Registered(r, step.architecture, step.values)
             /\ step.kind = "remove_symlink" => step.link \notin linked
             /\ step.kind = "isolate_home" => linked \cap HomeLinks = {}
             /\ step.kind = "remove_mono" => ~mono /\ (shims => monoCut)
  BY <1>6, <1>8 DEF Holds, Meant
<1>7. ASSUME Meant(r, step)'
      PROVE  /\ \A f \in Provides(step) : Written(f)'
             /\ step.kind = "fonts" => Registered(r, "prefix", FontNames(step))'
             /\ step.kind = "registry" => Registered(r, step.architecture, step.values)'
             /\ step.kind = "remove_symlink" => step.link \notin linked'
             /\ step.kind = "isolate_home" => linked' \cap HomeLinks = {}
             /\ step.kind = "remove_mono" => ~mono' /\ (shims' => monoCut')
  <2>1. \A f \in Provides(step) : Written(f)'
    BY <1>5, <1>6, <1>7
  <2>2. /\ step.kind = "fonts" => Registered(r, "prefix", FontNames(step))'
        /\ step.kind = "registry" => Registered(r, step.architecture, step.values)'
    BY <1>4, <1>6, <1>7
  <2>3. /\ step.kind = "remove_symlink" => step.link \notin linked'
        /\ step.kind = "isolate_home" => linked' \cap HomeLinks = {}
    BY <1>1, <1>6, <1>7
  <2>4. step.kind = "remove_mono" => ~mono' /\ (shims' => monoCut')
    BY <1>1, <1>6, <1>7
  <2> QED
    BY <2>1, <2>2, <2>3, <2>4
<1> QED
  BY <1>7 DEF Holds, Meant

\* An attempt that has made all its changes has kept every promise of its recipe.
LEMMA AttemptHolds ==
  ASSUME ShapeInv, Promised, Shimmed, recipe # NoRecipe, todo = <<>>, begun = Len(StepsOf[recipe]),
         NEW step \in ToSet(StepsOf[recipe]), step.only64 => Is64Bit
  PROVE  /\ \A f \in Provides(step) : Written(f)
         /\ step.kind = "fonts" /\ assumed # "unknown" =>
              \A v \in ViewsOf("prefix") : IsSet(v, FontNames(step))
         /\ step.kind = "registry" /\ assumed # "unknown" =>
              \A v \in ViewsOf(step.architecture) : IsSet(v, step.values)
         /\ step.kind = "remove_symlink" => step.link \notin linked
         /\ step.kind = "isolate_home" => linked \cap HomeLinks = {}
         /\ step.kind = "remove_mono" => ~mono /\ (shims => monoCut)
<1>1. Left = {}
  BY FormLeft
<1>2. ToSet(StepsOf[recipe]) = {Step(i) : i \in 1 .. Len(StepsOf[recipe])}
  BY CurrentStep DEF ShapeInv
<1>3. PICK i \in 1 .. begun : step = Step(i)
  BY <1>2
<1>4. Reached(i)
  BY <1>3 DEF Reached
<1>5. Honoured(step)
  BY <1>3, <1>4 DEF Promised, Pledged
<1>6. \A f \in Provides(step) : Written(f)
  BY <1>1, <1>5 DEF Honoured, Coming
<1>7. /\ step.kind = "fonts" /\ assumed # "unknown" =>
           \A v \in ViewsOf("prefix") : IsSet(v, FontNames(step))
      /\ step.kind = "registry" /\ assumed # "unknown" =>
           \A v \in ViewsOf(step.architecture) : IsSet(v, step.values)
  BY <1>1, <1>5 DEF Honoured, Imported
<1>8. /\ step.kind = "remove_symlink" => step.link \notin linked
      /\ step.kind = "isolate_home" => linked \cap HomeLinks = {}
  BY <1>1, <1>5 DEF Honoured
<1>9. step.kind = "remove_mono" => ~mono
  BY <1>1, <1>5 DEF Honoured
<1>10. ~mono => (shims => monoCut)
  BY <1>1 DEF Shimmed
<1> QED
  BY <1>6, <1>7, <1>8, <1>9, <1>10

\* A recipe is written to the log when all it says holds.
LEMMA InstalledStep ==
  ASSUME Base, Backed, Promised, Shimmed, InstalledMeansApplied, [StepNext]_stepVars
  PROVE  InstalledMeansApplied'
<1>1. ShapeInv /\ installed \subseteq Recipes /\ (installed # {} => arch # "none")
  BY DEF Base, ShapeInv, StepTypeOK, Architecture
<1> SUFFICES ASSUME NEW r \in installed', NEW step \in ToSet(StepsOf[r]) PROVE Holds(r, step)'
  BY DEF InstalledMeansApplied
<1>2. CASE ~Complete
  <2>1. installed' = installed /\ blind' = blind
    BY <1>2 DEF StepNext, stepVars, prefix, history, BeginAttempt, BeginStep, InitializePrefix, Import,
                Need, Write, ClearFont, Move, Delete, Unlink, IsolateHome, UninstallMono, RemoveShims,
                Interrupt, Done, Proceed
  <2>2. Holds(r, step) /\ r \in Recipes /\ arch # "none"
    BY <1>1, <2>1 DEF InstalledMeansApplied
  <2> QED
    BY <1>2, <2>1, <2>2, HoldsStays
<1>3. CASE Complete
  <2>1. /\ recipe # NoRecipe /\ todo = <<>> /\ begun = Len(StepsOf[recipe])
        /\ installed' = installed \cup {recipe}
        /\ blind' = IF assumed = "unknown" THEN blind \cup {recipe} ELSE blind \ {recipe}
        /\ UNCHANGED <<arch, file, registry, linked, mono, shims, torn, monoCut>>
    BY <1>3 DEF Complete
  <2>2. CASE r # recipe
    <3>1. Holds(r, step) /\ r \in Recipes /\ arch # "none" /\ (r \in blind <=> r \in blind')
      BY <1>1, <2>1, <2>2 DEF InstalledMeansApplied
    <3> QED
      BY <2>2, <3>1, HoldsStays
  <2>3. CASE r = recipe
    <3>1. r \in blind' <=> assumed = "unknown"
      BY <2>1, <2>3
    <3>2. \A architecture : ViewsOf(architecture)' = ViewsOf(architecture)
      BY <2>1 DEF ViewsOf, NativeView, Wide
    <3>3. \A architecture, values :
            (assumed # "unknown" => \A v \in ViewsOf(architecture) : IsSet(v, values)) =>
              Registered(r, architecture, values)'
      BY <2>1, <3>1, <3>2 DEF Registered, IsSet
    <3>4. ASSUME Meant(r, step)'
          PROVE  /\ \A f \in Provides(step) : Written(f)'
                 /\ step.kind = "fonts" => Registered(r, "prefix", FontNames(step))'
                 /\ step.kind = "registry" => Registered(r, step.architecture, step.values)'
                 /\ step.kind = "remove_symlink" => step.link \notin linked'
                 /\ step.kind = "isolate_home" => linked' \cap HomeLinks = {}
                 /\ step.kind = "remove_mono" => ~mono' /\ (shims' => monoCut')
      <4>1. step \in ToSet(StepsOf[recipe]) /\ (step.only64 => Is64Bit)
        <5>1. assumed # "unknown" => arch = assumed
          BY <1>1, <2>1 DEF ShapeInv, Architecture
        <5>2. step.only64 => IF assumed = "unknown" THEN arch = "wow64" ELSE arch \in {"win64", "wow64"}
          BY <2>1, <3>1, <3>4 DEF Meant, Wide
        <5> QED
          BY <2>3, <5>1, <5>2 DEF Is64Bit
      <4>2. /\ \A f \in Provides(step) : Written(f)
            /\ step.kind = "fonts" /\ assumed # "unknown" =>
                 \A v \in ViewsOf("prefix") : IsSet(v, FontNames(step))
            /\ step.kind = "registry" /\ assumed # "unknown" =>
                 \A v \in ViewsOf(step.architecture) : IsSet(v, step.values)
            /\ step.kind = "remove_symlink" => step.link \notin linked
            /\ step.kind = "isolate_home" => linked \cap HomeLinks = {}
            /\ step.kind = "remove_mono" => ~mono /\ (shims => monoCut)
        BY <1>1, <2>1, <4>1, AttemptHolds
      <4>3. \A f \in Provides(step) : Written(f)'
        BY <2>1, <4>2 DEF Written
      <4>4. /\ step.kind = "fonts" => Registered(r, "prefix", FontNames(step))'
            /\ step.kind = "registry" => Registered(r, step.architecture, step.values)'
        BY <3>3, <4>2
      <4>5. /\ step.kind = "remove_symlink" => step.link \notin linked'
            /\ step.kind = "isolate_home" => linked' \cap HomeLinks = {}
            /\ step.kind = "remove_mono" => ~mono' /\ (shims' => monoCut')
        BY <2>1, <4>2
      <4> QED
        BY <4>3, <4>4, <4>5
    <3> QED
      BY <3>4 DEF Holds, Meant
  <2> QED
    BY <2>2, <2>3
<1> QED
  BY <1>2, <1>3

-----------------------------------------------------------------------------
(* The theorems.                                                           *)

LEMMA StepInitInv ==
  ASSUME StepInit
  PROVE  StepInv
<1>1. /\ recipe = NoRecipe /\ begun = 0 /\ todo = <<>> /\ assumed = "unknown" /\ installed = {}
      /\ shims = mono
  BY DEF StepInit
<1>2. StepTypeOK
  <2>1. file \in [Files -> {"absent", "half", "whole"}]
    BY DEF StepInit
  <2>2. RegistryOK
    <3>1. \A k \in Values : (IF k \in Fonts THEN Unset ELSE Stock[k]) \in Data \cup Fonts \cup {Unset}
      BY StepAssumption DEF StepAssumption, Values
    <3> QED
      BY <3>1 DEF StepInit, RegistryOK
  <2>3. todo \in Seq(Changes)
    BY <1>1
  <2>4. /\ arch \in {"none", "win32", "win64", "wow64"} /\ linked \subseteq Links /\ mono \in BOOLEAN
        /\ shims \in BOOLEAN /\ monoCut \in BOOLEAN /\ blind \subseteq installed
        /\ torn \subseteq Files
    BY DEF StepInit
  <2>5. attempts \in 0 .. MaxAttempts
    BY StepAssumption DEF StepInit, StepAssumption
  <2> QED
    BY <1>1, <2>1, <2>2, <2>3, <2>4, <2>5 DEF StepTypeOK, RegistryOK
<1>3. Form(todo) /\ Fitting /\ Architecture /\ Left = {}
  BY <1>1 DEF Form, Fitting, Architecture, Doing, Left, ToSet
<1>4. SourcesWhole /\ Supplied /\ Promised
  BY <1>1, <1>3 DEF SourcesWhole, Supplied, Promised
<1>5. Shimmed
  BY <1>1 DEF Shimmed
<1>6. Backed
  BY <1>3 DEF StepInit, Backed, Values
<1>7. InstalledMeansApplied
  BY <1>1 DEF InstalledMeansApplied
<1> QED
  BY <1>2, <1>3, <1>4, <1>5, <1>6, <1>7 DEF StepInv, ShapeInv

LEMMA StepInvStep ==
  ASSUME StepInv, [StepNext]_stepVars
  PROVE  StepInv'
<1>1. /\ ShapeInv /\ SourcesWhole /\ Base /\ Supplied /\ Promised /\ Shimmed /\ Backed
      /\ InstalledMeansApplied
  BY DEF StepInv, Base
<1>2. ShapeInv'
  BY <1>1, ShapeStep
<1>3. SourcesWhole' /\ Supplied'
  BY <1>1, SourcesStep, SuppliedStep
<1>4. Promised' /\ Shimmed'
  BY <1>1, PromisedStep, ShimmedStep
<1>5. Backed' /\ InstalledMeansApplied'
  BY <1>1, BackedStep, InstalledStep
<1> QED
  BY <1>2, <1>3, <1>4, <1>5 DEF StepInv

\* The invariant holds throughout.
THEOREM StepInvariant == StepSpec => []StepInv
<1> QED
  BY StepInitInv, StepInvStep, PTL DEF StepSpec

\* A prefix, an attempt and what is left of its step have the shape that StepTypeOK
\* says, whatever the recipes.
THEOREM StepTypeCorrect == StepSpec => []StepTypeOK
<1>1. StepInv => StepTypeOK
  BY DEF StepInv, ShapeInv
<1> QED
  BY <1>1, StepInvariant, PTL

\* Whatever winetricks.log names has had its lasting effects, and keeps them until a
\* recipe sets one of its registry values anew or a later attempt cuts the replacement
\* of one of its fonts off (operation.rs 400-446, 984-1006, 1902-2364).
THEOREM InstalledWasApplied == StepSpec => []InstalledMeansApplied
<1>1. StepInv => InstalledMeansApplied
  BY DEF StepInv
<1> QED
  BY <1>1, StepInvariant, PTL

\* No leftover of an attempt that was cut off makes another fail, or is named by the
\* registry without being there (operation.rs 1943-2017, 649-685, 618-639).
THEOREM LeftoversAreHarmless == StepSpec => []LeftoversDoNoHarm
<1>1. StepInv => LeftoversDoNoHarm
  <2> SUFFICES ASSUME StepInv PROVE LeftoversDoNoHarm
    OBVIOUS
  <2>1. ShapeInv /\ SourcesWhole /\ Backed
    BY DEF StepInv
  <2>2. Doing("need") => file[Head(todo).file] = "whole"
    BY <2>1, CurrentChange DEF SourcesWhole, Doing
  <2>3. Doing("replace") \/ Doing("move") => file[Head(todo).from] = "whole"
    BY <2>1, CurrentChange DEF SourcesWhole, Doing
  <2> QED
    BY <2>1, <2>2, <2>3 DEF LeftoversDoNoHarm, Backed
<1> QED
  BY <1>1, StepInvariant, PTL

-----------------------------------------------------------------------------
(* The four parts of an operation's work.                                  *)

\* Whichever moves, each part behaves as it does alone.
LEMMA PartsAreTheirOwn == ExecutionSpec => CacheSpec /\ RunSpec /\ HostSpec /\ StepSpec
<1>1. ExecutionInit => CacheInit /\ RunInit /\ HostInit /\ StepInit
  BY DEF ExecutionInit
<1>2. [ExecutionNext]_allVars =>
        [CacheNext]_cacheVars /\ [RunNext]_runVars /\ [HostNext]_hostVars /\ [StepNext]_stepVars
  BY DEF ExecutionNext, allVars
<1> QED
  BY <1>1, <1>2, PTL DEF ExecutionSpec, CacheSpec, RunSpec, HostSpec, StepSpec

\* The files, a run of the host, the choice of a host and the steps have the shapes
\* that their modules say, for any constants.
THEOREM ExecutionTypeCorrect == ExecutionSpec => []ExecutionTypeOK
<1>1. HostInv => HostTypeOK
  BY DEF HostInv
<1>2. HostSpec => []HostTypeOK
  BY InitHost, HostStep, <1>1, PTL DEF HostSpec
<1>3. CacheTypeOK /\ RunTypeOK /\ HostTypeOK /\ StepTypeOK => ExecutionTypeOK
  BY DEF ExecutionTypeOK
<1> QED
  BY PartsAreTheirOwn, CacheTypeCorrect, RunTypeCorrect, <1>2, StepTypeCorrect, <1>3, PTL

=============================================================================
