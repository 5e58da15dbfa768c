--------------------------- MODULE MCRecipePlanner ---------------------------
(* Small instances of RecipePlanner for TLC. *)
EXTENDS RecipePlanner, TLC

CONSTANTS a, b, c, unknown

Known == {a, b, c}

\* Lists of at most two different recipes, one of which may be missing.
Lists == {s \in UNION {[1..n -> Recipes] : n \in 0..2} : IsInjective(s)}
AllCatalogs == [Known -> Lists] \cup {<<>>}
Diamond == a :> <<>> @@ b :> <<a>> @@ c :> <<a, b>>
\* A value is given to the input of c, or to b, which has none.
SmallRequests ==
  [recipes : UNION {[1..n -> Recipes] : n \in 0..2}, inputs : {<<>>}]
    \cup [recipes : {<<b, c>>}, inputs : [{c} -> {"usable", "unusable"}]]
    \cup {[recipes |-> <<b, a>>, inputs |-> b :> "usable"]}
UnsetOrUnusable == {<<>>, c :> "unusable"}

=============================================================================
