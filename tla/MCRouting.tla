----------------------------- MODULE MCRouting ------------------------------
(***************************************************************************)
(* Requests a/x, a/y and a/y/x, whose tables overlap under some of the      *)
(* routes, and three tables of routes: one database for all of a, another  *)
(* type for a part of it, and two patterns that both match a.              *)
(***************************************************************************)
EXTENDS Routing

x == <<1>>
y == <<2>>
a == <<3>>

MCRequests == {<<a, x>>, <<a, y>>, <<a, y, x>>}
MCKeys == {y}

Route(type, name, table, noDrop) == [type |-> type, name |-> name, table |-> table, noDrop |-> noDrop]
Pattern(names) == [names |-> names, type |-> "T", table |-> <<>>, noDrop |-> FALSE]

OneDatabase ==
    [exact |-> (<<>> :> Route("T", <<>>, <<>>, FALSE)) @@ (<<a>> :> Route("T", a, y, TRUE)), patterns |-> {}]
Moved ==
    [exact |-> (<<>> :> Route("T", <<>>, <<>>, FALSE)) @@ (<<a, y>> :> Route("U", a, <<>>, FALSE))
                @@ (<<a, x>> :> Route("V", a, <<>>, FALSE)),
     patterns |-> {}]
Patterns ==
    [exact |-> <<>> :> Route("T", <<>>, <<>>, FALSE),
     patterns |-> {Pattern(<<a>> :> a), Pattern(<<a>> :> y)}]

MCConfigs == {OneDatabase, Moved, Patterns}
=============================================================================
