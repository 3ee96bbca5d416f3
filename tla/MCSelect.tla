------------------------------- MODULE MCSelect -------------------------------
(***************************************************************************)
(* Small instances of Select for TLC.                                      *)
(***************************************************************************)
EXTENDS Select

CONSTANTS t, u, x, y

\* Two tables of a column each; an alias makes them share its name.
TwoTables == [n \in SetNames |-> CASE n = t -> {x}
                                   [] n = u -> {y}
                                   [] OTHER -> Null]

SomeReferences == {<<x>>, <<t, x>>, <<u, x>>}

SomeItems ==
  {Item("star", <<>>, Null), Item("all", <<t>>, Null), Item("made", <<>>, x),
   Item("agg", <<x>>, Null), Item("col", <<t, x>>, Null)}
=============================================================================
