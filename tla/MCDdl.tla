-------------------------------- MODULE MCDdl --------------------------------
(***************************************************************************)
(* Small instances of Ddl for TLC.                                         *)
(***************************************************************************)
EXTENDS Ddl

CONSTANTS a, b, x, y, int

Def(name, notNull, default) ==
  [name |-> name, shape |-> [type |-> int, nullable |-> ~notNull],
   notNull |-> notNull, default |-> default]

\* A column with every fact, one with none, and a name defined twice: the last
\* definition has no facts, so the shape is its own and the facts are not.
TableLists == {<<Def(a, TRUE, TRUE)>>, <<Def(a, TRUE, FALSE), Def(a, FALSE, FALSE)>>}

PlainLists == {<<Def(a, FALSE, FALSE)>>}

OneEnumList == {<<x>>}

NoLists == {}
=============================================================================
