-------------------------------- MODULE MCDml --------------------------------
(***************************************************************************)
(* Small instances of Dml for TLC.                                         *)
(***************************************************************************)
EXTENDS Dml

CONSTANTS a, b, int, text, status

Col(type) == [type |-> type, nullable |-> TRUE]

\* What is known of a column: nothing, NOT NULL with and without a default,
\* NOT NULL dropped.
Facts == {Null,
          [nullability |-> "not_null", default |-> FALSE],
          [nullability |-> "not_null", default |-> TRUE],
          [nullability |-> "nullable", default |-> TRUE]}

\* Tables of two columns of different classes, a table of one, and a view.
SmallRelations ==
  LET both == [c \in ColNames |-> IF c = a THEN Col(int) ELSE Col(text)]
      one  == [c \in ColNames |-> IF c = a THEN Col(status) ELSE Null]
  IN  {[kind |-> "table", columns |-> both, facts |-> f] : f \in [ColNames -> Facts]}
      \cup {[kind |-> "table", columns |-> one,
             facts |-> [c \in ColNames |-> IF c = a THEN f ELSE Null]] : f \in Facts}
      \cup {[kind |-> "view", columns |-> both, facts |-> [c \in ColNames |-> Null]]}

\* One table with two columns that take any value.
PlainRelations ==
  {[kind |-> "table", columns |-> [c \in ColNames |-> Col(int)],
    facts |-> [c \in ColNames |-> Null]]}

\* A value of each class and NULL.  A literal is not null, a column may be.
SmallShapes ==
  {[type |-> int, nullable |-> FALSE], [type |-> text, nullable |-> TRUE],
   [type |-> status, nullable |-> TRUE], [type |-> NullType, nullable |-> TRUE]}

PlainShapes == {[type |-> int, nullable |-> FALSE]}

\* An enum is of no class of its own.
Classes == [t \in SqlTypes |-> CASE t = int  -> "numeric"
                                 [] t = text -> "text"
                                 [] OTHER    -> "unknown"]
=============================================================================
