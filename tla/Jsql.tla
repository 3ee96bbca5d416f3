-------------------------------- MODULE Jsql --------------------------------
(***************************************************************************)
(* The shape of a typed SQL database and the operators that read and       *)
(* replace its parts: src/core/jsql-shapes.ts and src/core/jsql-utils.ts.  *)
(*                                                                         *)
(* A TypeScript object type keyed by names is a function from all the      *)
(* names, Null where the name is no key.  A getter answers Null for what   *)
(* is absent and a replacement by null omits the key, so that a failed     *)
(* lookup fed to a replacement deletes.                                    *)
(***************************************************************************)
EXTENDS Naturals, Sequences

CONSTANTS SchemaNames,   \* names a schema can have
          SetNames,      \* names a relation (table or view) can have
          ColNames,      \* names a column can have
          EnumNames,     \* names an enum type can have
          SqlTypes,      \* the `type` strings of a column shape
          EnumValues,    \* the string literals of an enum
          Null           \* TypeScript's null

-----------------------------------------------------------------------------
(* Object types. *)

Map(K, V) == [K -> V \cup {Null}]

Keys(m) == {k \in DOMAIN m : m[k] # Null}

EmptyMap(K) == [k \in K |-> Null]

-----------------------------------------------------------------------------
(* The shapes. *)

\* SqlTypeShape, without the type argument (length, precision).
Column == [type : SqlTypes, nullable : BOOLEAN]

\* JsqlColumnFactsEntry: both properties are optional.
Fact == [nullability : {"unset", "not_null", "nullable"}, default : BOOLEAN]

NoFacts == [nullability |-> "unset", default |-> FALSE]

\* JsqlDataShape.  `column_facts: null` and a missing one read as {}.
Data == [kind    : {"table", "view"},
         columns : Map(ColNames, Column),
         facts   : Map(ColNames, Fact)]

\* JsqlSchemaShape.  A missing `types` reads as {}.
Schema == [sets  : Map(SetNames, Data),
           types : Map(EnumNames, Seq(EnumValues))]

Database == Map(SchemaNames, Schema)

\* Null is none of the things a getter can answer.
ASSUME NullAssumption == /\ Null \notin Data
                         /\ Null \notin Schema
                         /\ Null \notin Column
                         /\ Null \notin Fact
                         /\ Null \notin Seq(EnumValues)

CreateSchemaShape == [sets |-> EmptyMap(SetNames), types |-> EmptyMap(EnumNames)]

CreateTableShape(columns, facts) ==
  [kind |-> "table", columns |-> columns, facts |-> facts]

CreateViewShape(columns) ==
  [kind |-> "view", columns |-> columns, facts |-> EmptyMap(ColNames)]

-----------------------------------------------------------------------------
(* Getters. *)

GetData(db, sch, tab) == IF db[sch] = Null THEN Null ELSE db[sch].sets[tab]

GetTable(db, sch, tab) ==
  LET data == GetData(db, sch, tab)
  IN  IF data # Null /\ data.kind = "table" THEN data ELSE Null

GetEnum(db, sch, typ) == IF db[sch] = Null THEN Null ELSE db[sch].types[typ]

-----------------------------------------------------------------------------
(* Replacements.  Replacing by Null omits. *)

ReplaceProp(m, k, v) == [m EXCEPT ![k] = v]

\* A plausible slip: the schema is rebuilt from its sets alone.
SchemaReplaceDataForgetsTypes(schema, tab, data) ==
  IF schema = Null THEN Null
  ELSE [sets |-> ReplaceProp(schema.sets, tab, data), types |-> EmptyMap(EnumNames)]

SchemaReplaceData(schema, tab, data) ==
  IF schema = Null THEN Null
  ELSE [schema EXCEPT !.sets = ReplaceProp(@, tab, data)]

ReplaceData(db, sch, tab, data) ==
  ReplaceProp(db, sch, SchemaReplaceData(db[sch], tab, data))

SchemaReplaceEnum(schema, typ, values) ==
  IF schema = Null THEN Null
  ELSE [schema EXCEPT !.types = ReplaceProp(@, typ, values)]

ReplaceEnum(db, sch, typ, values) ==
  ReplaceProp(db, sch, SchemaReplaceEnum(db[sch], typ, values))

\* JsqlTableReplaceColumn with a bare type: the facts stay as they are.
TableAddColumn(table, col, shape) ==
  IF table = Null THEN Null
  ELSE [table EXCEPT !.columns = ReplaceProp(@, col, shape)]

\* Plausible slips: the facts stay behind, the other columns are lost.
TableReplaceColumnForgetsFacts(table, col, shape, fact) ==
  IF table = Null THEN Null
  ELSE [table EXCEPT !.columns = ReplaceProp(@, col, shape)]

TableReplaceColumnForgetsOthers(table, col, shape, fact) ==
  IF table = Null THEN Null
  ELSE [table EXCEPT !.columns = ReplaceProp(EmptyMap(ColNames), col, shape),
                     !.facts   = ReplaceProp(EmptyMap(ColNames), col, fact)]

\* JsqlTableReplaceColumn with a type and facts, as a rename passes it, and
\* with null for both.
TableReplaceColumn(table, col, shape, fact) ==
  IF table = Null THEN Null
  ELSE [table EXCEPT !.columns = ReplaceProp(@, col, shape),
                     !.facts   = ReplaceProp(@, col, fact)]

\* Answers null, not the table, when the column is missing.
TableReplaceColumnType(table, col, shape) ==
  IF table # Null /\ table.columns[col] # Null
  THEN [table EXCEPT !.columns = ReplaceProp(@, col, shape)]
  ELSE Null

FactOf(table, col) ==
  IF table.facts[col] = Null THEN NoFacts ELSE table.facts[col]

\* Answers null, not the table, when the column is missing.  Only the facts
\* change: the `nullable` of the column's shape does not.
TableReplaceColumnNullability(table, col, nullability) ==
  IF table # Null /\ table.columns[col] # Null
  THEN [table EXCEPT !.facts = ReplaceProp(@, col,
          [FactOf(table, col) EXCEPT !.nullability = nullability])]
  ELSE Null
=============================================================================
