------------------------------ MODULE DdlProofs ------------------------------
(***************************************************************************)
(* Theorems about Ddl, for every set of names and types, every list of     *)
(* columns and values, and every bound, and that Ddl implements Catalog:   *)
(* whatever a script says and wherever it goes wrong, each step of the     *)
(* walk is one definition applied to the catalog, or none.                 *)
(***************************************************************************)
EXTENDS Ddl, TLAPS, WellFoundedInduction

-----------------------------------------------------------------------------
(* The operators of Jsql. *)

\* Replacing a property, or omitting it with null, gives an object type over
\* the same names.
LEMMA ReplacePropType ==
  ASSUME NEW K, NEW V, NEW m \in Map(K, V), NEW k \in K, NEW v \in V \cup {Null}
  PROVE  ReplaceProp(m, k, v) \in Map(K, V)
BY DEF ReplaceProp, Map

\* What the getters answer.
LEMMA GetDataType ==
  ASSUME NEW d \in Database, NEW s \in SchemaNames, NEW t \in SetNames
  PROVE  /\ d[s] \in Schema \cup {Null}
         /\ d[s] # Null => d[s].sets[t] \in Data \cup {Null}
         /\ GetData(d, s, t) \in Data \cup {Null}
         /\ GetTable(d, s, t) \in Data \cup {Null}
         /\ GetTable(d, s, t) # Null =>
              /\ d[s] # Null
              /\ GetTable(d, s, t) = d[s].sets[t]
              /\ GetTable(d, s, t).kind = "table"
<1>1. d[s] \in Schema \cup {Null}
  BY DEF Database, Map
<1>2. d[s] # Null => d[s].sets[t] \in Data \cup {Null}
  BY <1>1 DEF Schema, Map
<1>3. GetData(d, s, t) \in Data \cup {Null}
  BY <1>2 DEF GetData
<1>4. GetTable(d, s, t) # Null => /\ GetTable(d, s, t) = GetData(d, s, t)
                                 /\ GetData(d, s, t) # Null
                                 /\ GetTable(d, s, t).kind = "table"
  BY DEF GetTable
<1>5. GetData(d, s, t) # Null => d[s] # Null /\ GetData(d, s, t) = d[s].sets[t]
  BY DEF GetData
<1> QED
  BY <1>1, <1>2, <1>3, <1>4, <1>5

\* Replacing data in a database, by null too, gives a database.
LEMMA ReplaceDataType ==
  ASSUME NEW d \in Database, NEW s \in SchemaNames, NEW t \in SetNames,
         NEW data \in Data \cup {Null}
  PROVE  ReplaceData(d, s, t, data) \in Database
<1>1. SchemaReplaceData(d[s], t, data) \in Schema \cup {Null}
  <2>1. CASE d[s] = Null
    BY <2>1 DEF SchemaReplaceData
  <2>2. CASE d[s] # Null
    <3>1. d[s] \in Schema
      BY <2>2, GetDataType
    <3>2. ReplaceProp(d[s].sets, t, data) \in Map(SetNames, Data)
      BY <3>1, ReplacePropType DEF Schema
    <3> QED
      BY <2>2, <3>1, <3>2 DEF SchemaReplaceData, Schema
  <2> QED
    BY <2>1, <2>2
<1> QED
  BY <1>1, ReplacePropType DEF ReplaceData, Database

LEMMA ReplaceEnumType ==
  ASSUME NEW d \in Database, NEW s \in SchemaNames, NEW e \in EnumNames,
         NEW values \in Seq(EnumValues) \cup {Null}
  PROVE  ReplaceEnum(d, s, e, values) \in Database
<1>0. d[s] \in Schema \cup {Null}
  BY DEF Database, Map
<1>1. SchemaReplaceEnum(d[s], e, values) \in Schema \cup {Null}
  <2>1. CASE d[s] = Null
    BY <2>1 DEF SchemaReplaceEnum
  <2>2. CASE d[s] # Null
    <3>1. d[s] \in Schema
      BY <2>2, <1>0
    <3>2. ReplaceProp(d[s].types, e, values) \in Map(EnumNames, Seq(EnumValues))
      BY <3>1, ReplacePropType DEF Schema
    <3> QED
      BY <2>2, <3>1, <3>2 DEF SchemaReplaceEnum, Schema
  <2> QED
    BY <2>1, <2>2
<1> QED
  BY <1>1, ReplacePropType DEF ReplaceEnum, Database

\* What the replacements of a table's columns and facts give: a table whose
\* facts are, as before, facts of its columns, or null.
TableOrNull(data) ==
  /\ data \in Data \cup {Null}
  /\ data # Null => data.kind = "table" /\ FactsOK(data)

LEMMA NullabilityType ==
  ASSUME NEW n \in {"not_null", "nullable"}, NEW table \in Data,
         NEW c \in ColNames
  PROVE  [FactOf(table, c) EXCEPT !.nullability = n] \in Fact
<1>1. FactOf(table, c) \in Fact
  BY DEF FactOf, Data, Map, NoFacts, Fact
<1> QED
  BY <1>1 DEF Fact

LEMMA TableOperators ==
  ASSUME NEW table \in Data, table.kind = "table", FactsOK(table),
         NEW c \in ColNames
  PROVE  /\ TableReplaceColumn(table, c, Null, Null) \in Data
         /\ TableOrNull(TableReplaceColumn(table, c, Null, Null))
         /\ \A n \in {"not_null", "nullable"} :
              TableOrNull(TableReplaceColumnNullability(table, c, n))
         /\ \A shape \in Column :
              /\ TableOrNull(TableAddColumn(table, c, shape))
              /\ TableOrNull(TableReplaceColumnType(table, c, shape))
              /\ \A fact \in Fact :
                   TableOrNull(TableReplaceColumn(table, c, shape, fact))
<1> USE NullAssumption
<1>1. /\ table # Null
      /\ table = [kind |-> "table", columns |-> table.columns,
                  facts |-> table.facts]
      /\ table.columns \in Map(ColNames, Column)
      /\ table.facts \in Map(ColNames, Fact)
  BY DEF Data
<1>2. \A m \in Map(ColNames, Column), col \in Column \cup {Null} :
        ReplaceProp(m, c, col) \in Map(ColNames, Column)
  BY ReplacePropType
<1>3. \A m \in Map(ColNames, Fact), f \in Fact \cup {Null} :
        ReplaceProp(m, c, f) \in Map(ColNames, Fact)
  BY ReplacePropType
<1>4. ASSUME NEW cols \in Map(ColNames, Column), NEW facts \in Map(ColNames, Fact),
             NEW data, data = [kind |-> "table", columns |-> cols, facts |-> facts],
             Keys(facts) \subseteq Keys(cols)
      PROVE  data \in Data /\ TableOrNull(data)
  BY <1>4 DEF TableOrNull, Data, FactsOK
<1>5. Keys(table.facts) \subseteq Keys(table.columns)
  BY DEF FactsOK
<1>6. TableOrNull(Null)
  BY DEF TableOrNull
<1>7. ASSUME NEW col \in Column \cup {Null}, NEW f \in Fact \cup {Null},
             col = Null => f = Null
      PROVE  /\ TableReplaceColumn(table, c, col, f) \in Data
             /\ TableOrNull(TableReplaceColumn(table, c, col, f))
  <2>1. TableReplaceColumn(table, c, col, f) =
          [kind |-> "table", columns |-> ReplaceProp(table.columns, c, col),
           facts |-> ReplaceProp(table.facts, c, f)]
    BY <1>1 DEF TableReplaceColumn
  <2>2. Keys(ReplaceProp(table.facts, c, f))
          \subseteq Keys(ReplaceProp(table.columns, c, col))
    BY <1>1, <1>5, <1>7 DEF Keys, ReplaceProp, Map
  <2> QED
    BY <1>1, <1>2, <1>3, <1>4, <2>1, <2>2
<1>8. ASSUME NEW shape \in Column
      PROVE  TableOrNull(TableAddColumn(table, c, shape))
  <2>1. TableAddColumn(table, c, shape) =
          [kind |-> "table", columns |-> ReplaceProp(table.columns, c, shape),
           facts |-> table.facts]
    BY <1>1 DEF TableAddColumn
  <2>2. Keys(table.facts) \subseteq Keys(ReplaceProp(table.columns, c, shape))
    BY <1>1, <1>5 DEF Keys, ReplaceProp, Map
  <2> QED
    BY <1>1, <1>2, <1>4, <2>1, <2>2
<1>9. ASSUME NEW shape \in Column
      PROVE  TableOrNull(TableReplaceColumnType(table, c, shape))
  <2>1. CASE table.columns[c] = Null
    BY <2>1, <1>6 DEF TableReplaceColumnType
  <2>2. CASE table.columns[c] # Null
    <3>1. TableReplaceColumnType(table, c, shape) = TableAddColumn(table, c, shape)
      BY <2>2, <1>1 DEF TableReplaceColumnType, TableAddColumn
    <3> QED
      BY <3>1, <1>8
  <2> QED
    BY <2>1, <2>2
<1>10. ASSUME NEW n \in {"not_null", "nullable"}
       PROVE  TableOrNull(TableReplaceColumnNullability(table, c, n))
  <2>1. CASE table.columns[c] = Null
    BY <2>1, <1>6 DEF TableReplaceColumnNullability
  <2>2. CASE table.columns[c] # Null
    <3> DEFINE f == [FactOf(table, c) EXCEPT !.nullability = n]
    <3>1. f \in Fact
      BY NullabilityType
    <3> HIDE DEF f
    <3>2. TableReplaceColumnNullability(table, c, n) =
            [kind |-> "table", columns |-> table.columns,
             facts |-> ReplaceProp(table.facts, c, f)]
      BY <2>2, <1>1 DEF TableReplaceColumnNullability, f
    <3>3. Keys(ReplaceProp(table.facts, c, f)) \subseteq Keys(table.columns)
      BY <1>1, <1>5, <2>2 DEF Keys, ReplaceProp, Map
    <3> QED
      BY <1>1, <1>3, <1>4, <3>1, <3>2, <3>3
  <2> QED
    BY <2>1, <2>2
<1> QED
  BY <1>7, <1>8, <1>9, <1>10

-----------------------------------------------------------------------------
(* CREATE TABLE's columns. *)

\* A non-empty set of indices has a last one.
LEMMA LastOfType ==
  ASSUME NEW n \in Nat, NEW I \in SUBSET (1 .. n), I # {}
  PROVE  LastOf(I) \in I
<1> DEFINE T == {n - i : i \in I}
<1>1. T \subseteq Nat /\ T # {}
  <2>1. \A i \in I : n - i \in Nat
    BY SMT
  <2>2. PICK i \in I : TRUE
    OBVIOUS
  <2>3. n - i \in T
    BY <2>2
  <2> QED
    BY <2>1, <2>3
<1>2. PICK x \in T : \A y \in T : ~ (<<y, x>> \in OpToRel(<, Nat))
  BY <1>1, NatLessThanWellFounded, WFMin
<1>3. \A y \in T : ~ (y < x)
  BY <1>1, <1>2 DEF OpToRel
<1>4. PICK i \in I : x = n - i
  BY <1>2
<1>5. \A j \in I : j <= i
  <2> TAKE j \in I
  <2>1. n - j \in T
    OBVIOUS
  <2>2. ~ (n - j < n - i)
    BY <1>3, <1>4, <2>1
  <2> QED
    BY <2>2
<1> QED
  BY <1>5 DEF LastOf

\* A CREATE TABLE list gives a table whose facts are facts of its columns.
LEMMA ColumnsFromStackType ==
  ASSUME NEW list \in Seq(ColumnDef)
  PROVE  ColumnsFromStack(list) # Null /\ TableOrNull(ColumnsFromStack(list))
<1> USE NullAssumption
<1> DEFINE all == DOMAIN list
           facty == {i \in all : HasFact(list[i])}
           cols == [c \in ColNames |->
                      IF Defining(list, all, c) = {} THEN Null
                      ELSE list[LastOf(Defining(list, all, c))].shape]
           facts == [c \in ColNames |->
                      IF Defining(list, facty, c) = {} THEN Null
                      ELSE FactOfDef(list[LastOf(Defining(list, facty, c))])]
<1>1. all = 1 .. Len(list) /\ Len(list) \in Nat
  OBVIOUS
<1>2. \A i \in all : list[i] \in ColumnDef
  OBVIOUS
<1>3. ASSUME NEW c \in ColNames, NEW I \in SUBSET all, Defining(list, I, c) # {}
      PROVE  LastOf(Defining(list, I, c)) \in all
  <2>1. Defining(list, I, c) \in SUBSET (1 .. Len(list))
    BY <1>1 DEF Defining
  <2> QED
    BY <1>1, <1>3, <2>1, LastOfType
<1>4. cols \in Map(ColNames, Column)
  <2> SUFFICES ASSUME NEW c \in ColNames, Defining(list, all, c) # {}
               PROVE  list[LastOf(Defining(list, all, c))].shape \in Column
    BY DEF Map
  <2> QED
    BY <1>2, <1>3 DEF ColumnDef
<1>5. facts \in Map(ColNames, Fact)
  <2> SUFFICES ASSUME NEW c \in ColNames, Defining(list, facty, c) # {}
               PROVE  FactOfDef(list[LastOf(Defining(list, facty, c))]) \in Fact
    BY DEF Map
  <2>1. list[LastOf(Defining(list, facty, c))] \in ColumnDef
    BY <1>2, <1>3
  <2> QED
    BY <2>1 DEF ColumnDef, FactOfDef, Fact
<1>6. Keys(facts) \subseteq Keys(cols)
  <2> SUFFICES ASSUME NEW c \in ColNames, facts[c] # Null
               PROVE  cols[c] # Null
    BY DEF Keys
  <2>1. Defining(list, all, c) # {}
    BY DEF Defining
  <2>2. list[LastOf(Defining(list, all, c))].shape \in Column
    BY <2>1, <1>2, <1>3 DEF ColumnDef
  <2> QED
    BY <2>1, <2>2
<1>7. ColumnsFromStack(list) = [kind |-> "table", columns |-> cols, facts |-> facts]
  BY DEF ColumnsFromStack, CreateTableShape
<1> HIDE DEF cols, facts
<1>8. ColumnsFromStack(list) \in Data
  BY <1>4, <1>5, <1>7 DEF Data
<1> QED
  BY <1>6, <1>7, <1>8 DEF TableOrNull, FactsOK

-----------------------------------------------------------------------------
(* What a step does to the database: five kinds of change, whatever the    *)
(* statement.                                                              *)

DbStep ==
  \/ db' = db
  \/ \E s \in SchemaNames :
       db[s] = Null /\ db' = ReplaceProp(db, s, CreateSchemaShape)
  \/ \E s \in SchemaNames : db' = ReplaceProp(db, s, Null)
  \/ \E s \in SchemaNames, t \in SetNames, data \in Data \cup {Null} :
       /\ db[s] # Null
       /\ GetData(db, s, t) # Null => GetData(db, s, t).kind = "table"
       /\ data # Null => FactsOK(data)
       /\ db' = ReplaceData(db, s, t, data)
  \/ \E s \in SchemaNames, e \in EnumNames,
        values \in Seq(EnumValues) \cup {Null} :
       db[s] # Null /\ db' = ReplaceEnum(db, s, e, values)

\* A change of the table an ALTER TABLE is about.
LEMMA ReplaceTargetStep ==
  ASSUME db \in Database, target \in SchemaNames \X SetNames,
         TargetTable # Null, NEW table, TableOrNull(table),
         ReplaceTarget(table)
  PROVE  DbStep
<1> DEFINE s == target[1]
           t == target[2]
<1>1. s \in SchemaNames /\ t \in SetNames
  OBVIOUS
<1>2. /\ db[s] # Null
      /\ GetTable(db, s, t).kind = "table"
      /\ GetTable(db, s, t) = GetData(db, s, t)
  BY <1>1, GetDataType DEF TargetTable, GetData
<1>3. db' = ReplaceData(db, s, t, table)
  BY DEF ReplaceTarget
<1>4. table \in Data \cup {Null} /\ (table # Null => FactsOK(table))
  BY DEF TableOrNull
<1> HIDE DEF s, t
<1> QED
  BY <1>1, <1>2, <1>3, <1>4 DEF DbStep

LEMMA StatementDbStep ==
  ASSUME TypeOK, FactsWithinColumns, Statement
  PROVE  DbStep
<1> USE NullAssumption
<1>0. db \in Database
  BY DEF TypeOK
<1>1. ASSUME NEW s \in SchemaNames, NEW flag \in BOOLEAN,
             CreateSchema(s, flag) \/ DropSchema(s, flag)
      PROVE  DbStep
  BY <1>1 DEF CreateSchema, DropSchema, DbStep
<1>2. ASSUME NEW s \in SchemaNames, NEW t \in SetNames, NEW flag \in BOOLEAN,
             DropTable(s, t, flag)
      PROVE  DbStep
  <2>1. CASE GetTable(db, s, t) = Null
    BY <1>2, <2>1 DEF DropTable, DbStep
  <2>2. CASE GetTable(db, s, t) # Null
    <3>1. db' = ReplaceData(db, s, t, Null)
      BY <1>2, <2>2 DEF DropTable
    <3>2. db[s] # Null /\ GetData(db, s, t).kind = "table"
      BY <1>0, <2>2, GetDataType DEF GetData
    <3> QED
      BY <3>1, <3>2 DEF DbStep
  <2> QED
    BY <2>1, <2>2
<1>3. ASSUME NEW s \in SchemaNames, NEW t \in SetNames, AlterTable(s, t)
      PROVE  DbStep
  BY <1>3 DEF AlterTable, DbStep
<1>4. ASSUME NEW s \in SchemaNames, NEW t \in SetNames, NEW list \in ColumnLists,
             NEW flag \in BOOLEAN, NEW trailing \in BOOLEAN,
             CreateTable(s, t, list, flag, trailing)
      PROVE  DbStep
  <2>1. CASE db' = db
    BY <2>1 DEF DbStep
  <2>2. CASE db' # db
    <3>1. /\ db[s] # Null
          /\ GetData(db, s, t) = Null
          /\ db' = ReplaceData(db, s, t, ColumnsFromStack(list))
      BY <1>4, <2>2 DEF CreateTable
    <3>2. TableOrNull(ColumnsFromStack(list))
      BY ColumnsFromStackType, ListsAssumption
    <3> QED
      BY <3>1, <3>2 DEF DbStep, TableOrNull
  <2> QED
    BY <2>1, <2>2
<1>5. ASSUME NEW s \in SchemaNames, NEW v \in SetNames,
             NEW source \in SchemaNames \X SetNames, NEW cols \in SUBSET ColNames,
             NEW trailing \in BOOLEAN, CreateView(s, v, source, cols, trailing)
      PROVE  DbStep
  <2> DEFINE from == GetData(db, source[1], source[2])
             columns == [c \in ColNames |-> IF c \in cols THEN from.columns[c] ELSE Null]
  <2>1. CASE db' = db
    BY <2>1 DEF DbStep
  <2>2. CASE db' # db
    <3>1. /\ db[s] # Null /\ GetData(db, s, v) = Null
          /\ from # Null
          /\ db' = ReplaceData(db, s, v, CreateViewShape(columns))
      BY <1>5, <2>2 DEF CreateView
    <3>2. from \in Data
      BY <1>0, <3>1, GetDataType
    <3>3. columns \in Map(ColNames, Column)
      BY <3>2 DEF Data, Map
    <3> HIDE DEF columns
    <3>4. CreateViewShape(columns) \in Data
      BY <3>3 DEF CreateViewShape, EmptyMap, Data, Map
    <3>5. FactsOK(CreateViewShape(columns))
      BY DEF CreateViewShape, EmptyMap, FactsOK, Keys
    <3> QED
      BY <3>1, <3>4, <3>5 DEF DbStep
  <2> QED
    BY <2>1, <2>2
<1>6. ASSUME NEW s \in SchemaNames, NEW e \in EnumNames, NEW flag \in BOOLEAN,
             NEW trailing \in BOOLEAN, DropType(s, e, flag, trailing)
      PROVE  DbStep
  BY <1>6 DEF DropType, DbStep, GetEnum
<1>7. ASSUME NEW s \in SchemaNames, NEW e \in EnumNames, NEW flag \in BOOLEAN,
             NEW trailing \in BOOLEAN, NEW list \in EnumLists,
             CreateType(s, e, list, flag, trailing)
      PROVE  DbStep
  BY <1>7, ListsAssumption DEF CreateType, DbStep
<1>8. ASSUME NEW s \in SchemaNames, NEW e \in EnumNames, NEW flag \in BOOLEAN,
             NEW trailing \in BOOLEAN, NEW v \in EnumValues,
             AlterType(s, e, v, flag, trailing)
      PROVE  DbStep
  <2>1. CASE db' = db
    BY <2>1 DEF DbStep
  <2>2. CASE db' # db
    <3>1. /\ db[s] # Null
          /\ GetEnum(db, s, e) # Null
          /\ db' = ReplaceEnum(db, s, e, Append(GetEnum(db, s, e), v))
      BY <1>8, <2>2 DEF AlterType, GetEnum
    <3>2. GetEnum(db, s, e) \in Seq(EnumValues)
      BY <1>0, <3>1 DEF GetEnum, Database, Schema, Map
    <3>3. Append(GetEnum(db, s, e), v) \in Seq(EnumValues)
      BY <3>2
    <3> QED
      BY <3>1, <3>3 DEF DbStep
  <2> QED
    BY <2>1, <2>2
<1>9. CASE Query \/ InsertValues \/ Malformed \/ Skipped
  BY <1>9 DEF Query, InsertValues, Malformed, Skipped, DbStep
<1> QED
  BY <1>1, <1>2, <1>3, <1>4, <1>5, <1>6, <1>7, <1>8, <1>9 DEF Statement

\* The target of an ALTER TABLE, while it is there.
LEMMA TargetType ==
  ASSUME TypeOK, FactsWithinColumns, TargetTable # Null
  PROVE  /\ TargetTable \in Data
         /\ TargetTable.kind = "table"
         /\ FactsOK(TargetTable)
<1> USE NullAssumption
<1> DEFINE s == target[1]
           t == target[2]
<1>0. db \in Database /\ s \in SchemaNames /\ t \in SetNames
  BY DEF TypeOK
<1>1. /\ TargetTable \in Data
      /\ TargetTable.kind = "table"
      /\ db[s] # Null /\ TargetTable = db[s].sets[t]
  BY <1>0, GetDataType DEF TargetTable
<1>2. s \in Keys(db) /\ t \in Keys(db[s].sets)
  <2>1. s \in DOMAIN db /\ db[s] \in Schema
    BY <1>0, <1>1 DEF Database, Map
  <2>2. t \in DOMAIN db[s].sets
    BY <1>0, <2>1 DEF Schema, Map
  <2> HIDE DEF s, t
  <2> QED
    BY <1>1, <2>1, <2>2 DEF Keys
<1> HIDE DEF s, t
<1> QED
  BY <1>1, <1>2 DEF FactsWithinColumns

LEMMA ClauseDbStep ==
  ASSUME TypeOK, FactsWithinColumns, AlterClause
  PROVE  DbStep
<1> USE NullAssumption
<1>1. TargetTable # Null
  BY DEF AlterClause, AddColumn, AlterColumnType, DropColumn, SetNotNull,
         DropNotNull, RenameColumn, NoOpClause, BadClause, Clause
<1>2. /\ TargetTable \in Data
      /\ TargetTable.kind = "table"
      /\ FactsOK(TargetTable)
  BY <1>1, TargetType
<1>3. ASSUME NEW table, TableOrNull(table), ReplaceTarget(table)
      PROVE  DbStep
  BY <1>1, <1>3, ReplaceTargetStep DEF TypeOK
<1>4. ASSUME NEW c \in ColNames, NEW shape \in Column,
             AddColumn(c, shape) \/ AlterColumnType(c, shape)
      PROVE  DbStep
  <2>1. CASE db' = db
    BY <2>1 DEF DbStep
  <2>2. CASE db' # db
    BY <1>2, <1>3, <1>4, <2>2, TableOperators DEF AddColumn, AlterColumnType
  <2> QED
    BY <2>1, <2>2
<1>5. ASSUME NEW c \in ColNames, DropColumn(c) \/ SetNotNull(c) \/ DropNotNull(c)
      PROVE  DbStep
  <2>1. CASE db' = db
    BY <2>1 DEF DbStep
  <2>2. CASE db' # db
    <3>1. PICK n \in {"not_null", "nullable"} :
            \/ ReplaceTarget(TableReplaceColumn(TargetTable, c, Null, Null))
            \/ ReplaceTarget(TableReplaceColumnNullability(TargetTable, c, n))
      BY <1>5, <2>2 DEF DropColumn, SetNotNull, DropNotNull
    <3>2. TableOrNull(TableReplaceColumn(TargetTable, c, Null, Null))
      BY <1>2, TableOperators
    <3>3. TableOrNull(TableReplaceColumnNullability(TargetTable, c, n))
      BY <1>2, TableOperators
    <3> QED
      BY <1>3, <3>1, <3>2, <3>3
  <2> QED
    BY <2>1, <2>2
<1>6. ASSUME NEW old \in ColNames, NEW new \in ColNames, RenameColumn(old, new)
      PROVE  DbStep
  <2>1. CASE db' = db
    BY <2>1 DEF DbStep
  <2>2. CASE db' # db
    <3>1. /\ ReplaceTarget(Renamed(TargetTable, old, new))
          /\ TargetTable.columns[old] # Null
      BY <1>6, <2>2 DEF RenameColumn, HasColumn
    <3> DEFINE shape == TargetTable.columns[old]
               fact == FactOf(TargetTable, old)
               without == TableReplaceColumn(TargetTable, old, Null, Null)
    <3>2. shape \in Column /\ fact \in Fact
      BY <1>2, <3>1 DEF Data, Map, FactOf, NoFacts, Fact
    <3>3. TableOrNull(without) /\ without \in Data
      BY <1>2, TableOperators
    <3> HIDE DEF shape, fact, without
    <3>4. without # Null
      BY <3>3
    <3>5. TableOrNull(TableReplaceColumn(without, new, shape, fact))
      BY <3>2, <3>3, <3>4, TableOperators DEF TableOrNull
    <3> QED
      BY <1>3, <3>1, <3>5 DEF Renamed, shape, fact, without
  <2> QED
    BY <2>1, <2>2
<1>7. ASSUME NEW delimiter \in {",", ";"}, NoOpClause(delimiter) \/ BadClause
      PROVE  DbStep
  BY <1>7 DEF NoOpClause, BadClause, DbStep
<1> QED
  BY <1>4, <1>5, <1>6, <1>7 DEF AlterClause

LEMMA NextDbStep ==
  ASSUME TypeOK, FactsWithinColumns, [Next]_vars
  PROVE  DbStep
<1>1. CASE Statement
  BY <1>1, StatementDbStep
<1>2. CASE AlterClause
  BY <1>2, ClauseDbStep
<1>3. CASE SwallowNext
  <2>1. CASE db' = db
    BY <2>1 DEF DbStep
  <2>2. ASSUME NEW c \in ColNames, LosesColumn(c)
        PROVE  DbStep
    <3>1. TableOrNull(TableReplaceColumn(TargetTable, c, Null, Null))
      BY <2>2, TargetType, TableOperators DEF LosesColumn
    <3> QED
      BY <2>2, <3>1, ReplaceTargetStep DEF LosesColumn, TypeOK
  <2> QED
    BY <1>3, <2>1, <2>2 DEF SwallowNext
<1>4. CASE \/ SkipRest \/ FinishAlter \/ TableKeyMismatch
           \/ OverrunMeetsSemicolon \/ EndOfScript
           \/ OutOfBatches \/ NextMigration \/ UNCHANGED vars
  BY <1>4 DEF SkipRest, FinishAlter, TableKeyMismatch, OverrunMeetsSemicolon,
              EndOfScript, OutOfBatches, NextMigration, vars, DbStep
<1> QED
  BY <1>1, <1>2, <1>3, <1>4 DEF Next

-----------------------------------------------------------------------------
(* What those changes preserve. *)

LEMMA DbStepType ==
  ASSUME db \in Database, DbStep
  PROVE  db' \in Database
<1>1. CreateSchemaShape \in Schema
  BY DEF CreateSchemaShape, Schema, Map, EmptyMap
<1>2. \A s \in SchemaNames, schema \in Schema \cup {Null} :
        ReplaceProp(db, s, schema) \in Database
  BY ReplacePropType DEF Database
<1> QED
  BY <1>1, <1>2, ReplaceDataType, ReplaceEnumType DEF DbStep

\* Seen from one schema that is still there after the step: it is as it was,
\* new and empty, or one of its relations, never a view, or one of its enums
\* was replaced.
LEMMA SchemaAfter ==
  ASSUME db \in Database, DbStep, NEW s \in SchemaNames, db'[s] # Null
  PROVE  \/ db'[s] = db[s]
         \/ db[s] = Null /\ db'[s] = CreateSchemaShape
         \/ /\ db[s] # Null
            /\ \E t \in SetNames, data \in Data \cup {Null} :
                 /\ db[s].sets[t] # Null => db[s].sets[t].kind = "table"
                 /\ data # Null => FactsOK(data)
                 /\ db'[s].sets = ReplaceProp(db[s].sets, t, data)
         \/ db[s] # Null /\ db'[s].sets = db[s].sets
<1> USE NullAssumption
<1>1. ASSUME NEW r \in SchemaNames, NEW schema, db' = ReplaceProp(db, r, schema)
      PROVE  db'[s] = IF r = s THEN schema ELSE db[s]
  BY <1>1 DEF ReplaceProp, Database, Map
<1>2. CASE db' = db
  BY <1>2
<1>3. ASSUME NEW r \in SchemaNames, db[r] = Null,
             db' = ReplaceProp(db, r, CreateSchemaShape)
      PROVE  db'[s] = db[s] \/ (db[s] = Null /\ db'[s] = CreateSchemaShape)
  BY <1>1, <1>3
<1>4. ASSUME NEW r \in SchemaNames, db' = ReplaceProp(db, r, Null)
      PROVE  db'[s] = db[s]
  BY <1>1, <1>4
<1>5. ASSUME NEW r \in SchemaNames, NEW t \in SetNames,
             NEW data \in Data \cup {Null}, db[r] # Null,
             GetData(db, r, t) # Null => GetData(db, r, t).kind = "table",
             data # Null => FactsOK(data), db' = ReplaceData(db, r, t, data)
      PROVE  \/ db'[s] = db[s]
             \/ /\ db[s] # Null
                /\ db[s].sets[t] # Null => db[s].sets[t].kind = "table"
                /\ db'[s].sets = ReplaceProp(db[s].sets, t, data)
  <2>1. /\ db[r] \in Schema
        /\ db[r].sets[t] # Null => db[r].sets[t].kind = "table"
    BY <1>5 DEF GetData, Database, Map
  <2>2. SchemaReplaceData(db[r], t, data).sets = ReplaceProp(db[r].sets, t, data)
    BY <1>5, <2>1 DEF SchemaReplaceData, Schema
  <2> QED
    BY <1>1, <1>5, <2>1, <2>2 DEF ReplaceData
<1>6. ASSUME NEW r \in SchemaNames, NEW e \in EnumNames,
             NEW values \in Seq(EnumValues) \cup {Null}, db[r] # Null,
             db' = ReplaceEnum(db, r, e, values)
      PROVE  db'[s] = db[s] \/ (db[s] # Null /\ db'[s].sets = db[s].sets)
  <2>1. db[r] \in Schema
    BY <1>6 DEF Database, Map
  <2>2. SchemaReplaceEnum(db[r], e, values).sets = db[r].sets
    BY <1>6, <2>1 DEF SchemaReplaceEnum, Schema
  <2> QED
    BY <1>1, <1>6, <2>2 DEF ReplaceEnum
<1> QED
  BY <1>2, <1>3, <1>4, <1>5, <1>6 DEF DbStep

\* The keys of a database, and of a schema in it, are names.
LEMMA KeysOfDatabase ==
  ASSUME NEW d \in Database, NEW s
  PROVE  /\ s \in Keys(d) <=> s \in SchemaNames /\ d[s] # Null
         /\ s \in Keys(d) => \A t : t \in Keys(d[s].sets) <=>
                                t \in SetNames /\ d[s].sets[t] # Null
<1>1. s \in Keys(d) <=> s \in SchemaNames /\ d[s] # Null
  BY DEF Keys, Database, Map
<1>2. s \in Keys(d) => d[s].sets \in Map(SetNames, Data)
  BY <1>1 DEF Database, Map, Schema
<1> QED
  BY <1>1, <1>2 DEF Keys, Map

LEMMA FactsStep ==
  ASSUME db \in Database, FactsWithinColumns, DbStep
  PROVE  FactsWithinColumns'
<1> USE NullAssumption
<1> SUFFICES ASSUME NEW s \in Keys(db'), NEW t \in Keys(db'[s].sets)
             PROVE  FactsOK(db'[s].sets[t])
  BY DEF FactsWithinColumns
<1>1. db' \in Database
  BY DbStepType
<1>2. /\ s \in SchemaNames /\ db'[s] # Null
      /\ t \in SetNames /\ db'[s].sets[t] # Null
  BY <1>1, KeysOfDatabase
<1>3. ASSUME db[s] # Null, db[s].sets[t] = db'[s].sets[t]
      PROVE  FactsOK(db'[s].sets[t])
  BY <1>2, <1>3, KeysOfDatabase DEF FactsWithinColumns
<1>4. CASE db'[s] = db[s]
  BY <1>2, <1>3, <1>4
<1>5. CASE db'[s] = CreateSchemaShape
  BY <1>2, <1>5 DEF CreateSchemaShape, EmptyMap
<1>6. CASE db[s] # Null /\ db'[s].sets = db[s].sets
  BY <1>3, <1>6
<1>7. ASSUME db[s] # Null, NEW u \in SetNames, NEW data \in Data \cup {Null},
             data # Null => FactsOK(data),
             db'[s].sets = ReplaceProp(db[s].sets, u, data)
      PROVE  FactsOK(db'[s].sets[t])
  <2>1. db[s].sets \in Map(SetNames, Data)
    BY <1>2, <1>7 DEF Database, Map, Schema
  <2>2. db'[s].sets[t] = IF u = t THEN data ELSE db[s].sets[t]
    BY <1>2, <1>7, <2>1 DEF ReplaceProp, Map
  <2> QED
    BY <1>2, <1>3, <1>7, <2>2
<1> QED
  BY <1>2, <1>4, <1>5, <1>6, <1>7, SchemaAfter

LEMMA ViewsStep ==
  ASSUME db \in Database, db' \in Database, DbStep,
         NEW s \in Keys(db) \cap Keys(db'), NEW v \in Keys(db[s].sets),
         db[s].sets[v].kind = "view"
  PROVE  db'[s].sets[v] = db[s].sets[v]
<1> USE NullAssumption
<1>1. /\ s \in SchemaNames /\ db[s] # Null /\ db'[s] # Null
      /\ v \in SetNames /\ db[s].sets[v] # Null
  BY KeysOfDatabase
<1>2. ASSUME NEW u \in SetNames, NEW data,
             db[s].sets[u] # Null => db[s].sets[u].kind = "table",
             db'[s].sets = ReplaceProp(db[s].sets, u, data)
      PROVE  db'[s].sets[v] = db[s].sets[v]
  <2>1. db[s].sets \in Map(SetNames, Data)
    BY <1>1 DEF Database, Map, Schema
  <2>2. u # v
    BY <1>1, <1>2
  <2> QED
    BY <1>1, <1>2, <2>1, <2>2 DEF ReplaceProp, Map
<1> QED
  BY <1>1, <1>2, SchemaAfter

-----------------------------------------------------------------------------
(* What a step does to the rest of the state: who moves, and where the     *)
(* parser stands afterwards.                                               *)

Stands ==
  \/ EndsOwn \/ StaysOpen
  \/ \E n \in 1 .. MaxSkips : SkipsNext(n)
  \/ \E n \in 1 .. MaxRest : LeavesRest(n)
  \/ at' \in {"alter", "finish"} /\ pos' = "boundary" /\ rest' = 0

WalkStep ==
  \/ Dispatch /\ Stands
  \/ SkipRest
  \/ pos = "open" /\ Stands /\ UNCHANGED <<calls, read, lost>>
  \/ SwallowNext
  \/ OverrunMeetsSemicolon
  \/ EndOfScript
  \/ OutOfBatches
  \/ NextMigration
  \/ UNCHANGED <<at, pos, rest, calls, read, lost>>

\* The error is kept until the next script, and the target names a table.
Latches == failed' \in BOOLEAN /\ (failed => failed')

LatchStep ==
  /\ Latches \/ NextMigration
  /\ target' \in SchemaNames \X SetNames

LEMMA OutcomesLatch ==
  ASSUME failed \in BOOLEAN
  PROVE  /\ Fails => Latches
         /\ Succeeds => Latches
         /\ \A trailing : Finishes(trailing) => EndsOwn /\ Latches
<1>1. Fails => Latches
  BY Zenon DEF Fails, Latches
<1>2. Succeeds => Latches
  <2> SUFFICES ASSUME failed' = failed PROVE Latches
    BY DEF Succeeds
  <2> QED
    BY DEF Latches
<1>3. ASSUME NEW trailing, Finishes(trailing)
      PROVE  EndsOwn /\ Latches
  BY <1>3, Zenon DEF Finishes, Latches
<1> QED
  BY <1>1, <1>2, <1>3

LEMMA StatementWalkStep ==
  ASSUME TypeOK, Statement
  PROVE  Dispatch /\ Stands /\ LatchStep
<1> USE BoundsAssumption, OutcomesLatch
<1>0. /\ failed \in BOOLEAN
      /\ target \in SchemaNames \X SetNames
      /\ 1 \in 1 .. MaxRest /\ 1 \in 1 .. MaxSkips
  BY DEF TypeOK
<1>1. ASSUME NEW s \in SchemaNames, NEW flag \in BOOLEAN,
             CreateSchema(s, flag) \/ DropSchema(s, flag)
      PROVE  Dispatch /\ Stands /\ LatchStep
  BY <1>0, <1>1 DEF CreateSchema, DropSchema, Stands, LatchStep
<1>2. ASSUME NEW s \in SchemaNames, NEW t \in SetNames, NEW flag \in BOOLEAN,
             DropTable(s, t, flag) \/ AlterTable(s, t)
      PROVE  Dispatch /\ Stands /\ LatchStep
  BY <1>0, <1>2 DEF DropTable, AlterTable, WantsSemicolon, Stands,
                    LatchStep
<1>3. ASSUME NEW s \in SchemaNames, NEW t \in SetNames, NEW list \in ColumnLists,
             NEW flag \in BOOLEAN, NEW trailing \in BOOLEAN,
             CreateTable(s, t, list, flag, trailing)
      PROVE  Dispatch /\ Stands /\ LatchStep
  BY <1>0, <1>3 DEF CreateTable, Stands, LatchStep
<1>4. ASSUME NEW s \in SchemaNames, NEW v \in SetNames,
             NEW source \in SchemaNames \X SetNames, NEW cols \in SUBSET ColNames,
             NEW trailing \in BOOLEAN, CreateView(s, v, source, cols, trailing)
      PROVE  Dispatch /\ Stands /\ LatchStep
  BY <1>0, <1>4 DEF CreateView, Recovers, Stands, LatchStep
<1>5. ASSUME NEW s \in SchemaNames, NEW e \in EnumNames, NEW flag \in BOOLEAN,
             NEW trailing \in BOOLEAN, NEW list, NEW v,
             \/ DropType(s, e, flag, trailing)
             \/ CreateType(s, e, list, flag, trailing)
             \/ AlterType(s, e, v, flag, trailing)
      PROVE  Dispatch /\ Stands /\ LatchStep
  BY <1>0, <1>5 DEF DropType, CreateType, AlterType,
                    Stands, LatchStep
<1>6. CASE Query \/ InsertValues \/ Malformed \/ Skipped
  BY <1>0, <1>6 DEF Query, InsertValues, Malformed, Skipped, Recovers,
                    WantsSemicolon, Stands, LatchStep
<1> QED
  BY <1>1, <1>2, <1>3, <1>4, <1>5, <1>6 DEF Statement

LEMMA ClauseWalkStep ==
  ASSUME TypeOK, AlterClause
  PROVE  pos = "open" /\ Stands /\ UNCHANGED <<calls, read, lost>> /\ LatchStep
<1> USE BoundsAssumption, OutcomesLatch
<1> DEFINE Goal == pos = "open" /\ Stands /\ UNCHANGED <<calls, read, lost>>
                   /\ LatchStep
<1>0. /\ failed \in BOOLEAN
      /\ target \in SchemaNames \X SetNames
      /\ 1 \in 1 .. MaxRest /\ 1 \in 1 .. MaxSkips
  BY DEF TypeOK
<1>1. ASSUME NEW c, NEW shape, AddColumn(c, shape) \/ AlterColumnType(c, shape)
      PROVE  Goal
  BY <1>0, <1>1 DEF AddColumn, AlterColumnType, Clause, Stands,
                    LatchStep
<1>2. ASSUME NEW c, DropColumn(c) \/ SetNotNull(c) \/ DropNotNull(c)
      PROVE  Goal
  BY <1>0, <1>2 DEF DropColumn, SetNotNull, DropNotNull, Clause,
                    Stands, LatchStep
<1>3. ASSUME NEW old, NEW new, RenameColumn(old, new)
      PROVE  Goal
  BY <1>0, <1>3 DEF RenameColumn, Clause, Stands, LatchStep
<1>4. ASSUME NEW delimiter, NoOpClause(delimiter)
      PROVE  Goal
  BY <1>0, <1>4 DEF NoOpClause, Clause, Stands, StaysOpen, LatchStep
<1>5. CASE BadClause
  BY <1>0, <1>5 DEF BadClause, Clause, Recovers, Stands, LatchStep
<1> QED
  BY <1>1, <1>2, <1>3, <1>4, <1>5 DEF AlterClause

LEMMA NextWalkStep ==
  ASSUME TypeOK, [Next]_vars
  PROVE  WalkStep /\ LatchStep
<1> USE BoundsAssumption, OutcomesLatch
<1>0. /\ failed \in BOOLEAN
      /\ target \in SchemaNames \X SetNames
      /\ 1 \in 1 .. MaxRest /\ 1 \in 1 .. MaxSkips
  BY DEF TypeOK
<1>1. CASE Statement
  BY <1>1, StatementWalkStep DEF WalkStep
<1>2. CASE AlterClause
  BY <1>2, ClauseWalkStep DEF WalkStep
<1>3. CASE FinishAlter \/ TableKeyMismatch
  BY <1>0, <1>3 DEF FinishAlter, TableKeyMismatch, Stands,
                    WalkStep, LatchStep
<1>4. CASE SkipRest
  BY <1>0, <1>4 DEF SkipRest, WalkStep, LatchStep
<1>5. CASE SwallowNext \/ OverrunMeetsSemicolon
  BY <1>0, <1>5 DEF SwallowNext, OverrunMeetsSemicolon,
                    Fails, WalkStep, LatchStep
<1>6. CASE EndOfScript \/ OutOfBatches \/ NextMigration \/ UNCHANGED vars
  BY <1>0, <1>6 DEF EndOfScript, OutOfBatches, NextMigration, vars, WalkStep,
                    LatchStep, Succeeds
<1> QED
  BY <1>1, <1>2, <1>3, <1>4, <1>5, <1>6 DEF Next

-----------------------------------------------------------------------------
(* The inductive invariant. *)

Inv == /\ TypeOK
       /\ FactsWithinColumns
       /\ NoSilentLoss
       /\ CallsPerStatement

LEMMA LimitType == Limit \in Nat \ {0}
BY BoundsAssumption, SMT DEF Limit

LEMMA InitInv == Init => Inv
<1> SUFFICES ASSUME Init PROVE Inv
  OBVIOUS
<1> USE BoundsAssumption DEF Init
<1>1. TypeOK
  <2>1. db \in Database
    BY DEF Database, Map, EmptyMap
  <2>2. /\ calls \in 0 .. Limit /\ read \in Nat
        /\ lost \subseteq {"alter", "finish", "skip"}
    BY LimitType
  <2> QED
    BY <2>1, <2>2 DEF TypeOK
<1>2. FactsWithinColumns
  BY DEF FactsWithinColumns, Keys, EmptyMap
<1>3. NoSilentLoss
  BY DEF NoSilentLoss
<1>4. CallsPerStatement
  BY DEF CallsPerStatement, Pending
<1> QED
  BY <1>1, <1>2, <1>3, <1>4 DEF Inv

LEMMA TypeStep ==
  ASSUME TypeOK, FactsWithinColumns, [Next]_vars
  PROVE  TypeOK'
<1>1. db' \in Database
  BY NextDbStep, DbStepType DEF TypeOK
<1>2. failed' \in BOOLEAN /\ target' \in SchemaNames \X SetNames
  BY NextWalkStep DEF LatchStep, Latches, NextMigration
<1>3. /\ at' \in {"statement", "alter", "finish", "skip", "done"}
      /\ pos' \in {"boundary", "open", "tail", "end"}
      /\ pos' = "tail" => rest' \in 1 .. MaxRest
      /\ at' = "skip" => rest' \in 1 .. MaxSkips
      /\ pos' # "tail" /\ at' # "skip" => rest' = 0
      /\ calls' \in 0 .. Limit
      /\ read' \in Nat
      /\ lost' \subseteq {"alter", "finish", "skip"}
  <2>0. /\ at \in {"statement", "alter", "finish", "skip", "done"}
        /\ pos \in {"boundary", "open", "tail", "end"}
        /\ pos = "tail" => rest \in 1 .. MaxRest
        /\ at = "skip" => rest \in 1 .. MaxSkips
        /\ pos # "tail" /\ at # "skip" => rest = 0
        /\ calls \in 0 .. Limit
        /\ read \in Nat
        /\ lost \subseteq {"alter", "finish", "skip"}
    BY DEF TypeOK
  <2> USE <2>0, BoundsAssumption, LimitType
  <2> USE DEF EndsOwn, SkipsNext, StaysOpen, LeavesRest
  <2>1. CASE Dispatch /\ Stands
    BY <2>1 DEF Dispatch, Stands
  <2>2. CASE SkipRest
    BY <2>2 DEF SkipRest
  <2>3. CASE pos = "open" /\ Stands /\ UNCHANGED <<calls, read, lost>>
    BY <2>3 DEF Stands
  <2>4. CASE SwallowNext
    BY <2>4 DEF SwallowNext, Overrun
  <2>5. CASE OverrunMeetsSemicolon
    BY <2>5 DEF OverrunMeetsSemicolon
  <2>6. CASE EndOfScript
    BY <2>6 DEF EndOfScript
  <2>7. CASE OutOfBatches
    BY <2>7 DEF OutOfBatches
  <2>8. CASE NextMigration
    BY <2>8 DEF NextMigration
  <2>9. CASE UNCHANGED <<at, pos, rest, calls, read, lost>>
    BY <2>9
  <2> QED
    BY <2>1, <2>2, <2>3, <2>4, <2>5, <2>6, <2>7, <2>8, <2>9, NextWalkStep
       DEF WalkStep
<1> QED
  BY <1>1, <1>2, <1>3 DEF TypeOK

LEMMA LossStep ==
  ASSUME TypeOK, NoSilentLoss, [Next]_vars
  PROVE  NoSilentLoss'
<1>1. CASE SwallowNext
  BY <1>1 DEF SwallowNext, Fails, NoSilentLoss
<1>2. CASE NextMigration
  BY <1>2 DEF NextMigration, NoSilentLoss
<1>3. CASE ~SwallowNext /\ ~NextMigration
  <2>1. lost' = lost
    BY <1>3, NextWalkStep DEF WalkStep, Dispatch, SkipRest, 
       OverrunMeetsSemicolon, EndOfScript, OutOfBatches
  <2>2. failed => failed'
    BY <1>3, NextWalkStep DEF LatchStep, Latches
  <2> QED
    BY <2>1, <2>2 DEF NoSilentLoss
<1> QED
  BY <1>1, <1>2, <1>3

LEMMA CallsStep ==
  ASSUME TypeOK, CallsPerStatement, [Next]_vars
  PROVE  CallsPerStatement'
<1> DEFINE M == MaxRest + 1
           Budget(n) == M * n
<1>0. /\ MaxRest \in Nat /\ calls \in Nat /\ read \in Nat
      /\ pos = "tail" => rest \in 1 .. MaxRest
      /\ M \in Nat
  BY BoundsAssumption, LimitType DEF TypeOK
<1>1. Budget(read + 1) = Budget(read) + M /\ Budget(read) \in Nat /\ Budget(0) = 0
  BY <1>0, SMT
<1>2. calls + Pending <= Budget(read)
  BY DEF CallsPerStatement
<1> SUFFICES calls' + Pending' <= Budget(read')
  BY DEF CallsPerStatement
<1> HIDE DEF Budget
<1> USE <1>0, <1>1, <1>2
<1> USE DEF EndsOwn, SkipsNext, StaysOpen, LeavesRest, Pending
<1>3. CASE Dispatch /\ Stands
  BY <1>3 DEF Dispatch, Stands
<1>4. CASE SkipRest
  BY <1>4 DEF SkipRest
<1>5. CASE pos = "open" /\ Stands /\ UNCHANGED <<calls, read, lost>>
  BY <1>5 DEF Stands
<1>6. CASE SwallowNext \/ OverrunMeetsSemicolon
  BY <1>6 DEF SwallowNext, OverrunMeetsSemicolon, Overrun
<1>7. CASE EndOfScript \/ OutOfBatches
  BY <1>7 DEF EndOfScript, OutOfBatches
<1>8. CASE NextMigration
  BY <1>8 DEF NextMigration
<1>9. CASE UNCHANGED <<at, pos, rest, calls, read, lost>>
  BY <1>9
<1> QED
  BY <1>3, <1>4, <1>5, <1>6, <1>7, <1>8, <1>9, NextWalkStep DEF WalkStep

LEMMA NextInv == Inv /\ [Next]_vars => Inv'
<1> SUFFICES ASSUME Inv, [Next]_vars PROVE Inv'
  OBVIOUS
<1>1. TypeOK'
  BY TypeStep DEF Inv
<1>2. FactsWithinColumns'
  BY NextDbStep, FactsStep DEF Inv, TypeOK
<1>3. NoSilentLoss'
  BY LossStep DEF Inv
<1>4. CallsPerStatement'
  BY CallsStep DEF Inv
<1> QED
  BY <1>1, <1>2, <1>3, <1>4 DEF Inv

-----------------------------------------------------------------------------
(* The theorems. *)

\* The database keeps the shape of a JsqlDatabaseShape throughout, and the
\* walk its bounds.
THEOREM TypeCorrect == Spec => []TypeOK
<1>1. Inv => TypeOK
  BY DEF Inv
<1> QED
  BY <1>1, InitInv, NextInv, PTL DEF Spec

\* Facts are kept for the columns a table has and no others, and a view has
\* none, in every database a sequence of scripts can build.
THEOREM FactsAreOfColumns == Spec => []FactsWithinColumns
<1>1. Inv => FactsWithinColumns
  BY DEF Inv
<1> QED
  BY <1>1, InitInv, NextInv, PTL DEF Spec

\* The error of the parser that swallowed a statement is kept: no later success
\* of the script forgets it.
THEOREM LossIsReported == Spec => []NoSilentLoss
<1>1. Inv => NoSilentLoss
  BY DEF Inv
<1> QED
  BY <1>1, InitInv, NextInv, PTL DEF Spec

\* However a statement fails, it costs the walk at most MaxRest + 1 of its calls.
THEOREM StatementsTakeFewCalls == Spec => []CallsPerStatement
<1>1. Inv => CallsPerStatement
  BY DEF Inv
<1> QED
  BY <1>1, InitInv, NextInv, PTL DEF Spec

\* The walk gives up before the end of the source only on a script of at least
\* Limit / (MaxRest + 1) statements.
THEOREM ShortScriptsAreWalked == Spec => []GivesUpOnlyOnLongScripts
<1> DEFINE J == Inv /\ (at = "done" => pos = "end" \/ calls = Limit)
<1>1. Init => J
  BY InitInv DEF Init
<1>2. J /\ [Next]_vars => J'
  <2> SUFFICES ASSUME J, [Next]_vars PROVE J'
    OBVIOUS
  <2>1. Inv'
    BY NextInv
  <2>2. (at = "done" => pos = "end" \/ calls = Limit)'
    BY NextWalkStep DEF Inv, WalkStep, Stands, Dispatch, SkipRest, SwallowNext,
       OverrunMeetsSemicolon, EndOfScript, OutOfBatches,
       NextMigration, EndsOwn, SkipsNext, StaysOpen, LeavesRest, Limit
  <2> QED
    BY <2>1, <2>2
<1>3. J => GivesUpOnlyOnLongScripts
  <2> SUFFICES ASSUME J, at = "done", pos # "end"
               PROVE  (MaxRest + 1) * read >= Limit
    BY DEF GivesUpOnlyOnLongScripts
  <2> DEFINE B == (MaxRest + 1) * read
  <2>1. B \in Nat
    BY BoundsAssumption, SMT DEF Inv, TypeOK
  <2>2. calls = Limit /\ calls + Pending <= B
    BY DEF Inv, CallsPerStatement
  <2>3. Pending \in Nat
    BY BoundsAssumption DEF Inv, TypeOK, Pending
  <2> HIDE DEF B
  <2>4. B >= Limit
    BY <2>1, <2>2, <2>3, LimitType
  <2> QED
    BY <2>4 DEF B
<1> QED
  BY <1>1, <1>2, <1>3, PTL DEF Spec

\* A view keeps the columns it was created with until its schema is dropped.
THEOREM ViewsKeepTheirColumns == Spec => ViewsAreSnapshots
<1> DEFINE Kept == \A s \in Keys(db) \cap Keys(db') : \A v \in Keys(db[s].sets) :
             db[s].sets[v].kind = "view" => db'[s].sets[v] = db[s].sets[v]
<1>1. Inv /\ [Next]_vars => [Kept]_vars
  <2> SUFFICES ASSUME Inv, [Next]_vars PROVE Kept
    OBVIOUS
  <2>1. db \in Database /\ db' \in Database /\ DbStep
    BY NextInv, NextDbStep DEF Inv, TypeOK
  <2> QED
    BY <2>1, ViewsStep
<1> QED
  BY <1>1, InitInv, NextInv, PTL DEF Spec, ViewsAreSnapshots

-----------------------------------------------------------------------------
(* The walk as definitions of a catalog. *)

\* What the catalog shows of a relation.
Shown(data) ==
  IF data = Null THEN Null
  ELSE [kind |-> data.kind, columns |-> Keys(data.columns)]

\* What a clause of ALTER TABLE does to the names of the columns.
OneColumn(old, new) ==
  new = old \/ C!AddOne(old, new) \/ C!RemoveOne(old, new) \/ C!RenameOne(old, new)

\* A table replaced by what a clause makes of it.
Altered(old, new) ==
  new # Null => /\ new \in Data
                /\ new.kind = "table"
                /\ OneColumn(Keys(old.columns), Keys(new.columns))

\* DbStep, with what the catalog tells apart.
DefinitionStep ==
  \/ db' = db
  \/ \E s \in SchemaNames :
       db[s] = Null /\ db' = ReplaceProp(db, s, CreateSchemaShape)
  \/ \E s \in SchemaNames : db[s] # Null /\ db' = ReplaceProp(db, s, Null)
  \/ \E s \in SchemaNames, t \in SetNames, data \in Data :
       /\ db[s] # Null /\ GetData(db, s, t) = Null
       /\ db' = ReplaceData(db, s, t, data)
  \/ \E s \in SchemaNames, t \in SetNames : \E table :
       /\ GetTable(db, s, t) # Null
       /\ Altered(GetTable(db, s, t), table)
       /\ db' = ReplaceData(db, s, t, table)
  \/ \E s \in SchemaNames, e \in EnumNames, list \in EnumLists :
       /\ db[s] # Null /\ GetEnum(db, s, e) = Null
       /\ db' = ReplaceEnum(db, s, e, list)
  \/ \E s \in SchemaNames, e \in EnumNames, v \in EnumValues :
       /\ db[s] # Null /\ GetEnum(db, s, e) # Null
       /\ \A i \in DOMAIN GetEnum(db, s, e) : GetEnum(db, s, e)[i] # v
       /\ db' = ReplaceEnum(db, s, e, Append(GetEnum(db, s, e), v))
  \/ \E s \in SchemaNames, e \in EnumNames :
       /\ db[s] # Null /\ GetEnum(db, s, e) # Null
       /\ db' = ReplaceEnum(db, s, e, Null)

-----------------------------------------------------------------------------
(* Every action is one of these. *)

\* The keys of a map one of whose properties is replaced.
LEMMA KeysAfterReplace ==
  ASSUME NEW K, NEW V, NEW m \in Map(K, V), NEW k \in K, NEW v
  PROVE  Keys(ReplaceProp(m, k, v)) =
           IF v = Null THEN Keys(m) \ {k} ELSE Keys(m) \cup {k}
BY DEF Keys, ReplaceProp, Map

\* What the clauses of ALTER TABLE make of a table with the columns `had`.
LEMMA ClausesAlter ==
  ASSUME NEW table \in Data, table.kind = "table", FactsOK(table), NEW c \in ColNames
  PROVE  /\ table.columns[c] # Null =>
              Altered(table, TableReplaceColumn(table, c, Null, Null))
         /\ \A shape \in Column :
              /\ table.columns[c] = Null => Altered(table, TableAddColumn(table, c, shape))
              /\ Altered(table, TableReplaceColumnType(table, c, shape))
         /\ \A n \in {"not_null", "nullable"} :
              Altered(table, TableReplaceColumnNullability(table, c, n))
         /\ \A d \in ColNames :
              table.columns[c] # Null /\ table.columns[d] = Null =>
                Altered(table, Renamed(table, c, d))
<1> USE NullAssumption
<1> DEFINE had == Keys(table.columns)
<1>1. /\ table # Null
      /\ table.columns \in Map(ColNames, Column)
      /\ table.facts \in Map(ColNames, Fact)
      /\ DOMAIN table.columns = ColNames
  BY DEF Data, Map
<1>2. \A d \in ColNames : d \in had <=> table.columns[d] # Null
  BY <1>1 DEF Keys
<1>3. had \subseteq ColNames
  BY <1>1 DEF Keys
<1>4. ASSUME NEW new, TableOrNull(new), new # Null, NEW d \in ColNames, NEW shape,
             new.columns = ReplaceProp(table.columns, d, shape)
      PROVE  /\ new \in Data /\ new.kind = "table"
             /\ Keys(new.columns) = IF shape = Null THEN had \ {d} ELSE had \cup {d}
  <2>1. Keys(ReplaceProp(table.columns, d, shape)) =
          IF shape = Null THEN had \ {d} ELSE had \cup {d}
    BY <1>1 DEF Keys, ReplaceProp, Map
  <2> QED
    BY <1>4, <2>1 DEF TableOrNull
<1>5. ASSUME table.columns[c] # Null
      PROVE  Altered(table, TableReplaceColumn(table, c, Null, Null))
  <2> DEFINE new == TableReplaceColumn(table, c, Null, Null)
  <2>1. TableOrNull(new)
    BY TableOperators
  <2>2. new.columns = ReplaceProp(table.columns, c, Null)
    BY <1>1 DEF TableReplaceColumn, Data
  <2> HIDE DEF new
  <2>3. new # Null => new \in Data /\ new.kind = "table" /\ Keys(new.columns) = had \ {c}
    BY <1>4, <2>1, <2>2
  <2>4. c \in had
    BY <1>2, <1>5
  <2>5. C!RemoveOne(had, had \ {c})
    BY <2>4 DEF C!RemoveOne
  <2> QED
    BY <2>3, <2>5 DEF Altered, OneColumn, new
<1>6. ASSUME NEW shape \in Column, table.columns[c] = Null
      PROVE  Altered(table, TableAddColumn(table, c, shape))
  <2> DEFINE new == TableAddColumn(table, c, shape)
  <2>1. TableOrNull(new)
    BY TableOperators
  <2>2. new.columns = ReplaceProp(table.columns, c, shape)
    BY <1>1 DEF TableAddColumn, Data
  <2> HIDE DEF new
  <2>3. new # Null => new \in Data /\ new.kind = "table" /\ Keys(new.columns) = had \cup {c}
    BY <1>4, <2>1, <2>2
  <2>4. C!AddOne(had, had \cup {c})
    BY <1>2, <1>6 DEF C!AddOne
  <2> QED
    BY <2>3, <2>4 DEF Altered, OneColumn, new
<1>7. ASSUME NEW shape \in Column
      PROVE  Altered(table, TableReplaceColumnType(table, c, shape))
  <2> DEFINE new == TableReplaceColumnType(table, c, shape)
  <2>1. TableOrNull(new)
    BY TableOperators
  <2>2. new # Null => table.columns[c] # Null /\ new.columns = ReplaceProp(table.columns, c, shape)
    BY <1>1 DEF TableReplaceColumnType, Data
  <2> HIDE DEF new
  <2>3. new # Null => /\ new \in Data /\ new.kind = "table"
                      /\ Keys(new.columns) = had \cup {c}
    BY <1>4, <2>1, <2>2
  <2>4. new # Null => had \cup {c} = had
    BY <1>2, <2>2
  <2> QED
    BY <2>3, <2>4 DEF Altered, OneColumn, new
<1>8. ASSUME NEW n \in {"not_null", "nullable"}
      PROVE  Altered(table, TableReplaceColumnNullability(table, c, n))
  <2> DEFINE new == TableReplaceColumnNullability(table, c, n)
  <2>1. TableOrNull(new)
    BY TableOperators
  <2>2. new # Null => new.columns = table.columns
    BY <1>1 DEF TableReplaceColumnNullability, Data
  <2> HIDE DEF new
  <2> QED
    BY <2>1, <2>2 DEF Altered, OneColumn, TableOrNull, new
<1>9. ASSUME NEW d \in ColNames, table.columns[c] # Null, table.columns[d] = Null
      PROVE  Altered(table, Renamed(table, c, d))
  <2> DEFINE shape   == table.columns[c]
             fact    == FactOf(table, c)
             without == TableReplaceColumn(table, c, Null, Null)
             new     == TableReplaceColumn(without, d, shape, fact)
  <2>1. shape \in Column /\ fact \in Fact
    BY <1>1, <1>9 DEF Map, FactOf, NoFacts, Fact
  <2>2. TableOrNull(without) /\ without \in Data
    BY TableOperators
  <2>3. without.columns = ReplaceProp(table.columns, c, Null)
    BY <1>1 DEF TableReplaceColumn, Data
  <2> HIDE DEF shape, fact, without
  <2>4. without # Null /\ without.columns \in Map(ColNames, Column)
    BY <2>2 DEF Data
  <2>5. Keys(without.columns) = had \ {c}
    BY <1>1, <2>3, KeysAfterReplace
  <2>6. TableOrNull(new)
    BY <2>1, <2>2, <2>4, TableOperators DEF TableOrNull
  <2>7. new.columns = ReplaceProp(without.columns, d, shape)
    BY <2>2, <2>4 DEF TableReplaceColumn, Data
  <2>8. new # Null => new \in Data /\ new.kind = "table"
    BY <2>6 DEF TableOrNull
  <2>9. Keys(new.columns) = (had \ {c}) \cup {d}
    BY <2>1, <2>4, <2>5, <2>7, KeysAfterReplace
  <2>10. C!RenameOne(had, (had \ {c}) \cup {d})
    BY <1>2, <1>9 DEF C!RenameOne
  <2>11. Renamed(table, c, d) = new
    BY DEF Renamed, shape, fact, without
  <2> HIDE DEF new
  <2> QED
    BY <2>8, <2>9, <2>10, <2>11 DEF Altered, OneColumn
<1> QED
  BY <1>5, <1>6, <1>7, <1>8, <1>9

\* A change of the table an ALTER TABLE is about.
LEMMA TargetChange ==
  ASSUME TypeOK, TargetTable # Null, NEW table,
         Altered(TargetTable, table), ReplaceTarget(table)
  PROVE  DefinitionStep
<1>1. target[1] \in SchemaNames /\ target[2] \in SetNames
  BY DEF TypeOK
<1> QED
  BY <1>1 DEF ReplaceTarget, TargetTable, DefinitionStep

LEMMA ClauseDefinition ==
  ASSUME TypeOK, FactsWithinColumns, AlterClause
  PROVE  DefinitionStep
<1> USE NullAssumption
<1>1. TargetTable # Null
  BY DEF AlterClause, AddColumn, AlterColumnType, DropColumn, SetNotNull,
         DropNotNull, RenameColumn, NoOpClause, BadClause, Clause
<1>2. /\ TargetTable \in Data
      /\ TargetTable.kind = "table"
      /\ FactsOK(TargetTable)
  BY <1>1, TargetType
<1>3. CASE db' = db
  BY <1>3 DEF DefinitionStep
<1>4. ASSUME NEW table, Altered(TargetTable, table), ReplaceTarget(table)
      PROVE  DefinitionStep
  BY <1>1, <1>4, TargetChange
<1>5. ASSUME db' # db, NEW c \in ColNames, NEW shape \in Column,
             AddColumn(c, shape) \/ AlterColumnType(c, shape)
      PROVE  DefinitionStep
  BY <1>2, <1>4, <1>5, ClausesAlter DEF AddColumn, AlterColumnType, HasColumn
<1>6. ASSUME db' # db, NEW c \in ColNames, DropColumn(c)
      PROVE  DefinitionStep
  BY <1>2, <1>4, <1>6, ClausesAlter DEF DropColumn, HasColumn
<1>7. ASSUME NEW c \in ColNames, SetNotNull(c) \/ DropNotNull(c)
      PROVE  DefinitionStep
  <2>1. PICK n \in {"not_null", "nullable"} :
          ReplaceTarget(TableReplaceColumnNullability(TargetTable, c, n))
    BY <1>7 DEF SetNotNull, DropNotNull
  <2> QED
    BY <1>2, <1>4, <2>1, ClausesAlter
<1>8. ASSUME db' # db, NEW old \in ColNames, NEW new \in ColNames, RenameColumn(old, new)
      PROVE  DefinitionStep
  <2>1. /\ ReplaceTarget(Renamed(TargetTable, old, new))
        /\ TargetTable.columns[old] # Null /\ TargetTable.columns[new] = Null
    BY <1>8 DEF RenameColumn, HasColumn
  <2>2. Altered(TargetTable, Renamed(TargetTable, old, new))
    BY <1>2, <2>1, ClausesAlter
  <2> QED
    BY <1>4, <2>1, <2>2
<1>9. ASSUME NEW delimiter \in {",", ";"}, NoOpClause(delimiter) \/ BadClause
      PROVE  db' = db
  BY <1>9 DEF NoOpClause, BadClause
<1> QED
  BY <1>3, <1>5, <1>6, <1>7, <1>8, <1>9 DEF AlterClause

LEMMA StatementDefinition ==
  ASSUME TypeOK, FactsWithinColumns, Statement
  PROVE  DefinitionStep
<1> USE NullAssumption
<1>0. db \in Database
  BY DEF TypeOK
<1>1. CASE db' = db
  BY <1>1 DEF DefinitionStep
<1>2. ASSUME db' # db, NEW s \in SchemaNames, NEW flag \in BOOLEAN,
             CreateSchema(s, flag) \/ DropSchema(s, flag)
      PROVE  DefinitionStep
  BY <1>2 DEF CreateSchema, DropSchema, DefinitionStep
<1>3. ASSUME db' # db, NEW s \in SchemaNames, NEW t \in SetNames, NEW flag \in BOOLEAN,
             DropTable(s, t, flag)
      PROVE  DefinitionStep
  <2>1. GetTable(db, s, t) # Null /\ db' = ReplaceData(db, s, t, Null)
    BY <1>3 DEF DropTable
  <2>2. Altered(GetTable(db, s, t), Null)
    BY DEF Altered
  <2> QED
    BY <2>1, <2>2 DEF DefinitionStep
<1>4. ASSUME NEW s \in SchemaNames, NEW t \in SetNames, AlterTable(s, t)
      PROVE  db' = db
  BY <1>4 DEF AlterTable
<1>5. ASSUME db' # db, NEW s \in SchemaNames, NEW t \in SetNames,
             NEW list \in ColumnLists, NEW flag \in BOOLEAN, NEW trailing \in BOOLEAN,
             CreateTable(s, t, list, flag, trailing)
      PROVE  DefinitionStep
  <2>1. /\ db[s] # Null /\ GetData(db, s, t) = Null
        /\ db' = ReplaceData(db, s, t, ColumnsFromStack(list))
    BY <1>5 DEF CreateTable
  <2>2. ColumnsFromStack(list) \in Data
    BY ColumnsFromStackType, ListsAssumption DEF TableOrNull
  <2> QED
    BY <2>1, <2>2 DEF DefinitionStep
<1>6. ASSUME db' # db, NEW s \in SchemaNames, NEW v \in SetNames,
             NEW source \in SchemaNames \X SetNames, NEW cols \in SUBSET ColNames,
             NEW trailing \in BOOLEAN, CreateView(s, v, source, cols, trailing)
      PROVE  DefinitionStep
  <2> DEFINE from == GetData(db, source[1], source[2])
             columns == [c \in ColNames |-> IF c \in cols THEN from.columns[c] ELSE Null]
  <2>1. /\ db[s] # Null /\ GetData(db, s, v) = Null
        /\ from # Null
        /\ db' = ReplaceData(db, s, v, CreateViewShape(columns))
    BY <1>6 DEF CreateView
  <2>2. from \in Data
    BY <1>0, <2>1, GetDataType
  <2>3. columns \in Map(ColNames, Column)
    BY <2>2 DEF Data, Map
  <2> HIDE DEF columns
  <2>4. CreateViewShape(columns) \in Data
    BY <2>3 DEF CreateViewShape, EmptyMap, Data, Map
  <2> QED
    BY <2>1, <2>4 DEF DefinitionStep
<1>7. ASSUME db' # db, NEW s \in SchemaNames, NEW e \in EnumNames, NEW flag \in BOOLEAN,
             NEW trailing \in BOOLEAN, DropType(s, e, flag, trailing)
      PROVE  DefinitionStep
  BY <1>7 DEF DropType, DefinitionStep, GetEnum
<1>8. ASSUME db' # db, NEW s \in SchemaNames, NEW e \in EnumNames, NEW flag \in BOOLEAN,
             NEW trailing \in BOOLEAN, NEW list \in EnumLists,
             CreateType(s, e, list, flag, trailing)
      PROVE  DefinitionStep
  BY <1>8 DEF CreateType, DefinitionStep
<1>9. ASSUME db' # db, NEW s \in SchemaNames, NEW e \in EnumNames, NEW flag \in BOOLEAN,
             NEW trailing \in BOOLEAN, NEW v \in EnumValues,
             AlterType(s, e, v, flag, trailing)
      PROVE  DefinitionStep
  BY <1>9 DEF AlterType, DefinitionStep, GetEnum
<1>10. CASE Query \/ InsertValues \/ Malformed \/ Skipped
  BY <1>1, <1>10 DEF Query, InsertValues, Malformed, Skipped
<1> QED
  BY <1>1, <1>2, <1>3, <1>4, <1>5, <1>6, <1>7, <1>8, <1>9, <1>10 DEF Statement

LEMMA NextDefinition ==
  ASSUME TypeOK, FactsWithinColumns, [Next]_vars
  PROVE  DefinitionStep
<1>1. CASE db' = db
  BY <1>1 DEF DefinitionStep
<1>2. CASE SwallowNext
  <2>1. ASSUME NEW c \in ColNames, LosesColumn(c)
        PROVE  DefinitionStep
    <3>1. Altered(TargetTable, TableReplaceColumn(TargetTable, c, Null, Null))
      BY <2>1, TargetType, ClausesAlter DEF LosesColumn, HasColumn
    <3> QED
      BY <2>1, <3>1, TargetChange DEF LosesColumn
  <2> QED
    BY <1>1, <1>2, <2>1 DEF SwallowNext
<1>3. CASE \/ SkipRest \/ FinishAlter \/ TableKeyMismatch
           \/ OverrunMeetsSemicolon \/ EndOfScript
           \/ OutOfBatches \/ NextMigration \/ UNCHANGED vars
  BY <1>1, <1>3 DEF SkipRest, FinishAlter, TableKeyMismatch, OverrunMeetsSemicolon,
                    EndOfScript, OutOfBatches, NextMigration, vars
<1> QED
  BY <1>2, <1>3, StatementDefinition, ClauseDefinition DEF Next

-----------------------------------------------------------------------------
(* What each of them is in the catalog. *)

ShownSets(schema) ==
  IF schema = Null THEN Null ELSE [t \in SetNames |-> Shown(schema.sets[t])]

ShownEnums(schema) == IF schema = Null THEN Null ELSE schema.types

\* The catalog, schema by schema.
LEMMA CatalogIsShown ==
  /\ CatalogSets = [s \in SchemaNames |-> ShownSets(db[s])]
  /\ CatalogEnums = [s \in SchemaNames |-> ShownEnums(db[s])]
BY DEF CatalogSets, CatalogEnums, ShownSets, ShownEnums, Shown

\* What is there is shown as something.
LEMMA NotShownAsNull ==
  ASSUME NEW schema \in Schema
  PROVE  /\ ShownSets(schema) # Null
         /\ ShownEnums(schema) # Null
         /\ \A data \in Data : Shown(data) \in C!Relation /\ Shown(data) # Null
<1> USE NullAssumption, CatalogNullAssumption
<1>1. schema # Null /\ schema.types \in Map(EnumNames, Seq(EnumValues))
      /\ schema.sets \in Map(SetNames, Data)
  BY DEF Schema
<1>2. ASSUME NEW data \in Data
      PROVE  Shown(data) \in C!Relation /\ Shown(data) # Null
  <2>1. data # Null /\ data.kind \in {"table", "view"} /\ data.columns \in Map(ColNames, Column)
    BY DEF Data
  <2>2. Keys(data.columns) \subseteq ColNames
    BY <2>1 DEF Keys, Map
  <2> QED
    BY <2>1, <2>2 DEF Shown, C!Relation
<1>3. \A t \in SetNames : Shown(schema.sets[t]) \in C!Relation \cup {Null}
  BY <1>1, <1>2 DEF Map, Shown
<1>4. ShownSets(schema) \in [SetNames -> C!Relation \cup {Null}]
  BY <1>1, <1>3 DEF ShownSets
<1> QED
  BY <1>1, <1>2, <1>4 DEF ShownEnums

\* A schema replaced in the database is replaced in the catalog.
LEMMA ShownAfterReplace ==
  ASSUME db \in Database, NEW s \in SchemaNames, NEW schema,
         db' = ReplaceProp(db, s, schema)
  PROVE  /\ CatalogSets' = [CatalogSets EXCEPT ![s] = ShownSets(schema)]
         /\ CatalogEnums' = [CatalogEnums EXCEPT ![s] = ShownEnums(schema)]
         /\ CatalogSets[s] = ShownSets(db[s])
         /\ CatalogEnums[s] = ShownEnums(db[s])
<1>1. \A r \in SchemaNames : db'[r] = IF r = s THEN schema ELSE db[r]
  BY DEF ReplaceProp, Database, Map
<1>2. /\ CatalogSets' = [r \in SchemaNames |-> ShownSets(db'[r])]
      /\ CatalogEnums' = [r \in SchemaNames |-> ShownEnums(db'[r])]
  BY CatalogIsShown DEF CatalogSets, CatalogEnums, ShownSets, ShownEnums, Shown
<1> HIDE DEF ShownSets
<1> QED
  BY <1>1, <1>2, CatalogIsShown

\* A relation replaced in a schema that is there is replaced in the catalog,
\* whose enums stay; and the other way round.
LEMMA ShownAfterReplaceData ==
  ASSUME db \in Database, NEW s \in SchemaNames, NEW t \in SetNames,
         NEW data \in Data \cup {Null}, db[s] # Null, db' = ReplaceData(db, s, t, data)
  PROVE  /\ CatalogSets' = [CatalogSets EXCEPT ![s] = [CatalogSets[s] EXCEPT ![t] = Shown(data)]]
         /\ CatalogEnums' = CatalogEnums
         /\ CatalogSets[s] # Null
         /\ CatalogSets[s][t] = Shown(GetData(db, s, t))
<1> USE NullAssumption
<1> DEFINE schema == SchemaReplaceData(db[s], t, data)
<1>1. db[s] \in Schema
  BY DEF Database, Map
<1>2. /\ schema = [sets |-> ReplaceProp(db[s].sets, t, data), types |-> db[s].types]
      /\ schema # Null
  <2>1. db[s] = [sets |-> db[s].sets, types |-> db[s].types]
    BY <1>1 DEF Schema
  <2>2. schema = [db[s] EXCEPT !.sets = ReplaceProp(@, t, data)]
    BY DEF SchemaReplaceData
  <2>3. schema = [sets |-> ReplaceProp(db[s].sets, t, data), types |-> db[s].types]
    BY <2>1, <2>2
  <2>4. ReplaceProp(db[s].sets, t, data) \in Map(SetNames, Data)
    BY <1>1, ReplacePropType DEF Schema
  <2>5. schema \in Schema
    BY <1>1, <2>3, <2>4 DEF Schema
  <2> QED
    BY <2>3, <2>5
<1>3. db' = ReplaceProp(db, s, schema)
  BY DEF ReplaceData
<1> HIDE DEF schema
<1>4. ShownEnums(schema) = ShownEnums(db[s])
  BY <1>2 DEF ShownEnums
<1>5. ShownSets(schema) = [ShownSets(db[s]) EXCEPT ![t] = Shown(data)]
  <2>1. db[s].sets \in Map(SetNames, Data)
    BY <1>1 DEF Schema
  <2>2. \A u \in SetNames :
          ReplaceProp(db[s].sets, t, data)[u] = IF u = t THEN data ELSE db[s].sets[u]
    BY <2>1 DEF ReplaceProp, Map
  <2> QED
    BY <1>2, <2>2 DEF ShownSets
<1>6. /\ CatalogSets' = [CatalogSets EXCEPT ![s] = ShownSets(schema)]
      /\ CatalogEnums' = [CatalogEnums EXCEPT ![s] = ShownEnums(schema)]
      /\ CatalogSets[s] = ShownSets(db[s])
      /\ CatalogEnums[s] = ShownEnums(db[s])
  BY <1>3, ShownAfterReplace
<1>7. CatalogEnums' = CatalogEnums
  BY <1>4, <1>6, CatalogIsShown
<1>8. CatalogSets[s] # Null
  BY <1>1, <1>6, NotShownAsNull
<1>9. CatalogSets[s][t] = Shown(GetData(db, s, t))
  BY <1>6 DEF ShownSets, GetData
<1> QED
  BY <1>5, <1>6, <1>7, <1>8, <1>9

LEMMA ShownAfterReplaceEnum ==
  ASSUME db \in Database, NEW s \in SchemaNames, NEW e \in EnumNames,
         NEW values \in Seq(EnumValues) \cup {Null},
         db[s] # Null, db' = ReplaceEnum(db, s, e, values)
  PROVE  /\ CatalogEnums' = [CatalogEnums EXCEPT ![s] = [CatalogEnums[s] EXCEPT ![e] = values]]
         /\ CatalogSets' = CatalogSets
         /\ CatalogEnums[s] # Null
         /\ CatalogEnums[s][e] = GetEnum(db, s, e)
<1> USE NullAssumption
<1> DEFINE schema == SchemaReplaceEnum(db[s], e, values)
<1>1. db[s] \in Schema
  BY DEF Database, Map
<1>2. /\ schema = [sets |-> db[s].sets, types |-> ReplaceProp(db[s].types, e, values)]
      /\ schema # Null
  <2>1. db[s] = [sets |-> db[s].sets, types |-> db[s].types]
    BY <1>1 DEF Schema
  <2>2. schema = [db[s] EXCEPT !.types = ReplaceProp(@, e, values)]
    BY DEF SchemaReplaceEnum
  <2>3. schema = [sets |-> db[s].sets, types |-> ReplaceProp(db[s].types, e, values)]
    BY <2>1, <2>2
  <2>4. ReplaceProp(db[s].types, e, values) \in Map(EnumNames, Seq(EnumValues))
    BY <1>1, ReplacePropType DEF Schema
  <2>5. schema \in Schema
    BY <1>1, <2>3, <2>4 DEF Schema
  <2> QED
    BY <2>3, <2>5
<1>3. db' = ReplaceProp(db, s, schema)
  BY DEF ReplaceEnum
<1> HIDE DEF schema
<1>4. ShownSets(schema) = ShownSets(db[s])
  BY <1>2 DEF ShownSets
<1>5. ShownEnums(schema) = [ShownEnums(db[s]) EXCEPT ![e] = values]
  BY <1>2 DEF ShownEnums, ReplaceProp
<1>6. /\ CatalogSets' = [CatalogSets EXCEPT ![s] = ShownSets(schema)]
      /\ CatalogEnums' = [CatalogEnums EXCEPT ![s] = ShownEnums(schema)]
      /\ CatalogSets[s] = ShownSets(db[s])
      /\ CatalogEnums[s] = ShownEnums(db[s])
  BY <1>3, ShownAfterReplace
<1>7. CatalogSets' = CatalogSets
  BY <1>4, <1>6, CatalogIsShown
<1>8. CatalogEnums[s] # Null
  BY <1>1, <1>6, NotShownAsNull
<1>9. CatalogEnums[s][e] = GetEnum(db, s, e)
  BY <1>6 DEF ShownEnums, GetEnum
<1> QED
  BY <1>5, <1>6, <1>7, <1>8, <1>9

LEMMA RelationChange ==
  ASSUME db \in Database, NEW s \in SchemaNames, NEW t \in SetNames, NEW data \in Data,
         db[s] # Null, GetData(db, s, t) = Null, db' = ReplaceData(db, s, t, data)
  PROVE  C!Next
<1>1. CatalogSets[s][t] = Null
  BY ShownAfterReplaceData DEF Shown
<1>2. db[s] \in Schema
  BY DEF Database, Map
<1>3. Shown(data) \in C!Relation
  BY <1>2, NotShownAsNull
<1>4. C!AddRelation(s, t)
  BY <1>1, <1>3, ShownAfterReplaceData DEF C!AddRelation
<1> QED
  BY <1>4 DEF C!Next

LEMMA TableChange ==
  ASSUME db \in Database, NEW s \in SchemaNames, NEW t \in SetNames, NEW table,
         GetTable(db, s, t) # Null, Altered(GetTable(db, s, t), table),
         db' = ReplaceData(db, s, t, table)
  PROVE  [C!Next]_(C!vars)
<1> USE NullAssumption
<1> DEFINE old == GetTable(db, s, t)
<1>1. /\ old \in Data /\ old # Null /\ old.kind = "table" /\ db[s] # Null
      /\ GetData(db, s, t) = old
  BY GetDataType DEF GetData
<1>2. db[s] \in Schema
  BY <1>1 DEF Database, Map
<1> HIDE DEF old
<1>3. /\ CatalogSets' = [CatalogSets EXCEPT ![s] = [CatalogSets[s] EXCEPT ![t] = Shown(table)]]
      /\ CatalogEnums' = CatalogEnums
      /\ CatalogSets[s] # Null
      /\ CatalogSets[s][t] = Shown(old)
  <2>1. table \in Data \cup {Null}
    BY DEF Altered
  <2> QED
    BY <1>1, <2>1, ShownAfterReplaceData
<1>4. C!IsTable(s, t)
  BY <1>1, <1>2, <1>3, NotShownAsNull DEF C!IsTable, Shown
<1>5. CASE table = Null
  <2>1. C!RemoveTable(s, t)
    BY <1>3, <1>4, <1>5 DEF C!RemoveTable, Shown
  <2> QED
    BY <2>1 DEF C!Next
<1>6. CASE table # Null
  <2> DEFINE new == Keys(table.columns)
  <2>1. /\ table \in Data /\ table.kind = "table"
        /\ OneColumn(Keys(old.columns), new)
    BY <1>6 DEF Altered, old
  <2>2. new \subseteq ColNames
    BY <2>1 DEF Keys, Data, Map
  <2>3. /\ CatalogSets[s][t] = [kind |-> "table", columns |-> Keys(old.columns)]
        /\ Shown(table) = [kind |-> "table", columns |-> new]
    BY <1>1, <1>3, <1>6, <2>1 DEF Shown
  <2> HIDE DEF new
  <2>4. [CatalogSets[s][t] EXCEPT !.columns = new] = Shown(table)
    BY <2>3
  <2>5. CASE new = Keys(old.columns)
    <3>1. [CatalogSets[s] EXCEPT ![t] = Shown(table)] = CatalogSets[s]
      <4>1. CatalogSets[s] = [u \in SetNames |-> Shown(db[s].sets[u])]
        BY <1>1, CatalogIsShown DEF ShownSets
      <4> QED
        BY <2>3, <2>5, <4>1
    <3>2. CatalogSets' = CatalogSets
      BY <1>3, <3>1, CatalogIsShown
    <3> QED
      BY <1>3, <3>2 DEF C!vars
  <2>6. CASE new # Keys(old.columns)
    <3>1. \/ C!AddOne(CatalogSets[s][t].columns, new)
          \/ C!RemoveOne(CatalogSets[s][t].columns, new)
          \/ C!RenameOne(CatalogSets[s][t].columns, new)
      BY <2>1, <2>3, <2>6 DEF OneColumn
    <3>2. CatalogSets' = [CatalogSets EXCEPT ![s][t].columns = new]
      BY <1>3, <2>4
    <3>3. C!AlterTable(s, t)
      BY <1>3, <1>4, <2>2, <3>1, <3>2 DEF C!AlterTable
    <3> QED
      BY <3>3 DEF C!Next
  <2> QED
    BY <2>5, <2>6
<1> QED
  BY <1>5, <1>6

LEMMA EnumChange ==
  ASSUME db \in Database, NEW s \in SchemaNames, NEW e \in EnumNames, NEW values,
         db[s] # Null, db' = ReplaceEnum(db, s, e, values),
         \/ GetEnum(db, s, e) = Null /\ values \in EnumLists
         \/ /\ GetEnum(db, s, e) # Null
            /\ \E v \in EnumValues :
                 /\ \A i \in DOMAIN GetEnum(db, s, e) : GetEnum(db, s, e)[i] # v
                 /\ values = Append(GetEnum(db, s, e), v)
         \/ GetEnum(db, s, e) # Null /\ values = Null
  PROVE  C!Next
<1>0. values \in Seq(EnumValues) \cup {Null}
  <2>1. GetEnum(db, s, e) \in Seq(EnumValues) \cup {Null}
    BY DEF GetEnum, Database, Schema, Map
  <2> QED
    BY <2>1, ListsAssumption
<1>1. /\ CatalogEnums' = [CatalogEnums EXCEPT ![s] = [CatalogEnums[s] EXCEPT ![e] = values]]
      /\ CatalogSets' = CatalogSets
      /\ CatalogEnums[s] # Null
      /\ CatalogEnums[s][e] = GetEnum(db, s, e)
  BY <1>0, ShownAfterReplaceEnum
<1>2. CASE GetEnum(db, s, e) = Null /\ values \in EnumLists
  <2>1. C!AddEnum(s, e)
    BY <1>1, <1>2 DEF C!AddEnum
  <2> QED
    BY <2>1 DEF C!Next
<1>3. ASSUME GetEnum(db, s, e) # Null, NEW v \in EnumValues,
             \A i \in DOMAIN GetEnum(db, s, e) : GetEnum(db, s, e)[i] # v,
             values = Append(GetEnum(db, s, e), v)
      PROVE  C!Next
  <2>1. C!ExtendEnum(s, e)
    BY <1>1, <1>3 DEF C!ExtendEnum
  <2> QED
    BY <2>1 DEF C!Next
<1>4. CASE GetEnum(db, s, e) # Null /\ values = Null
  <2>1. C!RemoveEnum(s, e)
    BY <1>1, <1>4 DEF C!RemoveEnum
  <2> QED
    BY <2>1 DEF C!Next
<1> QED
  BY <1>2, <1>3, <1>4

LEMMA SchemaChange ==
  ASSUME db \in Database, NEW s \in SchemaNames,
         \/ db[s] = Null /\ db' = ReplaceProp(db, s, CreateSchemaShape)
         \/ db[s] # Null /\ db' = ReplaceProp(db, s, Null)
  PROVE  C!Next
<1>1. CASE db[s] = Null /\ db' = ReplaceProp(db, s, CreateSchemaShape)
  <2>1. CreateSchemaShape \in Schema
    BY DEF CreateSchemaShape, Schema, Map, EmptyMap
  <2>2. CreateSchemaShape # Null
    BY <2>1, NullAssumption
  <2>3. /\ ShownSets(CreateSchemaShape) = [t \in SetNames |-> Null]
        /\ ShownEnums(CreateSchemaShape) = [e \in EnumNames |-> Null]
    BY <2>2 DEF ShownSets, ShownEnums, Shown, CreateSchemaShape, EmptyMap
  <2>4. ShownSets(db[s]) = Null
    BY <1>1 DEF ShownSets
  <2>5. C!AddSchema(s)
    BY <1>1, <2>3, <2>4, ShownAfterReplace DEF C!AddSchema
  <2> QED
    BY <2>5 DEF C!Next
<1>2. CASE db[s] # Null /\ db' = ReplaceProp(db, s, Null)
  <2>1. db[s] \in Schema
    BY <1>2 DEF Database, Map
  <2>2. ShownSets(db[s]) # Null /\ ShownSets(Null) = Null /\ ShownEnums(Null) = Null
    BY <2>1, NotShownAsNull DEF ShownSets, ShownEnums
  <2>3. C!DropSchema(s)
    BY <1>2, <2>2, ShownAfterReplace DEF C!DropSchema
  <2> QED
    BY <2>3 DEF C!Next
<1> QED
  BY <1>1, <1>2

LEMMA DefinitionIsOfTheCatalog ==
  ASSUME db \in Database, DefinitionStep
  PROVE  [C!Next]_(C!vars)
<1>1. CASE db' = db
  <2>1. CatalogSets' = CatalogSets /\ CatalogEnums' = CatalogEnums
    BY <1>1 DEF CatalogSets, CatalogEnums
  <2> QED
    BY <2>1 DEF C!vars
<1>2. ASSUME NEW s \in SchemaNames, NEW e \in EnumNames, NEW list \in EnumLists,
             db[s] # Null, GetEnum(db, s, e) = Null, db' = ReplaceEnum(db, s, e, list)
      PROVE  C!Next
  BY <1>2, EnumChange
<1>3. ASSUME NEW s \in SchemaNames, NEW e \in EnumNames, NEW v \in EnumValues,
             db[s] # Null, GetEnum(db, s, e) # Null,
             \A i \in DOMAIN GetEnum(db, s, e) : GetEnum(db, s, e)[i] # v,
             db' = ReplaceEnum(db, s, e, Append(GetEnum(db, s, e), v))
      PROVE  C!Next
  BY <1>3, EnumChange
<1>4. ASSUME NEW s \in SchemaNames, NEW e \in EnumNames,
             db[s] # Null, GetEnum(db, s, e) # Null, db' = ReplaceEnum(db, s, e, Null)
      PROVE  C!Next
  BY <1>4, EnumChange
<1> QED
  BY <1>1, <1>2, <1>3, <1>4, SchemaChange, RelationChange, TableChange DEF DefinitionStep

-----------------------------------------------------------------------------
\* A script, however it fails and whatever it swallows, and any number of
\* migrations after it, change the catalog by whole definitions one at a time:
\* the replacements by null that failed look-ups cause included.
THEOREM ScriptsAreDefinitions == Spec => ImplementsCatalog
<1>1. Init => C!Init
  <2> SUFFICES ASSUME Init PROVE C!Init
    OBVIOUS
  <2>1. \A s \in SchemaNames : db[s] = Null
    BY DEF Init, EmptyMap
  <2> QED
    BY <2>1 DEF C!Init, CatalogSets, CatalogEnums
<1>2. Inv /\ [Next]_vars => [C!Next]_(C!vars)
  BY NextDefinition, DefinitionIsOfTheCatalog DEF Inv, TypeOK
<1> QED
  BY <1>1, <1>2, InitInv, NextInv, PTL DEF Spec, ImplementsCatalog, C!Spec
=============================================================================
