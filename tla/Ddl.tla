--------------------------------- MODULE Ddl ---------------------------------
(***************************************************************************)
(* ApplyStatements (src/parser/parse-sql-statement.ts): the walk over a    *)
(* script that merges CREATE, ALTER and DROP into the typed database.      *)
(*                                                                         *)
(* The script is chosen as it is read: a step picks the next piece of      *)
(* source and does with it what the parser does.  A piece is a statement   *)
(* up to and including its `;`, one clause of an ALTER TABLE list, or the  *)
(* unread rest of a statement.  What matters to the walk is where the      *)
(* parser stands with respect to the source (pos) and what it expects      *)
(* there (at): every parser is meant to return just past the `;` of its    *)
(* own statement, and not every one does.                                  *)
(***************************************************************************)
EXTENDS Jsql

CONSTANTS BatchSize,     \* ParseSqlStatement calls in a batch (50 in the code)
          Batches,       \* batches in a walk (50 in the code)
          ColumnLists,   \* column lists a CREATE TABLE may have
          EnumLists,     \* value lists a CREATE TYPE may have
          MaxRest,       \* most calls the unread rest of a statement takes
          MaxSkips       \* most statements one error recovery skips on

\* One column definition of CREATE TABLE, ColumnTriple in the code.
ColumnDef == [name : ColNames, shape : Column, notNull : BOOLEAN,
              default : BOOLEAN]

ASSUME ListsAssumption == /\ ColumnLists \subseteq Seq(ColumnDef)
                          /\ EnumLists \subseteq Seq(EnumValues) \ {<<>>}

ASSUME BoundsAssumption == /\ BatchSize \in Nat \ {0}
                           /\ Batches \in Nat \ {0}
                           /\ MaxRest \in Nat \ {0}
                           /\ MaxSkips \in Nat \ {0}

VARIABLES
  db,       \* the database the walk has built so far
  failed,   \* an error has been latched for this script
  at,       \* what the parser expects next:
            \*   "statement"   a statement, in the walk's loop
            \*   "alter"       an action of the ALTER TABLE list of `target`
            \*   "finish"      the `;` of a statement whose `;` it has taken
            \*   "skip"        the `;` that error recovery skips to
            \*   "done"        nothing: the walk has returned
  target,   \* <<schema, table>> of the last ALTER TABLE
  pos,      \* where the parser stands in the source:
            \*   "boundary"  just past the `;` of a statement
            \*   "open"      within an ALTER TABLE, before a clause or the `;`
            \*   "tail"      before the unread rest of a statement
            \*   "end"       at the end of the script
  rest,     \* in the tail, the calls the unread rest takes: each unmatched
            \* `)` stops a skip; in a recovery, the statements yet to skip
  calls,    \* calls of ParseSqlStatement in this walk
  read,     \* ghost: statements of the script begun so far
  lost      \* ghost: who swallowed a whole statement of somebody else

vars == <<db, failed, at, target, pos, rest, calls, read, lost>>

parser == <<at, pos, rest>>

Limit == BatchSize * Batches

-----------------------------------------------------------------------------
(* Where a parser leaves the source. *)

\* Just past the `;` of its own statement.
EndsOwn == at' = "statement" /\ pos' = "boundary" /\ rest' = 0

\* In the middle of its own statement, n calls before its end.
LeavesRest(n) == at' = "statement" /\ pos' = "tail" /\ rest' = n

\* Past its own `;` and skipping over the next n.
SkipsNext(n) == at' = "skip" /\ pos' = "boundary" /\ rest' = n

\* Past its own `;` and expecting it.
WantsSemicolon == at' = "finish" /\ pos' = "boundary" /\ rest' = 0

\* Within the list of an ALTER TABLE.
StaysOpen == at' = "alter" /\ pos' = "open" /\ rest' = 0

\* The error is latched (ConcatErrors keeps the first).
Fails == failed' = TRUE

\* A plausible slip: the result of the last statement, not of the first error.
SucceedsForgets == failed' = FALSE

Succeeds == UNCHANGED failed

\* A statement that ends well, or has something else before its `;` and is
\* reported and skipped after it took effect.
Finishes(trailing) == EndsOwn /\ failed' = (failed \/ trailing)

\* What SkipFailedStatement and its variants make of a malformed statement:
\* skip to its `;`, leave its rest, or, when the `;` was already taken as an
\* unexpected token or by the parser of an expression, skip the statement after
\* it.  Every level of the grammar, and of a nested query, that hands the error
\* on skips once more.
Recovers ==
  \/ EndsOwn
  \/ \E n \in 1 .. MaxSkips : SkipsNext(n)
  \/ \E n \in 1 .. MaxRest : LeavesRest(n)

-----------------------------------------------------------------------------
Init ==
  /\ db = EmptyMap(SchemaNames)
  /\ failed = FALSE
  /\ at = "statement"
  /\ target \in SchemaNames \X SetNames
  /\ pos = "boundary"
  /\ rest = 0
  /\ calls = 0
  /\ read = 0
  /\ lost = {}

\* A plausible slip: the depth of the batches is not tested.
DispatchUnbounded ==
  /\ at = "statement" /\ pos = "boundary"
  /\ calls' = calls + 1
  /\ read' = read + 1
  /\ UNCHANGED lost

\* ParseSqlStatement is called on a new statement of the script.
Dispatch ==
  /\ at = "statement" /\ pos = "boundary"
  /\ calls < Limit
  /\ calls' = calls + 1
  /\ read' = read + 1
  /\ UNCHANGED lost

-----------------------------------------------------------------------------
(* CREATE and DROP SCHEMA. *)

CreateSchema(s, ifNotExists) ==
  /\ Dispatch /\ UNCHANGED target
  /\ IF db[s] = Null
     THEN db' = ReplaceProp(db, s, CreateSchemaShape) /\ Succeeds /\ EndsOwn
     ELSE /\ UNCHANGED db
          /\ \/ ifNotExists /\ Succeeds /\ EndsOwn
             \/ ~ifNotExists /\ Fails /\ LeavesRest(1)

DropSchema(s, ifExists) ==
  /\ Dispatch /\ UNCHANGED target
  /\ IF db[s] # Null
     THEN db' = ReplaceProp(db, s, Null) /\ Succeeds /\ EndsOwn
     ELSE /\ UNCHANGED db
          /\ \/ ifExists /\ Succeeds /\ EndsOwn
             \/ ~ifExists /\ Fails /\ SkipsNext(1)

-----------------------------------------------------------------------------
(* CREATE TABLE.  Of several definitions of a name the last one gives the  *)
(* type, and the last one that has a fact gives the facts.                 *)

HasFact(def) == def.notNull \/ def.default

FactOfDef(def) ==
  [nullability |-> IF def.notNull THEN "not_null" ELSE "unset",
   default |-> def.default]

\* The indices of the definitions of c among those of I.
Defining(list, I, c) == {i \in I : list[i].name = c}

LastOf(I) == CHOOSE i \in I : \A j \in I : j <= i

ColumnsFromStack(list) ==
  LET all   == DOMAIN list
      facty == {i \in all : HasFact(list[i])}
  IN  CreateTableShape(
        [c \in ColNames |-> IF Defining(list, all, c) = {} THEN Null
                            ELSE list[LastOf(Defining(list, all, c))].shape],
        [c \in ColNames |-> IF Defining(list, facty, c) = {} THEN Null
                            ELSE FactOfDef(list[LastOf(Defining(list, facty, c))])])

CreateTable(s, t, list, ifNotExists, trailing) ==
  /\ Dispatch /\ UNCHANGED target
  /\ \/ /\ db[s] = Null
        /\ UNCHANGED db /\ Fails /\ EndsOwn
     \/ /\ GetData(db, s, t) # Null
        /\ UNCHANGED db
        /\ \/ ifNotExists /\ Succeeds /\ LeavesRest(1)
           \/ ~ifNotExists /\ Fails /\ EndsOwn
     \/ /\ db[s] # Null /\ GetData(db, s, t) = Null
        /\ db' = ReplaceData(db, s, t, ColumnsFromStack(list))
        /\ Finishes(trailing)

-----------------------------------------------------------------------------
(* CREATE VIEW: the columns are those its SELECT returns when it is        *)
(* created.  Here the SELECT projects one relation on `cols`.              *)

CreateView(s, v, source, cols, trailing) ==
  LET from == GetData(db, source[1], source[2]) IN
  /\ Dispatch /\ UNCHANGED target
  /\ \/ /\ db[s] = Null \/ GetData(db, s, v) # Null
        /\ UNCHANGED db /\ Fails /\ EndsOwn
     \/ /\ db[s] # Null /\ GetData(db, s, v) = Null
        /\ IF from # Null /\ cols \subseteq Keys(from.columns)
           THEN IF trailing
                THEN UNCHANGED db /\ Fails /\ EndsOwn
                ELSE /\ db' = ReplaceData(db, s, v, CreateViewShape(
                                [c \in ColNames |-> IF c \in cols THEN from.columns[c] ELSE Null]))
                     /\ Succeeds /\ EndsOwn
           ELSE UNCHANGED db /\ Fails /\ Recovers

-----------------------------------------------------------------------------
(* DROP TABLE.  The name's parser has consumed the `;` and FinishDrop      *)
(* expects another one.                                                    *)

DropTable(s, t, ifExists) ==
  /\ Dispatch /\ UNCHANGED target
  /\ IF GetTable(db, s, t) # Null \/ ifExists
     THEN /\ db' = IF GetTable(db, s, t) # Null
                   THEN ReplaceData(db, s, t, Null) ELSE db
          /\ WantsSemicolon
          /\ Succeeds
     ELSE UNCHANGED db /\ Fails /\ SkipsNext(1)

-----------------------------------------------------------------------------
(* CREATE, ALTER and DROP TYPE. *)

CreateType(s, e, list, ifNotExists, trailing) ==
  /\ Dispatch /\ UNCHANGED target
  /\ IF db[s] # Null /\ GetEnum(db, s, e) = Null
     THEN db' = ReplaceEnum(db, s, e, list) /\ Finishes(trailing)
     ELSE /\ UNCHANGED db
          /\ Finishes(db[s] = Null \/ ~ifNotExists \/ trailing)

AlterType(s, e, v, ifExists, trailing) ==
  LET values == GetEnum(db, s, e) IN
  /\ Dispatch /\ UNCHANGED target
  /\ \/ /\ values = Null
        /\ UNCHANGED db
        /\ \/ ifExists /\ Succeeds /\ LeavesRest(1)
           \/ ~ifExists /\ Fails /\ EndsOwn
     \/ /\ values # Null /\ \E i \in DOMAIN values : values[i] = v
        /\ UNCHANGED db /\ Fails /\ LeavesRest(1)
     \/ /\ values # Null /\ \A i \in DOMAIN values : values[i] # v
        /\ db' = ReplaceEnum(db, s, e, Append(values, v))
        /\ Finishes(trailing)

DropType(s, e, ifExists, trailing) ==
  /\ Dispatch /\ UNCHANGED target
  /\ IF GetEnum(db, s, e) # Null
     THEN db' = ReplaceEnum(db, s, e, Null) /\ Finishes(trailing)
     ELSE UNCHANGED db /\ Finishes(~ifExists \/ trailing)

-----------------------------------------------------------------------------
(* Statements that leave the database alone. *)

\* UPDATE, DELETE and SELECT, and INSERT with a SELECT: checked against the
\* database.
Query ==
  /\ Dispatch /\ UNCHANGED <<db, target>>
  /\ \/ Succeeds /\ EndsOwn
     \/ Fails /\ Recovers

\* INSERT with VALUES: FinishInsertSemicolon is applied to the result of
\* FinishInsertSemicolon.  What fails goes the ways of Malformed.
InsertValues ==
  /\ Dispatch /\ UNCHANGED <<db, target>>
  /\ Succeeds /\ WantsSemicolon

\* A statement of the kinds above whose name or keywords are not as expected,
\* or a CREATE TABLE with an error in its list.
Malformed == Dispatch /\ UNCHANGED <<db, target>> /\ Fails /\ Recovers

\* GRANT, CREATE INDEX, a lone `;`: skipped without a parse.
Skipped == Dispatch /\ UNCHANGED <<db, target>> /\ Succeeds /\ EndsOwn

\* A plausible slip: the bracket that stopped the skip is not consumed.
SkipRestStandsStill ==
  /\ at = "statement" /\ pos = "tail"
  /\ calls < Limit
  /\ calls' = calls + 1
  /\ IF rest = 1
     THEN Succeeds /\ EndsOwn
     ELSE Fails /\ LeavesRest(rest)
  /\ UNCHANGED <<db, target, read, lost>>

\* The walk calls ParseSqlStatement on the rest a statement left unread.  An
\* unmatched closing bracket stops the skip, with an error, one token later.
SkipRest ==
  /\ at = "statement" /\ pos = "tail"
  /\ calls < Limit
  /\ calls' = calls + 1
  /\ IF rest = 1
     THEN Succeeds /\ EndsOwn
     ELSE Fails /\ LeavesRest(rest - 1)
  /\ UNCHANGED <<db, target, read, lost>>

-----------------------------------------------------------------------------
(* ALTER TABLE: ParseAlterActions loops over the clauses, with the         *)
(* database as the clauses before have left it.                            *)

AlterTable(s, t) ==
  /\ Dispatch /\ UNCHANGED db
  /\ IF GetTable(db, s, t) # Null
     THEN target' = <<s, t>> /\ Succeeds /\ StaysOpen
     ELSE UNCHANGED target /\ Fails /\ EndsOwn

TargetTable == GetTable(db, target[1], target[2])

\* ParseAlterOneAction requires the table to be there at every clause.
Clause ==
  /\ at = "alter" /\ pos = "open"
  /\ TargetTable # Null
  /\ UNCHANGED <<target, calls, read, lost>>

ReplaceTarget(table) == db' = ReplaceData(db, target[1], target[2], table)

HasColumn(c) == TargetTable.columns[c] # Null

AddColumn(c, shape) ==
  /\ Clause
  /\ IF HasColumn(c)
     THEN UNCHANGED db /\ Fails /\ EndsOwn
     ELSE ReplaceTarget(TableAddColumn(TargetTable, c, shape))
          /\ Succeeds /\ StaysOpen

DropColumn(c) ==
  /\ Clause
  /\ IF HasColumn(c)
     THEN ReplaceTarget(TableReplaceColumn(TargetTable, c, Null, Null))
          /\ Succeeds /\ StaysOpen
     ELSE UNCHANGED db /\ Fails /\ LeavesRest(1)

\* The column and its facts move to the new name; facts are written even when
\* there were none.
Renamed(table, old, new) ==
  TableReplaceColumn(TableReplaceColumn(table, old, Null, Null),
                     new, table.columns[old], FactOf(table, old))

RenameColumn(old, new) ==
  /\ Clause
  /\ \/ /\ ~HasColumn(old)
        /\ UNCHANGED db /\ Fails /\ LeavesRest(1)
     \/ /\ HasColumn(old) /\ HasColumn(new)
        /\ UNCHANGED db /\ Fails /\ EndsOwn
     \/ /\ HasColumn(old) /\ ~HasColumn(new)
        /\ ReplaceTarget(Renamed(TargetTable, old, new))
        /\ Succeeds /\ StaysOpen

\* ALTER COLUMN does not ask whether the column exists.
AlterColumnType(c, shape) ==
  /\ Clause
  /\ ReplaceTarget(TableReplaceColumnType(TargetTable, c, shape))
  /\ Succeeds /\ StaysOpen

SetNotNull(c) ==
  /\ Clause
  /\ ReplaceTarget(TableReplaceColumnNullability(TargetTable, c, "not_null"))
  /\ Succeeds /\ StaysOpen

DropNotNull(c) ==
  /\ Clause
  /\ ReplaceTarget(TableReplaceColumnNullability(TargetTable, c, "nullable"))
  /\ Succeeds /\ StaysOpen

\* SET DEFAULT, DROP DEFAULT, ADD CONSTRAINT: skipped through the next `,` or
\* `;`, the delimiter included, and the list goes on.
NoOpClause(delimiter) ==
  /\ Clause /\ UNCHANGED db /\ Succeeds
  /\ at' = "alter" /\ rest' = 0
  /\ pos' = IF delimiter = ";" THEN "boundary" ELSE "open"

BadClause == Clause /\ UNCHANGED db /\ Fails /\ Recovers

\* The `;` of the list.
FinishAlter ==
  /\ at = "alter" /\ pos = "open"
  /\ Succeeds /\ EndsOwn
  /\ UNCHANGED <<db, target, calls, read, lost>>

\* A clause on a table that an earlier clause of the list made vanish.  The
\* clause's tokens are left to the walk.
TableKeyMismatch ==
  /\ at = "alter" /\ pos = "open" /\ TargetTable = Null
  /\ Fails /\ LeavesRest(1)
  /\ UNCHANGED <<db, target, calls, read, lost>>

-----------------------------------------------------------------------------
(* A parser that stands past its own `;` and wants more meets the next     *)
(* statement of the script.                                                *)

Overrun == pos = "boundary" /\ at \in {"alter", "finish", "skip"}

\* `DROP ROLE bob` as a clause: the column `role` goes, `bob` is an error.
LosesColumn(c) ==
  /\ TargetTable # Null /\ HasColumn(c)
  /\ ReplaceTarget(TableReplaceColumn(TargetTable, c, Null, Null))

\* ALTER TABLE reads the statement as an action, FinishDrop reports a missing
\* `;`, error recovery skips on: all of them go to its `;`, or stop on the way.
\* All report an error: no statement of SQL is a clause from end to end (`DROP
\* a;` would be, and is none).
SwallowNext ==
  /\ Overrun
  /\ Fails
  /\ \/ EndsOwn
     \/ \E n \in 1 .. MaxRest : LeavesRest(n)
     \/ at = "skip" /\ \E n \in 1 .. rest - 1 : SkipsNext(n)
  /\ \/ UNCHANGED db
     \/ at = "alter" /\ \E c \in ColNames : LosesColumn(c)
  /\ lost' = lost \cup {at}
  /\ read' = read + 1
  /\ UNCHANGED <<target, calls>>

\* A lone `;` is what they want.
OverrunMeetsSemicolon ==
  /\ Overrun
  /\ Succeeds
  /\ IF at = "skip" /\ rest > 1 THEN SkipsNext(rest - 1) ELSE EndsOwn
  /\ read' = read + 1
  /\ UNCHANGED <<db, target, calls, lost>>

-----------------------------------------------------------------------------
(* The end of the walk. *)

\* Every parser takes the end of the source for its `;`.
EndOfScript ==
  /\ pos = "boundary" /\ at # "done"
  /\ at' = "done" /\ pos' = "end" /\ rest' = 0
  /\ UNCHANGED <<db, failed, target, calls, read, lost>>

\* The loop is out of batches, with source left to read.
OutOfBatches ==
  /\ at = "statement" /\ calls = Limit
  /\ at' = "done"
  /\ UNCHANGED <<db, failed, target, pos, rest, calls, read, lost>>

\* DBMigrations.apply: the next script starts from the database this walk
\* returned, whether or not it reported an error.
NextMigration ==
  /\ at = "done"
  /\ EndsOwn
  /\ failed' = FALSE /\ calls' = 0 /\ read' = 0 /\ lost' = {}
  /\ UNCHANGED <<db, target>>

-----------------------------------------------------------------------------
Statement ==
  \E flag, trailing \in BOOLEAN :
    \/ \E s \in SchemaNames :
         \/ CreateSchema(s, flag) \/ DropSchema(s, flag)
         \/ \E t \in SetNames :
              \/ DropTable(s, t, flag) \/ AlterTable(s, t)
              \/ \E list \in ColumnLists : CreateTable(s, t, list, flag, trailing)
              \/ \E source \in SchemaNames \X SetNames, cols \in SUBSET ColNames :
                   CreateView(s, t, source, cols, trailing)
         \/ \E e \in EnumNames :
              \/ DropType(s, e, flag, trailing)
              \/ \E list \in EnumLists : CreateType(s, e, list, flag, trailing)
              \/ \E v \in EnumValues : AlterType(s, e, v, flag, trailing)
    \/ Query \/ InsertValues \/ Malformed \/ Skipped

AlterClause ==
  \/ \E c \in ColNames :
       \/ \E shape \in Column : AddColumn(c, shape) \/ AlterColumnType(c, shape)
       \/ DropColumn(c) \/ SetNotNull(c) \/ DropNotNull(c)
       \/ \E new \in ColNames : RenameColumn(c, new)
  \/ \E delimiter \in {",", ";"} : NoOpClause(delimiter)
  \/ BadClause

Next ==
  \/ Statement
  \/ SkipRest
  \/ AlterClause
  \/ FinishAlter
  \/ TableKeyMismatch
  \/ SwallowNext
  \/ OverrunMeetsSemicolon
  \/ EndOfScript
  \/ OutOfBatches
  \/ NextMigration

Spec == Init /\ [][Next]_vars

-----------------------------------------------------------------------------
(* Properties. *)

\* The database, wherever the walk stands, has the shape of a
\* JsqlDatabaseShape, and only a tail and a recovery have something to go.
TypeOK ==
  /\ db \in Database
  /\ failed \in BOOLEAN
  /\ at \in {"statement", "alter", "finish", "skip", "done"}
  /\ target \in SchemaNames \X SetNames
  /\ pos \in {"boundary", "open", "tail", "end"}
  /\ pos = "tail" => rest \in 1 .. MaxRest
  /\ at = "skip" => rest \in 1 .. MaxSkips
  /\ pos # "tail" /\ at # "skip" => rest = 0
  /\ calls \in 0 .. Limit
  /\ read \in Nat
  /\ lost \subseteq {"alter", "finish", "skip"}

\* The two maps of a table never drift apart: after any list of ADD, DROP,
\* RENAME and ALTER COLUMN, in any order, facts are kept for columns the
\* table has and no others (a fact left behind would bind to a later column
\* of the name), and a view has none.
FactsOK(data) ==
  /\ Keys(data.facts) \subseteq Keys(data.columns)
  /\ data.kind = "view" => Keys(data.facts) = {}

FactsWithinColumns ==
  \A s \in Keys(db) : \A t \in Keys(db[s].sets) : FactsOK(db[s].sets[t])

\* Whatever part of a script the parsers swallow between them, no statement
\* that is read well behind a lost one makes the script look successful.  What
\* this is about is that the error is kept; that there is one is SwallowNext.
NoSilentLoss == lost # {} => failed

\* Every call of ParseSqlStatement makes progress: a statement, however it
\* fails, costs at most MaxRest + 1 calls.  Pending are the calls the current
\* statement may still need.
Pending == CASE pos = "tail" -> rest
             [] pos = "open" -> MaxRest
             [] OTHER        -> 0

CallsPerStatement == calls + Pending <= (MaxRest + 1) * read

\* So the walk gives up early only on a script that is long enough.
GivesUpOnlyOnLongScripts ==
  at = "done" /\ pos # "end" => (MaxRest + 1) * read >= Limit

\* A view is a snapshot: whatever happens to the table it was selected from,
\* it keeps its columns until its schema is dropped.
ViewsAreSnapshots ==
  [][\A s \in Keys(db) \cap Keys(db') : \A v \in Keys(db[s].sets) :
       db[s].sets[v].kind = "view" => db'[s].sets[v] = db[s].sets[v]]_vars

\* Every step of the walk, the deletions the null convention causes included,
\* is one step of the catalog or none.
CatalogSets ==
  [s \in SchemaNames |-> IF db[s] = Null THEN Null ELSE
     [t \in SetNames |-> IF db[s].sets[t] = Null THEN Null ELSE
        [kind    |-> db[s].sets[t].kind,
         columns |-> Keys(db[s].sets[t].columns)]]]

CatalogEnums ==
  [s \in SchemaNames |-> IF db[s] = Null THEN Null ELSE db[s].types]

C == INSTANCE Catalog WITH sets <- CatalogSets, enums <- CatalogEnums

ImplementsCatalog == C!Spec

\* Null is nothing the catalog can hold under a name either.
ASSUME CatalogNullAssumption ==
         /\ Null \notin C!Relation
         /\ Null \notin [SetNames -> C!Relation \cup {Null}]
         /\ Null \notin Map(EnumNames, Seq(EnumValues))

=============================================================================
