--------------------------------- MODULE Dml ---------------------------------
(***************************************************************************)
(* INSERT, UPDATE and DELETE (src/parser/parse-insert.ts, parse-update.ts, *)
(* parse-delete.ts): one statement, read from left to right and checked    *)
(* against its relation on the way.                                        *)
(*                                                                         *)
(* As in Ddl the source is chosen as it is read.  The place of the parser  *)
(* in it is one number, `left`: the closing brackets ahead whose opening   *)
(* ones are behind or missing, plus one for the statement's own `;`.       *)
(* Reading an opening bracket adds one; reading a closing one, or the `;`, *)
(* takes one away.  A skip to the `;` ends behind the first of them, so it *)
(* takes one away as well, and a skip that starts behind the `;` takes a   *)
(* whole statement of somebody else.                                       *)
(***************************************************************************)
EXTENDS Jsql, Integers

CONSTANTS Relations,   \* what the statement may change: tables and views
          NullType,    \* the type of NULL, and of what is made of NULL alone
          ValueShapes, \* the SqlTypeShapes an expression can have
          ClassOf,     \* SqlComparisonClass, of each type
          MaxListed,   \* columns in a column list
          MaxRows,     \* rows of VALUES
          MaxSets,     \* assignments of SET
          MaxMarks,    \* parameters `?` in a statement
          MaxExtra,    \* closing brackets of the statement that close nothing
          MaxOpen,     \* brackets open where an expression goes wrong
          Recoveries,  \* how often the grammar of expressions skips for one error
          MaxSkips     \* no fewer than that and the skip of a caller

ASSUME DmlAssumption ==
  /\ SchemaNames # {} /\ SetNames # {}
  /\ Relations \subseteq Data
  /\ NullType \notin SqlTypes
  /\ ValueShapes \subseteq [type : SqlTypes \cup {NullType}, nullable : BOOLEAN]
  /\ ClassOf \in [SqlTypes -> STRING]
  /\ MaxListed \in Nat /\ MaxRows \in Nat /\ MaxSets \in Nat
  /\ MaxMarks \in Nat /\ MaxExtra \in Nat /\ MaxOpen \in Nat
  /\ MaxSkips \in Nat \ {0}
  /\ Recoveries \subseteq 1 .. MaxSkips - 1

VARIABLES
  kind,     \* which of the three statements
  tbl,      \* the relation it names
  at,       \* what is read next; "wants" is a `;` after its own, "done" nothing
  left,     \* where the parser stands: see above
  cols,     \* the column list of INSERT
  rows,     \* the shapes of the values of VALUES, row by row
  sets,     \* the assignments of SET: column and shape of the value
  next,     \* positionalParamIndex, in an environment handed on
  asked,    \* ghost: the index each `?` was looked up at, in order of appearance
  ok        \* no error

vars == <<kind, tbl, at, left, cols, rows, sets, next, asked, ok>>

written == <<cols, rows, sets>>

marks == <<next, asked>>

-----------------------------------------------------------------------------
(* Where a parser goes on or ends. *)

Reads(p, l) == at' = p /\ left' = l /\ UNCHANGED ok

Peeks(p) == Reads(p, left)

\* The error is returned from where the parser stands.
EndsAt(l) == at' = "done" /\ left' = l /\ ok' = FALSE

\* A plausible slip: the skip has no error to hand on.
SkipsSilently(l) == at' = "done" /\ left' = l - 1 /\ UNCHANGED ok

\* SkipFailedStatement, SkipFailedExpression.
SkipsFrom(l) == EndsAt(l - 1)

\* Where it stands behind a token that is not the expected one: any token,
\* any but `(`, any but `)`.
Unexpected   == {left, left + 1, left - 1}
NotOpening   == {left, left - 1}
NotClosing   == {left, left + 1}

\* Where an expression that does not parse leaves it: every level of the
\* grammar that hands the error on has skipped.
Unparsed == {left + d - k : d \in 0 .. MaxOpen, k \in Recoveries}

\* A plausible slip: the token before the end is not looked at.
AcceptsAnywhere ==
  /\ at' = IF kind = "insert" /\ rows # <<>> THEN "wants" ELSE "done"
  /\ left' = left - 1
  /\ UNCHANGED ok

\* The `;`.  An INSERT with VALUES expects another.
Accepts ==
  /\ left = 1
  /\ at' = IF kind = "insert" /\ rows # <<>> THEN "wants" ELSE "done"
  /\ left' = 0
  /\ UNCHANGED ok

-----------------------------------------------------------------------------
(* The rules for values. *)

HasColumn(c) == tbl.columns[c] # Null

NotNull(c) == FactOf(tbl, c).nullability = "not_null"

HasDefault(c) == FactOf(tbl, c).default

\* A plausible slip: a default makes a column required.
RequiredIfDefault(c) == HasColumn(c) /\ NotNull(c) /\ HasDefault(c)

\* IsNotNullInsertColumn.
Required(c) == HasColumn(c) /\ NotNull(c) /\ ~HasDefault(c)

Listed == {cols[i] : i \in DOMAIN cols}

SameComparisonClass(s, t) ==
  \/ "unknown" \in {ClassOf[s], ClassOf[t]}
  \/ ClassOf[s] = ClassOf[t]

\* ValidateMutationValueForColumn.  It looks at the type of the value; whether
\* the value is nullable makes no difference.
Fits(c, v) ==
  IF v.type = NullType THEN ~NotNull(c)
  ELSE SameComparisonClass(v.type, tbl.columns[c].type)

\* An expression with n `?`, the first of which has index i.
Asks(i, n) == asked' = asked \o [j \in 1 .. n |-> i + j - 1]

MarkCounts == 0 .. MaxMarks - Len(asked)

-----------------------------------------------------------------------------
Init ==
  /\ kind \in {"insert", "update", "delete"}
  /\ tbl \in Relations
  /\ at = IF kind = "update" THEN "table" ELSE "keyword"
  /\ left \in 1 .. MaxExtra + 1
  /\ cols = <<>> /\ rows = <<>> /\ sets = <<>>
  /\ next = 0 /\ asked = <<>>
  /\ ok = TRUE

InsertInto ==
  /\ kind = "insert" /\ at = "keyword"
  /\ Peeks("table") \/ SkipsFrom(left)
  /\ UNCHANGED <<kind, tbl, written, marks>>

DeleteFrom ==
  /\ kind = "delete" /\ at = "keyword"
  /\ Peeks("table") \/ SkipsFrom(left)
  /\ UNCHANGED <<kind, tbl, written, marks>>

\* The relation and its alias, of INSERT also the opening bracket.  Only
\* UPDATE skips when something is wrong with them.
InsertTable ==
  /\ kind = "insert" /\ at = "table"
  /\ Reads("columns", left + 1) \/ \E l \in Unexpected : EndsAt(l)
  /\ UNCHANGED <<kind, tbl, written, marks>>

UpdateTable ==
  /\ kind = "update" /\ at = "table"
  /\ Peeks("assign") \/ \E l \in Unexpected : SkipsFrom(l)
  /\ UNCHANGED <<kind, tbl, written, marks>>

DeleteTable ==
  /\ kind = "delete" /\ at = "table"
  /\ \/ \E p \in {"from", "where", "returning", "finish"} : Peeks(p)
     \/ \E l \in Unexpected : EndsAt(l)
  /\ UNCHANGED <<kind, tbl, written, marks>>

-----------------------------------------------------------------------------
(* INSERT: the column list and the rows. *)

ListColumn(c) ==
  /\ at = "columns" /\ Len(cols) < MaxListed
  /\ \/ ~HasColumn(c) /\ SkipsFrom(left) /\ UNCHANGED cols
     \/ /\ HasColumn(c)
        /\ cols' = Append(cols, c)
        /\ Peeks("columns") \/ Reads("source", left - 1) \/ SkipsFrom(left)
  /\ UNCHANGED <<kind, tbl, rows, sets, marks>>

\* No name; no column at all; a bracket behind a comma, which ends the list
\* and is taken for the word after it.
BadList ==
  /\ at = "columns"
  /\ \/ \E l \in NotClosing : SkipsFrom(l)
     \/ cols = <<>> /\ SkipsFrom(left)
     \/ cols # <<>> /\ EndsAt(left - 1)
  /\ UNCHANGED <<kind, tbl, written, marks>>

Values ==
  /\ at = "source"
  /\ \/ /\ \E c \in ColNames \ Listed : Required(c)
        /\ EndsAt(left) /\ UNCHANGED <<rows, next>>
     \/ /\ \A c \in ColNames \ Listed : ~Required(c)
        /\ \/ Reads("cell", left + 1) /\ rows' = <<(<<>>)>> /\ next' = 0
           \/ \E l \in NotOpening : SkipsFrom(l) /\ UNCHANGED <<rows, next>>
  /\ UNCHANGED <<kind, tbl, cols, sets, asked>>

\* The SELECT of an INSERT has the right columns, or not, or does not parse.
\* Required columns are not looked for.
SelectRows ==
  /\ at = "source"
  /\ \/ Peeks("finish")
     \/ \E d \in 0 .. MaxOpen, k \in {0, 1} \cup Recoveries : EndsAt(left + d - k)
  /\ UNCHANGED <<kind, tbl, written, marks>>

NoSource ==
  /\ at = "source"
  /\ \E l \in Unexpected : EndsAt(l)
  /\ UNCHANGED <<kind, tbl, written, marks>>

Row == rows[Len(rows)]

CellColumn == cols[Len(Row) + 1]

LastCell == Len(Row) + 1 = Len(cols)

AddCell(v) == rows' = [rows EXCEPT ![Len(rows)] = Append(@, v)]

\* A plausible slip: a bracket ends the row wherever it stands.
CellOrEndOfRow(v, n) ==
  /\ at = "cell"
  /\ Asks(next, n)
  /\ \/ ~Fits(CellColumn, v) /\ EndsAt(left) /\ UNCHANGED <<rows, next>>
     \/ /\ Fits(CellColumn, v)
        /\ AddCell(v)
        /\ next' = next + n
        /\ \/ ~LastCell /\ Peeks("cell")
           \/ Reads("row", left - 1)
           \/ \E l \in NotClosing : SkipsFrom(l)
  /\ UNCHANGED <<kind, tbl, cols, sets>>

Cell(v, n) ==
  /\ at = "cell"
  /\ Asks(next, n)
  /\ \/ ~Fits(CellColumn, v) /\ EndsAt(left) /\ UNCHANGED <<rows, next>>
     \/ /\ Fits(CellColumn, v)
        /\ AddCell(v)
        /\ next' = next + n
        /\ \/ ~LastCell /\ (Peeks("cell") \/ SkipsFrom(left))
           \/ LastCell /\ (Reads("row", left - 1) \/ \E l \in NotClosing : SkipsFrom(l))
  /\ UNCHANGED <<kind, tbl, cols, sets>>

\* A comma and another row.  The index starts anew.
NextRow ==
  /\ at = "row" /\ Len(rows) < MaxRows
  /\ \/ Reads("cell", left + 1) /\ rows' = Append(rows, <<>>) /\ next' = 0
     \/ \E l \in NotOpening : SkipsFrom(l) /\ UNCHANGED <<rows, next>>
  /\ UNCHANGED <<kind, tbl, cols, sets, asked>>

\* RETURNING, or nothing known.
EndOfRows ==
  /\ at = "row"
  /\ Peeks("returning") \/ Peeks("finish")
  /\ UNCHANGED <<kind, tbl, written, marks>>

-----------------------------------------------------------------------------
(* ON CONFLICT (columns) DO UPDATE SET. *)

OnConflict ==
  /\ at = "row"
  /\ \/ Reads("target", left + 1)
     \/ SkipsFrom(left)
     \/ \E l \in NotOpening : SkipsFrom(l)
  /\ UNCHANGED <<kind, tbl, written, marks>>

TargetColumn(c) ==
  /\ at \in {"target", "targets"}
  /\ \/ ~HasColumn(c) /\ SkipsFrom(left)
     \/ HasColumn(c) /\ (Peeks("targets") \/ Reads("do", left - 1) \/ SkipsFrom(left))
  /\ UNCHANGED <<kind, tbl, written, marks>>

\* Unlike the column list, this one may end in a comma.
EndOfTargets ==
  /\ \/ at = "target" /\ SkipsFrom(left)
     \/ at = "targets" /\ Reads("do", left - 1)
     \/ at \in {"target", "targets"} /\ \E l \in NotClosing : SkipsFrom(l)
  /\ UNCHANGED <<kind, tbl, written, marks>>

DoUpdateSet ==
  /\ at = "do"
  /\ \/ Peeks("assign")
     \/ SkipsFrom(left)
     \/ \E l \in Unexpected : SkipsFrom(l)
  /\ UNCHANGED <<kind, tbl, written, marks>>

-----------------------------------------------------------------------------
(* SET, of UPDATE and of ON CONFLICT. *)

\* The value is of the column's class, or the statement ends here.
Assigns(c, v) ==
  \/ ~Fits(c, v) /\ EndsAt(left) /\ UNCHANGED sets
  \/ Fits(c, v) /\ sets' = Append(sets, <<c, v>>)

\* The index is handed on to the next assignment.
UpdateSet(c, v, n) ==
  /\ kind = "update" /\ at = "assign" /\ Len(sets) < MaxSets
  /\ HasColumn(c)
  /\ Asks(next, n)
  /\ Assigns(c, v)
  /\ \/ ~Fits(c, v) /\ UNCHANGED next
     \/ /\ Fits(c, v)
        /\ next' = next + n
        /\ \/ Accepts \/ EndsAt(left)
           \/ \E p \in {"assign", "from", "where", "returning"} : Peeks(p)
  /\ UNCHANGED <<kind, tbl, cols, rows>>

\* Here it is not, and RETURNING must be behind a WHERE.
ConflictSet(c, v, n) ==
  /\ kind = "insert" /\ at = "assign" /\ Len(sets) < MaxSets
  /\ HasColumn(c)
  /\ Asks(0, n)
  /\ Assigns(c, v)
  /\ Fits(c, v) => \/ Accepts \/ EndsAt(left)
                  \/ \E p \in {"assign", "where"} : Peeks(p)
  /\ UNCHANGED <<kind, tbl, cols, rows, next>>

\* No name, an unknown one, no `=`.
BadAssign ==
  /\ at = "assign"
  /\ \/ \E l \in Unexpected : SkipsFrom(l)
     \/ EndsAt(left)
     \/ SkipsFrom(left)
  /\ UNCHANGED <<kind, tbl, written, marks>>

\* A value that does not parse, or does not resolve.
BadValue ==
  /\ at \in {"cell", "assign"}
  /\ \E l \in Unparsed \cup {left} : EndsAt(l)
  /\ UNCHANGED <<kind, tbl, written, marks>>

-----------------------------------------------------------------------------
(* The clauses they share. *)

\* Whatever follows the second relation, unless it is one of the words below,
\* is taken for an alias, brackets included.
UpdateFrom ==
  /\ kind = "update" /\ at = "from"
  /\ \/ \E l \in Unexpected : EndsAt(l)
     \/ \E l \in Unexpected \ {0}, p \in {"where", "returning", "finish"} : Reads(p, l)
  /\ UNCHANGED <<kind, tbl, written, marks>>

DeleteUsing ==
  /\ kind = "delete" /\ at = "from"
  /\ \/ \E l \in Unexpected : EndsAt(l)
     \/ \E l \in Unexpected \ {0}, p \in {"where", "returning", "finish"} : Reads(p, l)
  /\ UNCHANGED <<kind, tbl, written, marks>>

\* An error that the expression has skipped for is skipped for again.
Where(n) ==
  /\ at = "where"
  /\ Asks(0, n)
  /\ \/ Peeks("returning") \/ Peeks("finish")
     \/ \E l \in Unparsed \cup {left} : SkipsFrom(l)
  /\ UNCHANGED <<kind, tbl, written, next>>

\* Items that do not parse are skipped for, those that do not resolve are not.
Returning(n) ==
  /\ at = "returning"
  /\ Asks(0, n)
  /\ \/ Peeks("finish")
     \/ EndsAt(left)
     \/ \E l \in Unparsed : SkipsFrom(l)
  /\ UNCHANGED <<kind, tbl, written, next>>

FinishInsert ==
  /\ kind = "insert" /\ at = "finish"
  /\ Accepts \/ SkipsFrom(left)
  /\ UNCHANGED <<kind, tbl, written, marks>>

FinishUpdate ==
  /\ kind = "update" /\ at = "finish"
  /\ Accepts \/ SkipsFrom(left)
  /\ UNCHANGED <<kind, tbl, written, marks>>

FinishDelete ==
  /\ kind = "delete" /\ at = "finish"
  /\ Accepts \/ SkipsFrom(left)
  /\ UNCHANGED <<kind, tbl, written, marks>>

\* The parser has returned.
Ended == at \in {"wants", "done"} /\ UNCHANGED vars

-----------------------------------------------------------------------------
Insert ==
  \/ InsertInto \/ InsertTable \/ BadList
  \/ Values \/ SelectRows \/ NoSource \/ NextRow \/ EndOfRows
  \/ OnConflict \/ EndOfTargets \/ DoUpdateSet \/ FinishInsert
  \/ \E c \in ColNames : ListColumn(c) \/ TargetColumn(c)

Update == UpdateTable \/ UpdateFrom \/ FinishUpdate

Delete == DeleteFrom \/ DeleteTable \/ DeleteUsing \/ FinishDelete

Next ==
  \/ Insert \/ Update \/ Delete
  \/ BadAssign \/ BadValue \/ Ended
  \/ \E n \in MarkCounts :
       \/ Where(n) \/ Returning(n)
       \/ \E v \in ValueShapes :
            \/ Cell(v, n)
            \/ \E c \in ColNames : UpdateSet(c, v, n) \/ ConflictSet(c, v, n)

Spec == Init /\ [][Next]_vars

-----------------------------------------------------------------------------
(* Properties. *)

Places == {"keyword", "table", "columns", "source", "cell", "row", "target",
           "targets", "do", "assign", "from", "where", "returning", "finish",
           "wants", "done"}

Written ==
  /\ kind \in {"insert", "update", "delete"}
  /\ tbl \in Relations
  /\ cols \in Seq({c \in ColNames : HasColumn(c)})
  /\ rows \in Seq(Seq(ValueShapes))
  /\ sets \in Seq(ColNames \X ValueShapes)
  /\ next \in Nat /\ asked \in Seq(Nat)

\* While it reads, the parser stands before its `;`, and within the brackets
\* it has opened; an error ends it, and what ends without one has read
\* exactly the statement.
Placed ==
  /\ at \in Places
  /\ left \in Int
  /\ ok \in BOOLEAN
  /\ ~ok => at = "done"
  /\ at \in {"columns", "cell", "target", "targets"} => left > 1
  /\ at \notin {"wants", "done"} => left > 0
  /\ at \in {"wants", "done"} /\ ok => left = 0

\* What has been read is well formed, and the parser where it can be.
TypeOK == Written /\ Placed

Accepted == at \in {"wants", "done"} /\ ok

\* The values a row gives a column: one, none, or several when it is listed
\* more than once.
Given(row, c) == {row[i] : i \in {j \in DOMAIN cols : cols[j] = c}}

\* Between the look at the column list and the look at each value, an accepted
\* statement with VALUES or SET leaves no column that the facts call NOT NULL
\* with a plain NULL: each row gives it no value of the type of NULL, or leaves
\* it to its default, and no assignment sets it to NULL.  It may still be given
\* a value that can be null, which no test refuses (Fits), and an INSERT with a
\* SELECT is not looked at.
NoPlainNull ==
  Accepted => \A c \in ColNames : HasColumn(c) /\ NotNull(c) =>
    /\ \A i \in DOMAIN rows : /\ \A v \in Given(rows[i], c) : v.type # NullType
                              /\ Given(rows[i], c) = {} => HasDefault(c)
    /\ \A i \in DOMAIN sets : sets[i][1] = c => sets[i][2].type # NullType

\* Every row of an accepted INSERT has a value for each column of the list,
\* the second and later ones too, and each value is of its column's class.
RowsFitColumns ==
  Accepted => \A i \in DOMAIN rows :
    /\ DOMAIN rows[i] = DOMAIN cols
    /\ \A j \in DOMAIN cols :
         \/ rows[i][j].type = NullType
         \/ SameComparisonClass(rows[i][j].type, tbl.columns[cols[j]].type)

\* The statement as the walk over the script sees it.
Returned == at \in {"wants", "done"}

WalkAt == CASE at = "wants"             -> "finish"
            [] at = "done" /\ left < 0  -> "skip"
            [] OTHER                    -> "statement"

WalkPos == IF at = "done" /\ left > 0 THEN "tail" ELSE "boundary"

WalkRest == CASE at = "done" /\ left > 0 -> left
              [] at = "done" /\ left < 0 -> -left
              [] OTHER                   -> 0

StatementsRead == IF Returned THEN 1 ELSE 0

D == INSTANCE Ddl WITH
       BatchSize <- 1, Batches <- 1, ColumnLists <- {}, EnumLists <- {},
       MaxRest <- MaxExtra + MaxOpen + 3,
       db      <- EmptyMap(SchemaNames),
       failed  <- ~ok,
       at      <- WalkAt,
       target  <- CHOOSE st \in SchemaNames \X SetNames : TRUE,
       pos     <- WalkPos,
       rest    <- WalkRest,
       calls   <- StatementsRead,
       read    <- StatementsRead,
       lost    <- {}

\* However it ends, a statement leaves the walk over the script as one of the
\* outcomes that Ddl gives the queries: an accepted one just behind its `;`
\* or expecting another, a failed one within its rest, behind its `;`, or
\* skipping over those after it.
IsQueryOfTheWalk == D!Init /\ [][D!Query \/ D!InsertValues]_(D!vars)

-----------------------------------------------------------------------------
(* What the documentation says and the code does not do. *)

\* POSITIONAL_PARAMS_PLAN.md:361, "100% COMPLETE" says line 50: each `?` has
\* an index of its own, by order of appearance.  The binder
\* (bind-positional-params-for-pg.ts) numbers them so.
MarksInOrder == \A i \in DOMAIN asked : asked[i] = i - 1
=============================================================================
