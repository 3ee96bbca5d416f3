------------------------------ MODULE DmlProofs ------------------------------
(***************************************************************************)
(* Theorems about Dml, for every set of relations and types and every      *)
(* bound.                                                                  *)
(***************************************************************************)
EXTENDS Dml, TLAPS, SequenceTheorems

-----------------------------------------------------------------------------
(* What a step does to the statement read so far. *)

Early == {"keyword", "table", "columns"}

\* Nothing: a keyword, a bracket, an error.
Keeps ==
  /\ UNCHANGED <<cols, rows, sets>>
  /\ at' \notin {"source", "cell", "row"}
  /\ at' \in Early => at \in Early
  /\ at = "cell" => ~ok'

\* A column of the list.
Lists(c) ==
  /\ at = "columns" /\ HasColumn(c)
  /\ cols' = Append(cols, c)
  /\ at' \in {"columns", "source", "done"}
  /\ UNCHANGED <<rows, sets>>

NothingMissing == \A c \in ColNames \ Listed : ~Required(c)

\* The bracket of the first row, or of another one.
BeginsFirst ==
  /\ at = "source" /\ at' = "cell"
  /\ NothingMissing
  /\ rows' = <<(<<>>)>>
  /\ UNCHANGED <<cols, sets>>

BeginsNext ==
  /\ at = "row" /\ at' = "cell"
  /\ rows' = Append(rows, <<>>)
  /\ UNCHANGED <<cols, sets>>

\* A value of a row.
Gives(v) ==
  /\ at = "cell"
  /\ Fits(CellColumn, v) /\ AddCell(v)
  /\ \/ at' = "cell" /\ ~LastCell
     \/ at' = "row" /\ LastCell
     \/ at' = "done" /\ ~ok'
  /\ UNCHANGED <<cols, sets>>

\* A value of an assignment.
SetsTo(c, v) ==
  /\ at = "assign" /\ HasColumn(c) /\ Fits(c, v)
  /\ sets' = Append(sets, <<c, v>>)
  /\ at' \notin Early \cup {"source", "cell", "row"}
  /\ UNCHANGED <<cols, rows>>

WriteStep ==
  /\ UNCHANGED <<kind, tbl>>
  /\ ok' => ok
  /\ \/ Keeps
     \/ \E c \in ColNames : Lists(c)
     \/ BeginsFirst
     \/ BeginsNext
     \/ \E v \in ValueShapes : Gives(v)
     \/ \E c \in ColNames, v \in ValueShapes : SetsTo(c, v)

\* Every action is one of these.
LEMMA NextWriteStep ==
  ASSUME Next
  PROVE  WriteStep
<1> USE DEF WriteStep, Keeps, Early, Reads, Peeks, EndsAt, SkipsFrom, written, marks
<1>1. CASE InsertInto \/ DeleteFrom \/ InsertTable \/ UpdateTable \/ DeleteTable
  BY <1>1 DEF InsertInto, DeleteFrom, InsertTable, UpdateTable, DeleteTable
<1>2. ASSUME NEW c \in ColNames, ListColumn(c)
      PROVE  WriteStep
  <2>1. CASE HasColumn(c)
    <3>1. Lists(c)
      BY <1>2, <2>1 DEF ListColumn, Lists
    <3> QED
      BY <1>2, <3>1 DEF ListColumn
  <2>2. CASE ~HasColumn(c)
    BY <1>2, <2>2 DEF ListColumn
  <2> QED
    BY <2>1, <2>2
<1>3. CASE BadList \/ SelectRows \/ NoSource
  BY <1>3 DEF BadList, SelectRows, NoSource
<1>4. CASE Values
  <2>1. CASE at' = "cell"
    <3>1. BeginsFirst
      BY <1>4, <2>1 DEF Values, BeginsFirst, NothingMissing
    <3> QED
      BY <1>4, <3>1 DEF Values
  <2>2. CASE at' # "cell"
    BY <1>4, <2>2 DEF Values
  <2> QED
    BY <2>1, <2>2
<1>5. ASSUME NEW v \in ValueShapes, NEW n \in MarkCounts, Cell(v, n)
      PROVE  WriteStep
  <2>1. CASE Fits(CellColumn, v)
    <3>1. Gives(v)
      BY <1>5, <2>1 DEF Cell, Gives
    <3> QED
      BY <1>5, <3>1 DEF Cell
  <2>2. CASE ~Fits(CellColumn, v)
    BY <1>5, <2>2 DEF Cell
  <2> QED
    BY <2>1, <2>2
<1>6. CASE NextRow
  <2>1. CASE at' = "cell"
    <3>1. BeginsNext
      BY <1>6, <2>1 DEF NextRow, BeginsNext
    <3> QED
      BY <1>6, <3>1 DEF NextRow
  <2>2. CASE at' # "cell"
    BY <1>6, <2>2 DEF NextRow
  <2> QED
    BY <2>1, <2>2
<1>7. CASE EndOfRows \/ OnConflict \/ EndOfTargets \/ DoUpdateSet \/ BadAssign \/ BadValue
  BY <1>7 DEF EndOfRows, OnConflict, EndOfTargets, DoUpdateSet, BadAssign, BadValue
<1>8. ASSUME NEW c \in ColNames, TargetColumn(c)
      PROVE  WriteStep
  BY <1>8 DEF TargetColumn
<1>9. ASSUME NEW c \in ColNames, NEW v \in ValueShapes, NEW n \in MarkCounts,
             UpdateSet(c, v, n) \/ ConflictSet(c, v, n)
      PROVE  WriteStep
  <2>1. CASE Fits(c, v)
    <3>1. SetsTo(c, v)
      BY <1>9, <2>1 DEF UpdateSet, ConflictSet, Assigns, SetsTo, Accepts
    <3> QED
      BY <1>9, <2>1, <3>1 DEF UpdateSet, ConflictSet, Accepts
  <2>2. CASE ~Fits(c, v)
    BY <1>9, <2>2 DEF UpdateSet, ConflictSet, Assigns
  <2> QED
    BY <2>1, <2>2
<1>10. CASE UpdateFrom \/ DeleteUsing \/ FinishInsert \/ FinishUpdate \/ FinishDelete
  BY <1>10 DEF UpdateFrom, DeleteUsing, FinishInsert, FinishUpdate, FinishDelete, Accepts
<1>11. ASSUME NEW n \in MarkCounts, Where(n) \/ Returning(n)
       PROVE  WriteStep
  BY <1>11 DEF Where, Returning
<1>12. CASE Ended
  BY <1>12 DEF Ended, vars
<1> QED
  BY <1>1, <1>2, <1>3, <1>4, <1>5, <1>6, <1>7, <1>8, <1>9, <1>10, <1>11, <1>12
  DEF Next, Insert, Update, Delete

-----------------------------------------------------------------------------
(* Type correctness. *)

InBrackets == {"columns", "cell", "target", "targets"}

Late == {"where", "returning", "finish"}

Open == Places \ {"wants", "done"}

MaxLeft == MaxExtra + MaxOpen + 3

\* How many brackets are ahead: one that was opened, one that was taken for an
\* alias, those that an expression has opened.
Bounded ==
  /\ left \in -MaxSkips .. MaxLeft
  /\ at \in Open => left <= MaxExtra + 2
  /\ at \in Open \ (InBrackets \cup Late) => left <= MaxExtra + 1

TypeInv == TypeOK /\ Bounded

LEMMA InitType == Init => TypeInv
<1> SUFFICES ASSUME Init PROVE TypeInv
  OBVIOUS
<1>1. Written
  BY EmptySeq DEF Init, Written
<1>2. Placed
  BY DmlAssumption DEF Init, Placed, Places
<1>3. Bounded
  BY DmlAssumption DEF Init, Bounded, Open, Places, MaxLeft
<1> QED
  BY <1>1, <1>2, <1>3 DEF TypeOK, TypeInv

\* Where a step leaves the parser: it reads on before its `;`, within a bracket
\* if that is what it reads next; it ends on an error, or with its `;`.
ReadsOn ==
  /\ at \in Open
  /\ \E p \in Open, l \in 1 .. MaxExtra + 2 :
       /\ p \in InBrackets => l > 1
       /\ p \notin InBrackets \cup Late => l <= MaxExtra + 1
       /\ Reads(p, l)

EndsBadly == at \in Open /\ \E l \in -MaxSkips .. MaxLeft : EndsAt(l)

EndsWell == at \in Open /\ Accepts

PlaceStep == ReadsOn \/ EndsBadly \/ EndsWell \/ Ended

LEMMA NextPlaceStep ==
  ASSUME Placed, Bounded, Next
  PROVE  PlaceStep
<1> DEFINE Behind == 1 - MaxSkips .. MaxLeft
<1> USE DEF PlaceStep
<1>0. /\ MaxExtra \in Nat /\ MaxOpen \in Nat /\ MaxSkips \in Nat \ {0}
      /\ Recoveries \subseteq 1 .. MaxSkips - 1
  BY DmlAssumption
<1>1. left \in Int
  BY DEF Placed
<1>2. at \in Open => left > 0 /\ left <= MaxExtra + 2
  BY DEF Placed, Bounded, Open
<1>3. at \in InBrackets => left > 1
  BY DEF Placed, InBrackets
<1>4. ASSUME at \in Open, NEW l \in Behind, SkipsFrom(l)
      PROVE  EndsBadly
  <2>1. l - 1 \in -MaxSkips .. MaxLeft
    BY <1>0 DEF MaxLeft
  <2> QED
    BY <1>4, <2>1 DEF SkipsFrom, EndsBadly
<1>5. ASSUME at \in Open \ InBrackets, NEW p \in Open \ InBrackets, Peeks(p),
             at \in Late => p \in Late
      PROVE  ReadsOn
  <2>1. left \in 1 .. MaxExtra + 2
    BY <1>0, <1>1, <1>2, <1>5
  <2>2. p \notin Late => left <= MaxExtra + 1
    BY <1>5 DEF Bounded
  <2> QED
    BY <1>5, <2>1, <2>2 DEF ReadsOn, Peeks
<1>6. ASSUME at \in InBrackets, NEW p \in InBrackets, Peeks(p)
      PROVE  ReadsOn
  <2>1. at \in Open /\ p \in Open
    BY <1>6 DEF Open, Places, InBrackets
  <2>2. left \in 1 .. MaxExtra + 2 /\ left > 1
    BY <1>0, <1>1, <1>2, <1>3, <1>6, <2>1
  <2> QED
    BY <1>6, <2>1, <2>2 DEF ReadsOn, Peeks
<1>7. ASSUME at \in Open \ (InBrackets \cup Late), NEW p \in InBrackets, Reads(p, left + 1)
      PROVE  ReadsOn
  <2>1. p \in Open
    BY DEF Open, Places, InBrackets
  <2>2. left + 1 \in 1 .. MaxExtra + 2 /\ left + 1 > 1
    BY <1>0, <1>1, <1>2, <1>7 DEF Bounded
  <2> QED
    BY <1>7, <2>1, <2>2 DEF ReadsOn
<1>8. ASSUME at \in InBrackets, NEW p \in Open \ InBrackets, Reads(p, left - 1)
      PROVE  ReadsOn
  <2>1. at \in Open
    BY <1>8 DEF Open, Places, InBrackets
  <2>2. left - 1 \in 1 .. MaxExtra + 2 /\ left - 1 <= MaxExtra + 1
    BY <1>0, <1>1, <1>2, <1>3, <1>8, <2>1
  <2> QED
    BY <1>8, <2>1, <2>2 DEF ReadsOn
<1>9. at \in Open => /\ Unexpected \subseteq Behind /\ NotOpening \subseteq Behind
                     /\ NotClosing \subseteq Behind /\ Unparsed \subseteq Behind
                     /\ {left, left - 1} \subseteq Behind
  BY <1>0, <1>1, <1>2 DEF Unexpected, NotOpening, NotClosing, Unparsed, MaxLeft
<1>10. ASSUME at \in Open, NEW l \in Behind, EndsAt(l)
       PROVE  EndsBadly
  BY <1>0, <1>10 DEF EndsBadly, MaxLeft
<1>11. at \in Open => left \in Behind /\ left - 1 \in Behind
  BY <1>9
<1> USE DEF Open, Places, InBrackets, Late
<1> HIDE DEF Behind
<1>12. CASE InsertInto \/ DeleteFrom
  BY <1>4, <1>5, <1>11, <1>12 DEF InsertInto, DeleteFrom
<1>13. CASE InsertTable \/ UpdateTable \/ DeleteTable
  BY <1>4, <1>5, <1>7, <1>9, <1>10, <1>13 DEF InsertTable, UpdateTable, DeleteTable
<1>14. ASSUME NEW c \in ColNames, ListColumn(c) \/ TargetColumn(c)
       PROVE  PlaceStep
  BY <1>4, <1>6, <1>8, <1>11, <1>14 DEF ListColumn, TargetColumn
<1>15. CASE BadList \/ NoSource
  BY <1>4, <1>9, <1>10, <1>11, <1>15 DEF BadList, NoSource
<1>16. CASE Values \/ NextRow
  BY <1>4, <1>7, <1>9, <1>10, <1>11, <1>16 DEF Values, NextRow
<1>17. CASE SelectRows
  <2>1. ASSUME at = "source", NEW d \in 0 .. MaxOpen, NEW k \in {0, 1} \cup Recoveries,
               EndsAt(left + d - k)
        PROVE  EndsBadly
    <3>1. left + d - k \in Behind
      BY <1>0, <1>1, <1>2, <2>1 DEF Behind, MaxLeft
    <3> QED
      BY <1>10, <2>1, <3>1
  <2> QED
    BY <1>5, <1>17, <2>1 DEF SelectRows
<1>18. ASSUME NEW v \in ValueShapes, NEW n \in MarkCounts, Cell(v, n)
       PROVE  PlaceStep
  BY <1>4, <1>6, <1>8, <1>9, <1>10, <1>11, <1>18 DEF Cell
<1>19. CASE EndOfRows \/ OnConflict \/ DoUpdateSet
  BY <1>4, <1>5, <1>7, <1>9, <1>11, <1>19 DEF EndOfRows, OnConflict, DoUpdateSet
<1>20. CASE EndOfTargets
  BY <1>4, <1>8, <1>9, <1>11, <1>20 DEF EndOfTargets
<1>21. ASSUME NEW c \in ColNames, NEW v \in ValueShapes, NEW n \in MarkCounts,
              UpdateSet(c, v, n) \/ ConflictSet(c, v, n)
       PROVE  PlaceStep
  BY <1>5, <1>10, <1>11, <1>21 DEF UpdateSet, ConflictSet, Assigns, EndsWell
<1>22. CASE BadAssign \/ BadValue
  BY <1>4, <1>9, <1>10, <1>11, <1>22 DEF BadAssign, BadValue
<1>23. CASE UpdateFrom \/ DeleteUsing
  <2>1. ASSUME at = "from", NEW l \in Unexpected \ {0}, NEW p \in Late, Reads(p, l)
        PROVE  ReadsOn
    <3>1. l \in 1 .. MaxExtra + 2
      BY <1>0, <1>1, <1>2, <2>1 DEF Bounded, Unexpected
    <3> QED
      BY <2>1, <3>1 DEF ReadsOn
  <2> QED
    BY <1>9, <1>10, <1>23, <2>1 DEF UpdateFrom, DeleteUsing
<1>24. CASE FinishInsert \/ FinishUpdate \/ FinishDelete
  BY <1>4, <1>11, <1>24 DEF FinishInsert, FinishUpdate, FinishDelete, EndsWell
<1>25. ASSUME NEW n \in MarkCounts, Where(n) \/ Returning(n)
       PROVE  PlaceStep
  BY <1>4, <1>5, <1>9, <1>10, <1>11, <1>25 DEF Where, Returning
<1> QED
  BY <1>12, <1>13, <1>14, <1>15, <1>16, <1>17, <1>18, <1>19, <1>20, <1>21, <1>22,
     <1>23, <1>24, <1>25
  DEF Next, Insert, Update, Delete

LEMMA PlacedStep ==
  ASSUME Placed, Bounded, PlaceStep
  PROVE  Placed' /\ Bounded'
<1>0. MaxExtra \in Nat /\ MaxOpen \in Nat /\ MaxSkips \in Nat
  BY DmlAssumption
<1>1. CASE ReadsOn
  <2>1. ok = TRUE
    BY <1>1 DEF Placed, ReadsOn, Open
  <2>2. PICK p \in Open, l \in 1 .. MaxExtra + 2 :
          /\ p \in InBrackets => l > 1
          /\ p \notin InBrackets \cup Late => l <= MaxExtra + 1
          /\ at' = p /\ left' = l /\ ok' = ok
    BY <1>1 DEF ReadsOn, Reads
  <2>3. Placed'
    BY <1>0, <2>1, <2>2 DEF Placed, Open, InBrackets
  <2>4. Bounded'
    BY <1>0, <2>2 DEF Bounded, MaxLeft
  <2> QED
    BY <2>3, <2>4
<1>2. CASE EndsBadly
  <2>1. PICK l \in -MaxSkips .. MaxLeft : at' = "done" /\ left' = l /\ ok' = FALSE
    BY <1>2 DEF EndsBadly, EndsAt
  <2>2. l \in Int
    BY <1>0, <2>1 DEF MaxLeft
  <2> QED
    BY <2>1, <2>2 DEF Placed, Bounded, Open, Places
<1>3. CASE EndsWell
  <2>1. ok = TRUE
    BY <1>3 DEF Placed, EndsWell, Open
  <2>2. at' \in {"wants", "done"} /\ left' = 0 /\ ok' = ok
    BY <1>3 DEF EndsWell, Accepts
  <2> QED
    BY <1>0, <2>1, <2>2 DEF Placed, Bounded, Open, Places, MaxLeft
<1>4. CASE Ended
  BY <1>4 DEF Placed, Bounded, Ended, vars
<1> QED
  BY <1>1, <1>2, <1>3, <1>4 DEF PlaceStep

\* What a step does to the index and its history.
MarksStep ==
  \/ asked' = asked /\ next' \in {next, 0}
  \/ \E i \in Nat, n \in Nat : Asks(i, n) /\ next' \in {next, next + n}

LEMMA NextMarksStep ==
  ASSUME Written, Next
  PROVE  MarksStep
<1> USE DEF MarksStep, marks
<1>1. MarkCounts \subseteq Nat
  BY DEF MarkCounts
<1>2. next \in Nat
  BY DEF Written
<1>3. CASE InsertInto \/ DeleteFrom \/ InsertTable \/ UpdateTable \/ DeleteTable
  BY <1>3 DEF InsertInto, DeleteFrom, InsertTable, UpdateTable, DeleteTable
<1>4. ASSUME NEW c \in ColNames, ListColumn(c) \/ TargetColumn(c)
      PROVE  MarksStep
  BY <1>4 DEF ListColumn, TargetColumn
<1>5. CASE BadList \/ Values \/ SelectRows \/ NoSource \/ NextRow \/ EndOfRows
  BY <1>5 DEF BadList, Values, SelectRows, NoSource, NextRow, EndOfRows
<1>6. ASSUME NEW v \in ValueShapes, NEW n \in MarkCounts, Cell(v, n)
      PROVE  MarksStep
  BY <1>1, <1>2, <1>6 DEF Cell
<1>7. CASE OnConflict \/ EndOfTargets \/ DoUpdateSet \/ BadAssign \/ BadValue
  BY <1>7 DEF OnConflict, EndOfTargets, DoUpdateSet, BadAssign, BadValue
<1>8. ASSUME NEW c \in ColNames, NEW v \in ValueShapes, NEW n \in MarkCounts,
             UpdateSet(c, v, n) \/ ConflictSet(c, v, n)
      PROVE  MarksStep
  BY <1>1, <1>2, <1>8 DEF UpdateSet, ConflictSet
<1>9. CASE UpdateFrom \/ DeleteUsing \/ FinishInsert \/ FinishUpdate \/ FinishDelete
  BY <1>9 DEF UpdateFrom, DeleteUsing, FinishInsert, FinishUpdate, FinishDelete
<1>10. ASSUME NEW n \in MarkCounts, Where(n) \/ Returning(n)
       PROVE  MarksStep
  BY <1>1, <1>10 DEF Where, Returning
<1>11. CASE Ended
  BY <1>11 DEF Ended, vars
<1> QED
  BY <1>3, <1>4, <1>5, <1>6, <1>7, <1>8, <1>9, <1>10, <1>11 DEF Next, Insert, Update, Delete

\* A value more in the last row, if there is one.
LEMMA AddCellType ==
  ASSUME rows \in Seq(Seq(ValueShapes)), NEW v \in ValueShapes, AddCell(v)
  PROVE  rows' \in Seq(Seq(ValueShapes))
<1>1. CASE Len(rows) \in 1 .. Len(rows)
  <2>1. rows[Len(rows)] \in Seq(ValueShapes)
    BY <1>1, ElementOfSeq
  <2>2. Append(rows[Len(rows)], v) \in Seq(ValueShapes)
    BY <2>1, AppendProperties
  <2> QED
    BY <1>1, <2>2, ExceptSeq DEF AddCell
<1>2. CASE Len(rows) \notin 1 .. Len(rows)
  <2>1. rows' = rows
    BY <1>2, LenProperties DEF AddCell
  <2> QED
    BY <2>1
<1> QED
  BY <1>1, <1>2

LEMMA WrittenStep ==
  ASSUME Written, WriteStep, MarksStep
  PROVE  Written'
<1> DEFINE Cols == {c \in ColNames : HasColumn(c)}
<1>1. kind' \in {"insert", "update", "delete"} /\ tbl' \in Relations
  BY DEF Written, WriteStep
<1>2. Cols' = Cols
  BY DEF WriteStep, HasColumn
<1>3. cols \in Seq(Cols)
  BY DEF Written
<1>4. rows \in Seq(Seq(ValueShapes))
  BY DEF Written
<1>5. sets \in Seq(ColNames \X ValueShapes)
  BY DEF Written
<1>6. next \in Nat /\ asked \in Seq(Nat)
  BY DEF Written
<1>7. cols' \in Seq(Cols)
  <2>1. CASE \E c \in ColNames : Lists(c)
    <3>1. PICK c \in ColNames : Lists(c)
      BY <2>1
    <3>2. c \in Cols
      BY <3>1 DEF Lists
    <3> QED
      BY <1>3, <3>1, <3>2, AppendProperties DEF Lists
  <2>2. CASE UNCHANGED cols
    BY <1>3, <2>2
  <2> QED
    BY <2>1, <2>2 DEF WriteStep, Keeps, BeginsFirst, BeginsNext, Gives, SetsTo
<1>8. rows' \in Seq(Seq(ValueShapes))
  <2>1. <<>> \in Seq(ValueShapes)
    BY EmptySeq
  <2>2. CASE BeginsFirst
    BY <2>1, <2>2 DEF BeginsFirst
  <2>3. CASE BeginsNext
    BY <1>4, <2>1, <2>3, AppendProperties DEF BeginsNext
  <2>4. ASSUME NEW v \in ValueShapes, Gives(v)
        PROVE  rows' \in Seq(Seq(ValueShapes))
    BY <1>4, <2>4, AddCellType DEF Gives
  <2>5. CASE UNCHANGED rows
    BY <1>4, <2>5
  <2> QED
    BY <2>2, <2>3, <2>4, <2>5 DEF WriteStep, Keeps, Lists, SetsTo
<1>9. sets' \in Seq(ColNames \X ValueShapes)
  <2>1. ASSUME NEW c \in ColNames, NEW v \in ValueShapes, SetsTo(c, v)
        PROVE  sets' \in Seq(ColNames \X ValueShapes)
    BY <1>5, <2>1, AppendProperties DEF SetsTo
  <2>2. CASE UNCHANGED sets
    BY <1>5, <2>2
  <2> QED
    BY <2>1, <2>2 DEF WriteStep, Keeps, Lists, BeginsFirst, BeginsNext, Gives
<1>10. next' \in Nat
  BY <1>6 DEF MarksStep
<1>11. asked' \in Seq(Nat)
  <2>1. ASSUME NEW i \in Nat, NEW n \in Nat, Asks(i, n)
        PROVE  asked' \in Seq(Nat)
    <3>1. [j \in 1 .. n |-> i + j - 1] \in Seq(Nat)
      OBVIOUS
    <3> QED
      BY <1>6, <2>1, <3>1, ConcatProperties DEF Asks
  <2> QED
    BY <1>6, <2>1 DEF MarksStep
<1> QED
  BY <1>1, <1>2, <1>7, <1>8, <1>9, <1>10, <1>11 DEF Written

LEMMA TypeStep == TypeInv /\ [Next]_vars => TypeInv'
<1> SUFFICES ASSUME TypeInv, [Next]_vars
             PROVE  TypeInv'
  OBVIOUS
<1>1. Written /\ Placed /\ Bounded
  BY DEF TypeInv, TypeOK
<1>2. CASE Next
  <2>1. Placed' /\ Bounded'
    BY <1>1, <1>2, NextPlaceStep, PlacedStep
  <2>2. Written'
    BY <1>1, <1>2, NextWriteStep, NextMarksStep, WrittenStep
  <2> QED
    BY <2>1, <2>2 DEF TypeInv, TypeOK
<1>3. CASE UNCHANGED vars
  BY <1>1, <1>3 DEF TypeInv, TypeOK, Written, Placed, Bounded, vars, HasColumn
<1> QED
  BY <1>2, <1>3

LEMMA TypeInvHolds == Spec => []TypeInv
<1>1. Init => TypeInv
  BY InitType
<1>2. TypeInv /\ [Next]_vars => TypeInv'
  BY TypeStep
<1> QED
  BY <1>1, <1>2, PTL DEF Spec

\* What has been read is well formed, and the parser stands before its `;`
\* until it has it: the recursion of ParseInsert, ParseUpdate, ParseDelete.
THEOREM TypeCorrect == Spec => []TypeOK
<1>1. TypeInv => TypeOK
  BY DEF TypeInv
<1> QED
  BY <1>1, TypeInvHolds, PTL

-----------------------------------------------------------------------------
(* Rows, assignments and the columns they are for. *)

\* The rows begin when the column list is there, and the last one is short of
\* a value while it is read.
Staged ==
  /\ at \in Early \cup {"source"} => rows = <<>>
  /\ at \in {"source", "cell", "row"} => cols # <<>>
  /\ at \in {"cell", "row"} => rows # <<>>
  /\ at = "cell" => Len(Row) < Len(cols)

\* Every row has a value for each column, but the one that is read.
RowsFull ==
  ok => \A i \in 1 .. Len(rows) :
          Len(rows[i]) = Len(cols) \/ (at = "cell" /\ i = Len(rows))

\* What is there has passed the rules for its column.
RowsFit ==
  \A i \in 1 .. Len(rows) : \A j \in 1 .. Len(rows[i]) :
    j \in 1 .. Len(cols) /\ Fits(cols[j], rows[i][j])

SetsFit == \A i \in 1 .. Len(sets) : Fits(sets[i][1], sets[i][2])

\* The columns were counted before the first row.
NoneMissing == rows # <<>> => NothingMissing

DataInv == Staged /\ RowsFull /\ RowsFit /\ SetsFit /\ NoneMissing

Inv == TypeInv /\ DataInv

LEMMA InitData == Init => DataInv
<1> SUFFICES ASSUME Init PROVE DataInv
  OBVIOUS
<1>1. rows = <<>> /\ sets = <<>> /\ Len(rows) = 0 /\ Len(sets) = 0
  BY EmptySeq DEF Init
<1>2. at \in Early
  BY DEF Init, Early
<1> QED
  BY <1>1, <1>2 DEF DataInv, Staged, RowsFull, RowsFit, SetsFit, NoneMissing, Early

\* The relation and its facts do not change under the statement.
LEMMA RulesStay ==
  ASSUME tbl' = tbl
  PROVE  /\ \A c, v : Fits(c, v)' <=> Fits(c, v)
         /\ \A c : Required(c)' <=> Required(c)
BY DEF Fits, NotNull, Required, HasColumn, HasDefault

LEMMA KeepsData ==
  ASSUME TypeOK, DataInv, Keeps, tbl' = tbl, ok' => ok
  PROVE  DataInv'
<1>1. UNCHANGED <<cols, rows, sets>>
  BY DEF Keeps
<1>2. Staged'
  BY <1>1 DEF Staged, DataInv, Keeps, Early
<1>3. RowsFull'
  BY <1>1 DEF RowsFull, DataInv, Keeps
<1>4. RowsFit' /\ SetsFit'
  BY <1>1, RulesStay DEF RowsFit, SetsFit, DataInv
<1>5. NoneMissing'
  BY <1>1, RulesStay DEF NoneMissing, NothingMissing, Listed, DataInv
<1> QED
  BY <1>2, <1>3, <1>4, <1>5 DEF DataInv

LEMMA ListsData ==
  ASSUME TypeOK, DataInv, NEW c \in ColNames, Lists(c), tbl' = tbl
  PROVE  DataInv'
<1>1. rows = <<>> /\ rows' = <<>> /\ Len(rows') = 0
  BY EmptySeq DEF Lists, DataInv, Staged, Early
<1>2. cols' # <<>>
  <2>1. cols \in Seq({d \in ColNames : HasColumn(d)}) /\ c \in {d \in ColNames : HasColumn(d)}
    BY DEF TypeOK, Written, Lists
  <2> QED
    BY <2>1, AppendProperties DEF Lists
<1>3. Staged'
  BY <1>1, <1>2 DEF Staged, Lists
<1>4. RowsFull' /\ RowsFit' /\ NoneMissing'
  BY <1>1 DEF RowsFull, RowsFit, NoneMissing
<1>5. SetsFit'
  BY RulesStay DEF SetsFit, DataInv, Lists
<1> QED
  BY <1>3, <1>4, <1>5 DEF DataInv

LEMMA BeginsFirstData ==
  ASSUME TypeOK, DataInv, BeginsFirst, tbl' = tbl
  PROVE  DataInv'
<1>1. /\ rows' = <<(<<>>)>> /\ Len(rows') = 1 /\ rows'[1] = <<>>
      /\ Len(rows'[1]) = 0
  BY EmptySeq DEF BeginsFirst
<1>2. at' = "cell" /\ UNCHANGED <<cols, sets>>
  BY DEF BeginsFirst
<1>3. cols # <<>>
  BY DEF BeginsFirst, DataInv, Staged
<1>4. Len(cols) \in Nat /\ Len(cols) > 0
  BY <1>3, EmptySeq, LenProperties DEF TypeOK, Written
<1>5. Staged'
  BY <1>1, <1>2, <1>3, <1>4 DEF Staged, Row, Early
<1>6. RowsFull' /\ RowsFit'
  BY <1>1, <1>2 DEF RowsFull, RowsFit
<1>7. SetsFit'
  BY <1>2, RulesStay DEF SetsFit, DataInv
<1>8. NoneMissing'
  BY <1>2, RulesStay DEF NoneMissing, NothingMissing, Listed, BeginsFirst
<1> QED
  BY <1>5, <1>6, <1>7, <1>8 DEF DataInv

LEMMA BeginsNextData ==
  ASSUME TypeOK, DataInv, BeginsNext, tbl' = tbl, ok' => ok
  PROVE  DataInv'
<1>1. rows \in Seq(Seq(ValueShapes)) /\ <<>> \in Seq(ValueShapes) /\ Len(<<>>) = 0
  BY EmptySeq DEF TypeOK, Written
<1>2. Len(rows) \in Nat
  BY <1>1, LenProperties
<1>3. /\ rows' # <<>> /\ Len(rows') = Len(rows) + 1
      /\ \A i \in 1 .. Len(rows) : rows'[i] = rows[i]
      /\ rows'[Len(rows) + 1] = <<>>
  BY <1>1, AppendProperties DEF BeginsNext
<1>4. at = "row" /\ at' = "cell" /\ UNCHANGED <<cols, sets>>
  BY DEF BeginsNext
<1>5. rows # <<>> /\ cols # <<>>
  BY <1>4 DEF DataInv, Staged
<1>6. Len(cols) \in Nat /\ Len(cols) > 0
  BY <1>5, EmptySeq, LenProperties DEF TypeOK, Written
<1>7. Staged'
  BY <1>1, <1>3, <1>4, <1>5, <1>6 DEF Staged, Row, Early
<1>8. RowsFull'
  BY <1>2, <1>3, <1>4 DEF RowsFull, DataInv
<1>9. RowsFit'
  <2> SUFFICES ASSUME NEW i \in 1 .. Len(rows'), NEW j \in 1 .. Len(rows'[i])
               PROVE  j \in 1 .. Len(cols) /\ Fits(cols[j], rows'[i][j])
    BY <1>4, RulesStay DEF RowsFit
  <2>1. i \in 1 .. Len(rows)
    BY <1>1, <1>2, <1>3
  <2> QED
    BY <1>3, <2>1 DEF DataInv, RowsFit
<1>10. SetsFit'
  BY <1>4, RulesStay DEF SetsFit, DataInv
<1>11. NoneMissing'
  BY <1>4, <1>5, RulesStay DEF NoneMissing, NothingMissing, Listed, DataInv
<1> QED
  BY <1>7, <1>8, <1>9, <1>10, <1>11 DEF DataInv

LEMMA GivesData ==
  ASSUME TypeOK, DataInv, NEW v \in ValueShapes, Gives(v), tbl' = tbl, ok' => ok
  PROVE  DataInv'
<1> DEFINE n == Len(rows)
<1>1. rows \in Seq(Seq(ValueShapes)) /\ n \in Nat /\ Len(cols) \in Nat
  BY LenProperties DEF TypeOK, Written
<1>2. /\ at = "cell" /\ rows # <<>> /\ cols # <<>> /\ Len(rows[n]) < Len(cols)
      /\ UNCHANGED <<cols, sets>>
  BY DEF Gives, DataInv, Staged, Row
<1>3. n \in 1 .. n
  BY <1>1, <1>2, EmptySeq
<1>4. rows[n] \in Seq(ValueShapes) /\ Len(rows[n]) \in Nat
  BY <1>1, <1>3, ElementOfSeq, LenProperties
<1>5. /\ Append(rows[n], v) \in Seq(ValueShapes)
      /\ Len(Append(rows[n], v)) = Len(rows[n]) + 1
      /\ \A j \in 1 .. Len(rows[n]) : Append(rows[n], v)[j] = rows[n][j]
      /\ Append(rows[n], v)[Len(rows[n]) + 1] = v
  BY <1>4, AppendProperties
<1>6. /\ Len(rows') = n
      /\ \A i \in 1 .. n : rows'[i] = IF i = n THEN Append(rows[n], v) ELSE rows[i]
  BY <1>1, <1>3, <1>5, ExceptSeq DEF Gives, AddCell
<1>7. rows' # <<>>
  BY <1>3, <1>6, EmptySeq
<1>8. Fits(cols[Len(rows[n]) + 1], v)
  BY DEF Gives, CellColumn, Row
<1>9. /\ at' = "cell" => Len(rows[n]) + 1 # Len(cols)
      /\ at' = "row" => Len(rows[n]) + 1 = Len(cols)
      /\ at' \in {"cell", "row"} \/ (at' = "done" /\ ~ok')
  BY DEF Gives, LastCell, Row
<1>10. Staged'
  <2>1. Row' = Append(rows[n], v)
    BY <1>3, <1>6 DEF Row
  <2> QED
    BY <1>1, <1>2, <1>4, <1>5, <1>7, <1>9, <2>1 DEF Staged, Early
<1>11. RowsFull'
  <2> SUFFICES ASSUME ok', NEW i \in 1 .. n
               PROVE  Len(rows'[i]) = Len(cols) \/ (at' = "cell" /\ i = n)
    BY <1>2, <1>6 DEF RowsFull
  <2>1. CASE i = n
    BY <1>5, <1>6, <1>9, <2>1
  <2>2. CASE i # n
    BY <1>6, <2>2 DEF DataInv, RowsFull
  <2> QED
    BY <2>1, <2>2
<1>12. RowsFit'
  <2> SUFFICES ASSUME NEW i \in 1 .. n, NEW j \in 1 .. Len(rows'[i])
               PROVE  j \in 1 .. Len(cols) /\ Fits(cols[j], rows'[i][j])
    BY <1>2, <1>6, RulesStay DEF RowsFit
  <2>0. \A k \in 1 .. n : \A l \in 1 .. Len(rows[k]) :
          l \in 1 .. Len(cols) /\ Fits(cols[l], rows[k][l])
    BY DEF DataInv, RowsFit
  <2>1. CASE i # n
    <3>1. rows'[i] = rows[i]
      BY <1>6, <2>1
    <3>2. j \in 1 .. Len(rows[i])
      BY <3>1
    <3> QED
      BY <2>0, <3>1, <3>2
  <2>2. CASE i = n /\ j \in 1 .. Len(rows[n])
    <3>1. rows'[i] = Append(rows[n], v) /\ rows'[i][j] = rows[n][j]
      BY <1>5, <1>6, <2>2
    <3> QED
      BY <1>3, <2>0, <2>2, <3>1
  <2>3. CASE i = n /\ j = Len(rows[n]) + 1
    <3>1. rows'[i] = Append(rows[n], v) /\ rows'[i][j] = v
      BY <1>5, <1>6, <2>3
    <3>2. j \in 1 .. Len(cols)
      BY <1>1, <1>2, <1>4, <2>3
    <3> QED
      BY <1>8, <2>3, <3>1, <3>2
  <2>4. CASE i = n
    <3>1. j \in 1 .. Len(rows[n]) + 1
      BY <1>5, <1>6, <2>4
    <3> QED
      BY <1>4, <2>2, <2>3, <2>4, <3>1
  <2> QED
    BY <2>1, <2>4
<1>13. SetsFit'
  BY <1>2, RulesStay DEF SetsFit, DataInv
<1>14. NoneMissing'
  BY <1>2, RulesStay DEF NoneMissing, NothingMissing, Listed, DataInv
<1> QED
  BY <1>10, <1>11, <1>12, <1>13, <1>14 DEF DataInv

LEMMA SetsToData ==
  ASSUME TypeOK, DataInv, NEW c \in ColNames, NEW v \in ValueShapes, SetsTo(c, v),
         tbl' = tbl, ok' => ok
  PROVE  DataInv'
<1>1. UNCHANGED <<cols, rows>> /\ at = "assign"
  BY DEF SetsTo
<1>2. Staged'
  BY DEF Staged, SetsTo
<1>3. RowsFull'
  BY <1>1 DEF RowsFull, DataInv
<1>4. RowsFit'
  BY <1>1, RulesStay DEF RowsFit, DataInv
<1>5. SetsFit'
  <2>1. sets \in Seq(ColNames \X ValueShapes) /\ Len(sets) \in Nat
    BY LenProperties DEF TypeOK, Written
  <2>2. /\ Len(sets') = Len(sets) + 1
        /\ \A i \in 1 .. Len(sets) : sets'[i] = sets[i]
        /\ sets'[Len(sets) + 1] = <<c, v>>
    BY <2>1, AppendProperties DEF SetsTo
  <2> SUFFICES ASSUME NEW i \in 1 .. Len(sets')
               PROVE  Fits(sets'[i][1], sets'[i][2])
    BY RulesStay DEF SetsFit
  <2>3. CASE i \in 1 .. Len(sets)
    BY <2>2, <2>3 DEF DataInv, SetsFit
  <2>4. CASE i = Len(sets) + 1
    BY <2>2, <2>4 DEF SetsTo
  <2> QED
    BY <2>1, <2>2, <2>3, <2>4
<1>6. NoneMissing'
  BY <1>1, RulesStay DEF NoneMissing, NothingMissing, Listed, DataInv
<1> QED
  BY <1>2, <1>3, <1>4, <1>5, <1>6 DEF DataInv

LEMMA InvStep == Inv /\ [Next]_vars => Inv'
<1> SUFFICES ASSUME Inv, [Next]_vars
             PROVE  Inv'
  OBVIOUS
<1>1. TypeOK /\ TypeInv /\ DataInv
  BY DEF Inv, TypeInv
<1>2. TypeInv'
  BY <1>1, TypeStep
<1>3. CASE Next
  <2>1. WriteStep
    BY <1>3, NextWriteStep
  <2>2. tbl' = tbl /\ (ok' => ok)
    BY <2>1 DEF WriteStep
  <2>3. DataInv'
    BY <1>1, <2>1, <2>2, KeepsData, ListsData, BeginsFirstData, BeginsNextData,
       GivesData, SetsToData
    DEF WriteStep
  <2> QED
    BY <1>2, <2>3 DEF Inv
<1>4. CASE UNCHANGED vars
  <2>1. tbl' = tbl
    BY <1>4 DEF vars
  <2>2. Staged' /\ RowsFull'
    BY <1>1, <1>4 DEF vars, DataInv, Staged, RowsFull, Row
  <2>3. RowsFit' /\ SetsFit'
    BY <1>1, <1>4, <2>1, RulesStay DEF vars, DataInv, RowsFit, SetsFit
  <2>4. NoneMissing'
    BY <1>1, <1>4, <2>1, RulesStay DEF vars, DataInv, NoneMissing, NothingMissing, Listed
  <2> QED
    BY <1>2, <2>2, <2>3, <2>4 DEF Inv, DataInv
<1> QED
  BY <1>3, <1>4

LEMMA InvHolds == Spec => []Inv
<1>1. Init => Inv
  BY InitType, InitData DEF Inv
<1>2. Inv /\ [Next]_vars => Inv'
  BY InvStep
<1> QED
  BY <1>1, <1>2, PTL DEF Spec

\* A row of an accepted statement, read with its column list.
LEMMA AcceptedRows ==
  ASSUME Inv, Accepted, NEW i \in DOMAIN rows
  PROVE  /\ DOMAIN rows[i] = DOMAIN cols
         /\ \A j \in DOMAIN cols : cols[j] \in ColNames /\ Fits(cols[j], rows[i][j])
<1>1. /\ rows \in Seq(Seq(ValueShapes))
      /\ cols \in Seq({c \in ColNames : HasColumn(c)})
  BY DEF Inv, TypeInv, TypeOK, Written
<1>2. i \in 1 .. Len(rows) /\ DOMAIN cols = 1 .. Len(cols)
  BY <1>1, LenProperties
<1>3. rows[i] \in Seq(ValueShapes) /\ DOMAIN rows[i] = 1 .. Len(rows[i])
  BY <1>1, <1>2, ElementOfSeq, LenProperties
<1>4. Len(rows[i]) = Len(cols)
  BY <1>2 DEF Inv, DataInv, RowsFull, Accepted
<1>5. \A j \in 1 .. Len(rows[i]) : Fits(cols[j], rows[i][j])
  BY <1>2 DEF Inv, DataInv, RowsFit
<1>6. \A j \in 1 .. Len(cols) : cols[j] \in ColNames
  BY <1>1, ElementOfSeq
<1> QED
  BY <1>2, <1>3, <1>4, <1>5, <1>6

\* ValidateInsertRequiredColumns, which looks at the column list, and
\* ValidateMutationValueForColumn, which looks at each value, together let no
\* accepted statement with VALUES or SET leave a plain NULL in a column the
\* facts call NOT NULL.  A value that may be null is not refused.
THEOREM NoPlainNullIsStored == Spec => []NoPlainNull
<1>1. Inv => NoPlainNull
  <2> SUFFICES ASSUME Inv, Accepted, NEW c \in ColNames, HasColumn(c), NotNull(c)
               PROVE  /\ \A i \in DOMAIN rows :
                           /\ \A v \in Given(rows[i], c) : v.type # NullType
                           /\ Given(rows[i], c) = {} => HasDefault(c)
                      /\ \A i \in DOMAIN sets : sets[i][1] = c => sets[i][2].type # NullType
    BY DEF NoPlainNull
  <2>1. \A v : Fits(c, v) => v.type # NullType
    BY DEF Fits
  <2>2. ASSUME NEW i \in DOMAIN rows
        PROVE  \A v \in Given(rows[i], c) : v.type # NullType
    <3> SUFFICES ASSUME NEW j \in DOMAIN cols, cols[j] = c
                 PROVE  rows[i][j].type # NullType
      BY DEF Given
    <3> QED
      BY <2>1, AcceptedRows
  <2>3. ASSUME NEW i \in DOMAIN rows, Given(rows[i], c) = {}
        PROVE  HasDefault(c)
    <3>1. \A j \in DOMAIN cols : cols[j] # c
      BY <2>3 DEF Given
    <3>2. c \in ColNames \ Listed
      BY <3>1 DEF Listed
    <3>3. rows # <<>>
      BY <2>3, EmptySeq
    <3> QED
      BY <3>2, <3>3 DEF Inv, DataInv, NoneMissing, NothingMissing, Required
  <2>4. ASSUME NEW i \in DOMAIN sets
        PROVE  sets[i][1] = c => sets[i][2].type # NullType
    <3>1. i \in 1 .. Len(sets)
      BY LenProperties DEF Inv, TypeInv, TypeOK, Written
    <3> QED
      BY <2>1, <3>1 DEF Inv, DataInv, SetsFit
  <2> QED
    BY <2>2, <2>3, <2>4
<1> QED
  BY <1>1, InvHolds, PTL

\* ParseInsertValuesCells gives every row, the second and later ones too, a
\* value of its class for each column of the list.
THEOREM RowsAreColumns == Spec => []RowsFitColumns
<1>1. Inv => RowsFitColumns
  <2> SUFFICES ASSUME Inv, Accepted, NEW i \in DOMAIN rows
               PROVE  /\ DOMAIN rows[i] = DOMAIN cols
                      /\ \A j \in DOMAIN cols :
                           \/ rows[i][j].type = NullType
                           \/ SameComparisonClass(rows[i][j].type, tbl.columns[cols[j]].type)
    BY DEF RowsFitColumns
  <2> QED
    BY AcceptedRows DEF Fits
<1> QED
  BY <1>1, InvHolds, PTL

-----------------------------------------------------------------------------
(* The walk sees a query. *)

LEMMA InitIsOfTheWalk == Init => D!Init
<1> SUFFICES ASSUME Init PROVE D!Init
  OBVIOUS
<1>1. at \in Open
  BY DEF Init, Open, Places
<1>2. WalkAt = "statement" /\ WalkPos = "boundary" /\ WalkRest = 0 /\ StatementsRead = 0
  BY <1>1 DEF WalkAt, WalkPos, WalkRest, StatementsRead, Returned, Open, Places
<1>3. (CHOOSE st \in SchemaNames \X SetNames : TRUE) \in SchemaNames \X SetNames
  <2>1. PICK s \in SchemaNames, t \in SetNames : TRUE
    BY DmlAssumption
  <2>2. <<s, t>> \in SchemaNames \X SetNames
    OBVIOUS
  <2> QED
    BY <2>2, Zenon
<1>4. (~ok) = FALSE
  BY DEF Init
<1>5. EmptyMap(SchemaNames) = D!EmptyMap(SchemaNames)
  BY DEF EmptyMap, D!EmptyMap
<1> QED
  BY <1>2, <1>3, <1>4, <1>5, Zenon DEF D!Init

\* While the parser reads, the walk waits for it.
LEMMA WalkWaits ==
  ASSUME Placed, at \in Open
  PROVE  /\ WalkAt = "statement" /\ WalkPos = "boundary" /\ WalkRest = 0
         /\ StatementsRead = 0
         /\ ok = TRUE
BY DEF Placed, Open, Places, WalkAt, WalkPos, WalkRest, StatementsRead, Returned

LEMMA EndsBadlyIsQuery ==
  ASSUME Placed, EndsBadly
  PROVE  D!Query
<1>1. PICK l \in -MaxSkips .. MaxLeft : at' = "done" /\ left' = l /\ ok' = FALSE
  BY DEF EndsBadly, EndsAt
<1>2. l \in Int /\ MaxLeft \in Nat /\ MaxSkips \in Nat
  BY DmlAssumption DEF MaxLeft
<1>3. WalkAt = "statement" /\ WalkPos = "boundary" /\ StatementsRead = 0
  BY WalkWaits DEF EndsBadly
<1>4. StatementsRead' = 1
  BY <1>1 DEF StatementsRead, Returned
<1>5. D!Dispatch
  BY <1>3, <1>4 DEF D!Dispatch, D!Limit
<1>6. CASE l = 0
  <2>1. WalkAt' = "statement" /\ WalkPos' = "boundary" /\ WalkRest' = 0
    BY <1>1, <1>6 DEF WalkAt, WalkPos, WalkRest
  <2>2. D!Recovers
    BY <2>1 DEF D!Recovers, D!EndsOwn
  <2> QED
    BY <1>1, <1>5, <2>2 DEF D!Query, D!Fails
<1>7. CASE l > 0
  <2>1. WalkAt' = "statement" /\ WalkPos' = "tail" /\ WalkRest' = l
    BY <1>1, <1>2, <1>7 DEF WalkAt, WalkPos, WalkRest
  <2>2. l \in 1 .. MaxExtra + MaxOpen + 3
    BY <1>1, <1>2, <1>7 DEF MaxLeft
  <2>3. D!Recovers
    BY <2>1, <2>2 DEF D!Recovers, D!LeavesRest
  <2> QED
    BY <1>1, <1>5, <2>3 DEF D!Query, D!Fails
<1>8. CASE l < 0
  <2>1. WalkAt' = "skip" /\ WalkPos' = "boundary" /\ WalkRest' = -l
    BY <1>1, <1>2, <1>8 DEF WalkAt, WalkPos, WalkRest
  <2>2. -l \in 1 .. MaxSkips
    BY <1>1, <1>2, <1>8
  <2>3. D!Recovers
    BY <2>1, <2>2 DEF D!Recovers, D!SkipsNext
  <2> QED
    BY <1>1, <1>5, <2>3 DEF D!Query, D!Fails
<1> QED
  BY <1>2, <1>6, <1>7, <1>8

LEMMA EndsWellIsQuery ==
  ASSUME Placed, EndsWell
  PROVE  D!Query \/ D!InsertValues
<1>1. at' \in {"wants", "done"} /\ left' = 0 /\ ok' = ok
  BY DEF EndsWell, Accepts
<1>2. WalkAt = "statement" /\ WalkPos = "boundary" /\ StatementsRead = 0
  BY WalkWaits DEF EndsWell
<1>3. StatementsRead' = 1
  BY <1>1 DEF StatementsRead, Returned
<1>4. D!Dispatch
  BY <1>2, <1>3 DEF D!Dispatch, D!Limit
<1>5. CASE at' = "done"
  <2>1. WalkAt' = "statement" /\ WalkPos' = "boundary" /\ WalkRest' = 0
    BY <1>1, <1>5 DEF WalkAt, WalkPos, WalkRest
  <2> QED
    BY <1>1, <1>4, <2>1 DEF D!Query, D!Succeeds, D!EndsOwn
<1>6. CASE at' = "wants"
  <2>1. WalkAt' = "finish" /\ WalkPos' = "boundary" /\ WalkRest' = 0
    BY <1>1, <1>6 DEF WalkAt, WalkPos, WalkRest
  <2> QED
    BY <1>1, <1>4, <2>1 DEF D!InsertValues, D!Succeeds, D!WantsSemicolon
<1> QED
  BY <1>1, <1>5, <1>6

LEMMA ReadsOnIsWaited ==
  ASSUME Placed, ReadsOn
  PROVE  UNCHANGED <<WalkAt, WalkPos, WalkRest, StatementsRead, ok>>
<1>1. at' \in Open /\ ok' = ok
  BY DEF ReadsOn, Reads
<1>2. WalkAt' = "statement" /\ WalkPos' = "boundary" /\ WalkRest' = 0 /\ StatementsRead' = 0
  BY <1>1 DEF Open, Places, WalkAt, WalkPos, WalkRest, StatementsRead, Returned
<1> QED
  BY <1>1, <1>2, WalkWaits DEF ReadsOn

\* Each step of ParseInsert, ParseUpdate and ParseDelete is a step of the
\* query that Ddl takes them for, or none: no end of theirs, on no error path,
\* is missing from the walk of Ddl.
THEOREM ImplementsQuery == Spec => IsQueryOfTheWalk
<1>1. Init => D!Init
  BY InitIsOfTheWalk
<1>2. TypeInv /\ [Next]_vars => [D!Query \/ D!InsertValues]_(D!vars)
  <2> SUFFICES ASSUME TypeInv, [Next]_vars
               PROVE  [D!Query \/ D!InsertValues]_(D!vars)
    OBVIOUS
  <2>1. Placed /\ Bounded
    BY DEF TypeInv, TypeOK
  <2>2. ASSUME UNCHANGED <<WalkAt, WalkPos, WalkRest, StatementsRead, ok>>
        PROVE  UNCHANGED D!vars
    BY <2>2 DEF D!vars
  <2>3. CASE Next
    <3>1. CASE ReadsOn
      BY <2>1, <2>2, <3>1, ReadsOnIsWaited
    <3>2. CASE EndsBadly
      BY <2>1, <3>2, EndsBadlyIsQuery
    <3>3. CASE EndsWell
      BY <2>1, <3>3, EndsWellIsQuery
    <3>4. CASE Ended
      <4>1. UNCHANGED <<WalkAt, WalkPos, WalkRest, StatementsRead, ok>>
        BY <3>4 DEF Ended, vars, WalkAt, WalkPos, WalkRest, StatementsRead, Returned
      <4> QED
        BY <2>2, <4>1
    <3> QED
      BY <2>1, <2>3, <3>1, <3>2, <3>3, <3>4, NextPlaceStep DEF PlaceStep
  <2>4. CASE UNCHANGED vars
    <3>1. UNCHANGED <<WalkAt, WalkPos, WalkRest, StatementsRead, ok>>
      BY <2>4 DEF vars, WalkAt, WalkPos, WalkRest, StatementsRead, Returned
    <3> QED
      BY <2>2, <3>1
  <2> QED
    BY <2>3, <2>4
<1> QED
  BY <1>1, <1>2, TypeInvHolds, PTL DEF Spec, IsQueryOfTheWalk
=============================================================================
