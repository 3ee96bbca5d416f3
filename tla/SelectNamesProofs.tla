--------------------------- MODULE SelectNamesProofs ---------------------------
(***************************************************************************)
(* That the one map of names a SELECT is read with answers a name as SQL's *)
(* levels of names do, that a name is taken for the column that SQL takes  *)
(* it for, and that the state of the parser is what its types say, for all *)
(* tables, names, items and bounds.                                        *)
(*                                                                         *)
(* What is said of the queries being read is said of a stack s, so that it *)
(* can be used of the stack before a step and behind it.                   *)
(***************************************************************************)
EXTENDS SelectProofs

-----------------------------------------------------------------------------
(* A query, and what it has where it stands. *)

Fields == {"role", "name", "outer", "lost", "at", "ctes", "scope", "bound", "on",
           "items", "done", "row", "clause", "keys", "grouped"}

\* What a list may have, the queries in it among them.
AllItems == Items \cup {Item("made", <<>>, label) : label \in Labels}

Shape(q) ==
  /\ Fields \subseteq DOMAIN q
  /\ q.role \in {"main", "cte", "derived", "sub"}
  /\ q.name \in SetNames \cup {Null} /\ (q.role = "cte" => q.name # Null)
  /\ q.at \in Places
  /\ q.clause \in 0 .. 6 /\ q.on \in BOOLEAN /\ q.grouped \in BOOLEAN
  /\ \E S : q.bound \in Seq(S)
  /\ q.items \in Seq(AllItems)
  /\ q.done \in 0 .. Len(q.items)

InHead(q) == q.at \in {"start", "cte", "ctes", "list", "item"}

InFrom(q) == q.at \in {"table", "on", "join"}

InCtes(q) == q.at \in {"cte", "ctes"}

\* Where an expression with a query in it may be read.
InExpression(q) == q.at \in {"item", "clauses", "tail"}

\* What is read only later is not there yet.
Clean(q) ==
  /\ InHead(q) => q.bound = <<>>
  /\ InHead(q) \/ InFrom(q) => DOMAIN q.row = {} /\ q.done = 0
  /\ q.at = "start" => DOMAIN q.ctes = {}
  /\ q.at = "item" => q.items # <<>>
  /\ q.at = "resolve" => q.done < Len(q.items)
  /\ q.at \in {"clauses", "tail"} => q.done = Len(q.items)
  /\ InFrom(q) => AliasesOf(q) \subseteq DOMAIN q.scope

\* A query of an expression has the scope around it, any other one none.
Encloses(s, j) ==
  /\ s[j].role # "sub" => DOMAIN s[j].outer = {}
  /\ s[j].role = "sub" => s[j].outer = s[j - 1].scope /\ InExpression(s[j - 1])
  /\ s[j].role = "cte" => s[j - 1].at = "ctes"
  /\ s[j].role = "derived" => s[j - 1].at \in {"table", "join"}
  /\ s[j].role = "main" <=> j = 1

Level(s, j) == Shape(s[j]) /\ Clean(s[j]) /\ Encloses(s, j)

-----------------------------------------------------------------------------
(* What the map of a query holds. *)

NamesOf(q) == AliasesOf(q) \cup DOMAIN q.ctes

\* The queries whose names a query at j may use.
Sees(s, j, i) == i \in 1 .. j /\ \A k \in i + 1 .. j : s[k].role = "sub"

\* Those whose names are in its scope: its own only, as long as FROM is read.
Reaches(s, j, i) == IF InFrom(s[j]) THEN i = j ELSE Sees(s, j, i)

\* Level i is the innermost in reach of j that has the alias.
Nearest(s, j, i, a) ==
  /\ Reaches(s, j, i) /\ a \in NamesOf(s[i])
  /\ \A k : Reaches(s, j, k) /\ a \in NamesOf(s[k]) => k <= i

\* A row is what a query has under an alias.
IsRowOf(q, a, row) ==
  IF a \in AliasesOf(q)
  THEN \A b \in DOMAIN q.bound : q.bound[b].alias = a => q.bound[b].row = row
  ELSE q.ctes[a] = row

Scoped(s, j) ==
  /\ \A i : Reaches(s, j, i) => NamesOf(s[i]) \subseteq DOMAIN s[j].scope
  /\ \A a \in DOMAIN s[j].scope :
       \E i : Nearest(s, j, i, a) /\ IsRowOf(s[i], a, s[j].scope[a])

\* No alias is given twice in one FROM.
Apart(q) == \A b, d \in DOMAIN q.bound : q.bound[b].alias = q.bound[d].alias => b = d

\* The columns of the result that no item names are columns in scope.
FromScope(q) ==
  \A c \in DOMAIN q.row :
    \/ c = Anonymous
    \/ \E n \in DOMAIN q.items : q.items[n].label = c
    \/ \E a \in DOMAIN q.scope : c \in DOMAIN q.scope[a] /\ q.row[c] = q.scope[a][c]

Answers(s, j) ==
  /\ ~InCtes(s[j]) => Scoped(s, j)
  /\ Apart(s[j]) /\ FromScope(s[j])

\* The map holds what SQL has as long as no names clash that the statement uses.
NamesInv ==
  /\ \A j \in 1 .. Depth : Level(queries, j)
  /\ "clash" \notin odd => \A j \in 1 .. Depth : Answers(queries, j)

-----------------------------------------------------------------------------
(* Stacks that are the same up to a level. *)

LEMMA SameBelow ==
  ASSUME NEW s, NEW t, NEW n \in Nat, \A i \in 1 .. n : t[i] = s[i],
         NEW j \in 1 .. n
  PROVE  /\ Level(s, j) => Level(t, j)
         /\ Answers(s, j) => Answers(t, j)
<1>1. t[j] = s[j] /\ (j # 1 => t[j - 1] = s[j - 1])
  OBVIOUS
<1>2. Encloses(s, j) => Encloses(t, j)
  <2>1. CASE j = 1
    BY <1>1, <2>1 DEF Encloses
  <2>2. CASE j # 1
    BY <1>1, <2>2, Zenon DEF Encloses
  <2> QED
    BY <2>1, <2>2
<1>3. \A i : Reaches(t, j, i) <=> Reaches(s, j, i)
  BY <1>1 DEF Reaches, Sees
<1>4. \A i : Reaches(s, j, i) => i \in 1 .. n /\ t[i] = s[i]
  BY DEF Reaches, Sees
<1>5. \A i, a : Nearest(s, j, i, a) => Nearest(t, j, i, a)
  BY <1>3, <1>4 DEF Nearest
<1>6. Scoped(s, j) => Scoped(t, j)
  <2> SUFFICES ASSUME Scoped(s, j) PROVE Scoped(t, j)
    OBVIOUS
  <2>1. \A i : Reaches(t, j, i) => NamesOf(t[i]) \subseteq DOMAIN t[j].scope
    BY <1>1, <1>3, <1>4 DEF Scoped
  <2>2. ASSUME NEW a \in DOMAIN t[j].scope
        PROVE  \E i : Nearest(t, j, i, a) /\ IsRowOf(t[i], a, t[j].scope[a])
    <3>1. PICK i : Nearest(s, j, i, a) /\ IsRowOf(s[i], a, s[j].scope[a])
      BY <1>1 DEF Scoped
    <3>2. t[i] = s[i]
      BY <1>4, <3>1 DEF Nearest
    <3> QED
      BY <1>1, <1>5, <3>1, <3>2
  <2> QED
    BY <2>1, <2>2 DEF Scoped
<1> QED
  BY <1>1, <1>2, <1>6, Zenon DEF Level, Answers

-----------------------------------------------------------------------------
(* How a scope comes about. *)

SameNames(p, q) ==
  /\ p.role = q.role /\ p.ctes = q.ctes /\ p.bound = q.bound /\ p.scope = q.scope
  /\ InFrom(p) = InFrom(q)

LEMMA SameNamesScoped ==
  ASSUME NEW s, NEW t, NEW j \in Nat \ {0}, \A i \in 1 .. j : SameNames(t[i], s[i]), Scoped(s, j)
  PROVE  Scoped(t, j)
<1>1. SameNames(t[j], s[j])
  OBVIOUS
<1>2. \A i : Reaches(t, j, i) <=> Reaches(s, j, i)
  BY <1>1 DEF Reaches, Sees, SameNames
<1>3. \A i : Reaches(s, j, i) => i \in 1 .. j
  BY DEF Reaches, Sees
<1>4. ASSUME NEW i, Reaches(s, j, i)
      PROVE  /\ NamesOf(t[i]) = NamesOf(s[i])
             /\ \A a, row : IsRowOf(s[i], a, row) => IsRowOf(t[i], a, row)
  BY <1>3, <1>4, Zenon DEF SameNames, NamesOf, AliasesOf, IsRowOf
<1>5. \A i, a : Nearest(s, j, i, a) => Nearest(t, j, i, a)
  BY <1>2, <1>4, Zenon DEF Nearest
<1>6. \A i : Reaches(t, j, i) => NamesOf(t[i]) \subseteq DOMAIN t[j].scope
  BY <1>1, <1>2, <1>4 DEF Scoped, SameNames
<1>7. ASSUME NEW a \in DOMAIN t[j].scope
      PROVE  \E i : Nearest(t, j, i, a) /\ IsRowOf(t[i], a, t[j].scope[a])
  <2>1. PICK i : Nearest(s, j, i, a) /\ IsRowOf(s[i], a, s[j].scope[a])
    BY <1>1, <1>7 DEF Scoped, SameNames
  <2>2. IsRowOf(t[i], a, s[j].scope[a])
    BY <1>4, <2>1 DEF Nearest
  <2> QED
    BY <1>1, <1>5, <2>1, <2>2 DEF SameNames
<1> QED
  BY <1>6, <1>7 DEF Scoped

\* Each name of the query has its row.
Own(q) ==
  /\ DOMAIN q.scope = NamesOf(q)
  /\ \A a \in DOMAIN q.scope : IsRowOf(q, a, q.scope[a])

\* While FROM is read, these are all.
LEMMA OwnIsScoped ==
  ASSUME NEW s, NEW j \in Nat \ {0}, InFrom(s[j])
  PROVE  Scoped(s, j) <=> Own(s[j])
<1>1. \A i : Reaches(s, j, i) <=> i = j
  BY DEF Reaches
<1>2. \A i, a : Nearest(s, j, i, a) <=> i = j /\ a \in NamesOf(s[j])
  BY <1>1 DEF Nearest
<1>3. ASSUME Scoped(s, j) PROVE Own(s[j])
  BY <1>1, <1>2, <1>3 DEF Scoped, Own
<1>4. ASSUME Own(s[j]) PROVE Scoped(s, j)
  BY <1>1, <1>2, <1>4 DEF Scoped, Own
<1> QED
  BY <1>3, <1>4

\* Whatever else is in scope is so in the query around.
LEMMA StackedIsScoped ==
  ASSUME NEW s, NEW j \in Nat \ {0}, ~InFrom(s[j]),
         s[j].role # "sub" => DOMAIN s[j].outer = {},
         s[j].role = "sub" =>
           j > 1 /\ InExpression(s[j - 1]) /\ Scoped(s, j - 1) /\ s[j].outer = s[j - 1].scope,
         DOMAIN s[j].scope = NamesOf(s[j]) \cup DOMAIN s[j].outer,
         \A a \in NamesOf(s[j]) : IsRowOf(s[j], a, s[j].scope[a]),
         \A a \in DOMAIN s[j].outer : a \notin NamesOf(s[j]) => s[j].scope[a] = s[j].outer[a]
  PROVE  Scoped(s, j)
<1>1. Reaches(s, j, j) /\ \A i : Reaches(s, j, i) => i \in 1 .. j
  BY DEF Reaches, Sees
<1>2. ASSUME NEW i, i # j, Reaches(s, j, i)
      PROVE  s[j].role = "sub" /\ Reaches(s, j - 1, i)
  <2>1. i \in 1 .. j - 1 /\ j \in i + 1 .. j /\ \A k \in i + 1 .. j : s[k].role = "sub"
    BY <1>2 DEF Reaches, Sees
  <2>2. s[j].role = "sub"
    BY <2>1
  <2> QED
    BY <2>1, <2>2 DEF Reaches, Sees, InExpression, InFrom
<1>3. ASSUME NEW i, s[j].role = "sub", Reaches(s, j - 1, i)
      PROVE  Reaches(s, j, i) /\ i # j
  <2>1. i \in 1 .. j - 1 /\ \A k \in i + 1 .. j - 1 : s[k].role = "sub"
    BY <1>3 DEF Reaches, Sees, InExpression, InFrom
  <2>2. \A k \in i + 1 .. j : s[k].role = "sub"
    BY <1>3, <2>1
  <2> QED
    BY <2>1, <2>2 DEF Reaches, Sees
<1>4. ASSUME NEW i, Reaches(s, j, i) PROVE NamesOf(s[i]) \subseteq DOMAIN s[j].scope
  BY <1>2, <1>4 DEF Scoped
<1>5. ASSUME NEW a \in DOMAIN s[j].scope
      PROVE  \E i : Nearest(s, j, i, a) /\ IsRowOf(s[i], a, s[j].scope[a])
  <2>1. CASE a \in NamesOf(s[j])
    <3>1. Nearest(s, j, j, a)
      BY <1>1, <2>1 DEF Nearest
    <3> QED
      BY <2>1, <3>1
  <2>2. CASE a \notin NamesOf(s[j])
    <3>1. s[j].role = "sub" /\ a \in DOMAIN s[j - 1].scope /\ s[j].scope[a] = s[j - 1].scope[a]
      BY <1>5, <2>2
    <3>2. PICK i : Nearest(s, j - 1, i, a) /\ IsRowOf(s[i], a, s[j - 1].scope[a])
      BY <3>1 DEF Scoped
    <3>3. Nearest(s, j, i, a)
      BY <1>2, <1>3, <2>2, <3>1, <3>2 DEF Nearest
    <3> QED
      BY <3>1, <3>2, <3>3
  <2> QED
    BY <2>1, <2>2
<1> QED
  BY <1>4, <1>5 DEF Scoped

LEMMA AlikeAnswers ==
  ASSUME NEW s, NEW t, NEW n \in Nat \ {0}, \A i \in 1 .. n - 1 : t[i] = s[i],
         Answers(s, n), SameNames(t[n], s[n]), InCtes(s[n]) => InCtes(t[n]), FromScope(t[n])
  PROVE  Answers(t, n)
<1>1. \A q : SameNames(q, q)
  BY DEF SameNames
<1>2. ASSUME NEW i \in 1 .. n PROVE SameNames(t[i], s[i])
  BY <1>1
<1>3. ~InCtes(t[n]) => Scoped(t, n)
  BY <1>2, SameNamesScoped DEF Answers
<1>4. Apart(t[n])
  BY Zenon DEF Answers, SameNames, Apart
<1> QED
  BY <1>3, <1>4 DEF Answers

-----------------------------------------------------------------------------
(* Steps of the stack. *)

LEMMA TopHas ==
  ASSUME Inv, NamesInv, queries # <<>>
  PROVE  /\ Depth \in Nat \ {0} /\ Depth \in 1 .. Depth
         /\ queries[Depth] = Q
         /\ Level(queries, Depth) /\ Shape(Q) /\ Clean(Q)
         /\ "clash" \notin odd => Answers(queries, Depth)
<1>1. Depth \in Nat \ {0}
  BY Top
<1>2. Depth \in 1 .. Depth
  BY <1>1
<1> QED
  BY <1>1, <1>2 DEF NamesInv, Level, Q

\* All levels are as they were up to n, and those above are right.
LEMMA Moved ==
  ASSUME NamesInv, NEW n \in Nat, n <= Depth, Depth \in Nat, Depth' \in Nat,
         \A i \in 1 .. n : queries'[i] = queries[i],
         odd \subseteq odd',
         \A j \in n + 1 .. Depth' : Level(queries', j),
         "clash" \notin odd' => \A j \in n + 1 .. Depth' : Answers(queries', j)
  PROVE  NamesInv'
<1>1. ASSUME NEW j \in 1 .. Depth' PROVE Level(queries', j)
  <2>1. CASE j \in 1 .. n
    <3>1. Level(queries, j)
      BY <2>1 DEF NamesInv
    <3> QED
      BY <2>1, <3>1, SameBelow
  <2>2. CASE j \notin 1 .. n
    BY <2>2
  <2> QED
    BY <2>1, <2>2
<1>2. ASSUME "clash" \notin odd', NEW j \in 1 .. Depth' PROVE Answers(queries', j)
  <2>1. CASE j \in 1 .. n
    <3>1. Answers(queries, j)
      BY <1>2, <2>1 DEF NamesInv
    <3> QED
      BY <2>1, <3>1, SameBelow
  <2>2. CASE j \notin 1 .. n
    BY <1>2, <2>2
  <2> QED
    BY <2>1, <2>2
<1>3. /\ \A j \in 1 .. Depth' : Level(queries', j)
      /\ "clash" \notin odd' => \A j \in 1 .. Depth' : Answers(queries', j)
  BY <1>1, <1>2
<1> QED
  BY <1>3 DEF NamesInv

\* The parser reads on in the same query.
LEMMA StayMoves ==
  ASSUME Inv, NamesInv, queries # <<>>, NEW q, queries' = [queries EXCEPT ![Depth] = q]
  PROVE  /\ Depth' = Depth /\ queries'[Depth] = q
         /\ \A i \in 1 .. Depth - 1 : queries'[i] = queries[i]
<1>1. Depth \in Nat \ {0} /\ Depth \in 1 .. Depth
  BY TopHas
<1>2. PICK S : queries \in Seq(S)
  BY DEF Inv, Nested
<1>3. /\ Len(queries') = Depth /\ queries'[Depth] = q
      /\ \A i \in 1 .. Depth : i # Depth => queries'[i] = queries[i]
  BY <1>1, <1>2, Replaced DEF Depth
<1>4. Depth' = Depth
  BY <1>3 DEF Depth
<1>5. \A i \in 1 .. Depth - 1 : i \in 1 .. Depth /\ i # Depth
  BY <1>1
<1> QED
  BY <1>3, <1>4, <1>5

LEMMA StayKeepsNames ==
  ASSUME Inv, NamesInv, queries # <<>>,
         NEW q, queries' = [queries EXCEPT ![Depth] = q],
         Shape(q), Clean(q), q.role = Q.role, q.outer = Q.outer,
         odd \subseteq odd',
         "clash" \notin odd' => Answers(queries', Depth)
  PROVE  NamesInv'
<1>1. /\ Depth' = Depth /\ queries'[Depth] = q
      /\ \A i \in 1 .. Depth - 1 : queries'[i] = queries[i]
  BY StayMoves
<1>2. Depth \in Nat \ {0} /\ queries[Depth] = Q /\ Level(queries, Depth)
  BY TopHas
<1>3. Encloses(queries', Depth)
  <2>1. Encloses(queries, Depth)
    BY <1>2 DEF Level
  <2>2. CASE Depth = 1
    BY <1>1, <1>2, <2>1, <2>2 DEF Encloses
  <2>3. CASE Depth # 1
    <3>1. queries'[Depth - 1] = queries[Depth - 1]
      BY <1>1, <1>2, <2>3
    <3> QED
      BY <1>1, <1>2, <2>1, <3>1, Zenon DEF Encloses
  <2> QED
    BY <2>2, <2>3
<1>4. Level(queries', Depth)
  BY <1>1, <1>3 DEF Level
<1>5. \A j \in (Depth - 1) + 1 .. Depth' : j = Depth
  BY <1>1, <1>2
<1>6. Depth - 1 \in Nat /\ Depth - 1 <= Depth /\ Depth \in Nat /\ Depth' \in Nat
  BY <1>1, <1>2
<1>7. /\ \A j \in (Depth - 1) + 1 .. Depth' : Level(queries', j)
      /\ "clash" \notin odd' => \A j \in (Depth - 1) + 1 .. Depth' : Answers(queries', j)
  BY <1>4, <1>5
<1> QED
  BY <1>1, <1>6, <1>7, Moved

\* A query that begins.
LEMMA NewQueryHas ==
  ASSUME NEW role \in {"cte", "derived", "sub"}, NEW name \in SetNames \cup {Null},
         role = "cte" => name # Null, NEW outer, NEW lost
  PROVE  LET r == NewQuery(role, name, outer, lost)
         IN  /\ Shape(r) /\ Clean(r) /\ NamesOf(r) = {} /\ Apart(r) /\ FromScope(r)
             /\ ~InFrom(r) /\ ~InCtes(r)
             /\ r.role = role /\ r.outer = outer /\ r.scope = outer
<1> DEFINE r == NewQuery(role, name, outer, lost)
<1>1. /\ r.role = role /\ r.name = name /\ r.outer = outer /\ r.lost = lost /\ r.at = "start"
      /\ r.ctes = Nothing /\ r.scope = outer /\ r.bound = <<>> /\ r.on = FALSE /\ r.items = <<>>
      /\ r.done = 0 /\ r.row = Nothing /\ r.clause = 0 /\ r.keys = {} /\ r.grouped = FALSE
      /\ Fields \subseteq DOMAIN r
  BY DEF NewQuery, Fields
<1> HIDE DEF r
<1>2. DOMAIN Nothing = {}
  BY DEF Nothing
<1>3. <<>> \in Seq({}) /\ <<>> \in Seq(AllItems) /\ Len(<<>>) = 0 /\ DOMAIN <<>> = {}
  OBVIOUS
<1>4. Shape(r)
  <2>1. \E S : r.bound \in Seq(S)
    BY <1>1, <1>3
  <2>2. r.items \in Seq(AllItems) /\ r.done \in 0 .. Len(r.items)
    BY <1>1, <1>3
  <2>3. r.clause \in 0 .. 6
    BY <1>1
  <2>4. r.at \in Places /\ r.on \in BOOLEAN /\ r.grouped \in BOOLEAN
    BY <1>1, Zenon DEF Places
  <2> QED
    BY <1>1, <2>1, <2>2, <2>3, <2>4, Zenon DEF Shape
<1>5. AliasesOf(r) = {}
  BY <1>1, <1>3 DEF AliasesOf
<1>6. Clean(r)
  BY <1>1, <1>2 DEF Clean, InHead, InFrom
<1>7. NamesOf(r) = {} /\ Apart(r) /\ FromScope(r) /\ ~InFrom(r) /\ ~InCtes(r)
  BY <1>1, <1>2, <1>3, <1>5 DEF NamesOf, Apart, FromScope, InFrom, InCtes
<1> QED
  BY <1>1, <1>4, <1>6, <1>7 DEF r

LEMMA EnterMoves ==
  ASSUME Inv, NamesInv, queries # <<>>,
         NEW q, NEW r, queries' = Append([queries EXCEPT ![Depth] = q], r)
  PROVE  /\ Depth' = Depth + 1 /\ queries'[Depth] = q /\ queries'[Depth + 1] = r
         /\ \A i \in 1 .. Depth - 1 : queries'[i] = queries[i]
<1> DEFINE t == [queries EXCEPT ![Depth] = q]
<1>1. Depth \in Nat \ {0} /\ Depth \in 1 .. Depth
  BY TopHas
<1>2. PICK S : queries \in Seq(S)
  BY DEF Inv, Nested
<1>3. /\ t \in Seq(S \cup {q}) /\ Len(t) = Depth /\ t[Depth] = q
      /\ \A i \in 1 .. Depth : i # Depth => t[i] = queries[i]
  BY <1>1, <1>2, Replaced DEF Depth
<1> HIDE DEF t
<1>4. /\ Len(Append(t, r)) = Depth + 1 /\ Append(t, r)[Depth + 1] = r
      /\ \A i \in 1 .. Depth : Append(t, r)[i] = t[i]
  BY <1>1, <1>3
<1>5. queries' = Append(t, r)
  BY DEF t
<1>6. Depth' = Depth + 1
  BY <1>4, <1>5 DEF Depth
<1>7. \A i \in 1 .. Depth - 1 : i \in 1 .. Depth /\ i # Depth
  BY <1>1
<1> QED
  BY <1>1, <1>3, <1>4, <1>5, <1>6, <1>7

\* The parser goes into a query in brackets.
LEMMA EnterKeepsNames ==
  ASSUME Inv, NamesInv, queries # <<>>,
         NEW q, NEW role \in {"cte", "derived", "sub"}, NEW name \in SetNames \cup {Null}, NEW outer,
         NEW skips, Enters(q, role, name, outer, skips),
         Shape(q), Clean(q), q.role = Q.role, q.outer = Q.outer,
         SameNames(q, Q), InCtes(Q) => InCtes(q), "clash" \notin odd => FromScope(q),
         role = "cte" => q.at = "ctes" /\ name # Null,
         role = "derived" => q.at \in {"table", "join"},
         role = "sub" => InExpression(q) /\ outer = q.scope,
         role # "sub" => DOMAIN outer = {},
         odd' = odd
  PROVE  NamesInv'
<1> DEFINE lost == {k + n : k \in Q.lost, n \in skips}
           r == NewQuery(role, name, outer, lost)
           t == queries'
<1>1. /\ Shape(r) /\ Clean(r) /\ NamesOf(r) = {} /\ Apart(r) /\ FromScope(r)
      /\ ~InFrom(r) /\ ~InCtes(r) /\ r.role = role /\ r.outer = outer /\ r.scope = outer
  BY NewQueryHas
<1>2. /\ Depth' = Depth + 1 /\ t[Depth] = q /\ t[Depth + 1] = r
      /\ \A i \in 1 .. Depth - 1 : t[i] = queries[i]
  <2>1. queries' = Append([queries EXCEPT ![Depth] = q], r)
    BY DEF Enters
  <2> HIDE DEF r, t
  <2>2. /\ Depth' = Depth + 1 /\ queries'[Depth] = q /\ queries'[Depth + 1] = r
        /\ \A i \in 1 .. Depth - 1 : queries'[i] = queries[i]
    BY <2>1, EnterMoves
  <2> QED
    BY <2>2 DEF t
<1>3. Depth \in Nat \ {0} /\ queries[Depth] = Q /\ Level(queries, Depth)
  BY TopHas
<1> HIDE DEF r, lost, t
<1>4. Encloses(t, Depth)
  <2>1. Encloses(queries, Depth)
    BY <1>3 DEF Level
  <2>2. CASE Depth = 1
    BY <1>2, <1>3, <2>1, <2>2 DEF Encloses
  <2>3. CASE Depth # 1
    <3>1. t[Depth - 1] = queries[Depth - 1]
      BY <1>2, <1>3, <2>3
    <3> QED
      BY <1>2, <1>3, <2>1, <3>1, Zenon DEF Encloses
  <2> QED
    BY <2>2, <2>3
<1>5. Encloses(t, Depth + 1)
  <2>1. Depth + 1 # 1 /\ (Depth + 1) - 1 = Depth
    BY <1>3
  <2> QED
    BY <1>1, <1>2, <2>1 DEF Encloses
<1>6. ASSUME "clash" \notin odd PROVE Answers(t, Depth) /\ Answers(t, Depth + 1)
  <2>1. Answers(queries, Depth)
    BY <1>6, TopHas
  <2>2. Answers(t, Depth)
    BY <1>2, <1>3, <1>6, <2>1, AlikeAnswers
  <2>3. (Depth + 1) - 1 = Depth /\ Depth + 1 \in Nat \ {0} /\ Depth + 1 > 1
    BY <1>3
  <2>4. role = "sub" => Scoped(t, Depth)
    BY <1>2, <2>2 DEF Answers, InExpression, InCtes
  <2>5. Scoped(t, Depth + 1)
    <3> DEFINE n == Depth + 1
    <3>1. n \in Nat \ {0} /\ n > 1 /\ n - 1 = Depth
      BY <2>3
    <3>2. t[n] = r /\ t[n - 1] = q
      BY <1>2, <3>1
    <3> HIDE DEF n
    <3>3. t[n].role = "sub" =>
            n > 1 /\ InExpression(t[n - 1]) /\ Scoped(t, n - 1) /\ t[n].outer = t[n - 1].scope
      BY <1>1, <2>4, <3>1, <3>2
    <3>4. Scoped(t, n)
      BY <1>1, <3>1, <3>2, <3>3, StackedIsScoped
    <3> QED
      BY <3>4 DEF n
  <2> QED
    BY <1>1, <1>2, <2>2, <2>5 DEF Answers
<1>7. Level(t, Depth) /\ Level(t, Depth + 1)
  BY <1>1, <1>2, <1>4, <1>5 DEF Level
<1>8. \A j \in (Depth - 1) + 1 .. Depth' : j = Depth \/ j = Depth + 1
  BY <1>2, <1>3
<1>9. Depth - 1 \in Nat /\ Depth - 1 <= Depth /\ Depth \in Nat /\ Depth' \in Nat
  BY <1>2, <1>3
<1>10. /\ \A j \in (Depth - 1) + 1 .. Depth' : Level(queries', j)
       /\ "clash" \notin odd' => \A j \in (Depth - 1) + 1 .. Depth' : Answers(queries', j)
  BY <1>6, <1>7, <1>8 DEF t
<1>11. \A i \in 1 .. Depth - 1 : queries'[i] = queries[i]
  BY <1>2 DEF t
<1> QED
  BY <1>9, <1>10, <1>11, Moved

\* The parser returns from a query in brackets to the one around it.
LEMMA InnerHas ==
  ASSUME Inv, NamesInv, queries # <<>>, Q.role # "main"
  PROVE  /\ Depth - 1 \in Nat \ {0} /\ Depth - 1 \in 1 .. Depth /\ queries[Depth - 1] = Inner
         /\ Level(queries, Depth - 1) /\ Shape(Inner) /\ Clean(Inner)
         /\ Encloses(queries, Depth)
         /\ "clash" \notin odd => Answers(queries, Depth - 1)
<1>1. Depth \in Nat \ {0} /\ Encloses(queries, Depth) /\ queries[Depth] = Q
  BY TopHas DEF Level
<1>2. Depth # 1
  BY <1>1 DEF Encloses
<1>3. Depth - 1 \in Nat \ {0} /\ Depth - 1 \in 1 .. Depth
  BY <1>1, <1>2
<1> QED
  BY <1>1, <1>3 DEF NamesInv, Level, Inner

LEMMA ReturnMoves ==
  ASSUME Inv, NamesInv, queries # <<>>, Q.role # "main",
         NEW q, queries' = [Outside EXCEPT ![Depth - 1] = q]
  PROVE  /\ Depth' = Depth - 1 /\ queries'[Depth - 1] = q
         /\ \A i \in 1 .. Depth - 2 : queries'[i] = queries[i]
<1>1. Depth \in Nat \ {0} /\ Depth - 1 \in Nat \ {0}
  BY TopHas, InnerHas
<1>2. PICK S : queries \in Seq(S)
  BY DEF Inv, Nested
<1> DEFINE n == Depth - 1
<1>3. n \in Nat \ {0} /\ n \in 1 .. n /\ n <= Depth
  BY <1>1
<1>4. /\ Outside \in Seq(S) /\ Len(Outside) = n
      /\ \A i \in 1 .. n : Outside[i] = queries[i]
  <2>1. Outside = SubSeq(queries, 1, n) /\ Depth = Len(queries)
    BY DEF Outside, Depth
  <2> HIDE DEF n
  <2> QED
    BY <1>2, <1>3, <2>1
<1> HIDE DEF n
<1>5. /\ Len([Outside EXCEPT ![n] = q]) = n /\ [Outside EXCEPT ![n] = q][n] = q
      /\ \A i \in 1 .. n : i # n => [Outside EXCEPT ![n] = q][i] = Outside[i]
  BY <1>3, <1>4, Replaced
<1>6. queries' = [Outside EXCEPT ![n] = q]
  BY DEF n
<1>7. Depth' = n
  BY <1>5, <1>6 DEF Depth
<1>8. \A i \in 1 .. Depth - 2 : i \in 1 .. n /\ i # n
  BY <1>1 DEF n
<1>9. queries'[n] = q /\ \A i \in 1 .. Depth - 2 : queries'[i] = queries[i]
  BY <1>4, <1>5, <1>6, <1>8
<1> QED
  BY <1>7, <1>9 DEF n

LEMMA ReturnKeepsNames ==
  ASSUME Inv, NamesInv, queries # <<>>, Q.role # "main",
         NEW q, queries' = [Outside EXCEPT ![Depth - 1] = q],
         Shape(q), Clean(q), q.role = Inner.role, q.outer = Inner.outer,
         odd \subseteq odd',
         "clash" \notin odd' => Answers(queries', Depth - 1)
  PROVE  NamesInv'
<1>1. /\ Depth' = Depth - 1 /\ queries'[Depth - 1] = q
      /\ \A i \in 1 .. Depth - 2 : queries'[i] = queries[i]
  BY ReturnMoves
<1>2. /\ Depth \in Nat \ {0} /\ Depth - 1 \in Nat \ {0}
      /\ queries[Depth - 1] = Inner /\ Level(queries, Depth - 1)
  BY TopHas, InnerHas
<1> DEFINE n == Depth - 1
<1>3. n \in Nat \ {0} /\ n - 1 \in Nat /\ n - 1 <= Depth /\ n - 1 = Depth - 2
  BY <1>2
<1>4. /\ Depth' = n /\ queries'[n] = q /\ queries[n] = Inner /\ Level(queries, n)
      /\ \A i \in 1 .. n - 1 : queries'[i] = queries[i]
      /\ "clash" \notin odd' => Answers(queries', n)
  BY <1>1, <1>2, <1>3
<1> HIDE DEF n
<1>5. Encloses(queries', n)
  <2>1. Encloses(queries, n)
    BY <1>4 DEF Level
  <2>2. CASE n = 1
    BY <1>4, <2>1, <2>2 DEF Encloses
  <2>3. CASE n # 1
    <3>1. queries'[n - 1] = queries[n - 1]
      BY <1>3, <1>4, <2>3
    <3> QED
      BY <1>4, <2>1, <3>1, Zenon DEF Encloses
  <2> QED
    BY <2>2, <2>3
<1>6. Level(queries', n)
  BY <1>4, <1>5 DEF Level
<1>7. \A j \in (n - 1) + 1 .. Depth' : j = n
  BY <1>3, <1>4
<1>8. /\ \A j \in (n - 1) + 1 .. Depth' : Level(queries', j)
      /\ "clash" \notin odd' => \A j \in (n - 1) + 1 .. Depth' : Answers(queries', j)
  BY <1>4, <1>6, <1>7
<1>9. n - 1 \in Nat /\ n - 1 <= Depth /\ Depth \in Nat /\ Depth' \in Nat
  BY <1>2, <1>3, <1>4
<1> QED
  BY <1>4, <1>8, <1>9, Moved

\* The parser returns from all of them.
LEMMA EndKeepsNames ==
  ASSUME queries' = <<>>
  PROVE  NamesInv'
<1>1. Depth' = 0
  BY DEF Depth
<1>2. \A j \in 1 .. Depth' : FALSE
  BY <1>1
<1> QED
  BY <1>2, Zenon DEF NamesInv

-----------------------------------------------------------------------------
(* The actions. *)

\* Fields of a query that reading on leaves alone.
Rest(F) == Fields \ F

Keeping(q, p, F) == Fields \subseteq DOMAIN q /\ \A f \in Rest(F) : q[f] = p[f]

LEMMA KeptField ==
  ASSUME NEW q, NEW p, NEW F, Keeping(q, p, F)
  PROVE  /\ "role" \notin F => q.role = p.role
         /\ "name" \notin F => q.name = p.name
         /\ "outer" \notin F => q.outer = p.outer
         /\ "at" \notin F => q.at = p.at
         /\ "ctes" \notin F => q.ctes = p.ctes
         /\ "scope" \notin F => q.scope = p.scope
         /\ "bound" \notin F => q.bound = p.bound
         /\ "on" \notin F => q.on = p.on
         /\ "items" \notin F => q.items = p.items
         /\ "done" \notin F => q.done = p.done
         /\ "row" \notin F => q.row = p.row
         /\ "clause" \notin F => q.clause = p.clause
         /\ "grouped" \notin F => q.grouped = p.grouped
BY DEF Keeping, Rest, Fields
\* Reading on, with the scope as it was,
LEMMA AlikeKeepsNames ==
  ASSUME Inv, NamesInv, queries # <<>>,
         NEW q, queries' = [queries EXCEPT ![Depth] = q],
         Shape(q), Clean(q), q.role = Q.role, q.outer = Q.outer,
         SameNames(q, Q), InCtes(Q) => InCtes(q),
         odd \subseteq odd', "clash" \notin odd' => FromScope(q)
  PROVE  NamesInv'
<1>1. /\ queries'[Depth] = q /\ queries[Depth] = Q /\ Depth \in Nat \ {0}
      /\ \A i \in 1 .. Depth - 1 : queries'[i] = queries[i]
  BY StayMoves, TopHas
<1>2. ASSUME "clash" \notin odd' PROVE Answers(queries', Depth)
  <2>1. Answers(queries, Depth)
    BY <1>2, TopHas
  <2> QED
    BY <1>1, <1>2, <2>1, AlikeAnswers
<1> QED
  BY <1>2, StayKeepsNames

\* with a scope of the query's own,
LEMMA OwnKeepsNames ==
  ASSUME Inv, NamesInv, queries # <<>>,
         NEW q, queries' = [queries EXCEPT ![Depth] = q],
         Shape(q), Clean(q), q.role = Q.role, q.outer = Q.outer,
         InFrom(q), odd \subseteq odd',
         "clash" \notin odd' => Own(q) /\ Apart(q) /\ FromScope(q)
  PROVE  NamesInv'
<1>1. queries'[Depth] = q /\ Depth \in Nat \ {0}
  BY StayMoves, TopHas
<1>2. ASSUME "clash" \notin odd' PROVE Answers(queries', Depth)
  BY <1>1, <1>2, OwnIsScoped DEF Answers
<1> QED
  BY <1>2, StayKeepsNames

\* or with what is around put under it.
Stacked(q) ==
  /\ DOMAIN q.scope = NamesOf(q) \cup DOMAIN q.outer
  /\ \A a \in NamesOf(q) : IsRowOf(q, a, q.scope[a])
  /\ \A a \in DOMAIN q.outer : a \notin NamesOf(q) => q.scope[a] = q.outer[a]

LEMMA StackedKeepsNames ==
  ASSUME Inv, NamesInv, queries # <<>>,
         NEW q, queries' = [queries EXCEPT ![Depth] = q],
         Shape(q), Clean(q), q.role = Q.role, q.outer = Q.outer,
         ~InFrom(q), odd \subseteq odd',
         "clash" \notin odd' => Stacked(q) /\ Apart(q) /\ FromScope(q)
  PROVE  NamesInv'
<1>1. /\ queries'[Depth] = q /\ queries[Depth] = Q /\ Depth \in Nat \ {0}
      /\ \A i \in 1 .. Depth - 1 : queries'[i] = queries[i]
      /\ Encloses(queries, Depth)
  BY StayMoves, TopHas DEF Level
<1>2. ASSUME "clash" \notin odd' PROVE Scoped(queries', Depth)
  <2>1. ASSUME q.role = "sub"
        PROVE  /\ Depth > 1 /\ InExpression(queries'[Depth - 1]) /\ Scoped(queries', Depth - 1)
               /\ q.outer = queries'[Depth - 1].scope
    <3>1. Q.role # "main"
      BY <2>1
    <3>2. /\ Depth - 1 \in Nat \ {0} /\ Answers(queries, Depth - 1)
          /\ \A i \in 1 .. Depth - 1 : queries'[i] = queries[i]
      BY <1>1, <1>2, <3>1, InnerHas
    <3> DEFINE n == Depth - 1
    <3>3. n \in Nat \ {0} /\ n \in 1 .. n /\ Depth > 1
      BY <1>1, <3>2
    <3>4. Answers(queries, n) /\ \A i \in 1 .. n : queries'[i] = queries[i]
      BY <3>2
    <3>5. q.outer = queries[n].scope /\ InExpression(queries[n])
      BY <1>1, <2>1 DEF Encloses
    <3> HIDE DEF n
    <3>6. Answers(queries', n) /\ queries'[n] = queries[n]
      BY <3>3, <3>4, SameBelow
    <3>7. Scoped(queries', n)
      BY <3>5, <3>6 DEF Answers, InCtes, InExpression
    <3> QED
      BY <3>3, <3>5, <3>6, <3>7 DEF n
  <2>2. q.role # "sub" => DOMAIN q.outer = {}
    BY <1>1 DEF Encloses
  <2>3. Stacked(queries'[Depth]) /\ ~InFrom(queries'[Depth]) /\ queries'[Depth] = q
    BY <1>1, <1>2
  <2> DEFINE t == queries'
             n == Depth
  <2>4. /\ n \in Nat \ {0} /\ Stacked(t[n]) /\ ~InFrom(t[n])
        /\ t[n].role # "sub" => DOMAIN t[n].outer = {}
        /\ t[n].role = "sub" =>
             n > 1 /\ InExpression(t[n - 1]) /\ Scoped(t, n - 1) /\ t[n].outer = t[n - 1].scope
    BY <1>1, <2>1, <2>2, <2>3
  <2> HIDE DEF t, n
  <2>5. Scoped(t, n)
    BY <2>4, StackedIsScoped DEF Stacked
  <2> QED
    BY <2>5 DEF t, n
<1>3. ASSUME "clash" \notin odd' PROVE Answers(queries', Depth)
  BY <1>1, <1>2, <1>3 DEF Answers
<1> QED
  BY <1>3, StayKeepsNames

-----------------------------------------------------------------------------
(* The actions: WITH, and the select list. *)

LEMMA WithNames ==
  ASSUME Inv, NamesInv, queries # <<>>
  PROVE  /\ \A n \in Aliases : Cte(n) => NamesInv'
         /\ BadCte => NamesInv'
         /\ AfterCte => NamesInv'
<1>1. Shape(Q) /\ Clean(Q) /\ Fields \subseteq DOMAIN Q
  BY TopHas DEF Shape
<1>2. ASSUME NEW n \in Aliases, Cte(n) PROVE NamesInv'
  <2>1. CASE EndsAt(left)
    BY <2>1, EndKeepsNames DEF EndsAt
  <2>2. CASE Enters([Q EXCEPT !.at = "ctes"], "cte", n, Nothing, {1})
    <3> DEFINE q == [Q EXCEPT !.at = "ctes"]
    <3>1. Keeping(q, Q, {"at"}) /\ q.at = "ctes"
      BY <1>1 DEF Keeping, Rest, Fields
    <3>2. Enters(q, "cte", n, Nothing, {1}) /\ odd' = odd /\ Q.at \in {"start", "cte"}
      BY <1>2, <2>2 DEF Cte, InWith, At, Plain
    <3> HIDE DEF q
    <3>3. /\ q.role = Q.role /\ q.name = Q.name /\ q.outer = Q.outer /\ q.ctes = Q.ctes
          /\ q.scope = Q.scope /\ q.bound = Q.bound /\ q.on = Q.on /\ q.items = Q.items
          /\ q.done = Q.done /\ q.row = Q.row /\ q.clause = Q.clause /\ q.grouped = Q.grouped
      BY <3>1, KeptField
    <3>4. Shape(q)
      BY <1>1, <3>1, <3>3 DEF Shape, Keeping, Places
    <3>5. Clean(q)
      BY <1>1, <3>1, <3>2, <3>3 DEF Clean, InHead, InFrom
    <3>6. SameNames(q, Q) /\ InCtes(q) /\ FromScope(q)
      BY <1>1, <3>1, <3>2, <3>3 DEF SameNames, InFrom, InCtes, FromScope, Clean, InHead
    <3>7. n \in SetNames \cup {Null} /\ n # Null /\ DOMAIN Nothing = {}
      BY SelectAssumption DEF Nothing
    <3> QED
      BY <3>1, <3>2, <3>3, <3>4, <3>5, <3>6, <3>7, EnterKeepsNames
  <2> QED
    BY <1>2, <2>1, <2>2 DEF Cte
<1>3. ASSUME BadCte PROVE NamesInv'
  BY <1>3, EndKeepsNames DEF BadCte, SkipsFrom, EndsAt
<1>4. ASSUME AfterCte PROVE NamesInv'
  <2>0. Q.at = "ctes" /\ odd' = odd
    BY <1>4 DEF AfterCte, At, Plain
  <2>1. CASE SkipsFrom(left)
    BY <2>1, EndKeepsNames DEF SkipsFrom, EndsAt
  <2>2. CASE Peeks("cte")
    <3> DEFINE q == [Q EXCEPT !.at = "cte"]
    <3>1. Keeping(q, Q, {"at"}) /\ q.at = "cte"
      BY <1>1 DEF Keeping, Rest, Fields
    <3>2. queries' = [queries EXCEPT ![Depth] = q]
      BY <2>2 DEF Peeks, Reads
    <3> HIDE DEF q
    <3>3. /\ q.role = Q.role /\ q.name = Q.name /\ q.outer = Q.outer /\ q.ctes = Q.ctes
          /\ q.scope = Q.scope /\ q.bound = Q.bound /\ q.on = Q.on /\ q.items = Q.items
          /\ q.done = Q.done /\ q.row = Q.row /\ q.clause = Q.clause /\ q.grouped = Q.grouped
      BY <3>1, KeptField
    <3>4. Shape(q)
      BY <1>1, <3>1, <3>3 DEF Shape, Keeping, Places
    <3>5. Clean(q)
      BY <1>1, <2>0, <3>1, <3>3 DEF Clean, InHead, InFrom
    <3>6. SameNames(q, Q) /\ InCtes(q) /\ FromScope(q)
      BY <1>1, <2>0, <3>1, <3>3 DEF SameNames, InFrom, InCtes, FromScope, Clean, InHead
    <3> QED
      BY <2>0, <3>2, <3>3, <3>4, <3>5, <3>6, AlikeKeepsNames
  <2>3. CASE Reads([Q EXCEPT !.at = "list", !.scope = MergeScope(Q.ctes, Q.outer)], left)
    <3> DEFINE q == [Q EXCEPT !.at = "list", !.scope = MergeScope(Q.ctes, Q.outer)]
    <3>1. Keeping(q, Q, {"at", "scope"}) /\ q.at = "list" /\ q.scope = MergeScope(Q.ctes, Q.outer)
      BY <1>1 DEF Keeping, Rest, Fields
    <3>2. queries' = [queries EXCEPT ![Depth] = q]
      BY <2>3 DEF Reads
    <3> HIDE DEF q
    <3>3. /\ q.role = Q.role /\ q.name = Q.name /\ q.outer = Q.outer /\ q.ctes = Q.ctes
          /\ q.bound = Q.bound /\ q.on = Q.on /\ q.items = Q.items
          /\ q.done = Q.done /\ q.row = Q.row /\ q.clause = Q.clause /\ q.grouped = Q.grouped
      BY <3>1, KeptField
    <3>4. Shape(q)
      BY <1>1, <3>1, <3>3 DEF Shape, Keeping, Places
    <3>5. Clean(q)
      BY <1>1, <2>0, <3>1, <3>3 DEF Clean, InHead, InFrom
    <3>6. q.bound = <<>> /\ DOMAIN q.row = {} /\ ~InFrom(q)
      BY <1>1, <2>0, <3>1, <3>3 DEF Clean, InHead, InFrom
    <3>7. Apart(q) /\ FromScope(q) /\ AliasesOf(q) = {}
      BY <3>6 DEF Apart, FromScope, AliasesOf
    <3>8. Stacked(q)
      BY <3>1, <3>3, <3>7 DEF Stacked, MergeScope, NamesOf, IsRowOf
    <3> QED
      BY <2>0, <3>2, <3>3, <3>4, <3>5, <3>6, <3>7, <3>8, StackedKeepsNames
  <2> QED
    BY <1>4, <2>1, <2>2, <2>3 DEF AfterCte
<1> QED
  BY <1>2, <1>3, <1>4

\* One more item, in a list of the query being read.
LEMMA Listed ==
  ASSUME Shape(Q), Clean(Q), InList, NEW it \in AllItems, queries # <<>>,
         NEW q, Keeping(q, Q, {"at", "items"}), q.at = "item", q.items = Append(Q.items, it)
  PROVE  /\ Shape(q) /\ Clean(q) /\ SameNames(q, Q) /\ ~InCtes(Q) /\ FromScope(q)
         /\ q.role = Q.role /\ q.outer = Q.outer /\ q.scope = Q.scope
<1>1. Q.at \in {"start", "list", "item"}
  BY DEF InList, At
<1>2. /\ q.role = Q.role /\ q.name = Q.name /\ q.outer = Q.outer /\ q.ctes = Q.ctes
      /\ q.scope = Q.scope /\ q.bound = Q.bound /\ q.on = Q.on
      /\ q.done = Q.done /\ q.row = Q.row /\ q.clause = Q.clause /\ q.grouped = Q.grouped
  BY KeptField
<1>3. Q.items \in Seq(AllItems) /\ q.done = 0 /\ DOMAIN q.row = {} /\ q.bound = <<>>
  BY <1>1, <1>2 DEF Shape, Clean, InHead
<1>4. q.items \in Seq(AllItems) /\ q.items # <<>> /\ Len(q.items) \in Nat
  BY <1>3
<1>5. q.done \in 0 .. Len(q.items)
  BY <1>3, <1>4
<1>6. Shape(q)
  BY <1>2, <1>4, <1>5 DEF Shape, Keeping, Places
<1>7. Clean(q)
  BY <1>3, <1>4 DEF Clean, InHead, InFrom
<1>8. SameNames(q, Q) /\ ~InCtes(Q) /\ FromScope(q)
  BY <1>1, <1>2, <1>3 DEF SameNames, InFrom, InCtes, FromScope
<1> QED
  BY <1>2, <1>6, <1>7, <1>8

LEMMA ListNames ==
  ASSUME Inv, NamesInv, queries # <<>>
  PROVE  /\ \A it \in Items : ListItem(it) => NamesInv'
         /\ \A label \in Labels : ListQuery(label) => NamesInv'
         /\ BadItem => NamesInv'
         /\ From => NamesInv'
         /\ NoFrom => NamesInv'
<1>1. Shape(Q) /\ Clean(Q) /\ Fields \subseteq DOMAIN Q
  BY TopHas DEF Shape
<1>2. ASSUME NEW it \in Items, ListItem(it) PROVE NamesInv'
  <2> DEFINE q == [Q EXCEPT !.items = Append(@, it), !.at = "item"]
  <2>1. Keeping(q, Q, {"at", "items"}) /\ q.at = "item" /\ q.items = Append(Q.items, it)
    BY <1>1 DEF Keeping, Rest, Fields
  <2>2. queries' = [queries EXCEPT ![Depth] = q] /\ odd' = odd /\ InList /\ it \in AllItems
    BY <1>2 DEF ListItem, Reads, Plain, AllItems
  <2> HIDE DEF q
  <2>3. /\ Shape(q) /\ Clean(q) /\ SameNames(q, Q) /\ ~InCtes(Q) /\ FromScope(q)
        /\ q.role = Q.role /\ q.outer = Q.outer
    BY <1>1, <2>1, <2>2, Listed
  <2> QED
    BY <2>2, <2>3, AlikeKeepsNames
<1>3. ASSUME NEW label \in Labels, ListQuery(label) PROVE NamesInv'
  <2> DEFINE it == Item("made", <<>>, label)
             q == [Q EXCEPT !.items = Append(@, it), !.at = "item"]
  <2>1. Keeping(q, Q, {"at", "items"}) /\ q.at = "item" /\ q.items = Append(Q.items, it)
    BY <1>1 DEF Keeping, Rest, Fields
  <2>2. PICK r \in Recoveries : Enters(q, "sub", Null, Q.scope, {r + 2})
    BY <1>3 DEF ListQuery
  <2>3. odd' = odd /\ InList /\ it \in AllItems
    BY <1>3 DEF ListQuery, Plain, AllItems
  <2> HIDE DEF q, it
  <2>4. /\ Shape(q) /\ Clean(q) /\ SameNames(q, Q) /\ ~InCtes(Q) /\ FromScope(q)
        /\ q.role = Q.role /\ q.outer = Q.outer /\ q.scope = Q.scope
    BY <1>1, <2>1, <2>3, Listed
  <2>5. InExpression(q)
    BY <2>1 DEF InExpression
  <2> QED
    BY <2>2, <2>3, <2>4, <2>5, EnterKeepsNames
<1>4. ASSUME BadItem PROVE NamesInv'
  BY <1>4, EndKeepsNames DEF BadItem, SkipsFrom, EndsAt
<1>5. ASSUME From PROVE NamesInv'
  <2>0. Q.at \in {"start", "list", "item"} /\ odd' = odd
    BY <1>5 DEF From, InList, At, Plain
  <2>1. CASE EndsAt(left)
    BY <2>1, EndKeepsNames DEF EndsAt
  <2>2. CASE Reads([Q EXCEPT !.at = "table", !.scope = Q.ctes], left)
    <3> DEFINE q == [Q EXCEPT !.at = "table", !.scope = Q.ctes]
    <3>1. Keeping(q, Q, {"at", "scope"}) /\ q.at = "table" /\ q.scope = Q.ctes
      BY <1>1 DEF Keeping, Rest, Fields
    <3>2. queries' = [queries EXCEPT ![Depth] = q]
      BY <2>2 DEF Reads
    <3> HIDE DEF q
    <3>3. /\ q.role = Q.role /\ q.name = Q.name /\ q.outer = Q.outer /\ q.ctes = Q.ctes
          /\ q.bound = Q.bound /\ q.on = Q.on /\ q.items = Q.items
          /\ q.done = Q.done /\ q.row = Q.row /\ q.clause = Q.clause /\ q.grouped = Q.grouped
      BY <3>1, KeptField
    <3>4. Shape(q)
      BY <1>1, <3>1, <3>3 DEF Shape, Keeping, Places
    <3>5. q.bound = <<>> /\ DOMAIN q.row = {} /\ q.done = 0 /\ InFrom(q) /\ ~InHead(q)
      BY <1>1, <2>0, <3>1, <3>3 DEF Clean, InHead, InFrom
    <3>6. Apart(q) /\ FromScope(q) /\ AliasesOf(q) = {}
      BY <3>5 DEF Apart, FromScope, AliasesOf
    <3>7. Clean(q)
      BY <3>1, <3>5, <3>6 DEF Clean
    <3>8. Own(q)
      BY <3>1, <3>3, <3>6 DEF Own, NamesOf, IsRowOf
    <3> QED
      BY <2>0, <3>2, <3>3, <3>4, <3>5, <3>6, <3>7, <3>8, OwnKeepsNames
  <2> QED
    BY <1>5, <2>1, <2>2 DEF From
<1>6. ASSUME NoFrom PROVE NamesInv'
  <2>0. Q.at = "item" /\ odd' = odd
    BY <1>6 DEF NoFrom, At, Plain
  <2> DEFINE q == [Q EXCEPT !.at = "resolve", !.ctes = Nothing, !.scope = Q.outer, !.clause = 6]
  <2>1. CASE EndsAt(left) \/ SkipsFrom(left)
    BY <2>1, EndKeepsNames DEF EndsAt, SkipsFrom
  <2>2. CASE Reads(q, left)
    <3>1. /\ Keeping(q, Q, {"at", "ctes", "scope", "clause"})
          /\ q.at = "resolve" /\ q.ctes = Nothing /\ q.scope = Q.outer /\ q.clause = 6
      BY <1>1 DEF Keeping, Rest, Fields
    <3>2. queries' = [queries EXCEPT ![Depth] = q]
      BY <2>2 DEF Reads
    <3> HIDE DEF q
    <3>3. /\ q.role = Q.role /\ q.name = Q.name /\ q.outer = Q.outer
          /\ q.bound = Q.bound /\ q.on = Q.on /\ q.items = Q.items
          /\ q.done = Q.done /\ q.row = Q.row /\ q.grouped = Q.grouped
      BY <3>1, KeptField
    <3>4. Shape(q)
      BY <1>1, <3>1, <3>3 DEF Shape, Keeping, Places
    <3>5. q.bound = <<>> /\ DOMAIN q.row = {} /\ q.done = 0 /\ ~InFrom(q) /\ ~InHead(q) /\ q.items # <<>>
      BY <1>1, <2>0, <3>1, <3>3 DEF Clean, InHead, InFrom
    <3>6. Apart(q) /\ FromScope(q) /\ AliasesOf(q) = {} /\ DOMAIN q.ctes = {}
      BY <3>1, <3>5 DEF Apart, FromScope, AliasesOf, Nothing
    <3>7. q.done < Len(q.items)
      BY <3>4, <3>5 DEF Shape
    <3>8. Clean(q)
      BY <3>1, <3>5, <3>7 DEF Clean
    <3>9. Stacked(q)
      BY <3>1, <3>3, <3>6 DEF Stacked, NamesOf
    <3> QED
      BY <2>0, <3>2, <3>3, <3>4, <3>5, <3>6, <3>8, <3>9, StackedKeepsNames
  <2> QED
    BY <1>6, <2>1, <2>2 DEF NoFrom
<1> QED
  BY <1>2, <1>3, <1>4, <1>5, <1>6

-----------------------------------------------------------------------------
(* The actions: FROM. *)

\* A table of FROM has a name of its own, and the row that it has in SQL.
LEMMA BindsHas ==
  ASSUME NEW p, Shape(p), Clean(p), InFrom(p), NEW alias, NEW row, NEW sqlRow,
         NEW q, Keeping(q, p, {"at", "on", "bound", "scope"}),
         q.at \in {"on", "join"}, q.on \in BOOLEAN,
         q.bound = Append(p.bound, [alias |-> alias, row |-> sqlRow]),
         q.scope = MergeScope(Only(alias, row), p.scope)
  PROVE  /\ Shape(q) /\ Clean(q) /\ InFrom(q) /\ FromScope(q)
         /\ q.role = p.role /\ q.outer = p.outer
         /\ Own(p) /\ Apart(p) /\ alias \notin AliasesOf(p) /\ row = sqlRow => Own(q) /\ Apart(q)
<1>1. /\ q.role = p.role /\ q.name = p.name /\ q.outer = p.outer /\ q.ctes = p.ctes
      /\ q.items = p.items /\ q.done = p.done /\ q.row = p.row
      /\ q.clause = p.clause /\ q.grouped = p.grouped
  BY KeptField
<1> DEFINE e == [alias |-> alias, row |-> sqlRow]
           n == Len(p.bound)
<1>2. PICK S : p.bound \in Seq(S)
  BY DEF Shape
<1>3. /\ n \in Nat /\ DOMAIN p.bound = 1 .. n
      /\ q.bound \in Seq(S \cup {e}) /\ DOMAIN q.bound = 1 .. n + 1
      /\ \A b \in 1 .. n : q.bound[b] = p.bound[b]
      /\ q.bound[n + 1] = e
  <2>1. p.bound \in Seq(S \cup {e}) /\ q.bound = Append(p.bound, e)
    BY <1>2
  <2> HIDE DEF e
  <2> QED
    BY <2>1, AppendProperties
<1>4. e.alias = alias /\ e.row = sqlRow
  OBVIOUS
<1> HIDE DEF e, n
<1>5. \A b \in DOMAIN q.bound : b \in DOMAIN p.bound \/ b = n + 1
  BY <1>3
<1>6. AliasesOf(q) = AliasesOf(p) \cup {alias}
  BY <1>3, <1>4, <1>5 DEF AliasesOf
<1>7. /\ DOMAIN q.scope = DOMAIN p.scope \cup {alias}
      /\ q.scope[alias] = row
      /\ \A a \in DOMAIN p.scope : a # alias => q.scope[a] = p.scope[a]
  BY DEF MergeScope, Only
<1>8. Shape(q)
  BY <1>1, <1>3 DEF Shape, Keeping, Places
<1>9. InFrom(q) /\ DOMAIN q.row = {} /\ q.done = 0
  BY <1>1 DEF InFrom, Clean
<1>10. Clean(q)
  BY <1>6, <1>7, <1>9 DEF Clean, InFrom, InHead
<1>11. FromScope(q)
  BY <1>9 DEF FromScope
<1>12. ASSUME Own(p), Apart(p), alias \notin AliasesOf(p), row = sqlRow
       PROVE  Own(q) /\ Apart(q)
  <2>1. \A b \in DOMAIN p.bound : p.bound[b].alias # alias
    BY <1>12 DEF AliasesOf
  <2>2. DOMAIN q.scope = NamesOf(q)
    BY <1>1, <1>6, <1>7, <1>12 DEF Own, NamesOf
  <2>3. ASSUME NEW a \in DOMAIN q.scope PROVE IsRowOf(q, a, q.scope[a])
    <3>1. CASE a = alias
      <4>1. \A b \in DOMAIN q.bound : q.bound[b].alias = a => q.bound[b].row = row
        BY <1>3, <1>4, <1>5, <1>12, <2>1, <3>1
      <4> QED
        BY <1>6, <1>7, <3>1, <4>1 DEF IsRowOf
    <3>2. CASE a # alias
      <4>1. a \in DOMAIN p.scope /\ q.scope[a] = p.scope[a] /\ IsRowOf(p, a, p.scope[a])
        BY <1>7, <1>12, <2>3, <3>2 DEF Own
      <4>2. \A b \in DOMAIN q.bound : q.bound[b].alias = a => b \in DOMAIN p.bound /\ q.bound[b] = p.bound[b]
        BY <1>3, <1>4, <1>5, <3>2
      <4> QED
        BY <1>1, <1>6, <3>2, <4>1, <4>2 DEF IsRowOf
    <3> QED
      BY <3>1, <3>2
  <2>4. Apart(q)
    BY <1>3, <1>4, <1>5, <1>12, <2>1 DEF Apart
  <2> QED
    BY <2>2, <2>3, <2>4 DEF Own
<1> QED
  BY <1>1, <1>8, <1>9, <1>10, <1>11, <1>12

\* A name in FROM is the table that SQL has, unless a clash is noticed.
LEMMA NamedAlike ==
  ASSUME Inv, NamesInv, queries # <<>>, Own(Q), NEW n, NEW qualified \in BOOLEAN,
         TableNamed(n, qualified) # Null,
         "clash" \notin (IF qualified THEN {} ELSE AliasAsTable(n) \cup OverlooksCte(n))
  PROVE  TableNamed(n, qualified) = SqlTableNamed(n, qualified)
<1>1. Depth \in Nat \ {0} /\ queries[Depth] = Q /\ Depth \in 1 .. Depth
  BY TopHas
<1>2. CASE qualified
  BY <1>2 DEF TableNamed, SqlTableNamed
<1>3. CASE ~qualified /\ n \in DOMAIN Q.scope
  <2>1. TableNamed(n, qualified) = Q.scope[n]
    BY <1>3 DEF TableNamed
  <2>2. CASE n \in AliasesOf(Q)
    BY <1>3, <2>1, <2>2 DEF AliasAsTable, Clash, Flags
  <2>3. CASE n \notin AliasesOf(Q)
    <3>1. n \in DOMAIN Q.ctes /\ Q.ctes[n] = Q.scope[n]
      BY <1>3, <2>3 DEF Own, NamesOf, IsRowOf
    <3> DEFINE ctes == {j \in 1 .. Depth : n \in DOMAIN queries[j].ctes}
               top == CHOOSE j \in ctes : \A k \in ctes : k <= j
    <3>2. Depth \in ctes /\ \A k \in ctes : k \in Nat /\ k <= Depth
      BY <1>1, <3>1
    <3> HIDE DEF ctes
    <3>3. top \in ctes /\ \A k \in ctes : k <= top
      BY <3>2
    <3>4. top = Depth
      <4> HIDE DEF top
      <4> QED
        BY <1>1, <3>2, <3>3
    <3>5. SqlTableNamed(n, qualified) = queries[top].ctes[n]
      BY <1>3, <3>2 DEF SqlTableNamed, ctes
    <3> QED
      BY <1>1, <2>1, <3>1, <3>4, <3>5
  <2> QED
    BY <2>2, <2>3
<1>4. CASE ~qualified /\ n \notin DOMAIN Q.scope
  <2>1. \A j \in 1 .. Depth : n \notin DOMAIN queries[j].ctes
    <3>1. \A j \in 1 .. Depth - 1 : n \notin DOMAIN queries[j].ctes
      BY <1>4 DEF OverlooksCte, Clash, Flags
    <3>2. n \notin DOMAIN queries[Depth].ctes
      BY <1>1, <1>4 DEF Own, NamesOf
    <3>3. \A j \in 1 .. Depth : j \in 1 .. Depth - 1 \/ j = Depth
      BY <1>1
    <3> QED
      BY <3>1, <3>2, <3>3
  <2> QED
    BY <1>4, <2>1 DEF TableNamed, SqlTableNamed
<1> QED
  BY <1>2, <1>3, <1>4

LEMMA FromNames ==
  ASSUME Inv, NamesInv, queries # <<>>
  PROVE  /\ \A n \in SetNames, qualified \in BOOLEAN, on \in BOOLEAN : \A label \in (Aliases \ {n}) \cup {Null} :
              FromTable(n, qualified, label, on) => NamesInv'
         /\ \A on \in BOOLEAN : FromQuery(on) => NamesInv'
         /\ BadTable => NamesInv'
         /\ \A l, r \in References : On(l, r) => NamesInv'
         /\ BadOn => NamesInv'
         /\ EndOfFrom => NamesInv'
<1>1. Shape(Q) /\ Clean(Q) /\ Fields \subseteq DOMAIN Q /\ queries[Depth] = Q /\ Depth \in Nat \ {0}
  BY TopHas DEF Shape
<1>2. ASSUME "clash" \notin odd, InFrom(Q) PROVE Own(Q) /\ Apart(Q)
  <2>1. Answers(queries, Depth)
    BY <1>2, TopHas
  <2>2. Scoped(queries, Depth) /\ Apart(Q)
    BY <1>1, <1>2, <2>1 DEF Answers, InCtes, InFrom
  <2> QED
    BY <1>1, <1>2, <2>2, OwnIsScoped
<1>3. ASSUME NEW n \in SetNames, NEW qualified \in BOOLEAN, NEW label \in (Aliases \ {n}) \cup {Null},
             NEW on \in BOOLEAN, FromTable(n, qualified, label, on)
      PROVE  NamesInv'
  <2> DEFINE alias == IF label = Null THEN n ELSE label
             row == TableNamed(n, qualified)
             sqlRow == SqlTableNamed(n, qualified)
             p == [Q EXCEPT !.on = on]
             q == Binds(p, alias, row, sqlRow)
             flags == IF qualified THEN {} ELSE AliasAsTable(n) \cup OverlooksCte(n)
  <2>0. InFrom(Q)
    BY <1>3 DEF FromTable, ReadsTable, At, InFrom
  <2>1. CASE EndsAt(left)
    BY <2>1, EndKeepsNames DEF EndsAt
  <2>2. CASE /\ row # Null /\ Reads(q, left)
             /\ odd' = odd \cup AliasTwice(Q, alias) \cup flags
    <3>1. Keeping(p, Q, {"on"}) /\ p.on = on
      BY <1>1 DEF Keeping, Rest, Fields
    <3> HIDE DEF alias, row, sqlRow, p, flags
    <3>2. /\ Keeping(q, p, {"at", "bound", "scope"})
          /\ q.at = IF p.on THEN "on" ELSE "join"
          /\ q.bound = Append(p.bound, [alias |-> alias, row |-> sqlRow])
          /\ q.scope = MergeScope(Only(alias, row), p.scope)
      BY <3>1 DEF Binds, Keeping, Rest, Fields
    <3>3. queries' = [queries EXCEPT ![Depth] = q]
      BY <2>2 DEF Reads
    <3> HIDE DEF q
    <3>4. p.bound = Q.bound /\ p.scope = Q.scope
      BY <3>1, KeptField
    <3>5. Keeping(q, Q, {"at", "on", "bound", "scope"})
      BY <3>1, <3>2 DEF Keeping, Rest
    <3>6. q.on \in BOOLEAN
      <4>1. q.on = p.on
        BY <3>2, KeptField
      <4> QED
        BY <3>1, <4>1, Zenon
    <3>7. q.at \in {"on", "join"}
      BY <3>2, Zenon
    <3>8. /\ Shape(q) /\ Clean(q) /\ InFrom(q) /\ FromScope(q)
          /\ q.role = Q.role /\ q.outer = Q.outer
          /\ Own(Q) /\ Apart(Q) /\ alias \notin AliasesOf(Q) /\ row = sqlRow => Own(q) /\ Apart(q)
      <4>1. /\ q.bound = Append(Q.bound, [alias |-> alias, row |-> sqlRow])
            /\ q.scope = MergeScope(Only(alias, row), Q.scope)
        BY <3>2, <3>4
      <4> QED
        BY <1>1, <2>0, <3>5, <3>6, <3>7, <4>1, BindsHas
    <3>9. ASSUME "clash" \notin odd' PROVE Own(q) /\ Apart(q)
      <4>1. "clash" \notin odd /\ "clash" \notin AliasTwice(Q, alias) /\ "clash" \notin flags
        BY <2>2, <3>9
      <4>2. Own(Q) /\ Apart(Q)
        BY <1>2, <2>0, <4>1
      <4>3. alias \notin AliasesOf(Q)
        BY <4>1 DEF AliasTwice, Clash, Flags
      <4>4. row = sqlRow
        BY <2>2, <4>1, <4>2, NamedAlike DEF row, sqlRow, flags
      <4> QED
        BY <3>8, <4>2, <4>3, <4>4
    <3>10. odd \subseteq odd'
      BY <2>2
    <3> QED
      BY <3>3, <3>8, <3>9, <3>10, OwnKeepsNames
  <2> HIDE DEF q, flags
  <2> QED
    BY <1>3, <2>1, <2>2 DEF FromTable, q, flags, alias, row
<1>4. ASSUME NEW on \in BOOLEAN, FromQuery(on) PROVE NamesInv'
  <2> DEFINE q == [Q EXCEPT !.on = on]
  <2>1. Keeping(q, Q, {"on"}) /\ q.on = on
    BY <1>1 DEF Keeping, Rest, Fields
  <2>2. Enters(q, "derived", Null, Nothing, {0}) /\ odd' = odd /\ Q.at \in {"table", "join"}
    BY <1>4 DEF FromQuery, ReadsTable, At, Plain
  <2> HIDE DEF q
  <2>3. /\ q.role = Q.role /\ q.name = Q.name /\ q.outer = Q.outer /\ q.at = Q.at
        /\ q.ctes = Q.ctes /\ q.scope = Q.scope /\ q.bound = Q.bound /\ q.items = Q.items
        /\ q.done = Q.done /\ q.row = Q.row /\ q.clause = Q.clause /\ q.grouped = Q.grouped
    BY <2>1, KeptField
  <2>4. q.on \in BOOLEAN
    BY <2>1, Zenon
  <2>5. Shape(q)
    BY <1>1, <2>1, <2>3, <2>4 DEF Shape, Keeping
  <2>6. Clean(q) /\ DOMAIN q.row = {}
    BY <1>1, <2>2, <2>3 DEF Clean, InHead, InFrom, AliasesOf
  <2>7. SameNames(q, Q) /\ ~InCtes(Q) /\ FromScope(q)
    BY <2>2, <2>3, <2>6 DEF SameNames, InFrom, InCtes, FromScope
  <2>8. DOMAIN Nothing = {}
    BY DEF Nothing
  <2> QED
    BY <2>2, <2>3, <2>5, <2>6, <2>7, <2>8, EnterKeepsNames
<1>5. ASSUME BadTable PROVE NamesInv'
  BY <1>5, EndKeepsNames DEF BadTable, EndsAt
<1>6. ASSUME NEW l \in References, NEW r \in References, On(l, r) PROVE NamesInv'
  <2>1. CASE EndsAt(left)
    BY <2>1, EndKeepsNames DEF EndsAt
  <2>2. CASE Peeks("join")
    <3> DEFINE q == [Q EXCEPT !.at = "join"]
    <3>1. Keeping(q, Q, {"at"}) /\ q.at = "join"
      BY <1>1 DEF Keeping, Rest, Fields
    <3>2. queries' = [queries EXCEPT ![Depth] = q]
      BY <2>2 DEF Peeks, Reads
    <3>3. Q.at = "on" /\ odd \subseteq odd'
      BY <1>6 DEF On, At, Looks
    <3> HIDE DEF q
    <3>4. /\ q.role = Q.role /\ q.name = Q.name /\ q.outer = Q.outer /\ q.ctes = Q.ctes
          /\ q.scope = Q.scope /\ q.bound = Q.bound /\ q.on = Q.on /\ q.items = Q.items
          /\ q.done = Q.done /\ q.row = Q.row /\ q.clause = Q.clause /\ q.grouped = Q.grouped
      BY <3>1, KeptField
    <3>5. Shape(q)
      BY <1>1, <3>1, <3>4 DEF Shape, Keeping, Places
    <3>6. Clean(q) /\ DOMAIN q.row = {}
      BY <1>1, <3>1, <3>3, <3>4 DEF Clean, InHead, InFrom, AliasesOf
    <3>7. SameNames(q, Q) /\ ~InCtes(Q) /\ FromScope(q)
      BY <3>1, <3>3, <3>4, <3>6 DEF SameNames, InFrom, InCtes, FromScope
    <3> QED
      BY <3>2, <3>3, <3>4, <3>5, <3>6, <3>7, AlikeKeepsNames
  <2> QED
    BY <1>6, <2>1, <2>2 DEF On
<1>7. ASSUME BadOn PROVE NamesInv'
  BY <1>7, EndKeepsNames DEF BadOn, EndsAt
<1>8. ASSUME EndOfFrom PROVE NamesInv'
  <2> DEFINE q == [Q EXCEPT !.at = IF Q.items = <<>> THEN "clauses" ELSE "resolve",
                            !.scope = MergeScope(Q.scope, Q.outer)]
  <2>1. /\ Keeping(q, Q, {"at", "scope"}) /\ q.scope = MergeScope(Q.scope, Q.outer)
        /\ q.at = IF Q.items = <<>> THEN "clauses" ELSE "resolve"
    BY <1>1 DEF Keeping, Rest, Fields
  <2>2. queries' = [queries EXCEPT ![Depth] = q] /\ odd' = odd /\ Q.at = "join"
    BY <1>8 DEF EndOfFrom, Reads, Plain, At
  <2> HIDE DEF q
  <2>3. /\ q.role = Q.role /\ q.name = Q.name /\ q.outer = Q.outer /\ q.ctes = Q.ctes
        /\ q.bound = Q.bound /\ q.on = Q.on /\ q.items = Q.items
        /\ q.done = Q.done /\ q.row = Q.row /\ q.clause = Q.clause /\ q.grouped = Q.grouped
    BY <2>1, KeptField
  <2>4. Shape(q)
    <3>1. q.at \in Places
      BY <2>1, Zenon DEF Places
    <3> QED
      BY <1>1, <2>1, <2>3, <3>1 DEF Shape, Keeping
  <2>5. q.at \in {"clauses", "resolve"} /\ DOMAIN q.row = {} /\ q.done = 0 /\ Len(q.items) \in Nat
    BY <1>1, <2>1, <2>2, <2>3 DEF Clean, InFrom, Shape
  <2>6. q.at = "clauses" => Len(q.items) = 0
    BY <2>1, <2>3
  <2>7. q.at = "resolve" => Len(q.items) > 0
    <3>1. Q.items \in Seq(AllItems)
      BY <1>1 DEF Shape
    <3>2. q.at = "resolve" => Q.items # <<>>
      BY <2>1
    <3> QED
      BY <2>3, <3>1, <3>2
  <2>8. Clean(q) /\ FromScope(q) /\ ~InFrom(q)
    BY <2>5, <2>6, <2>7 DEF Clean, InHead, InFrom, FromScope
  <2>9. ASSUME "clash" \notin odd PROVE Stacked(q) /\ Apart(q)
    <3>1. Own(Q) /\ Apart(Q)
      BY <1>2, <2>2, <2>9 DEF InFrom
    <3>2. NamesOf(q) = NamesOf(Q) /\ AliasesOf(q) = AliasesOf(Q)
      BY <2>3 DEF NamesOf, AliasesOf
    <3>3. /\ DOMAIN q.scope = DOMAIN Q.scope \cup DOMAIN Q.outer
          /\ \A a \in DOMAIN Q.scope : q.scope[a] = Q.scope[a]
          /\ \A a \in DOMAIN Q.outer : a \notin DOMAIN Q.scope => q.scope[a] = Q.outer[a]
      BY <2>1 DEF MergeScope
    <3>4. \A a \in NamesOf(q) : IsRowOf(q, a, q.scope[a])
      BY <2>3, <3>1, <3>2, <3>3 DEF Own, IsRowOf
    <3> QED
      BY <2>3, <3>1, <3>2, <3>3, <3>4 DEF Own, Apart, Stacked
  <2> QED
    BY <2>2, <2>3, <2>4, <2>8, <2>9, StackedKeepsNames
<1> QED
  BY <1>3, <1>4, <1>5, <1>6, <1>7, <1>8

-----------------------------------------------------------------------------
(* The actions: the select list again, and the clauses. *)

IsReference(r) == r \in {<<c>> : c \in ColNames} \cup (SetNames \X ColNames)

LEMMA ReferenceHas ==
  ASSUME NEW r, IsReference(r)
  PROVE  /\ \/ Len(r) = 1 /\ LastOf(r) = r[1]
            \/ Len(r) = 2 /\ LastOf(r) = r[2] /\ r[1] \in SetNames
         /\ LastOf(r) \in ColNames
<1>1. ASSUME NEW c \in ColNames, r = <<c>>
      PROVE  Len(r) = 1 /\ LastOf(r) = r[1] /\ LastOf(r) \in ColNames
  BY <1>1 DEF LastOf
<1>2. ASSUME r \in SetNames \X ColNames
      PROVE  Len(r) = 2 /\ LastOf(r) = r[2] /\ r[1] \in SetNames /\ LastOf(r) \in ColNames
  <2>1. PICK a \in SetNames, c \in ColNames : r = <<a, c>>
    BY <1>2
  <2> QED
    BY <2>1 DEF LastOf
<1>3. (\E c \in ColNames : r = <<c>>) \/ r \in SetNames \X ColNames
  BY Zenon DEF IsReference
<1> QED
  BY <1>1, <1>2, <1>3, Zenon

\* An answer is the column of the one alias that the reference can be of.
LEMMA Resolved ==
  ASSUME NEW scope, NEW r, IsReference(r), ResolveColumnRef(scope, r) # Null
  PROVE  \E a \in SetNames :
           /\ Owners(scope, r) = {a} /\ a \in DOMAIN scope /\ LastOf(r) \in DOMAIN scope[a]
           /\ ResolveColumnRef(scope, r) = scope[a][LastOf(r)]
<1> DEFINE a == CHOOSE a \in SetNames : Owners(scope, r) = {a}
<1>1. \E b \in SetNames : Owners(scope, r) = {b}
  BY DEF ResolveColumnRef
<1>2. a \in SetNames /\ Owners(scope, r) = {a}
  BY <1>1
<1>3. ResolveColumnRef(scope, r) = scope[a][LastOf(r)]
  BY <1>1 DEF ResolveColumnRef
<1> HIDE DEF a
<1>4. a \in DOMAIN scope /\ LastOf(r) \in DOMAIN scope[a]
  BY <1>2, ReferenceHas DEF Owners, AliasesWith
<1> QED
  BY <1>2, <1>3, <1>4

LEMMA ItemHas ==
  ASSUME NEW it \in AllItems
  PROVE  /\ it.label \in ColNames \cup {Null}
         /\ it.kind \in {"col", "agg"} => IsReference(it.ref)
         /\ it.kind = "all" => it.ref \in {<<n>> : n \in SetNames}
<1>1. CASE it \in Items
  BY <1>1, SelectAssumption DEF IsReference
<1>2. ASSUME NEW label \in Labels, it = Item("made", <<>>, label)
      PROVE  it.label \in ColNames \cup {Null} /\ it.kind = "made"
  BY <1>2, SelectAssumption DEF Labels, Item
<1> QED
  BY <1>1, <1>2 DEF AllItems

\* What an item adds to the row has its label, or is in scope.
LEMMA AddsHas ==
  ASSUME NEW it \in AllItems, Adds(it) # Null, NEW c \in DOMAIN Adds(it)
  PROVE  \/ c = Anonymous
         \/ it.label = c
         \/ \E a \in DOMAIN Q.scope : c \in DOMAIN Q.scope[a] /\ Adds(it)[c] = Q.scope[a][c]
<1>1. CASE IsStar(it)
  <2> DEFINE a == CHOOSE a \in SetNames : Starred(it) = {a}
  <2>1. Adds(it) = StarRow(it)
    BY <1>1 DEF Adds, IsStar
  <2>2. \E b \in SetNames : Starred(it) = {b}
    BY <2>1 DEF StarRow
  <2>3. Starred(it) = {a} /\ Adds(it) = Q.scope[a]
    BY <2>1, <2>2 DEF StarRow
  <2> HIDE DEF a
  <2>4. a \in DOMAIN Q.scope
    BY <2>3 DEF Starred
  <2> QED
    BY <2>3, <2>4
<1>2. CASE ~IsStar(it)
  <2>1. OutName(it) # Null
    BY <1>2 DEF Adds
  <2>2. it.kind \in {"col", "agg"} => Found(it.ref)
    BY <1>2 DEF Adds
  <2>3. DOMAIN Adds(it) = {OutName(it)} /\ c = OutName(it)
    <3>1. \A k, v : DOMAIN Only(k, v) = {k}
      BY DEF Only
    <3>2. \E v : Adds(it) = Only(OutName(it), v)
      BY <1>2, <2>1, <2>2 DEF Adds
    <3> QED
      BY <3>1, <3>2
  <2>4. CASE it.label # Null
    BY <2>3, <2>4 DEF OutName
  <2>5. CASE it.label = Null /\ it.kind = "col"
    <3>1. c = LastOf(it.ref)
      BY <2>3, <2>5 DEF OutName
    <3>2. Adds(it) = Only(c, ResolveColumnRef(Q.scope, it.ref))
      BY <1>2, <2>1, <2>2, <2>3, <2>5 DEF Adds
    <3>3. Adds(it)[c] = ResolveColumnRef(Q.scope, it.ref)
      BY <3>2 DEF Only
    <3>4. IsReference(it.ref) /\ ResolveColumnRef(Q.scope, it.ref) # Null
      BY <2>2, <2>5, ItemHas DEF Found
    <3> QED
      BY <3>1, <3>3, <3>4, Resolved
  <2>6. CASE it.label = Null /\ it.kind # "col"
    BY <2>1, <2>3, <2>6 DEF OutName
  <2> QED
    BY <2>4, <2>5, <2>6
<1> QED
  BY <1>1, <1>2

LEMMA ResolveNames ==
  ASSUME Inv, NamesInv, queries # <<>>
  PROVE  /\ ResolveItem => NamesInv'
         /\ BadResolve => NamesInv'
<1>1. Shape(Q) /\ Clean(Q) /\ Fields \subseteq DOMAIN Q /\ queries[Depth] = Q
  BY TopHas DEF Shape
<1>2. ASSUME ResolveItem PROVE NamesInv'
  <2> DEFINE it == Q.items[Q.done + 1]
             adds == Adds(it)
             q == [Q EXCEPT !.row  = MergeScope(adds, @),
                            !.done = @ + 1,
                            !.at   = IF Q.done + 1 = Len(Q.items) THEN "clauses" ELSE "resolve"]
  <2>0. Q.at = "resolve" /\ odd \subseteq odd'
    <3>1. Q.at = "resolve"
      BY <1>2 DEF ResolveItem, At
    <3>2. \E x : odd' = odd \cup x
      <4>1. odd' = odd
              \cup Clash(adds # Null /\ DOMAIN adds \cap DOMAIN Q.row # {})
              \cup Clash(it.kind = "star" /\ Q.bound = <<>>)
              \cup (IF it.kind = "all" THEN AliasClashes(Starred(it)) ELSE {})
              \cup (IF it.kind \in {"col", "agg"} THEN Clashes(it.ref) ELSE {})
        BY <1>2 DEF ResolveItem, Resolves
      <4> QED
        BY <4>1
    <3> QED
      BY <3>1, <3>2
  <2>1. CASE EndsAt(left)
    BY <2>1, EndKeepsNames DEF EndsAt
  <2>2. CASE adds # Null /\ Reads(q, left)
    <3>1. Q.done < Len(Q.items) /\ Q.done \in Nat /\ Len(Q.items) \in Nat /\ Q.items \in Seq(AllItems)
      BY <1>1, <2>0 DEF Clean, Shape
    <3>2. it \in AllItems /\ Q.done + 1 \in DOMAIN Q.items
      BY <3>1
    <3> HIDE DEF adds, it
    <3>3. /\ Keeping(q, Q, {"at", "done", "row"}) /\ q.done = Q.done + 1
          /\ q.row = MergeScope(adds, Q.row)
          /\ q.at = IF Q.done + 1 = Len(Q.items) THEN "clauses" ELSE "resolve"
      BY <1>1 DEF Keeping, Rest, Fields
    <3>4. queries' = [queries EXCEPT ![Depth] = q]
      BY <2>2 DEF Reads
    <3> HIDE DEF q
    <3>5. /\ q.role = Q.role /\ q.name = Q.name /\ q.outer = Q.outer /\ q.ctes = Q.ctes
          /\ q.scope = Q.scope /\ q.bound = Q.bound /\ q.on = Q.on /\ q.items = Q.items
          /\ q.clause = Q.clause /\ q.grouped = Q.grouped
      BY <3>3, KeptField
    <3>6. q.at \in {"clauses", "resolve"}
      BY <3>3, Zenon
    <3>7. q.done \in 0 .. Len(q.items)
      BY <3>1, <3>3, <3>5
    <3>8. Shape(q)
      BY <1>1, <3>3, <3>5, <3>6, <3>7 DEF Shape, Keeping, Places
    <3>9. Clean(q)
      <4>1. /\ q.at = "resolve" => q.done < Len(q.items)
            /\ q.at = "clauses" => q.done = Len(q.items)
        BY <3>1, <3>3, <3>5
      <4> QED
        BY <3>6, <4>1 DEF Clean, InHead, InFrom
    <3>10. SameNames(q, Q) /\ ~InCtes(Q)
      BY <2>0, <3>5, <3>6 DEF SameNames, InFrom, InCtes
    <3>11. ASSUME "clash" \notin odd' PROVE FromScope(q)
      <4>1. FromScope(Q)
        BY <1>1, <2>0, <3>11, TopHas DEF Answers
      <4>2. ASSUME NEW c \in DOMAIN q.row
            PROVE  \/ c = Anonymous
                   \/ \E n \in DOMAIN q.items : q.items[n].label = c
                   \/ \E a \in DOMAIN q.scope : c \in DOMAIN q.scope[a] /\ q.row[c] = q.scope[a][c]
        <5>1. CASE c \in DOMAIN adds
          <6>1. q.row[c] = adds[c]
            BY <3>3, <5>1 DEF MergeScope
          <6>2. \/ c = Anonymous
                \/ it.label = c
                \/ \E a \in DOMAIN Q.scope : c \in DOMAIN Q.scope[a] /\ adds[c] = Q.scope[a][c]
            BY <2>2, <3>2, <5>1, AddsHas DEF adds
          <6> QED
            BY <3>2, <3>5, <6>1, <6>2 DEF it
        <5>2. CASE c \notin DOMAIN adds
          <6>1. c \in DOMAIN Q.row /\ q.row[c] = Q.row[c]
            BY <3>3, <4>2, <5>2 DEF MergeScope
          <6> QED
            BY <3>5, <4>1, <6>1 DEF FromScope
        <5> QED
          BY <5>1, <5>2
      <4> QED
        BY <4>2 DEF FromScope
    <3> QED
      BY <2>0, <3>4, <3>5, <3>8, <3>9, <3>10, <3>11, AlikeKeepsNames
  <2>3. EndsAt(left) \/ (adds # Null /\ Reads(q, left))
    BY <1>2 DEF ResolveItem, Resolves
  <2> HIDE DEF q, adds
  <2> QED
    BY <2>1, <2>2, <2>3
<1>3. ASSUME BadResolve PROVE NamesInv'
  BY <1>3, EndKeepsNames DEF BadResolve, EndsAt
<1> QED
  BY <1>2, <1>3

LEMMA FromScopeKept ==
  ASSUME Inv, NamesInv, queries # <<>>, "clash" \notin odd,
         NEW q, q.row = Q.row, q.items = Q.items, q.scope = Q.scope
  PROVE  FromScope(q)
<1>1. FromScope(Q)
  BY TopHas DEF Answers
<1> QED
  BY <1>1 DEF FromScope

LEMMA ClauseNames ==
  ASSUME Inv, NamesInv, queries # <<>>
  PROVE  /\ \A cl \in Clauses, r \in References : Term(cl, r) => NamesInv'
         /\ \A cl \in Clauses : TermQuery(cl) => NamesInv'
         /\ \A cl \in Clauses : BadTerm(cl) => NamesInv'
         /\ BadClause => NamesInv'
         /\ GroupedProjection => NamesInv'
<1>1. Shape(Q) /\ Clean(Q) /\ Fields \subseteq DOMAIN Q /\ queries[Depth] = Q
  BY TopHas DEF Shape
\* A query whose clause is read goes on as it was.
<1>2. ASSUME NEW q, Keeping(q, Q, {"clause", "grouped", "keys"}), Q.at \in {"clauses", "tail"},
             q.clause \in 0 .. 6, q.grouped \in BOOLEAN
      PROVE  /\ Shape(q) /\ Clean(q) /\ SameNames(q, Q) /\ ~InCtes(Q)
             /\ q.role = Q.role /\ q.outer = Q.outer /\ q.scope = Q.scope /\ InExpression(q)
             /\ "clash" \notin odd => FromScope(q)
  <2>1. /\ q.role = Q.role /\ q.name = Q.name /\ q.outer = Q.outer /\ q.ctes = Q.ctes /\ q.at = Q.at
        /\ q.scope = Q.scope /\ q.bound = Q.bound /\ q.on = Q.on /\ q.items = Q.items
        /\ q.done = Q.done /\ q.row = Q.row
    BY <1>2, KeptField
  <2>2. Shape(q)
    BY <1>1, <1>2, <2>1 DEF Shape, Keeping
  <2>3. Clean(q) /\ SameNames(q, Q) /\ ~InCtes(Q) /\ InExpression(q)
    BY <1>1, <1>2, <2>1 DEF Clean, InHead, InFrom, SameNames, InCtes, InExpression
  <2>4. "clash" \notin odd => FromScope(q)
    BY <2>1, FromScopeKept
  <2> QED
    BY <2>1, <2>2, <2>3, <2>4
<1>3. ASSUME NEW cl \in Clauses
      PROVE  /\ Keeping(WithClause(Q, cl), Q, {"clause", "grouped", "keys"})
             /\ WithClause(Q, cl).clause \in 0 .. 6 /\ WithClause(Q, cl).grouped \in BOOLEAN
             /\ MayRead(cl) => Q.at \in {"clauses", "tail"}
  <2>1. Rank(cl) \in 0 .. 6
    BY DEF Clauses, Rank
  <2>2. MayRead(cl) => Q.at \in {"clauses", "tail"}
    BY DEF MayRead, At
  <2> DEFINE q == WithClause(Q, cl)
  <2>3. /\ Keeping(q, Q, {"clause", "grouped", "keys"}) /\ q.clause = Rank(cl)
    BY <1>1 DEF WithClause, Keeping, Rest, Fields
  <2>4. q.grouped \in BOOLEAN
    <3>1. "grouped" \in DOMAIN Q
      BY <1>1 DEF Fields
    <3>2. q.grouped = (Q.grouped \/ cl \in {"group", "having"})
      BY <3>1, Zenon DEF WithClause
    <3> QED
      BY <3>2, Zenon
  <2> QED
    BY <2>1, <2>2, <2>3, <2>4
<1>4. ASSUME NEW cl \in Clauses, NEW r \in References, Term(cl, r) PROVE NamesInv'
  <2> DEFINE p == WithClause(Q, cl)
             q == [p EXCEPT !.keys = IF cl = "group" THEN @ \cup {r} ELSE @]
  <2>1. CASE EndsAt(left - Skips(cl))
    BY <2>1, EndKeepsNames DEF EndsAt
  <2>2. CASE Reads(q, left)
    <3>1. /\ Keeping(p, Q, {"clause", "grouped", "keys"}) /\ Q.at \in {"clauses", "tail"}
          /\ p.clause \in 0 .. 6 /\ p.grouped \in BOOLEAN
      BY <1>3, <1>4 DEF Term
    <3> HIDE DEF p
    <3>2. Keeping(q, Q, {"clause", "grouped", "keys"}) /\ q.clause = p.clause /\ q.grouped = p.grouped
      BY <3>1 DEF Keeping, Rest, Fields
    <3>3. queries' = [queries EXCEPT ![Depth] = q] /\ odd \subseteq odd'
      BY <1>4, <2>2 DEF Reads, Term
    <3> HIDE DEF q
    <3>4. q.clause \in 0 .. 6 /\ q.grouped \in BOOLEAN
      BY <3>1, <3>2, Zenon
    <3>5. /\ Shape(q) /\ Clean(q) /\ SameNames(q, Q) /\ ~InCtes(Q)
          /\ q.role = Q.role /\ q.outer = Q.outer
          /\ "clash" \notin odd' => FromScope(q)
      BY <1>2, <3>1, <3>2, <3>3, <3>4
    <3> QED
      BY <3>3, <3>5, AlikeKeepsNames
  <2> QED
    BY <1>4, <2>1, <2>2 DEF Term
<1>5. ASSUME NEW cl \in Clauses, TermQuery(cl) PROVE NamesInv'
  <2> DEFINE q == WithClause(Q, cl)
  <2>1. PICK r \in Recoveries : Enters(q, "sub", Null, Q.scope, {1 + r + Skips(cl)})
    BY <1>5 DEF TermQuery
  <2>2. /\ Keeping(q, Q, {"clause", "grouped", "keys"}) /\ Q.at \in {"clauses", "tail"}
        /\ q.clause \in 0 .. 6 /\ q.grouped \in BOOLEAN
    BY <1>3, <1>5 DEF TermQuery
  <2>3. odd' = odd
    BY <1>5 DEF TermQuery, Plain
  <2> HIDE DEF q
  <2>4. /\ Shape(q) /\ Clean(q) /\ SameNames(q, Q) /\ ~InCtes(Q)
        /\ q.role = Q.role /\ q.outer = Q.outer /\ q.scope = Q.scope /\ InExpression(q)
        /\ "clash" \notin odd => FromScope(q)
    BY <1>2, <2>2
  <2> QED
    BY <2>1, <2>3, <2>4, EnterKeepsNames
<1>6. ASSUME NEW cl \in Clauses, BadTerm(cl) PROVE NamesInv'
  BY <1>6, EndKeepsNames DEF BadTerm, EndsAt
<1>7. ASSUME BadClause PROVE NamesInv'
  BY <1>7, EndKeepsNames DEF BadClause, EndsAt
<1>8. ASSUME GroupedProjection PROVE NamesInv'
  <2> DEFINE q == [Q EXCEPT !.at = "tail", !.keys = {}]
  <2>1. CASE EndsAt(left)
    BY <2>1, EndKeepsNames DEF EndsAt
  <2>2. CASE Reads(q, left)
    <3>1. Keeping(q, Q, {"at", "keys"}) /\ q.at = "tail"
      BY <1>1 DEF Keeping, Rest, Fields
    <3>2. queries' = [queries EXCEPT ![Depth] = q] /\ odd' = odd /\ Q.at = "clauses"
      BY <1>8, <2>2 DEF Reads, GroupedProjection, At
    <3> HIDE DEF q
    <3>3. /\ q.role = Q.role /\ q.name = Q.name /\ q.outer = Q.outer /\ q.ctes = Q.ctes
          /\ q.scope = Q.scope /\ q.bound = Q.bound /\ q.on = Q.on /\ q.items = Q.items
          /\ q.done = Q.done /\ q.row = Q.row /\ q.clause = Q.clause /\ q.grouped = Q.grouped
      BY <3>1, KeptField
    <3>4. Shape(q)
      BY <1>1, <3>1, <3>3 DEF Shape, Keeping, Places
    <3>5. Clean(q) /\ SameNames(q, Q) /\ ~InCtes(Q)
      BY <1>1, <3>1, <3>2, <3>3 DEF Clean, InHead, InFrom, SameNames, InCtes
    <3>6. "clash" \notin odd' => FromScope(q)
      BY <3>2, <3>3, FromScopeKept
    <3> QED
      BY <3>2, <3>3, <3>4, <3>5, <3>6, AlikeKeepsNames
  <2> QED
    BY <1>8, <2>1, <2>2 DEF GroupedProjection
<1> QED
  BY <1>4, <1>5, <1>6, <1>7, <1>8

-----------------------------------------------------------------------------
(* The actions: the end of a query. *)

LEMMA EndNames ==
  ASSUME Inv, NamesInv, queries # <<>>
  PROVE  /\ CloseCte => NamesInv'
         /\ \A n \in Aliases : CloseDerived(n) => NamesInv'
         /\ CloseSub => NamesInv'
         /\ Finish => NamesInv'
<1> DEFINE m == Depth - 1
<1>1. ASSUME Q.role # "main"
      PROVE  /\ m \in Nat \ {0} /\ queries[m] = Inner /\ Shape(Inner) /\ Clean(Inner)
             /\ Fields \subseteq DOMAIN Inner
             /\ Q.role = "cte" => Inner.at = "ctes"
             /\ Q.role = "derived" => Inner.at \in {"table", "join"}
             /\ "clash" \notin odd => Answers(queries, m)
  <2>1. Encloses(queries, Depth) /\ queries[Depth] = Q
    BY <1>1, InnerHas, TopHas
  <2> QED
    BY <1>1, <2>1, InnerHas DEF Encloses, Shape
<1>2. ASSUME CloseCte PROVE NamesInv'
  <2> DEFINE q == [Inner EXCEPT !.ctes = MergeScope(Only(Q.name, Q.row), @)]
  <2>0. Q.role = "cte" /\ odd' = odd /\ Q.role # "main"
    BY <1>2 DEF CloseCte, Ends, Plain
  <2>1. CASE EndsAt(left)
    BY <2>1, EndKeepsNames DEF EndsAt
  <2>2. CASE Closes(q)
    <3>1. Keeping(q, Inner, {"ctes"})
      BY <1>1, <2>0 DEF Keeping, Rest, Fields
    <3>2. queries' = [Outside EXCEPT ![Depth - 1] = q]
      BY <2>2 DEF Closes
    <3> HIDE DEF q
    <3>3. /\ q.role = Inner.role /\ q.name = Inner.name /\ q.outer = Inner.outer /\ q.at = Inner.at
          /\ q.scope = Inner.scope /\ q.bound = Inner.bound /\ q.on = Inner.on /\ q.items = Inner.items
          /\ q.done = Inner.done /\ q.row = Inner.row /\ q.clause = Inner.clause
          /\ q.grouped = Inner.grouped
      BY <3>1, KeptField
    <3>4. Shape(q)
      BY <1>1, <2>0, <3>1, <3>3 DEF Shape, Keeping
    <3>5. Clean(q) /\ q.bound = <<>> /\ DOMAIN q.row = {} /\ InCtes(q)
      BY <1>1, <2>0, <3>3 DEF Clean, InHead, InFrom, InCtes
    <3>6. Apart(q) /\ FromScope(q)
      BY <3>5 DEF Apart, FromScope
    <3>7. queries'[Depth - 1] = q
      BY <2>0, <3>2, ReturnMoves
    <3>8. Answers(queries', Depth - 1)
      BY <3>5, <3>6, <3>7 DEF Answers
    <3> QED
      BY <2>0, <3>2, <3>3, <3>4, <3>5, <3>8, ReturnKeepsNames
  <2> QED
    BY <1>2, <2>1, <2>2 DEF CloseCte
<1>3. ASSUME NEW n \in Aliases, CloseDerived(n) PROVE NamesInv'
  <2> DEFINE q == Binds(Inner, n, Q.row, Q.row)
  <2>0. Q.role = "derived" /\ Q.role # "main"
    BY <1>3 DEF CloseDerived
  <2>1. CASE \E l \in {left - 1} \cup {left, left - 2} : EndsAt(l)
    BY <2>1, EndKeepsNames DEF EndsAt
  <2>2. CASE /\ queries' = [Outside EXCEPT ![Depth - 1] = q]
             /\ odd' = odd \cup AliasTwice(Inner, n)
    <3>0. Shape(Inner) /\ Clean(Inner) /\ InFrom(Inner) /\ Fields \subseteq DOMAIN Inner
      BY <1>1, <2>0 DEF InFrom
    <3>1. /\ Keeping(q, Inner, {"at", "bound", "scope"})
          /\ q.at = IF Inner.on THEN "on" ELSE "join"
          /\ q.bound = Append(Inner.bound, [alias |-> n, row |-> Q.row])
          /\ q.scope = MergeScope(Only(n, Q.row), Inner.scope)
      BY <3>0 DEF Binds, Keeping, Rest, Fields
    <3> HIDE DEF q
    <3>2. Keeping(q, Inner, {"at", "on", "bound", "scope"})
      BY <3>1 DEF Keeping, Rest
    <3>3. q.on \in BOOLEAN
      <4>1. q.on = Inner.on
        BY <3>1, KeptField
      <4>2. Inner.on \in BOOLEAN
        BY <3>0, Zenon DEF Shape
      <4> QED
        BY <4>1, <4>2, Zenon
    <3>4. q.at \in {"on", "join"}
      BY <3>1, Zenon
    <3>5. /\ Shape(q) /\ Clean(q) /\ InFrom(q) /\ FromScope(q)
          /\ q.role = Inner.role /\ q.outer = Inner.outer
          /\ Own(Inner) /\ Apart(Inner) /\ n \notin AliasesOf(Inner) => Own(q) /\ Apart(q)
      BY <3>0, <3>1, <3>2, <3>3, <3>4, BindsHas
    <3>6. queries'[m] = q /\ m \in Nat \ {0}
      BY <1>1, <2>0, <2>2, ReturnMoves
    <3>7. ASSUME "clash" \notin odd' PROVE Answers(queries', m)
      <4>1. "clash" \notin odd /\ "clash" \notin AliasTwice(Inner, n)
        BY <2>2, <3>7
      <4>2. n \notin AliasesOf(Inner)
        BY <4>1 DEF AliasTwice, Clash, Flags
      <4>3. Answers(queries, m) /\ queries[m] = Inner
        BY <1>1, <2>0, <4>1
      <4> HIDE DEF m
      <4>4. Own(Inner) /\ Apart(Inner)
        <5>1. Scoped(queries, m) /\ Apart(Inner)
          BY <3>0, <4>3 DEF Answers, InCtes, InFrom
        <5> QED
          BY <3>0, <3>6, <4>3, <5>1, OwnIsScoped
      <4>5. Own(q) /\ Apart(q)
        BY <3>5, <4>2, <4>4
      <4>6. Scoped(queries', m)
        BY <3>5, <3>6, <4>5, OwnIsScoped
      <4> QED
        BY <3>5, <3>6, <4>5, <4>6 DEF Answers
    <3>8. odd \subseteq odd'
      BY <2>2
    <3> QED
      BY <2>0, <2>2, <3>5, <3>7, <3>8, ReturnKeepsNames
  <2>3. \/ /\ queries' = [Outside EXCEPT ![Depth - 1] = q]
           /\ odd' = odd \cup AliasTwice(Inner, n)
        \/ \E l \in {left - 1} \cup {left, left - 2} : EndsAt(l)
    BY <1>3 DEF CloseDerived
  <2> HIDE DEF q
  <2> QED
    BY <2>1, <2>2, <2>3
<1>4. ASSUME CloseSub PROVE NamesInv'
  <2>0. Q.role = "sub" /\ odd' = odd /\ Q.role # "main"
    BY <1>4 DEF CloseSub, Ends, Plain
  <2>1. CASE EndsAt(left)
    BY <2>1, EndKeepsNames DEF EndsAt
  <2>2. CASE Closes(Inner)
    <3>1. queries' = [Outside EXCEPT ![Depth - 1] = Inner]
      BY <2>2 DEF Closes
    <3>2. /\ queries'[m] = Inner /\ queries[m] = Inner /\ m \in Nat \ {0} /\ m \in 1 .. m
          /\ \A i \in 1 .. m - 1 : queries'[i] = queries[i]
      <4>1. Depth \in Nat \ {0} /\ m - 1 = Depth - 2
        BY TopHas
      <4>2. /\ queries'[Depth - 1] = Inner
            /\ \A i \in 1 .. Depth - 2 : queries'[i] = queries[i]
        BY <2>0, <3>1, ReturnMoves
      <4>3. queries[m] = Inner /\ m \in Nat \ {0}
        BY <1>1, <2>0
      <4> QED
        BY <4>1, <4>2, <4>3
    <3>3. ASSUME "clash" \notin odd' PROVE Answers(queries', m)
      <4>1. Answers(queries, m)
        BY <1>1, <2>0, <3>3
      <4> HIDE DEF m
      <4>2. \A i \in 1 .. m : queries'[i] = queries[i]
        BY <3>2
      <4> QED
        BY <3>2, <4>1, <4>2, SameBelow
    <3> QED
      BY <1>1, <2>0, <3>1, <3>3, ReturnKeepsNames
  <2> QED
    BY <1>4, <2>1, <2>2 DEF CloseSub
<1>5. ASSUME Finish PROVE NamesInv'
  BY <1>5, EndKeepsNames DEF Finish, SkipsFrom, EndsAt
<1> QED
  BY <1>2, <1>3, <1>4, <1>5

-----------------------------------------------------------------------------
(* The invariant of the names. *)

LEMMA NextNames == Inv /\ NamesInv /\ [Next]_vars => NamesInv'
<1> SUFFICES ASSUME Inv, NamesInv, [Next]_vars PROVE NamesInv'
  OBVIOUS
<1>1. CASE UNCHANGED <<queries, odd>>
  <2>1. /\ \A j \in 1 .. Depth' : Level(queries', j)
        /\ "clash" \notin odd' => \A j \in 1 .. Depth' : Answers(queries', j)
    <3>1. queries' = queries /\ odd' = odd /\ Depth' = Depth
      BY <1>1 DEF Depth
    <3> QED
      BY <3>1, Zenon DEF NamesInv
  <2> QED
    BY <2>1 DEF NamesInv
<1>2. CASE Next /\ queries = <<>>
  <2>1. Ended
    BY <1>2 DEF Next, At, InWith, InList, Ends, MayRead, ReadsTable,
       Cte, BadCte, AfterCte, ListItem, ListQuery, BadItem, From, NoFrom, FromTable, FromQuery,
       BadTable, On, BadOn, EndOfFrom, ResolveItem, BadResolve, Term, TermQuery, BadTerm,
       BadClause, GroupedProjection, CloseCte, CloseDerived, CloseSub, Finish
  <2> QED
    BY <1>1, <2>1 DEF Ended, vars
<1>3. CASE Next /\ queries # <<>>
  <2>1. \A cl \in Clauses : TermQuery(cl) \/ BadTerm(cl) \/ (\E r \in References : Term(cl, r)) => NamesInv'
    BY <1>3, ClauseNames
  <2>2. (\E l, r \in {r \in References : Len(r) = 2} : On(l, r)) => NamesInv'
    BY <1>3, FromNames
  <2>3. \A on \in BOOLEAN :
          FromQuery(on) \/ (\E n \in SetNames, qualified \in BOOLEAN : \E label \in (Aliases \ {n}) \cup {Null} :
                              FromTable(n, qualified, label, on)) => NamesInv'
    BY <1>3, FromNames
  <2>4. Ended => NamesInv'
    BY <1>1 DEF Ended, vars
  <2> QED
    BY <1>3, <2>1, <2>2, <2>3, <2>4, WithNames, ListNames, FromNames, ResolveNames, ClauseNames, EndNames
       DEF Next
<1> QED
  BY <1>1, <1>2, <1>3 DEF vars

LEMMA InitNames == Init => NamesInv
<1> SUFFICES ASSUME Init PROVE NamesInv
  OBVIOUS
<1> DEFINE q == NewQuery("main", Null, Nothing, {0})
<1>1. /\ q.role = "main" /\ q.name = Null /\ q.at = "start" /\ q.clause = 0
      /\ q.on = FALSE /\ q.grouped = FALSE /\ q.bound = <<>> /\ q.items = <<>>
      /\ q.done = 0 /\ DOMAIN q.row = {} /\ DOMAIN q.ctes = {} /\ DOMAIN q.outer = {}
      /\ DOMAIN q.scope = {}
      /\ Fields \subseteq DOMAIN q
  BY DEF NewQuery, Nothing, Fields
<1> HIDE DEF q
<1>2. queries = <<q>> /\ Depth = 1 /\ queries[1] = q
  BY DEF Init, q, Depth
<1>3. Shape(q)
  <2>1. <<>> \in Seq({}) /\ <<>> \in Seq(AllItems) /\ Len(<<>>) = 0
    OBVIOUS
  <2>2. (\E S : q.bound \in Seq(S)) /\ q.items \in Seq(AllItems)
    BY <1>1, <2>1
  <2>3. q.done \in 0 .. Len(q.items) /\ q.clause \in 0 .. 6
    BY <1>1, <2>1
  <2>4. q.at \in Places /\ q.on \in BOOLEAN /\ q.grouped \in BOOLEAN
    BY <1>1, Zenon DEF Places
  <2> QED
    BY <1>1, <2>2, <2>3, <2>4, Zenon DEF Shape
<1>4. AliasesOf(q) = {} /\ NamesOf(q) = {}
  BY <1>1 DEF AliasesOf, NamesOf
<1>5. Clean(q)
  BY <1>1, <1>4 DEF Clean, InHead, InFrom
<1>6. Encloses(queries, 1)
  BY <1>1, <1>2 DEF Encloses
<1>7. Apart(q) /\ FromScope(q)
  BY <1>1 DEF Apart, FromScope
<1>8. Scoped(queries, 1)
  <2>1. \A i : Reaches(queries, 1, i) => i = 1
    BY <1>2 DEF Reaches, Sees
  <2> QED
    BY <1>1, <1>2, <1>4, <2>1 DEF Scoped
<1>9. \A j \in 1 .. Depth : j = 1
  BY <1>2
<1> QED
  BY <1>2, <1>3, <1>5, <1>6, <1>7, <1>8, <1>9 DEF NamesInv, Level, Answers

-----------------------------------------------------------------------------
(* Levels. *)

\* The levels that a reference may use where the query stands.
Reach == {i \in 1 .. Depth : Reaches(queries, Depth, i)}

LEMMA ReachIs ==
  ASSUME Inv, queries # <<>>
  PROVE  /\ \A i : i \in Reach <=> Reaches(queries, Depth, i)
         /\ Depth \in Reach /\ \A i \in Reach : i \in 1 .. Depth /\ i <= Depth
         /\ InFrom(Q) => Reach = {Depth}
         /\ ~InFrom(Q) => Reach = Visible
         /\ Reach \subseteq Visible
<1>1. Depth \in Nat \ {0} /\ queries[Depth] = Q
  BY Top DEF Q
<1>2. \A i : Reaches(queries, Depth, i) => i \in 1 .. Depth
  BY <1>1 DEF Reaches, Sees
<1>3. Depth \in Reach
  BY <1>1 DEF Reach, Reaches, Sees
<1>4. InFrom(Q) => Reach = {Depth}
  BY <1>1, <1>3 DEF Reach, Reaches
<1>5. ~InFrom(Q) => Reach = Visible
  BY <1>1 DEF Reach, Reaches, Sees, Visible
<1>6. Depth \in Visible
  BY <1>1 DEF Visible
<1>7. \A i \in Reach : i \in 1 .. Depth /\ i <= Depth
  BY <1>1 DEF Reach
<1> QED
  BY <1>2, <1>3, <1>4, <1>5, <1>6, <1>7 DEF Reach

LEMMA NamedIs == \A j : Named(j) = NamesOf(queries[j]) /\ Bound(j) = AliasesOf(queries[j])
BY DEF Named, Bound, NamesOf

\* The greatest of some levels.
LEMMA GreatestIs ==
  ASSUME NEW S, S \subseteq Nat, NEW i \in S, \A k \in S : k <= i
  PROVE  (CHOOSE j \in S : \A k \in S : k <= j) = i
<1> DEFINE top == CHOOSE j \in S : \A k \in S : k <= j
<1>1. top \in S /\ \A k \in S : k <= top
  OBVIOUS
<1> HIDE DEF top
<1>2. top = i
  <2>1. top \in Nat /\ i \in Nat /\ top <= i /\ i <= top
    BY <1>1
  <2> QED
    BY <2>1
<1> QED
  BY <1>2 DEF top

-----------------------------------------------------------------------------
(* An alias of the scope is of one table: the only one of the name in the  *)
(* innermost level that has it, and its row is that table's.               *)

IsTableOf(a, i, b) ==
  /\ i \in Reach /\ b \in DOMAIN queries[i].bound
  /\ queries[i].bound[b].alias = a /\ queries[i].bound[b].row = Q.scope[a]
  /\ \A d \in DOMAIN queries[i].bound : queries[i].bound[d].alias = a => d = b
  /\ \A k \in Reach : a \in Named(k) => k <= i

LEMMA AliasHasTable ==
  ASSUME Inv, NamesInv, queries # <<>>, "clash" \notin odd, ~InCtes(Q),
         NEW a \in DOMAIN Q.scope, "clash" \notin AliasClashes({a})
  PROVE  \E i, b : IsTableOf(a, i, b)
<1>1. queries[Depth] = Q /\ Answers(queries, Depth) /\ Depth \in Nat \ {0}
  BY TopHas
<1>2. Scoped(queries, Depth)
  BY <1>1 DEF Answers
<1>3. PICK i : Nearest(queries, Depth, i, a) /\ IsRowOf(queries[i], a, Q.scope[a])
  BY <1>1, <1>2 DEF Scoped
<1>4. /\ i \in Reach /\ i \in 1 .. Depth /\ i \in Visible /\ a \in Named(i)
      /\ \A k \in Reach : a \in Named(k) => k <= i
  BY <1>3, ReachIs, NamedIs DEF Nearest
<1>5. Provider({a}) = i
  <2> DEFINE by == {j \in Visible : {a} \cap Named(j) # {}}
  <2>1. i \in by /\ by \subseteq Nat
    BY <1>4 DEF Visible
  <2>2. \A k \in by : k <= i
    <3>1. CASE ~InFrom(Q)
      BY <1>4, <3>1, ReachIs
    <3>2. CASE InFrom(Q)
      <4>1. i = Depth
        BY <1>4, <3>2, ReachIs
      <4> QED
        BY <1>1, <4>1 DEF Visible
    <3> QED
      BY <3>1, <3>2
  <2>3. Provider({a}) = IF by = {} THEN 0 ELSE CHOOSE j \in by : \A k \in by : k <= j
    BY DEF Provider
  <2> HIDE DEF by
  <2> QED
    BY <2>1, <2>2, <2>3, GreatestIs
<1>6. a \in AliasesOf(queries[i])
  <2>1. ~UnreadCte({a})
    BY DEF AliasClashes, Clash, Flags
  <2>2. Provider({a}) = 0 \/ {a} \cap Bound(Provider({a})) # {}
    BY <2>1 DEF UnreadCte
  <2>3. i # 0
    BY <1>4
  <2>4. {a} \cap Bound(i) # {}
    BY <1>5, <2>2, <2>3
  <2> QED
    BY <2>4, NamedIs
<1>7. PICK b \in DOMAIN queries[i].bound : queries[i].bound[b].alias = a
  BY <1>6 DEF AliasesOf
<1>8. Apart(queries[i])
  BY <1>4 DEF NamesInv, Answers
<1>9. /\ queries[i].bound[b].row = Q.scope[a]
      /\ \A d \in DOMAIN queries[i].bound : queries[i].bound[d].alias = a => d = b
  BY <1>3, <1>6, <1>7, <1>8 DEF IsRowOf, Apart
<1>10. IsTableOf(a, i, b)
  BY <1>4, <1>7, <1>9 DEF IsTableOf
<1> QED
  BY <1>10

-----------------------------------------------------------------------------
(* What a reference means in SQL. *)

LEMMA MeantIs ==
  ASSUME NEW L, L \subseteq Nat, NEW r, NEW i \in L, NEW b, Meanings(i, r) = {b},
         \A k \in L : Meanings(k, r) # {} => k <= i
  PROVE  Meant(L, r) = IF LastOf(r) \in DOMAIN queries[i].bound[b].row
                       THEN queries[i].bound[b].row[LastOf(r)] ELSE Null
<1> DEFINE hit == {j \in L : Meanings(j, r) # {}}
           top == CHOOSE j \in hit : \A k \in hit : k <= j
           one == CHOOSE x \in Meanings(top, r) : TRUE
<1>1. i \in hit /\ hit \subseteq Nat /\ \A k \in hit : k <= i
  OBVIOUS
<1>2. Meant(L, r) = IF hit # {} /\ Meanings(top, r) = {one}
                       /\ LastOf(r) \in DOMAIN queries[top].bound[one].row
                    THEN queries[top].bound[one].row[LastOf(r)]
                    ELSE Null
  BY DEF Meant
<1> HIDE DEF hit
<1>3. top = i
  BY <1>1, GreatestIs
<1> HIDE DEF top
<1>4. one = b
  BY <1>3
<1> HIDE DEF one
<1> QED
  BY <1>1, <1>2, <1>3, <1>4

LEMMA NothingIsMeant ==
  ASSUME NEW L, NEW r, \A k \in L : Meanings(k, r) = {}
  PROVE  Meant(L, r) = Null
<1>1. {j \in L : Meanings(j, r) # {}} = {}
  OBVIOUS
<1> QED
  BY <1>1 DEF Meant

\* A name that says its alias.
LEMMA QualifiedMeaning ==
  ASSUME Inv, NamesInv, queries # <<>>, "clash" \notin odd, ~InCtes(Q),
         NEW r, IsReference(r), Len(r) = 2, "clash" \notin AliasClashes(Asked(r))
  PROVE  ResolveColumnRef(Q.scope, r) = Meant(Reach, r)
<1> DEFINE a == r[1]
           c == r[2]
<1>1. a \in SetNames /\ LastOf(r) = c /\ Len(r) # 1
  BY ReferenceHas
<1>2. Owners(Q.scope, r) = {a} \cap AliasesWith(Q.scope, c)
  BY DEF Owners
<1>3. \A j : Meanings(j, r) = {i \in DOMAIN queries[j].bound : queries[j].bound[i].alias = a}
  BY DEF Meanings
<1>4. Reach \subseteq Nat
  BY ReachIs
<1> HIDE DEF a, c
<1>5. CASE a \notin DOMAIN Q.scope
  <2>1. Owners(Q.scope, r) = {}
    BY <1>2, <1>5 DEF AliasesWith
  <2>2. ResolveColumnRef(Q.scope, r) = Null
    BY <2>1 DEF ResolveColumnRef
  <2>3. ASSUME NEW k \in Reach PROVE Meanings(k, r) = {}
    <3>1. NamesOf(queries[k]) \subseteq DOMAIN Q.scope
      <4>1. Scoped(queries, Depth) /\ queries[Depth] = Q
        BY TopHas DEF Answers
      <4> QED
        BY <2>3, <4>1, ReachIs DEF Scoped
    <3>2. a \notin AliasesOf(queries[k])
      BY <1>5, <3>1 DEF NamesOf
    <3> QED
      BY <1>3, <3>2 DEF AliasesOf
  <2> QED
    BY <2>2, <2>3, NothingIsMeant
<1>6. CASE a \in DOMAIN Q.scope
  <2>1. "clash" \notin AliasClashes({a})
    <3>1. Asked(r) = {a}
      BY <1>6 DEF Asked, a
    <3> QED
      BY <3>1
  <2>2. PICK i, b : IsTableOf(a, i, b)
    BY <1>6, <2>1, AliasHasTable
  <2>3. Meanings(i, r) = {b}
    BY <1>3, <2>2 DEF IsTableOf
  <2>4. ASSUME NEW k \in Reach, Meanings(k, r) # {} PROVE k <= i
    <3>1. a \in Named(k)
      BY <1>3, <2>4, NamedIs DEF AliasesOf, NamesOf
    <3> QED
      BY <2>2, <3>1 DEF IsTableOf
  <2>5. Meant(Reach, r) = IF c \in DOMAIN Q.scope[a] THEN Q.scope[a][c] ELSE Null
    <3>1. Meant(Reach, r) = IF LastOf(r) \in DOMAIN queries[i].bound[b].row
                            THEN queries[i].bound[b].row[LastOf(r)] ELSE Null
      BY <1>4, <2>2, <2>3, <2>4, MeantIs DEF IsTableOf
    <3>2. queries[i].bound[b].row = Q.scope[a]
      BY <2>2 DEF IsTableOf
    <3> QED
      BY <1>1, <3>1, <3>2
  <2>6. CASE c \in DOMAIN Q.scope[a]
    <3>1. Owners(Q.scope, r) = {a}
      BY <1>2, <1>6, <2>6 DEF AliasesWith
    <3>2. (CHOOSE x \in SetNames : Owners(Q.scope, r) = {x}) = a
      BY <1>1, <3>1
    <3>3. ResolveColumnRef(Q.scope, r) = Q.scope[a][c]
      BY <1>1, <3>1, <3>2 DEF ResolveColumnRef
    <3> QED
      BY <2>5, <2>6, <3>3
  <2>7. CASE c \notin DOMAIN Q.scope[a]
    <3>1. Owners(Q.scope, r) = {}
      BY <1>2, <2>7 DEF AliasesWith
    <3>2. ResolveColumnRef(Q.scope, r) = Null
      BY <3>1 DEF ResolveColumnRef
    <3> QED
      BY <2>5, <2>7, <3>2
  <2> QED
    BY <2>6, <2>7
<1> QED
  BY <1>5, <1>6

\* A name that does not, and is answered.
LEMMA BareMeaning ==
  ASSUME Inv, NamesInv, queries # <<>>, "clash" \notin odd, ~InCtes(Q), ~InFrom(Q),
         NEW r, IsReference(r), Len(r) = 1, "clash" \notin AliasClashes(Asked(r)), ~HiddenAlias(r),
         Found(r)
  PROVE  /\ ResolveColumnRef(Q.scope, r) = Meant(Visible, r)
         /\ \A a \in DOMAIN Q.scope :
              r[1] \in DOMAIN Q.scope[a] => ResolveColumnRef(Q.scope, r) = Q.scope[a][r[1]]
<1> DEFINE c == r[1]
<1>1. LastOf(r) = c /\ Len(r) # 2
  BY ReferenceHas
<1>2. PICK a \in SetNames :
        /\ Owners(Q.scope, r) = {a} /\ a \in DOMAIN Q.scope /\ LastOf(r) \in DOMAIN Q.scope[a]
        /\ ResolveColumnRef(Q.scope, r) = Q.scope[a][LastOf(r)]
  BY Resolved DEF Found
<1>3. AliasesWith(Q.scope, c) = {a} /\ Asked(r) = {a}
  BY <1>1, <1>2 DEF Owners, Asked
<1>4. \A j : Meanings(j, r) = {x \in DOMAIN queries[j].bound : c \in DOMAIN queries[j].bound[x].row}
  BY <1>1 DEF Meanings
<1>5. HiddenAlias(r) <=> \E i, j \in Visible : j < i /\ \E x \in DOMAIN queries[j].bound :
                            /\ queries[j].bound[x].alias \in Named(i)
                            /\ c \in DOMAIN queries[j].bound[x].row
  BY DEF HiddenAlias
<1> HIDE DEF c
<1>6. Reach \subseteq Nat /\ Reach = Visible
  BY ReachIs
<1>7. PICK i, b : IsTableOf(a, i, b)
  BY <1>2, <1>3, AliasHasTable
<1>8. Scoped(queries, Depth) /\ queries[Depth] = Q
  BY TopHas DEF Answers
\* Every other table with such a column is the innermost of its alias, too.
<1>9. ASSUME NEW k \in Visible, NEW x \in Meanings(k, r)
      PROVE  queries[k].bound[x].alias = a
  <2> DEFINE e == queries[k].bound[x].alias
  <2>1. x \in DOMAIN queries[k].bound /\ c \in DOMAIN queries[k].bound[x].row /\ e \in AliasesOf(queries[k])
    BY <1>4, <1>9 DEF AliasesOf
  <2>2. e \in DOMAIN Q.scope
    BY <1>6, <1>8, <1>9, <2>1, ReachIs DEF Scoped, NamesOf
  <2> HIDE DEF e
  <2>3. PICK m : Nearest(queries, Depth, m, e) /\ IsRowOf(queries[m], e, Q.scope[e])
    BY <1>8, <2>2 DEF Scoped
  <2>4. m \in Visible /\ e \in Named(m) /\ k <= m
    BY <1>6, <1>9, <2>1, <2>3, ReachIs, NamedIs DEF Nearest, NamesOf
  <2>5. m = k
    <3>1. ~(k < m)
      BY <1>5, <1>9, <2>1, <2>4 DEF e
    <3>2. k \in Nat /\ m \in Nat
      BY <1>6, <1>9, <2>4
    <3> QED
      BY <2>4, <3>1, <3>2
  <2>6. queries[k].bound[x].row = Q.scope[e]
    BY <2>1, <2>3, <2>5 DEF IsRowOf, e
  <2> QED
    BY <1>3, <2>1, <2>2, <2>6 DEF AliasesWith, e
<1>10. Meanings(i, r) = {b}
  <2>1. b \in Meanings(i, r)
    BY <1>1, <1>2, <1>4, <1>7 DEF IsTableOf
  <2>2. \A x \in Meanings(i, r) : x = b
    BY <1>4, <1>6, <1>7, <1>9 DEF IsTableOf
  <2> QED
    BY <2>1, <2>2
<1>11. ASSUME NEW k \in Visible, Meanings(k, r) # {} PROVE k <= i
  <2>1. PICK x : x \in Meanings(k, r)
    BY <1>11
  <2>2. queries[k].bound[x].alias = a /\ x \in DOMAIN queries[k].bound
    BY <1>4, <1>9, <1>11, <2>1
  <2>3. a \in Named(k)
    BY <2>2, NamedIs DEF AliasesOf, NamesOf
  <2> QED
    BY <1>6, <1>7, <1>11, <2>3 DEF IsTableOf
<1>12. ResolveColumnRef(Q.scope, r) = Meant(Visible, r)
  <2>1. Meant(Visible, r) = IF LastOf(r) \in DOMAIN queries[i].bound[b].row
                            THEN queries[i].bound[b].row[LastOf(r)] ELSE Null
    BY <1>6, <1>7, <1>10, <1>11, MeantIs DEF IsTableOf
  <2> QED
    BY <1>2, <1>7, <2>1 DEF IsTableOf
<1>13. \A x \in DOMAIN Q.scope : c \in DOMAIN Q.scope[x] => x = a
  BY <1>3 DEF AliasesWith
<1> QED
  BY <1>1, <1>2, <1>12, <1>13 DEF c

-----------------------------------------------------------------------------
(* How a reference strays. *)

LEMMA StrayKinds ==
  ASSUME NEW r, NEW got, NEW meant
  PROVE  /\ Strays(r, got, meant) \subseteq {"bare", "qualified", "refused"}
         /\ got = meant => Strays(r, got, meant) = {}
         /\ Len(r) = 1 => Strays(r, got, meant) \subseteq {"bare"}
         /\ Len(r) = 1 /\ got = Null => Strays(r, got, meant) = {}
BY DEF Strays

\* What is added to `astray` is nothing that the flags of `odd` do not excuse.
Excused(flags, kinds) ==
  /\ kinds \subseteq {"bare", "qualified", "refused", "star"}
  /\ "clash" \notin flags => kinds \subseteq {"bare"}
  /\ flags = {} => kinds = {}

\* A reference of an ON, which says its alias, or of the query when all of its
\* FROM is read.
LEMMA ReferenceExcused ==
  ASSUME Inv, NamesInv, queries # <<>>, ~InCtes(Q), NEW r, IsReference(r),
         InFrom(Q) => Len(r) = 2
  PROVE  Excused(odd \cup Clashes(r), Strays(r, ResolveColumnRef(Q.scope, r), Meant(Reach, r)))
<1> DEFINE got == ResolveColumnRef(Q.scope, r)
           meant == Meant(Reach, r)
<1>1. Len(r) \in {1, 2}
  BY ReferenceHas
<1>2. ASSUME "clash" \notin odd \cup Clashes(r) PROVE Strays(r, got, meant) \subseteq {"bare"}
  <2>1. CASE Len(r) = 1
    BY <2>1, StrayKinds
  <2>2. CASE Len(r) = 2
    <3>1. "clash" \notin AliasClashes(Asked(r)) /\ "clash" \notin odd
      BY <1>2 DEF Clashes
    <3>2. got = meant
      BY <2>2, <3>1, QualifiedMeaning
    <3> QED
      BY <3>2, StrayKinds
  <2> QED
    BY <1>1, <2>1, <2>2
<1>3. ASSUME odd \cup Clashes(r) = {} PROVE Strays(r, got, meant) = {}
  <2>1. "clash" \notin odd /\ "clash" \notin AliasClashes(Asked(r)) /\ ~HiddenAlias(r)
    BY <1>3 DEF Clashes, Flags
  <2>2. CASE Len(r) = 1 /\ got = Null
    BY <2>2, StrayKinds
  <2>3. CASE Len(r) = 1 /\ got # Null
    <3>1. ~InFrom(Q) /\ Found(r)
      BY <2>3 DEF Found
    <3>2. got = Meant(Visible, r)
      BY <2>1, <2>3, <3>1, BareMeaning
    <3>3. got = meant
      BY <3>1, <3>2, ReachIs
    <3> QED
      BY <3>3, StrayKinds
  <2>4. CASE Len(r) = 2
    <3>1. got = meant
      BY <2>1, <2>4, QualifiedMeaning
    <3> QED
      BY <3>1, StrayKinds
  <2> QED
    BY <1>1, <2>2, <2>3, <2>4
<1> QED
  BY <1>2, <1>3, StrayKinds DEF Excused

\* A term of a clause; ORDER BY looks among the columns of the result first.
LEMMA TermExcused ==
  ASSUME Inv, NamesInv, queries # <<>>, Q.at \in {"clauses", "tail"}, NEW cl, NEW r, IsReference(r)
  PROVE  Excused(odd \cup Clashes(r) \cup Clash(LabelSorted(cl, r)),
                 Strays(r, ResolveColumnRef(Q.scope, r), ClauseMeant(cl, r)))
<1> DEFINE got == ResolveColumnRef(Q.scope, r)
           meant == ClauseMeant(cl, r)
           flags == odd \cup Clashes(r) \cup Clash(LabelSorted(cl, r))
<1>1. ~InCtes(Q) /\ ~InFrom(Q)
  BY DEF InCtes, InFrom
<1>2. CASE ~(cl = "order" /\ Len(r) = 1 /\ r[1] \in DOMAIN Q.row)
  <2>1. meant = Meant(Reach, r)
    BY <1>1, <1>2, ReachIs DEF ClauseMeant
  <2>2. Excused(odd \cup Clashes(r), Strays(r, got, meant))
    BY <1>1, <2>1, ReferenceExcused
  <2> QED
    BY <2>2 DEF Excused
<1>3. CASE cl = "order" /\ Len(r) = 1 /\ r[1] \in DOMAIN Q.row
  <2>1. Strays(r, got, meant) \subseteq {"bare"}
    BY <1>3, StrayKinds
  <2>2. ASSUME flags = {} PROVE Strays(r, got, meant) = {}
    <3>1. /\ "clash" \notin odd /\ "clash" \notin AliasClashes(Asked(r)) /\ ~HiddenAlias(r)
          /\ ~LabelSorted(cl, r)
      BY <2>2 DEF Clashes, Clash, Flags
    <3>2. FromScope(Q) /\ r[1] # Anonymous /\ meant = Q.row[r[1]]
      <4>1. FromScope(Q)
        BY <3>1, TopHas DEF Answers
      <4>2. r[1] \in ColNames
        BY <1>3, ReferenceHas
      <4> QED
        BY <1>3, <4>1, <4>2, SelectAssumption DEF ClauseMeant
    <3>3. PICK a \in DOMAIN Q.scope : r[1] \in DOMAIN Q.scope[a] /\ meant = Q.scope[a][r[1]]
      BY <1>3, <3>1, <3>2 DEF FromScope, LabelSorted
    <3>4. CASE got = Null
      BY <1>3, <3>4, StrayKinds
    <3>5. CASE got # Null
      <4>1. got = meant
        BY <1>1, <1>3, <3>1, <3>3, <3>5, BareMeaning DEF Found
      <4> QED
        BY <4>1, StrayKinds
    <3> QED
      BY <3>4, <3>5
  <2> QED
    BY <2>1, <2>2 DEF Excused
<1> QED
  BY <1>2, <1>3

\* `*` and `alias.*` stand for the columns of the table that SQL has.
LEMMA StarMeaning ==
  ASSUME Inv, NamesInv, queries # <<>>, "clash" \notin odd, Q.at = "resolve",
         NEW it \in AllItems, IsStar(it), StarRow(it) # Null,
         it.kind = "star" => Q.bound # <<>>,
         it.kind = "all" => "clash" \notin AliasClashes(Starred(it))
  PROVE  StarRow(it) = StarMeant(it)
<1> DEFINE a == CHOOSE a \in SetNames : Starred(it) = {a}
<1>1. Starred(it) = {a} /\ StarRow(it) = Q.scope[a]
  BY DEF StarRow
<1> HIDE DEF a
<1>2. a \in DOMAIN Q.scope /\ ~InCtes(Q) /\ ~InFrom(Q)
  BY <1>1 DEF Starred, InCtes, InFrom
<1>3. /\ Scoped(queries, Depth) /\ queries[Depth] = Q /\ Apart(Q) /\ Depth \in Nat \ {0}
      /\ Shape(Q)
  BY <1>2, TopHas DEF Answers
<1>4. CASE it.kind = "star"
  <2>1. DOMAIN Q.scope = {a}
    BY <1>1, <1>4 DEF Starred
  <2>2. NamesOf(Q) \subseteq {a}
    BY <1>3, <2>1, ReachIs DEF Scoped
  <2>3. PICK S : Q.bound \in Seq(S)
    BY <1>3 DEF Shape
  <2>4. 1 \in DOMAIN Q.bound /\ Len(Q.bound) \in Nat /\ DOMAIN Q.bound = 1 .. Len(Q.bound)
    BY <1>4, <2>3
  <2>5. \A b \in DOMAIN Q.bound : Q.bound[b].alias = a
    BY <2>2 DEF NamesOf, AliasesOf
  <2>6. \A b \in DOMAIN Q.bound : b = 1
    BY <1>3, <2>4, <2>5 DEF Apart
  <2>7. Len(Q.bound) = 1
    <3>1. Len(Q.bound) \in DOMAIN Q.bound
      BY <2>4
    <3> QED
      BY <2>6, <3>1
  <2>8. Q.bound[1].row = Q.scope[a]
    <3>1. PICK i : Nearest(queries, Depth, i, a) /\ IsRowOf(queries[i], a, Q.scope[a])
      BY <1>2, <1>3 DEF Scoped
    <3>2. a \in AliasesOf(Q)
      BY <2>4, <2>5 DEF AliasesOf
    <3>3. i = Depth
      <4>1. Reaches(queries, Depth, Depth) /\ i \in 1 .. Depth
        BY <3>1, ReachIs DEF Nearest
      <4>2. Depth <= i
        BY <1>3, <3>1, <3>2, <4>1 DEF Nearest, NamesOf
      <4> QED
        BY <1>3, <4>1, <4>2
    <3> QED
      BY <1>3, <2>4, <2>5, <3>1, <3>2, <3>3 DEF IsRowOf
  <2>9. StarMeant(it) = Q.bound[1].row
    BY <1>4, <2>7 DEF StarMeant
  <2> QED
    BY <1>1, <2>8, <2>9
<1>5. CASE it.kind = "all"
  <2>1. PICK i, b : IsTableOf(a, i, b)
    BY <1>1, <1>2, <1>5, AliasHasTable
  <2> DEFINE hit == {j \in Visible : Starred(it) \cap Bound(j) # {}}
             top == CHOOSE j \in hit : \A k \in hit : k <= j
             one == CHOOSE x \in DOMAIN queries[top].bound : queries[top].bound[x].alias \in Starred(it)
  <2>2. Reach = Visible /\ Visible \subseteq Nat
    BY <1>2, ReachIs DEF Visible
  <2>3. hit = {j \in Visible : a \in Bound(j)}
    BY <1>1
  <2>4. StarMeant(it) = IF hit # {} THEN queries[top].bound[one].row ELSE Null
    BY <1>5 DEF StarMeant
  <2>5. i \in hit /\ hit \subseteq Nat
    BY <2>1, <2>2, <2>3, NamedIs DEF IsTableOf, AliasesOf
  <2>6. \A k \in hit : k <= i
    BY <2>1, <2>2, <2>3 DEF IsTableOf, Named
  <2> HIDE DEF hit
  <2>7. top = i
    BY <2>5, <2>6, GreatestIs
  <2> HIDE DEF top
  <2>8. one = b
    BY <1>1, <2>1, <2>7 DEF IsTableOf
  <2> HIDE DEF one
  <2>9. StarMeant(it) = queries[i].bound[b].row
    BY <2>4, <2>5, <2>7, <2>8
  <2> QED
    BY <1>1, <2>1, <2>9 DEF IsTableOf
<1> QED
  BY <1>4, <1>5 DEF IsStar

-----------------------------------------------------------------------------
(* The ghosts. *)

Flagged == {"clash", "hidden alias"}

\* No kind of straying without a clash that excuses it.
StrayInv ==
  /\ odd \subseteq Flagged
  /\ astray \subseteq {"bare", "qualified", "refused", "star"}
  /\ "clash" \notin odd => astray \subseteq {"bare"}
  /\ odd = {} => astray = {}

\* A step may add flags, and kinds that they excuse.
LEMMA ExcusedKeepsStray ==
  ASSUME StrayInv, NEW kinds, Excused(odd', kinds), odd \subseteq odd', odd' \subseteq Flagged,
         astray' = astray \cup kinds
  PROVE  StrayInv'
<1>1. astray' \subseteq {"bare", "qualified", "refused", "star"}
  BY DEF StrayInv, Excused
<1>2. "clash" \notin odd' => astray' \subseteq {"bare"}
  BY DEF StrayInv, Excused
<1>3. odd' = {} => astray' = {}
  BY DEF StrayInv, Excused
<1> QED
  BY <1>1, <1>2, <1>3 DEF StrayInv

LEMMA FlagsAre ==
  /\ \A r : Clashes(r) \subseteq Flagged
  /\ \A as : AliasClashes(as) \subseteq Flagged
  /\ \A test : Clash(test) \subseteq Flagged
<1>1. \A test, flag : Flags(test, flag) \subseteq {flag}
  BY DEF Flags
<1>2. \A test : Clash(test) \subseteq Flagged
  BY <1>1 DEF Clash, Flagged
<1>3. \A as : AliasClashes(as) \subseteq Flagged
  BY <1>2 DEF AliasClashes
<1>4. ASSUME NEW r PROVE Clashes(r) \subseteq Flagged
  <2>1. Flags(HiddenAlias(r), "hidden alias") \subseteq Flagged
    BY <1>1 DEF Flagged
  <2> QED
    BY <1>3, <2>1 DEF Clashes
<1> QED
  BY <1>2, <1>3, <1>4

LEMMA PlainKeepsStray ==
  ASSUME StrayInv, odd \subseteq odd', odd' \subseteq Flagged, astray' = astray
  PROVE  StrayInv'
<1>1. Excused(odd', {}) /\ astray' = astray \cup {}
  BY DEF Excused
<1> QED
  BY <1>1, ExcusedKeepsStray

-----------------------------------------------------------------------------
(* The actions that look names up. *)

LEMMA FromTableStray ==
  ASSUME StrayInv, NEW n, NEW qualified \in BOOLEAN, NEW label, NEW on,
         FromTable(n, qualified, label, on)
  PROVE  StrayInv'
<1>1. CASE Plain
  BY <1>1, PlainKeepsStray DEF Plain, StrayInv
<1>2. CASE ~Plain
  <2> DEFINE alias == IF label = Null THEN n ELSE label
             flags == IF qualified THEN {} ELSE AliasAsTable(n) \cup OverlooksCte(n)
  <2>1. odd' = odd \cup AliasTwice(Q, alias) \cup flags /\ astray' = astray
    BY <1>2 DEF FromTable
  <2>2. AliasTwice(Q, alias) \subseteq Flagged /\ flags \subseteq Flagged
    BY FlagsAre DEF AliasTwice, AliasAsTable, OverlooksCte
  <2> HIDE DEF flags, alias
  <2> QED
    BY <2>1, <2>2, PlainKeepsStray DEF StrayInv
<1> QED
  BY <1>1, <1>2

LEMMA ReferencesAre == \A r \in References : IsReference(r)
BY SelectAssumption DEF IsReference

LEMMA OnStray ==
  ASSUME Inv, NamesInv, StrayInv, NEW l \in References, NEW r \in References,
         Len(l) = 2, Len(r) = 2, On(l, r)
  PROVE  StrayInv'
<1> DEFINE refs == {l} \cup (IF Found(l) THEN {r} ELSE {})
           kinds == UNION {Strays(x, ResolveColumnRef(Q.scope, x), Meant({Depth}, x)) : x \in refs}
<1>1. queries # <<>> /\ Q.at = "on" /\ Looks(refs, {Depth})
  BY DEF On, At
<1>2. odd' = odd \cup UNION {Clashes(x) : x \in refs} /\ astray' = astray \cup kinds
  BY <1>1 DEF Looks
<1>3. Reach = {Depth} /\ ~InCtes(Q)
  BY <1>1, ReachIs DEF InFrom, InCtes
<1>4. ASSUME NEW x \in refs
      PROVE  Excused(odd \cup Clashes(x), Strays(x, ResolveColumnRef(Q.scope, x), Meant({Depth}, x)))
  <2>1. IsReference(x) /\ Len(x) = 2
    BY ReferencesAre
  <2> QED
    BY <1>1, <1>3, <2>1, ReferenceExcused
<1> HIDE DEF refs
<1>5. odd \subseteq odd' /\ \A x \in refs : odd \cup Clashes(x) \subseteq odd'
  BY <1>2
<1>6. odd' \subseteq Flagged
  BY <1>2, FlagsAre DEF StrayInv
<1>7. Excused(odd', kinds)
  <2>1. ASSUME NEW k \in kinds
        PROVE  /\ k \in {"bare", "qualified", "refused", "star"}
               /\ "clash" \notin odd' => k = "bare"
               /\ odd' # {}
    <3>1. PICK x \in refs : k \in Strays(x, ResolveColumnRef(Q.scope, x), Meant({Depth}, x))
      OBVIOUS
    <3>2. odd' = {} => odd \cup Clashes(x) = {}
      BY <1>5, <3>1
    <3>3. "clash" \notin odd' => "clash" \notin odd \cup Clashes(x)
      BY <1>5, <3>1
    <3> QED
      BY <1>4, <3>1, <3>2, <3>3 DEF Excused
  <2> HIDE DEF kinds
  <2> QED
    BY <2>1 DEF Excused
<1> HIDE DEF kinds
<1> QED
  BY <1>2, <1>5, <1>6, <1>7, ExcusedKeepsStray

LEMMA TermStray ==
  ASSUME Inv, NamesInv, StrayInv, NEW cl \in Clauses, NEW r \in References, Term(cl, r)
  PROVE  StrayInv'
<1> DEFINE kinds == Strays(r, ResolveColumnRef(Q.scope, r), ClauseMeant(cl, r))
<1>1. queries # <<>> /\ Q.at \in {"clauses", "tail"}
  BY DEF Term, MayRead, At
<1>2. odd' = odd \cup Clashes(r) \cup Clash(LabelSorted(cl, r)) /\ astray' = astray \cup kinds
  BY DEF Term
<1>3. Excused(odd', kinds)
  BY <1>1, <1>2, ReferencesAre, TermExcused
<1> HIDE DEF kinds
<1>4. odd \subseteq odd' /\ odd' \subseteq Flagged
  BY <1>2, FlagsAre DEF StrayInv
<1> QED
  BY <1>2, <1>3, <1>4, ExcusedKeepsStray

LEMMA ResolveStray ==
  ASSUME Inv, NamesInv, StrayInv, ResolveItem
  PROVE  StrayInv'
<1> DEFINE it == Q.items[Q.done + 1]
           adds == Adds(it)
           got == ResolveColumnRef(Q.scope, it.ref)
           repeats == Clash(adds # Null /\ DOMAIN adds \cap DOMAIN Q.row # {})
           nowhere == Clash(it.kind = "star" /\ Q.bound = <<>>)
           ofAll == IF it.kind = "all" THEN AliasClashes(Starred(it)) ELSE {}
           ofRef == IF it.kind \in {"col", "agg"} THEN Clashes(it.ref) ELSE {}
           stars == Flags(IsStar(it) /\ adds # Null /\ adds # StarMeant(it), "star")
           refs == IF it.kind \in {"col", "agg"} THEN Strays(it.ref, got, Meant(Visible, it.ref)) ELSE {}
<1>1. queries # <<>> /\ Q.at = "resolve" /\ ~InCtes(Q) /\ ~InFrom(Q)
  BY DEF ResolveItem, At, InCtes, InFrom
<1>2. it \in AllItems
  <2>1. Q.done < Len(Q.items) /\ Q.done \in Nat /\ Len(Q.items) \in Nat /\ Q.items \in Seq(AllItems)
    BY <1>1, TopHas DEF Clean, Shape
  <2> QED
    BY <2>1
<1>3. odd' = odd \cup repeats \cup nowhere \cup ofAll \cup ofRef
  BY DEF ResolveItem, Resolves
<1>4. astray' = astray \cup stars \cup refs
  BY DEF ResolveItem, Resolves
<1> HIDE DEF it
<1>5. odd \subseteq odd' /\ odd' \subseteq Flagged
  <2>1. repeats \subseteq Flagged /\ nowhere \subseteq Flagged /\ ofAll \subseteq Flagged /\ ofRef \subseteq Flagged
    BY FlagsAre
  <2> HIDE DEF repeats, nowhere, ofAll, ofRef
  <2> QED
    BY <1>3, <2>1 DEF StrayInv
<1>6. Excused(odd', refs)
  <2>1. CASE it.kind \in {"col", "agg"}
    <3>1. Excused(odd \cup Clashes(it.ref), Strays(it.ref, got, Meant(Reach, it.ref)))
      BY <1>1, <1>2, <2>1, ItemHas, ReferenceExcused
    <3>2. Reach = Visible /\ odd \cup Clashes(it.ref) \subseteq odd'
      BY <1>1, <1>3, <2>1, ReachIs
    <3>3. refs = Strays(it.ref, got, Meant(Reach, it.ref))
      BY <2>1, <3>2
    <3> HIDE DEF refs
    <3> QED
      BY <3>1, <3>2, <3>3 DEF Excused
  <2>2. CASE it.kind \notin {"col", "agg"}
    BY <2>2 DEF Excused
  <2> QED
    BY <2>1, <2>2
<1>7. stars \subseteq {"star"} /\ ("clash" \notin odd' => stars = {})
  <2>1. stars \subseteq {"star"}
    BY DEF Flags
  <2>2. ASSUME "clash" \notin odd', IsStar(it), adds # Null PROVE adds = StarMeant(it)
    <3>1. adds = StarRow(it)
      BY <2>2 DEF Adds, IsStar
    <3>2. it.kind = "star" => Q.bound # <<>>
      BY <1>3, <2>2 DEF Clash, Flags
    <3>3. it.kind = "all" => "clash" \notin AliasClashes(Starred(it))
      BY <1>3, <2>2
    <3>4. "clash" \notin odd
      BY <1>3, <2>2
    <3> QED
      BY <1>1, <1>2, <2>2, <3>1, <3>2, <3>3, <3>4, StarMeaning
  <2> QED
    BY <2>1, <2>2 DEF Flags
<1> HIDE DEF stars, refs
<1>8. Excused(odd', stars \cup refs)
  BY <1>6, <1>7 DEF Excused
<1>9. astray' = astray \cup (stars \cup refs)
  BY <1>4
<1> QED
  BY <1>5, <1>8, <1>9, ExcusedKeepsStray

\* In a query with groups every column is a term of GROUP BY, and so of the
\* same column as one.
LEMMA GroupedStray ==
  ASSUME StrayInv, GroupedProjection
  PROVE  StrayInv'
<1>1. CASE astray' = astray
  BY <1>1, PlainKeepsStray DEF GroupedProjection, StrayInv
<1>2. CASE ~(NeedsGrouping /\ \E i \in DOMAIN Q.items : ~ValidInsideGrouped(Q.items[i]))
  <2>1. ASSUME NeedsGrouping, NEW i \in DOMAIN Q.items, Q.items[i].kind = "col"
        PROVE  Q.items[i].ref \in Q.keys
    BY <1>2, <2>1 DEF ValidInsideGrouped
  <2>2. ~(/\ NeedsGrouping
          /\ \E i \in DOMAIN Q.items :
               /\ Q.items[i].kind = "col"
               /\ \A k \in Q.keys : ResolveColumnRef(Q.scope, k) # ResolveColumnRef(Q.scope, Q.items[i].ref))
    BY <2>1
  <2>3. astray' = astray
    BY <1>2, <2>2 DEF GroupedProjection, Flags
  <2> QED
    BY <1>1, <2>3
<1> QED
  BY <1>1, <1>2 DEF GroupedProjection

LEMMA NextStray == Inv /\ NamesInv /\ StrayInv /\ [Next]_vars => StrayInv'
<1> SUFFICES ASSUME Inv, NamesInv, StrayInv, [Next]_vars PROVE StrayInv'
  OBVIOUS
<1>1. Plain => StrayInv'
  BY PlainKeepsStray DEF Plain, StrayInv
<1>2. UNCHANGED vars => StrayInv'
  BY <1>1 DEF vars, Plain
<1>3. ASSUME NEW n \in Aliases, CloseDerived(n) PROVE StrayInv'
  <2>1. CASE odd' = odd \cup AliasTwice(Inner, n) /\ astray' = astray
    <3>1. AliasTwice(Inner, n) \subseteq Flagged
      BY FlagsAre DEF AliasTwice
    <3> QED
      BY <2>1, <3>1, PlainKeepsStray DEF StrayInv
  <2> QED
    BY <1>1, <1>3, <2>1 DEF CloseDerived
<1>4. BadCte \/ AfterCte \/ BadItem \/ From \/ NoFrom => StrayInv'
  BY <1>1 DEF BadCte, AfterCte, BadItem, From, NoFrom
<1>5. BadTable \/ BadOn \/ EndOfFrom \/ BadResolve \/ BadClause => StrayInv'
  BY <1>1 DEF BadTable, BadOn, EndOfFrom, BadResolve, BadClause
<1>6. CloseCte \/ CloseSub \/ Finish \/ Ended => StrayInv'
  BY <1>1, <1>2 DEF CloseCte, CloseSub, Finish, Ends, Ended
<1>7. \A n \in Aliases : Cte(n) => StrayInv'
  BY <1>1 DEF Cte
<1>8. \A on \in BOOLEAN : FromQuery(on) => StrayInv'
  BY <1>1 DEF FromQuery
<1>9. \A n \in SetNames, qualified \in BOOLEAN : \A label, on : FromTable(n, qualified, label, on) => StrayInv'
  BY FromTableStray
<1>10. (\A it \in Items : ListItem(it) => StrayInv') /\ (\A label \in Labels : ListQuery(label) => StrayInv')
  BY <1>1 DEF ListItem, ListQuery
<1>11. \A cl \in Clauses : TermQuery(cl) \/ BadTerm(cl) => StrayInv'
  BY <1>1 DEF TermQuery, BadTerm
<1>12. \A l, r \in {r \in References : Len(r) = 2} : On(l, r) => StrayInv'
  BY OnStray
<1>13. \A cl \in Clauses, r \in References : Term(cl, r) => StrayInv'
  BY TermStray
<1>14. ResolveItem \/ GroupedProjection => StrayInv'
  BY ResolveStray, GroupedStray
<1> QED
  BY <1>2, <1>3, <1>4, <1>5, <1>6, <1>7, <1>8, <1>9, <1>10, <1>11, <1>12, <1>13, <1>14 DEF Next

-----------------------------------------------------------------------------
(* Where the parser is when it has returned. *)

EndInv == ok \in BOOLEAN /\ left \in Int /\ (queries = <<>> /\ ok => left = 0)

LEMMA NextEnd == Inv /\ EndInv /\ [Next]_vars => EndInv'
<1> SUFFICES ASSUME Inv, EndInv, [Next]_vars PROVE EndInv'
  OBVIOUS
<1>1. CASE UNCHANGED vars
  BY <1>1 DEF EndInv, vars
<1>2. CASE StackStep
  <2>1. CASE Stays \/ Goes \/ Returns
    <3>1. queries # <<>> /\ ok' = ok /\ left' \in {left, left + 1, left - 1}
      BY <2>1 DEF Stays, Goes, Returns
    <3>2. queries' # <<>>
      <4>1. CASE Stays
        <5>1. PICK S : queries \in Seq(S)
          BY <3>1 DEF Inv, Nested
        <5>2. DOMAIN queries' = DOMAIN queries
          BY <4>1 DEF Stays
        <5>3. 1 \in DOMAIN queries
          <6>1. Depth \in Nat \ {0}
            BY <3>1, Top
          <6> QED
            BY <5>1, <6>1 DEF Depth
        <5>4. DOMAIN <<>> = {}
          OBVIOUS
        <5> QED
          BY <5>2, <5>3, <5>4
      <4>2. CASE Goes
        <5>1. PICK q, r : queries' = Append([queries EXCEPT ![Depth] = q], r)
          BY <4>2 DEF Goes
        <5>2. PICK S : queries \in Seq(S)
          BY <3>1 DEF Inv, Nested
        <5>3. Depth \in 1 .. Len(queries)
          BY <3>1, Top DEF Depth
        <5>4. [queries EXCEPT ![Depth] = q] \in Seq(S \cup {q})
          BY <5>2, <5>3, Replaced
        <5> QED
          BY <5>1, <5>4
      <4>3. CASE Returns
        <5>1. PICK q : queries' = [Outside EXCEPT ![Depth - 1] = q]
          BY <4>3 DEF Returns
        <5>2. PICK S : queries \in Seq(S)
          BY <3>1 DEF Inv, Nested
        <5>3. Depth > 1 /\ Depth \in Nat
          BY <3>1, <4>3, Top DEF Returns
        <5>4. DOMAIN Outside = 1 .. Depth - 1
          BY <5>2, <5>3 DEF Outside, Depth
        <5>5. DOMAIN queries' = 1 .. Depth - 1 /\ 1 \in 1 .. Depth - 1
          BY <5>1, <5>3, <5>4
        <5>6. DOMAIN <<>> = {}
          OBVIOUS
        <5> QED
          BY <5>5, <5>6
      <4> QED
        BY <2>1, <4>1, <4>2, <4>3
    <3> QED
      BY <3>1, <3>2 DEF EndInv
  <2>2. CASE EndsBadly
    <3>1. PICK l \in Noticed : EndsAt(l)
      BY <2>2 DEF EndsBadly
    <3>2. PICK k \in Q.lost : left' = l - k
      BY <3>1 DEF EndsAt
    <3>3. queries # <<>> /\ ok' = FALSE
      BY <2>2, <3>1 DEF EndsBadly, EndsAt
    <3>4. k \in Nat /\ l \in Int
      <4>1. Depth \in Nat \ {0} /\ Frame(Q, Depth) /\ left \in Int
        BY <3>3, Top
      <4>2. CallersSkip(Depth) \in Nat
        BY <4>1, DeeperSkips
      <4>3. k \in 0 .. CallersSkip(Depth)
        BY <3>2, <4>1 DEF Frame
      <4>4. l \in Int
        BY <3>1, <4>1, Bounds DEF Noticed
      <4> QED
        BY <4>2, <4>3, <4>4
    <3>5. left' \in Int
      BY <3>2, <3>4
    <3> QED
      BY <3>3, <3>5 DEF EndInv
  <2>3. CASE EndsWell \/ Ended
    BY <2>3 DEF EndsWell, Ended, EndInv, vars
  <2> QED
    BY <1>2, <2>1, <2>2, <2>3 DEF StackStep
<1> QED
  BY <1>1, <1>2, NextStackStep

-----------------------------------------------------------------------------
(* The theorems. *)

AllInv == Inv /\ NamesInv /\ StrayInv /\ EndInv

LEMMA InitAll == Init => AllInv
<1> SUFFICES ASSUME Init PROVE AllInv
  OBVIOUS
<1>1. StrayInv
  BY DEF Init, StrayInv
<1>2. queries # <<>>
  BY DEF Init
<1>3. EndInv
  BY <1>2, SelectAssumption DEF Init, EndInv
<1> QED
  BY <1>1, <1>3, InitInv, InitNames DEF AllInv

LEMMA NextAll == AllInv /\ [Next]_vars => AllInv'
<1> SUFFICES ASSUME AllInv, [Next]_vars PROVE AllInv'
  OBVIOUS
<1>1. Inv /\ NamesInv /\ StrayInv /\ EndInv
  BY DEF AllInv
<1>2. Inv'
  <2>1. CASE UNCHANGED vars
    <3>1. /\ queries' = queries /\ names' = names /\ ok' = ok /\ left' = left /\ Depth' = Depth
      BY <2>1 DEF vars, Depth
    <3> QED
      BY <1>1, <3>1, Zenon DEF Inv, Nested, Inside
  <2> QED
    BY <1>1, <2>1, NextStackStep, StackStepKeeps
<1> QED
  BY <1>1, <1>2, NextNames, NextStray, NextEnd DEF AllInv

LEMMA AllInvariant == Spec => []AllInv
BY InitAll, NextAll, PTL DEF Spec

LEMMA AllTyped == AllInv => TypeOK
<1> SUFFICES ASSUME AllInv PROVE TypeOK
  OBVIOUS
<1>1. Inv /\ NamesInv /\ StrayInv /\ EndInv
  BY DEF AllInv
<1>2. names \in 0 .. MaxNames /\ ok \in BOOLEAN /\ left \in Int /\ (queries = <<>> /\ ok => left = 0)
  BY <1>1 DEF Inv, EndInv
<1>3. queries # <<>> => ok /\ left - Depth \in 0 .. MaxExtra
  BY <1>1 DEF Inv, Inside
<1>4. odd \subseteq {"clash", "hidden alias"}
      /\ astray \subseteq {"bare", "qualified", "refused", "star", "ungrouped"}
  BY <1>1 DEF StrayInv, Flagged
<1>5. ASSUME NEW j \in DOMAIN queries
      PROVE  QueryOK(queries[j]) /\ (queries[j].role = "main" <=> j = 1)
  <2>1. queries # <<>>
    BY <1>5
  <2>2. Depth \in Nat \ {0} /\ \E S : queries \in Seq(S)
    BY <1>1, <2>1, Top DEF Inv, Nested
  <2>3. j \in 1 .. Depth
    BY <1>5, <2>2 DEF Depth
  <2>4. Level(queries, j) /\ Frame(queries[j], j)
    BY <1>1, <2>1, <2>3 DEF NamesInv, Inv, Nested
  <2>5. queries[j].lost \subseteq Nat
    <3>1. CallersSkip(j) \in Nat
      BY <2>2, <2>3, DeeperSkips
    <3> QED
      BY <2>4, <3>1 DEF Frame
  <2> DEFINE q == queries[j]
  <2>6. Shape(q) /\ Clean(q) /\ (q.role = "main" <=> j = 1)
    BY <2>4 DEF Level, Frame
  <2>7. q.lost \subseteq Nat
    BY <2>5
  <2> HIDE DEF q
  <2>8. QueryOK(q)
    <3>1. InFrom(q) => AliasesOf(q) \subseteq DOMAIN q.scope
      BY <2>6 DEF Clean
    <3>2. /\ q.at = "resolve" => q.done < Len(q.items)
          /\ q.at \in {"clauses", "tail"} => q.done = Len(q.items)
      BY <2>6 DEF Clean
    <3>3. /\ q.role \in {"main", "cte", "derived", "sub"}
          /\ q.name \in SetNames \cup {Null} /\ (q.role = "cte" => q.name # Null)
          /\ q.at \in Places /\ q.clause \in 0 .. 6 /\ q.on \in BOOLEAN /\ q.grouped \in BOOLEAN
          /\ q.done \in 0 .. Len(q.items)
      BY <2>6, Zenon DEF Shape
    <3> QED
      BY <2>7, <3>1, <3>2, <3>3, Zenon DEF QueryOK, InFrom
  <2> QED
    BY <2>6, <2>8 DEF q
<1> QED
  BY <1>2, <1>3, <1>4, <1>5 DEF TypeOK

\* The state of the parser of a SELECT is well formed in every statement: what
\* each query has read is what its place allows, an item is left while the list
\* is resolved, every alias of a FROM that is being read is in scope, the
\* closing brackets ahead are those of the queries being read, and an error is
\* the only way to return elsewhere than behind the `;` (parse-select.ts).
THEOREM TypeCorrect == Spec => []TypeOK
<1>1. Spec => []AllInv
  BY AllInvariant
<1> QED
  BY <1>1, AllTyped, PTL

\* In a statement in which no names clash, every name that is answered is the
\* column SQL says it is, and none that says its alias is refused: the flat map
\* of MergeScope, searched by ScopeKeysWithColumn, is as good as the levels of
\* names of SQL, however deep the queries are nested.
THEOREM NamesMeanTheSame == Spec => []MeansTheSame
<1>1. AllInv => MeansTheSame
  BY DEF AllInv, StrayInv, MeansTheSame
<1> QED
  BY <1>1, AllInvariant, PTL

\* An alias that hides one of an enclosing query does no harm to names that say
\* their alias: ResolveColumnRefValue answers the column of the innermost table
\* of that alias, and Null only when there is none.
THEOREM QualifiedNamesMeanTheSame == Spec => []QualifiedMeansTheSame
<1>1. AllInv => QualifiedMeansTheSame
  BY DEF AllInv, StrayInv, QualifiedMeansTheSame
<1> QED
  BY <1>1, AllInvariant, PTL

\* GroupedProjValidationOutcome lets no column through, in a query with groups
\* or aggregates, that the rows of a group may differ on.
THEOREM GroupedColumnsAgree == Spec => []GroupsAgree
<1>1. AllInv => GroupsAgree
  BY DEF AllInv, StrayInv, GroupsAgree
<1> QED
  BY <1>1, AllInvariant, PTL
===============================================================================
