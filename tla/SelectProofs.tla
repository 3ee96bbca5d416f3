----------------------------- MODULE SelectProofs -----------------------------
(***************************************************************************)
(* That a SELECT is a query of the walk over the script: whatever is       *)
(* nested in it and wherever it goes wrong, for all tables, names, items   *)
(* and bounds.                                                             *)
(***************************************************************************)
EXTENDS Select, TLAPS, SequenceTheorems

-----------------------------------------------------------------------------
(* The stack of queries.  Only two fields of a query matter to where the   *)
(* parser ends: whether it is the statement's own, and how often its       *)
(* callers skip for its error, which is bounded by its depth.              *)

\* Most skips that a level of nesting adds: those of the grammar of
\* expressions, the bracket's, and four of the clause.
LevelSkips == MaxSkips + 5

CallersSkip(j) == (j - 1) * LevelSkips

Kept == {"role", "lost"}

Frame(q, j) == /\ Kept \subseteq DOMAIN q
               /\ q.lost \subseteq 0 .. CallersSkip(j)
               /\ q.role = "main" <=> j = 1

Keeps(q, r) == /\ Kept \subseteq DOMAIN q
               /\ q.lost = r.lost /\ q.role = r.role

\* While the statement is read: the queries are nested no deeper than names
\* were read, and there is a bracket ahead for each but the outermost.
Nested ==
  /\ \E S : queries \in Seq(S)
  /\ Depth <= names + 1
  /\ \A j \in 1 .. Depth : Frame(queries[j], j)

Inside == ok = TRUE /\ left \in Int /\ left - Depth \in 0 .. MaxExtra

Inv == names \in 0 .. MaxNames /\ (queries # <<>> => Nested /\ Inside)

-----------------------------------------------------------------------------
(* What a step does to the stack.  The parser reads on in the same query,  *)
(* goes into one in brackets, returns from it, or returns from all: at an  *)
(* error, or at the `;`.                                                   *)

Stays ==
  /\ queries # <<>> /\ names' \in names .. MaxNames
  /\ \E q : Keeps(q, Q) /\ queries' = [queries EXCEPT ![Depth] = q]
  /\ left' = left /\ ok' = ok

Goes ==
  /\ queries # <<>> /\ names' \in names + 1 .. MaxNames
  /\ \E q, r : /\ Keeps(q, Q)
               /\ Frame(r, Depth + 1)
               /\ queries' = Append([queries EXCEPT ![Depth] = q], r)
  /\ left' = left + 1 /\ ok' = ok

Returns ==
  /\ queries # <<>> /\ Depth > 1 /\ names' = names
  /\ \E q : Keeps(q, Inner) /\ queries' = [Outside EXCEPT ![Depth - 1] = q]
  /\ left' = left - 1 /\ ok' = ok

\* Where an error can be noticed, behind the skips of the query's own parsers.
Noticed == left - MaxSkips - 4 .. left + MaxOpen + 1

EndsBadly ==
  /\ queries # <<>> /\ names' \in names .. MaxNames
  /\ \E l \in Noticed : EndsAt(l)

EndsWell ==
  /\ queries # <<>> /\ names' = names
  /\ queries' = <<>> /\ left' = 0 /\ ok' = ok

StackStep == Stays \/ Goes \/ Returns \/ EndsBadly \/ EndsWell \/ Ended

-----------------------------------------------------------------------------
(* Arithmetic. *)

LEMMA Bounds ==
  /\ LevelSkips \in Nat /\ MaxSkips \in Nat /\ MaxNames \in Nat /\ MaxOpen \in Nat
  /\ MaxExtra \in Nat
  /\ \A r \in Recoveries : r \in 1 .. MaxSkips
BY SelectAssumption DEF LevelSkips

LEMMA DeeperSkips ==
  ASSUME NEW j \in Nat \ {0}
  PROVE  /\ CallersSkip(j) \in Nat
         /\ CallersSkip(j + 1) = CallersSkip(j) + LevelSkips
         /\ \A n \in Nat : j <= n + 1 => CallersSkip(j) <= n * LevelSkips
<1> DEFINE K == LevelSkips
<1>0. K \in Nat
  BY Bounds
<1>1. CallersSkip(j) = (j - 1) * K
  BY DEF CallersSkip
<1>2. (j - 1) * K \in Nat
  BY <1>0
<1>3. CallersSkip(j + 1) = (j - 1) * K + K
  <2>1. (j + 1) - 1 = (j - 1) + 1
    OBVIOUS
  <2>2. ((j - 1) + 1) * K = (j - 1) * K + K
    BY <1>0
  <2> QED
    BY <2>1, <2>2 DEF CallersSkip
<1>4. ASSUME NEW n \in Nat, j <= n + 1
      PROVE  (j - 1) * K <= n * K
  <2> DEFINE d == n - (j - 1)
  <2>1. d \in Nat /\ n = (j - 1) + d
    BY <1>4
  <2>2. d * K \in Nat
    BY <1>0, <2>1
  <2>3. n * K = (j - 1) * K + d * K
    BY <1>0, <2>1
  <2> QED
    BY <1>2, <2>2, <2>3
<1> QED
  BY <1>1, <1>2, <1>3, <1>4

-----------------------------------------------------------------------------
(* Ways of reading, as steps of the stack. *)

LEMMA Top ==
  ASSUME Inv, queries # <<>>
  PROVE  /\ Depth \in Nat \ {0}
         /\ Frame(Q, Depth)
         /\ names \in Nat /\ left \in Int /\ ok = TRUE
<1>1. PICK S : queries \in Seq(S)
  BY DEF Inv, Nested
<1>2. Depth \in Nat \ {0}
  BY <1>1 DEF Depth
<1> QED
  BY <1>2 DEF Inv, Nested, Inside, Q

LEMMA ReadsStays ==
  ASSUME Inv, queries # <<>>, NEW q, Keeps(q, Q), Reads(q, left), names' \in names .. MaxNames
  PROVE  Stays
BY DEF Stays, Reads

LEMMA EntersGoes ==
  ASSUME Inv, queries # <<>>, Names(1),
         NEW q, Keeps(q, Q), NEW role, role # "main", NEW name, NEW outer,
         NEW skips, skips \subseteq 0 .. LevelSkips, Enters(q, role, name, outer, skips)
  PROVE  Goes
<1> DEFINE lost == {k + n : k \in Q.lost, n \in skips}
           r == NewQuery(role, name, outer, lost)
<1>1. Depth \in Nat \ {0} /\ Q.lost \subseteq 0 .. CallersSkip(Depth)
  BY Top DEF Frame
<1>2. lost \subseteq 0 .. CallersSkip(Depth + 1)
  <2>1. /\ CallersSkip(Depth) \in Nat /\ LevelSkips \in Nat
        /\ CallersSkip(Depth + 1) = CallersSkip(Depth) + LevelSkips
    BY <1>1, DeeperSkips, Bounds
  <2>2. \A k \in 0 .. CallersSkip(Depth), n \in 0 .. LevelSkips : k + n \in 0 .. CallersSkip(Depth + 1)
    BY <2>1
  <2> QED
    BY <1>1, <2>2
<1>3. Kept \subseteq DOMAIN r /\ r.role = role /\ r.lost = lost
  BY DEF NewQuery, Kept
<1> HIDE DEF r, lost
<1>4. Frame(r, Depth + 1)
  <2>1. Depth + 1 # 1
    BY <1>1
  <2> QED
    BY <1>2, <1>3, <2>1, Zenon DEF Frame
<1>5. queries' = Append([queries EXCEPT ![Depth] = q], r) /\ left' = left + 1 /\ ok' = ok
  BY DEF Enters, r, lost
<1>6. names' \in names + 1 .. MaxNames
  BY Top, Bounds DEF Names
<1> QED
  BY <1>4, <1>5, <1>6 DEF Goes

LEMMA ErrorEndsBadly ==
  ASSUME Inv, queries # <<>>, NEW l \in Noticed, EndsAt(l), names' \in names .. MaxNames
  PROVE  EndsBadly
BY DEF EndsBadly

\* The places at which errors are noticed.
LEMMA NoticedPlaces ==
  ASSUME Inv, queries # <<>>
  PROVE  /\ {left, left - 1, left - 2, left - 3, left - 4} \subseteq Noticed
         /\ \A l \in Unexpected : {l, l - 1, l - 2} \subseteq Noticed
         /\ \A l \in Unparsed, n \in 0 .. 4 : l - n \in Noticed
<1>1. left \in Int
  BY Top
<1>2. ASSUME NEW l \in Unparsed, NEW n \in 0 .. 4 PROVE l - n \in Noticed
  <2>1. PICK d \in 0 .. MaxOpen, k \in Recoveries : l = left + d - k
    BY <1>2 DEF Unparsed
  <2>2. k \in 1 .. MaxSkips
    BY <2>1, Bounds
  <2> QED
    BY <1>1, <2>1, <2>2, Bounds DEF Noticed
<1> QED
  BY <1>1, <1>2, Bounds DEF Noticed, Unexpected

LEMMA BindsKeeps ==
  ASSUME NEW p, NEW q, Keeps(p, q), NEW alias, NEW row, NEW sqlRow
  PROVE  Keeps(Binds(p, alias, row, sqlRow), q)
BY DEF Binds, Keeps, Kept

LEMMA NamesStay == ASSUME Inv, UNCHANGED names PROVE names' \in names .. MaxNames
BY Bounds DEF Inv

LEMMA NamesGrow == ASSUME Inv, Names(1) PROVE names' \in names .. MaxNames
BY Bounds DEF Inv, Names

-----------------------------------------------------------------------------
(* The actions. *)

LEMMA WithStep ==
  ASSUME Inv, queries # <<>>
  PROVE  /\ \A n \in Aliases : Cte(n) => StackStep
         /\ BadCte => StackStep
         /\ AfterCte => StackStep
<1>1. Kept \subseteq DOMAIN Q
  BY Top DEF Frame
<1>2. ASSUME NEW n \in Aliases, Cte(n) PROVE StackStep
  <2>1. CASE EndsAt(left)
    BY <1>2, <2>1, NamesGrow, NoticedPlaces, ErrorEndsBadly DEF Cte, StackStep
  <2>2. CASE Enters([Q EXCEPT !.at = "ctes"], "cte", n, Nothing, {1})
    <3>1. Keeps([Q EXCEPT !.at = "ctes"], Q)
      BY <1>1 DEF Keeps, Kept
    <3>2. {1} \subseteq 0 .. LevelSkips
      BY Bounds DEF LevelSkips
    <3> QED
      BY <1>2, <2>2, <3>1, <3>2, EntersGoes DEF Cte, StackStep
  <2> QED
    BY <1>2, <2>1, <2>2 DEF Cte
<1>3. ASSUME BadCte PROVE StackStep
  <2>1. PICK l \in Noticed : EndsAt(l)
    <3>1. (left + 1) - 1 = left
      BY Top
    <3>2. {left, left - 1} \subseteq Noticed
      BY NoticedPlaces
    <3>3. \A l \in Unexpected : l - 1 \in Noticed
      BY NoticedPlaces
    <3> QED
      BY <1>3, <3>1, <3>2, <3>3 DEF BadCte, SkipsFrom
  <2> QED
    BY <1>3, <2>1, NamesStay, ErrorEndsBadly DEF BadCte, StackStep
<1>4. ASSUME AfterCte PROVE StackStep
  <2>1. CASE SkipsFrom(left)
    BY <1>4, <2>1, NamesStay, NoticedPlaces, ErrorEndsBadly DEF AfterCte, SkipsFrom, StackStep
  <2>2. CASE Peeks("cte")
    <3>1. Keeps([Q EXCEPT !.at = "cte"], Q)
      BY <1>1 DEF Keeps, Kept
    <3> QED
      BY <1>4, <2>2, <3>1, NamesStay, ReadsStays DEF AfterCte, Peeks, StackStep
  <2>3. CASE Reads([Q EXCEPT !.at = "list", !.scope = MergeScope(Q.ctes, Q.outer)], left)
    <3>1. Keeps([Q EXCEPT !.at = "list", !.scope = MergeScope(Q.ctes, Q.outer)], Q)
      BY <1>1 DEF Keeps, Kept
    <3> QED
      BY <1>4, <2>3, <3>1, NamesStay, ReadsStays DEF AfterCte, StackStep
  <2> QED
    BY <1>4, <2>1, <2>2, <2>3 DEF AfterCte
<1> QED
  BY <1>2, <1>3, <1>4

LEMMA ListStep ==
  ASSUME Inv, queries # <<>>
  PROVE  /\ \A it \in Items : ListItem(it) => StackStep
         /\ \A label \in Labels : ListQuery(label) => StackStep
         /\ BadItem => StackStep
         /\ From => StackStep
         /\ NoFrom => StackStep
<1>1. Kept \subseteq DOMAIN Q
  BY Top DEF Frame
<1>2. {left, left - 1} \subseteq Noticed
  BY NoticedPlaces
<1>3. ASSUME NEW it \in Items, ListItem(it) PROVE StackStep
  <2> DEFINE q == [Q EXCEPT !.items = Append(@, it), !.at = "item"]
  <2>1. Keeps(q, Q)
    BY <1>1 DEF Keeps, Kept
  <2>2. Reads(q, left) /\ Names(1)
    BY <1>3 DEF ListItem
  <2> HIDE DEF q
  <2> QED
    BY <2>1, <2>2, NamesGrow, ReadsStays DEF StackStep
<1>4. ASSUME NEW label \in Labels, ListQuery(label) PROVE StackStep
  <2> DEFINE q == [Q EXCEPT !.items = Append(@, Item("made", <<>>, label)), !.at = "item"]
  <2>1. Keeps(q, Q)
    BY <1>1 DEF Keeps, Kept
  <2>2. PICK r \in Recoveries : Enters(q, "sub", Null, Q.scope, {r + 2})
    BY <1>4 DEF ListQuery
  <2>3. {r + 2} \subseteq 0 .. LevelSkips
    BY Bounds DEF LevelSkips
  <2>4. Names(1)
    BY <1>4 DEF ListQuery
  <2> HIDE DEF q
  <2> QED
    BY <2>1, <2>2, <2>3, <2>4, EntersGoes DEF StackStep
<1>5. ASSUME BadItem PROVE StackStep
  <2>1. PICK l \in Unparsed : EndsAt(l - 1)
    BY <1>5 DEF BadItem, SkipsFrom
  <2>2. l - 1 \in Noticed
    BY NoticedPlaces
  <2> QED
    BY <1>5, <2>1, <2>2, NamesStay, ErrorEndsBadly DEF BadItem, StackStep
<1>6. ASSUME From PROVE StackStep
  <2>1. Keeps([Q EXCEPT !.at = "table", !.scope = Q.ctes], Q)
    BY <1>1 DEF Keeps, Kept
  <2>2. EndsAt(left) \/ Reads([Q EXCEPT !.at = "table", !.scope = Q.ctes], left)
    BY <1>6 DEF From
  <2> QED
    BY <1>2, <1>6, <2>1, <2>2, NamesStay, ReadsStays, ErrorEndsBadly DEF From, StackStep
<1>7. ASSUME NoFrom PROVE StackStep
  <2> DEFINE q == [Q EXCEPT !.at = "resolve", !.ctes = Nothing, !.scope = Q.outer, !.clause = 6]
  <2>1. Keeps(q, Q)
    BY <1>1 DEF Keeps, Kept
  <2>2. EndsAt(left) \/ EndsAt(left - 1) \/ Reads(q, left)
    BY <1>7 DEF NoFrom, SkipsFrom
  <2> HIDE DEF q
  <2> QED
    BY <1>2, <1>7, <2>1, <2>2, NamesStay, ReadsStays, ErrorEndsBadly DEF NoFrom, StackStep
<1> QED
  BY <1>3, <1>4, <1>5, <1>6, <1>7

LEMMA FromStep ==
  ASSUME Inv, queries # <<>>
  PROVE  /\ \A n \in SetNames, qualified \in BOOLEAN, on \in BOOLEAN : \A label \in (Aliases \ {n}) \cup {Null} :
              FromTable(n, qualified, label, on) => StackStep
         /\ \A on \in BOOLEAN : FromQuery(on) => StackStep
         /\ BadTable => StackStep
         /\ \A l, r \in References : On(l, r) => StackStep
         /\ BadOn => StackStep
         /\ EndOfFrom => StackStep
<1>1. Kept \subseteq DOMAIN Q
  BY Top DEF Frame
<1>2. left \in Noticed
  BY NoticedPlaces
<1>3. ASSUME NEW n \in SetNames, NEW qualified \in BOOLEAN, NEW label \in (Aliases \ {n}) \cup {Null},
             NEW on \in BOOLEAN, FromTable(n, qualified, label, on)
      PROVE  StackStep
  <2> DEFINE alias == IF label = Null THEN n ELSE label
             row == TableNamed(n, qualified)
             q == Binds([Q EXCEPT !.on = on], alias, row, SqlTableNamed(n, qualified))
  <2>1. Keeps([Q EXCEPT !.on = on], Q)
    BY <1>1 DEF Keeps, Kept
  <2>2. Keeps(q, Q)
    <3> HIDE DEF alias, row
    <3> QED
      BY <2>1, BindsKeeps
  <2>3. Names(1) /\ (EndsAt(left) \/ Reads(q, left))
    BY <1>3 DEF FromTable
  <2> HIDE DEF q
  <2> QED
    BY <1>2, <2>2, <2>3, NamesGrow, ReadsStays, ErrorEndsBadly DEF StackStep
<1>4. ASSUME NEW on \in BOOLEAN, FromQuery(on) PROVE StackStep
  <2>1. Keeps([Q EXCEPT !.on = on], Q)
    BY <1>1 DEF Keeps, Kept
  <2>2. {0} \subseteq 0 .. LevelSkips
    BY Bounds
  <2> QED
    BY <1>4, <2>1, <2>2, EntersGoes DEF FromQuery, StackStep
<1>5. ASSUME BadTable PROVE StackStep
  <2>1. PICK l \in Unexpected : EndsAt(l)
    BY <1>5 DEF BadTable
  <2>2. l \in Noticed
    BY NoticedPlaces
  <2> QED
    BY <1>5, <2>1, <2>2, NamesStay, ErrorEndsBadly DEF BadTable, StackStep
<1>6. ASSUME NEW l \in References, NEW r \in References, On(l, r) PROVE StackStep
  <2>1. Keeps([Q EXCEPT !.at = "join"], Q)
    BY <1>1 DEF Keeps, Kept
  <2>2. Names(1) /\ (EndsAt(left) \/ Reads([Q EXCEPT !.at = "join"], left))
    BY <1>6 DEF On, Peeks
  <2> QED
    BY <1>2, <2>1, <2>2, NamesGrow, ReadsStays, ErrorEndsBadly DEF StackStep
<1>7. ASSUME BadOn PROVE StackStep
  BY <1>2, <1>7, NamesStay, ErrorEndsBadly DEF BadOn, StackStep
<1>8. ASSUME EndOfFrom PROVE StackStep
  <2> DEFINE q == [Q EXCEPT !.at = IF Q.items = <<>> THEN "clauses" ELSE "resolve",
                            !.scope = MergeScope(Q.scope, Q.outer)]
  <2>1. Keeps(q, Q)
    BY <1>1 DEF Keeps, Kept
  <2>2. Reads(q, left)
    BY <1>8 DEF EndOfFrom
  <2> HIDE DEF q
  <2> QED
    BY <1>8, <2>1, <2>2, NamesStay, ReadsStays DEF EndOfFrom, StackStep
<1> QED
  BY <1>3, <1>4, <1>5, <1>6, <1>7, <1>8

LEMMA ResolveStep ==
  ASSUME Inv, queries # <<>>
  PROVE  /\ ResolveItem => StackStep
         /\ BadResolve => StackStep
<1>1. Kept \subseteq DOMAIN Q
  BY Top DEF Frame
<1>2. left \in Noticed
  BY NoticedPlaces
<1>3. ASSUME ResolveItem PROVE StackStep
  <2> DEFINE adds == Adds(Q.items[Q.done + 1])
             q == [Q EXCEPT !.row  = MergeScope(adds, @),
                            !.done = @ + 1,
                            !.at   = IF Q.done + 1 = Len(Q.items) THEN "clauses" ELSE "resolve"]
  <2>1. Keeps(q, Q)
    <3> HIDE DEF adds
    <3> QED
      BY <1>1 DEF Keeps, Kept
  <2>2. EndsAt(left) \/ Reads(q, left)
    BY <1>3 DEF ResolveItem, Resolves
  <2> HIDE DEF q
  <2> QED
    BY <1>2, <1>3, <2>1, <2>2, NamesStay, ReadsStays, ErrorEndsBadly DEF ResolveItem, StackStep
<1>4. ASSUME BadResolve PROVE StackStep
  BY <1>2, <1>4, NamesStay, ErrorEndsBadly DEF BadResolve, StackStep
<1> QED
  BY <1>3, <1>4

LEMMA ClauseStep ==
  ASSUME Inv, queries # <<>>
  PROVE  /\ \A cl \in Clauses, r \in References : Term(cl, r) => StackStep
         /\ \A cl \in Clauses : TermQuery(cl) => StackStep
         /\ \A cl \in Clauses : BadTerm(cl) => StackStep
         /\ BadClause => StackStep
         /\ GroupedProjection => StackStep
<1>1. Kept \subseteq DOMAIN Q
  BY Top DEF Frame
<1>2. {left, left - 1, left - 2, left - 3, left - 4} \subseteq Noticed
  BY NoticedPlaces
<1>3. ASSUME NEW cl \in Clauses
      PROVE  /\ Skips(cl) \in 0 .. 4
             /\ left - Skips(cl) \in Noticed
             /\ Keeps(WithClause(Q, cl), Q)
  <2>1. Skips(cl) \in {0, 1, 3, 4}
    BY <1>3 DEF Clauses, Skips
  <2>2. left - Skips(cl) \in {left, left - 1, left - 3, left - 4}
    BY <2>1, Top
  <2>3. Keeps(WithClause(Q, cl), Q)
    BY <1>1 DEF WithClause, Keeps, Kept
  <2> QED
    BY <1>2, <2>1, <2>2, <2>3
<1>4. ASSUME NEW cl \in Clauses, NEW r \in References, Term(cl, r) PROVE StackStep
  <2> DEFINE q == [WithClause(Q, cl) EXCEPT !.keys = IF cl = "group" THEN @ \cup {r} ELSE @]
  <2>1. Keeps(q, Q)
    BY <1>3 DEF Keeps, Kept
  <2>2. Names(1) /\ (EndsAt(left - Skips(cl)) \/ Reads(q, left))
    BY <1>4 DEF Term
  <2> HIDE DEF q
  <2> QED
    BY <1>3, <2>1, <2>2, NamesGrow, ReadsStays, ErrorEndsBadly DEF StackStep
<1>5. ASSUME NEW cl \in Clauses, TermQuery(cl) PROVE StackStep
  <2>1. PICK r \in Recoveries : Enters(WithClause(Q, cl), "sub", Null, Q.scope, {1 + r + Skips(cl)})
    BY <1>5 DEF TermQuery
  <2>2. {1 + r + Skips(cl)} \subseteq 0 .. LevelSkips
    BY <1>3, Bounds DEF LevelSkips
  <2> QED
    BY <1>3, <1>5, <2>1, <2>2, EntersGoes DEF TermQuery, StackStep
<1>6. ASSUME NEW cl \in Clauses, BadTerm(cl) PROVE StackStep
  <2>1. PICK l \in Unparsed \cup {left} : EndsAt(l - Skips(cl))
    BY <1>6 DEF BadTerm
  <2>2. l - Skips(cl) \in Noticed
    BY <1>3, <2>1, NoticedPlaces
  <2> QED
    BY <1>6, <2>1, <2>2, NamesStay, ErrorEndsBadly DEF BadTerm, StackStep
<1>7. ASSUME BadClause PROVE StackStep
  <2>1. PICK l \in Noticed : EndsAt(l)
    <3>1. \A l \in Unexpected : l - 2 \in Noticed
      BY NoticedPlaces
    <3> QED
      BY <1>2, <1>7, <3>1 DEF BadClause
  <2> QED
    BY <1>7, <2>1, NamesStay, ErrorEndsBadly DEF BadClause, StackStep
<1>8. ASSUME GroupedProjection PROVE StackStep
  <2>1. Keeps([Q EXCEPT !.at = "tail", !.keys = {}], Q)
    BY <1>1 DEF Keeps, Kept
  <2>2. EndsAt(left) \/ Reads([Q EXCEPT !.at = "tail", !.keys = {}], left)
    BY <1>8 DEF GroupedProjection
  <2> QED
    BY <1>2, <1>8, <2>1, <2>2, NamesStay, ReadsStays, ErrorEndsBadly DEF GroupedProjection, StackStep
<1> QED
  BY <1>4, <1>5, <1>6, <1>7, <1>8

LEMMA EndStep ==
  ASSUME Inv, queries # <<>>
  PROVE  /\ CloseCte => StackStep
         /\ \A n \in Aliases : CloseDerived(n) => StackStep
         /\ CloseSub => StackStep
         /\ Finish => StackStep
<1>1. {left, left - 1, left - 2} \subseteq Noticed
  BY NoticedPlaces
<1>2. ASSUME Q.role # "main" PROVE Depth > 1 /\ Kept \subseteq DOMAIN Inner
  <2>1. Depth \in Nat \ {0} /\ Frame(Q, Depth)
    BY Top
  <2>2. Depth > 1
    BY <1>2, <2>1 DEF Frame
  <2>3. Depth - 1 \in 1 .. Depth
    BY <2>1, <2>2
  <2> QED
    BY <2>2, <2>3 DEF Inv, Nested, Frame, Inner
<1>3. ASSUME CloseCte PROVE StackStep
  <2> DEFINE q == [Inner EXCEPT !.ctes = MergeScope(Only(Q.name, Q.row), @)]
  <2>1. Q.role # "main" /\ UNCHANGED names
    BY <1>3 DEF CloseCte, Ends
  <2>2. Keeps(q, Inner)
    BY <1>2, <2>1 DEF Keeps, Kept
  <2>3. EndsAt(left) \/ Closes(q)
    BY <1>3 DEF CloseCte
  <2> HIDE DEF q
  <2>4. CASE Closes(q)
    BY <1>2, <2>1, <2>2, <2>4 DEF Closes, Returns, StackStep
  <2> QED
    BY <1>1, <2>1, <2>3, <2>4, NamesStay, ErrorEndsBadly DEF StackStep
<1>4. ASSUME NEW n \in Aliases, CloseDerived(n) PROVE StackStep
  <2> DEFINE q == Binds(Inner, n, Q.row, Q.row)
  <2>1. Q.role # "main" /\ UNCHANGED names
    BY <1>4 DEF CloseDerived
  <2>2. Keeps(q, Inner)
    <3>1. Keeps(Inner, Inner)
      BY <1>2, <2>1 DEF Keeps
    <3> QED
      BY <3>1, BindsKeeps
  <2>3. \/ /\ left' = left - 1 /\ ok' = ok
           /\ queries' = [Outside EXCEPT ![Depth - 1] = q]
        \/ \E l \in {left - 1} \cup {left, left - 2} : EndsAt(l)
    BY <1>4 DEF CloseDerived
  <2> HIDE DEF q
  <2>4. CASE left' = left - 1 /\ ok' = ok /\ queries' = [Outside EXCEPT ![Depth - 1] = q]
    BY <1>2, <2>1, <2>2, <2>4 DEF Returns, StackStep
  <2> QED
    BY <1>1, <2>1, <2>3, <2>4, NamesStay, ErrorEndsBadly DEF StackStep
<1>5. ASSUME CloseSub PROVE StackStep
  <2>1. Q.role # "main" /\ UNCHANGED names
    BY <1>5 DEF CloseSub, Ends
  <2>2. Keeps(Inner, Inner)
    BY <1>2, <2>1 DEF Keeps
  <2>3. CASE Closes(Inner)
    BY <1>2, <2>1, <2>2, <2>3 DEF Closes, Returns, StackStep
  <2> QED
    BY <1>1, <1>5, <2>1, <2>3, NamesStay, ErrorEndsBadly DEF CloseSub, StackStep
<1>6. ASSUME Finish PROVE StackStep
  BY <1>1, <1>6, NamesStay, ErrorEndsBadly DEF Finish, Ends, SkipsFrom, EndsWell, StackStep
<1> QED
  BY <1>3, <1>4, <1>5, <1>6

LEMMA NextStackStep == Inv /\ Next => StackStep
<1> SUFFICES ASSUME Inv, Next PROVE StackStep
  OBVIOUS
<1>1. CASE queries = <<>>
  BY <1>1 DEF Next, StackStep, At, Ended, InWith, InList, Ends, MayRead, ReadsTable,
     Cte, BadCte, AfterCte, ListItem, ListQuery, BadItem, From, NoFrom, FromTable, FromQuery,
     BadTable, On, BadOn, EndOfFrom, ResolveItem, BadResolve, Term, TermQuery, BadTerm,
     BadClause, GroupedProjection, CloseCte, CloseDerived, CloseSub, Finish
<1>2. CASE queries # <<>>
  <2>1. \A cl \in Clauses : TermQuery(cl) \/ BadTerm(cl) \/ (\E r \in References : Term(cl, r)) => StackStep
    BY <1>2, ClauseStep
  <2>2. (\E l, r \in {r \in References : Len(r) = 2} : On(l, r)) => StackStep
    BY <1>2, FromStep
  <2>3. \A on \in BOOLEAN :
          FromQuery(on) \/ (\E n \in SetNames, qualified \in BOOLEAN : \E label \in (Aliases \ {n}) \cup {Null} :
                              FromTable(n, qualified, label, on)) => StackStep
    BY <1>2, FromStep
  <2> QED
    BY <1>2, <2>1, <2>2, <2>3, WithStep, ListStep, FromStep, ResolveStep, ClauseStep, EndStep
       DEF Next, StackStep
<1> QED
  BY <1>1, <1>2

-----------------------------------------------------------------------------
(* The invariant. *)

LEMMA Replaced ==
  ASSUME NEW S, NEW s \in Seq(S), NEW i \in 1 .. Len(s), NEW q
  PROVE  /\ [s EXCEPT ![i] = q] \in Seq(S \cup {q})
         /\ Len([s EXCEPT ![i] = q]) = Len(s)
         /\ [s EXCEPT ![i] = q][i] = q
         /\ \A j \in 1 .. Len(s) : j # i => [s EXCEPT ![i] = q][j] = s[j]
<1>1. s \in Seq(S \cup {q})
  OBVIOUS
<1> QED
  BY <1>1

\* The queries of another stack in which those below the top are the same.
LEMMA FramesReplaced ==
  ASSUME Nested, queries # <<>>, NEW i \in 1 .. Depth, NEW q, Keeps(q, queries[i])
  PROVE  /\ \E S : [queries EXCEPT ![i] = q] \in Seq(S)
         /\ Len([queries EXCEPT ![i] = q]) = Depth
         /\ \A j \in 1 .. Depth : Frame([queries EXCEPT ![i] = q][j], j)
<1>1. PICK S : queries \in Seq(S)
  BY DEF Nested
<1> DEFINE t == [queries EXCEPT ![i] = q]
<1>2. /\ t \in Seq(S \cup {q}) /\ Len(t) = Depth
      /\ t[i] = q
      /\ \A j \in 1 .. Depth : j # i => t[j] = queries[j]
  BY <1>1, Replaced DEF Depth
<1>3. Frame(q, i)
  BY DEF Nested, Frame, Keeps
<1>4. \A j \in 1 .. Depth : Frame(t[j], j)
  <2> HIDE DEF t
  <2> QED
    BY <1>2, <1>3 DEF Nested
<1> QED
  BY <1>2, <1>4

LEMMA NamesSuffice ==
  ASSUME NEW d \in Nat, NEW n \in Nat, NEW m \in Nat, d <= n + 1
  PROVE  /\ n <= m => d <= m + 1
         /\ n + 1 <= m => d + 1 <= m + 1
OBVIOUS

LEMMA StackStepKeeps ==
  ASSUME Inv, StackStep
  PROVE  Inv'
<1>1. names' \in 0 .. MaxNames
  BY Bounds DEF Inv, StackStep, Stays, Goes, Returns, EndsBadly, EndsWell, Ended, vars
<1>2. CASE Stays
  <2>1. Depth \in Nat \ {0} /\ queries # <<>> /\ Nested /\ Inside
    BY <1>2, Top DEF Stays, Inv
  <2>2. PICK q : Keeps(q, Q) /\ queries' = [queries EXCEPT ![Depth] = q]
    BY <1>2 DEF Stays
  <2>3. /\ \E S : queries' \in Seq(S)
        /\ Depth' = Depth
        /\ \A j \in 1 .. Depth : Frame(queries'[j], j)
    <3>1. Depth \in 1 .. Depth /\ Keeps(q, queries[Depth])
      BY <2>1, <2>2 DEF Q
    <3>2. Len(queries') = Depth
      BY <2>1, <2>2, <3>1, FramesReplaced
    <3> QED
      BY <2>1, <2>2, <3>1, <3>2, FramesReplaced DEF Depth
  <2>4. Nested'
    <3>1. names \in Nat /\ names' \in Nat /\ names <= names'
      BY <1>1, <1>2, Top, Bounds DEF Stays
    <3>2. Depth <= names + 1
      BY <2>1 DEF Nested
    <3>3. Depth' = Depth /\ Depth \in Nat
      BY <2>1, <2>3
    <3>4. Depth' <= names' + 1
      BY <3>1, <3>2, <3>3, NamesSuffice
    <3> QED
      BY <2>3, <3>4 DEF Nested
  <2>5. Inside'
    BY <1>2, <2>1, <2>3 DEF Inside, Stays
  <2> QED
    BY <1>1, <2>4, <2>5 DEF Inv
<1>3. CASE Goes
  <2>1. Depth \in Nat \ {0} /\ queries # <<>> /\ Nested /\ Inside
    BY <1>3, Top DEF Goes, Inv
  <2>2. PICK q, r : /\ Keeps(q, Q) /\ Frame(r, Depth + 1)
                    /\ queries' = Append([queries EXCEPT ![Depth] = q], r)
    BY <1>3 DEF Goes
  <2> DEFINE t == [queries EXCEPT ![Depth] = q]
  <2>3. /\ \E S : t \in Seq(S)
        /\ Len(t) = Depth
        /\ \A j \in 1 .. Depth : Frame(t[j], j)
    <3>1. Depth \in 1 .. Depth /\ Keeps(q, queries[Depth])
      BY <2>1, <2>2 DEF Q
    <3> QED
      BY <2>1, <3>1, FramesReplaced
  <2> HIDE DEF t
  <2>4. PICK S : t \in Seq(S)
    BY <2>3
  <2>5. /\ queries' \in Seq(S \cup {r})
        /\ Len(queries') = Depth + 1
        /\ queries'[Depth + 1] = r
        /\ \A j \in 1 .. Depth : queries'[j] = t[j]
    <3>1. t \in Seq(S \cup {r}) /\ queries' = Append(t, r)
      BY <2>2, <2>4 DEF t
    <3> QED
      BY <2>1, <2>3, <3>1, AppendProperties
  <2>6. \A j \in 1 .. Depth + 1 : Frame(queries'[j], j)
    BY <2>1, <2>2, <2>3, <2>5
  <2>7. Nested'
    <3>1. names \in Nat /\ names' \in Nat /\ names + 1 <= names'
      BY <1>1, <1>3, Top, Bounds DEF Goes
    <3>2. Depth' = Depth + 1
      BY <2>5 DEF Depth
    <3>3. Depth <= names + 1
      BY <2>1 DEF Nested
    <3>4. Depth' <= names' + 1
      <4>1. Depth \in Nat
        BY <2>1
      <4> QED
        BY <3>1, <3>2, <3>3, <4>1, NamesSuffice
    <3>5. \A j \in 1 .. Depth' : Frame(queries'[j], j)
      BY <2>6, <3>2
    <3> QED
      BY <2>5, <3>4, <3>5 DEF Nested
  <2>8. Inside'
    BY <1>3, <2>1, <2>5 DEF Inside, Goes, Depth
  <2> QED
    BY <1>1, <2>7, <2>8 DEF Inv
<1>4. CASE Returns
  <2>1. Depth \in Nat \ {0} /\ queries # <<>> /\ Nested /\ Inside
    BY <1>4, Top DEF Returns, Inv
  <2>2. PICK q : Keeps(q, Inner) /\ queries' = [Outside EXCEPT ![Depth - 1] = q]
    BY <1>4 DEF Returns
  <2>3. PICK S : queries \in Seq(S)
    BY <2>1 DEF Nested
  <2>4. Depth - 1 \in 1 .. Depth /\ Depth > 1
    BY <1>4, <2>1 DEF Returns
  <2>5. /\ Outside \in Seq(S)
        /\ Len(Outside) = Depth - 1
        /\ \A j \in 1 .. Depth - 1 : Outside[j] = queries[j]
    BY <2>3, <2>4 DEF Outside, Depth
  <2>6. /\ queries' \in Seq(S \cup {q})
        /\ Len(queries') = Depth - 1
        /\ queries'[Depth - 1] = q
        /\ \A j \in 1 .. Depth - 1 : j # Depth - 1 => queries'[j] = queries[j]
    BY <2>2, <2>4, <2>5, Replaced
  <2>7. \A j \in 1 .. Depth - 1 : Frame(queries'[j], j)
    <3>1. Frame(q, Depth - 1)
      BY <2>1, <2>2, <2>4 DEF Nested, Frame, Keeps, Inner
    <3> QED
      BY <2>1, <2>4, <2>6, <3>1 DEF Nested
  <2>8. Nested'
    <3>1. names \in Nat /\ names' = names
      BY <1>4, Top DEF Returns
    <3>2. Depth' = Depth - 1
      BY <2>6 DEF Depth
    <3> QED
      BY <2>1, <2>6, <2>7, <3>1, <3>2 DEF Nested
  <2>9. Inside'
    BY <1>4, <2>1, <2>6 DEF Inside, Returns, Depth
  <2> QED
    BY <1>1, <2>8, <2>9 DEF Inv
<1>5. CASE EndsBadly \/ EndsWell
  BY <1>1, <1>5 DEF EndsBadly, EndsWell, EndsAt, Inv
<1>6. CASE Ended
  BY <1>1, <1>6 DEF Ended, vars, Inv
<1> QED
  BY <1>2, <1>3, <1>4, <1>5, <1>6 DEF StackStep

LEMMA InitInv == Init => Inv
<1> SUFFICES ASSUME Init PROVE Inv
  OBVIOUS
<1> DEFINE q == NewQuery("main", Null, Nothing, {0})
<1>1. Kept \subseteq DOMAIN q /\ q.role = "main" /\ q.lost = {0}
  BY DEF NewQuery, Kept
<1> HIDE DEF q
<1>2. queries = <<q>>
  BY DEF Init, q
<1>3. queries \in Seq({q}) /\ Depth = 1 /\ queries[1] = q
  BY <1>2 DEF Depth
<1>4. Frame(q, 1)
  BY <1>1, Bounds DEF Frame, CallersSkip
<1>5. Nested
  <2>1. names = 0
    BY DEF Init
  <2>2. \A j \in 1 .. Depth : Frame(queries[j], j)
    BY <1>3, <1>4
  <2> QED
    BY <1>3, <2>1, <2>2 DEF Nested
<1>6. Inside
  BY <1>3, Bounds DEF Init, Inside
<1> QED
  BY <1>5, <1>6, Bounds DEF Init, Inv

LEMMA Invariant == Spec => []Inv
<1>1. Inv /\ [Next]_vars => Inv'
  <2> SUFFICES ASSUME Inv, [Next]_vars PROVE Inv'
    OBVIOUS
  <2>1. CASE Next
    BY <2>1, NextStackStep, StackStepKeeps
  <2>2. CASE UNCHANGED vars
    BY <2>2 DEF vars, Inv, Nested, Inside, Depth
  <2> QED
    BY <2>1, <2>2
<1> QED
  BY <1>1, InitInv, PTL DEF Spec

-----------------------------------------------------------------------------
(* The walk sees a query. *)

LEMMA InitIsOfTheWalk == Init => D!Init
<1> SUFFICES ASSUME Init PROVE D!Init
  OBVIOUS
<1>1. queries # <<>>
  BY DEF Init
<1>2. WalkAt = "statement" /\ WalkPos = "boundary" /\ WalkRest = 0 /\ StatementsRead = 0
  BY <1>1 DEF WalkAt, WalkPos, WalkRest, StatementsRead, Returned
<1>3. (CHOOSE st \in SchemaNames \X SetNames : TRUE) \in SchemaNames \X SetNames
  <2>1. PICK s \in SchemaNames, t \in SetNames : TRUE
    BY SelectAssumption
  <2>2. <<s, t>> \in SchemaNames \X SetNames
    OBVIOUS
  <2> QED
    BY <2>2, Zenon
<1>4. (~ok) = FALSE
  BY DEF Init
<1>5. EmptyMap(SchemaNames) = D!EmptyMap(SchemaNames)
  BY DEF EmptyMap, D!EmptyMap
<1> QED
  BY <1>2, <1>3, <1>4, <1>5, Zenon DEF D!Init

\* The next statement, and a call left.
LEMMA WalkWaits ==
  ASSUME Inv, queries # <<>>
  PROVE  /\ WalkAt = "statement" /\ WalkPos = "boundary" /\ WalkRest = 0
         /\ StatementsRead = 0
         /\ ok = TRUE
BY DEF Inv, Inside, WalkAt, WalkPos, WalkRest, StatementsRead, Returned

LEMMA ReadingIsWaited ==
  ASSUME Inv, queries # <<>>, queries' # <<>>, ok' = ok
  PROVE  UNCHANGED <<WalkAt, WalkPos, WalkRest, StatementsRead, ok>>
<1>1. WalkAt' = "statement" /\ WalkPos' = "boundary" /\ WalkRest' = 0 /\ StatementsRead' = 0
  BY DEF WalkAt, WalkPos, WalkRest, StatementsRead, Returned
<1> QED
  BY <1>1, WalkWaits

\* An error leaves a rest that is no longer than Ddl's, or skips no further.
LEMMA ErrorIsNear ==
  ASSUME Inv, EndsBadly
  PROVE  /\ queries' = <<>> /\ ok' = FALSE /\ left' \in Int
         /\ left' > 0 => left' \in 1 .. MaxExtra + MaxNames + MaxOpen + 2
         /\ left' < 0 => -left' \in 1 .. (MaxNames + 1) * (MaxSkips + 5)
<1>1. PICK l \in Noticed, k \in Q.lost : queries' = <<>> /\ ok' = FALSE /\ left' = l - k
  BY DEF EndsBadly, EndsAt
<1>2. queries # <<>>
  BY DEF EndsBadly
<1>3. Depth \in Nat \ {0} /\ Frame(Q, Depth) /\ names \in Nat /\ left \in Int
  BY <1>2, Top
<1>4. left - Depth \in 0 .. MaxExtra /\ Depth <= MaxNames + 1
  BY <1>2, <1>3, Bounds DEF Inv, Inside, Nested
<1>5. k \in Nat /\ k <= MaxNames * LevelSkips
  <2>1. k \in 0 .. CallersSkip(Depth)
    BY <1>3 DEF Frame
  <2>2. CallersSkip(Depth) \in Nat /\ CallersSkip(Depth) <= MaxNames * LevelSkips
    BY <1>3, <1>4, DeeperSkips, Bounds
  <2>3. MaxNames * LevelSkips \in Nat
    BY Bounds
  <2> QED
    BY <2>1, <2>2, <2>3
<1>6. (MaxNames + 1) * (MaxSkips + 5) = MaxNames * LevelSkips + MaxSkips + 5
  BY Bounds DEF LevelSkips
<1>7. MaxNames * LevelSkips \in Nat
  BY Bounds
<1>8. l \in Int /\ l <= left + MaxOpen + 1 /\ l >= left - MaxSkips - 4
  BY <1>3, Bounds DEF Noticed
<1> HIDE DEF LevelSkips
<1> QED
  BY <1>1, <1>3, <1>4, <1>5, <1>6, <1>7, <1>8, Bounds

LEMMA EndsBadlyIsQuery ==
  ASSUME Inv, EndsBadly
  PROVE  D!Query
<1>1. queries # <<>> /\ queries' = <<>> /\ ok' = FALSE /\ left' \in Int
  BY ErrorIsNear DEF EndsBadly
<1>2. StatementsRead' = 1
  BY <1>1 DEF StatementsRead, Returned
<1>3. D!Dispatch
  BY <1>1, <1>2, WalkWaits DEF D!Dispatch, D!Limit
<1>4. CASE left' = 0
  <2>1. WalkAt' = "statement" /\ WalkPos' = "boundary" /\ WalkRest' = 0
    BY <1>4 DEF WalkAt, WalkPos, WalkRest
  <2>2. D!Recovers
    BY <2>1 DEF D!Recovers, D!EndsOwn
  <2> QED
    BY <1>1, <1>3, <2>2 DEF D!Query, D!Fails
<1>5. CASE left' > 0
  <2>1. WalkAt' = "statement" /\ WalkPos' = "tail" /\ WalkRest' = left'
    BY <1>1, <1>5 DEF WalkAt, WalkPos, WalkRest, Returned
  <2>2. left' \in 1 .. MaxExtra + MaxNames + MaxOpen + 2
    BY <1>5, ErrorIsNear
  <2>3. D!Recovers
    BY <2>1, <2>2 DEF D!Recovers, D!LeavesRest
  <2> QED
    BY <1>1, <1>3, <2>3 DEF D!Query, D!Fails
<1>6. CASE left' < 0
  <2>1. WalkAt' = "skip" /\ WalkPos' = "boundary" /\ WalkRest' = -left'
    BY <1>1, <1>6 DEF WalkAt, WalkPos, WalkRest, Returned
  <2>2. -left' \in 1 .. (MaxNames + 1) * (MaxSkips + 5)
    BY <1>6, ErrorIsNear
  <2>3. D!Recovers
    BY <2>1, <2>2 DEF D!Recovers, D!SkipsNext
  <2> QED
    BY <1>1, <1>3, <2>3 DEF D!Query, D!Fails
<1> QED
  BY <1>1, <1>4, <1>5, <1>6

LEMMA EndsWellIsQuery ==
  ASSUME Inv, EndsWell
  PROVE  D!Query
<1>1. queries # <<>> /\ queries' = <<>> /\ left' = 0 /\ ok' = ok
  BY DEF EndsWell
<1>2. StatementsRead' = 1
  BY <1>1 DEF StatementsRead, Returned
<1>3. D!Dispatch
  BY <1>1, <1>2, WalkWaits DEF D!Dispatch, D!Limit
<1>4. WalkAt' = "statement" /\ WalkPos' = "boundary" /\ WalkRest' = 0
  BY <1>1 DEF WalkAt, WalkPos, WalkRest
<1> QED
  BY <1>1, <1>3, <1>4 DEF D!Query, D!Succeeds, D!EndsOwn

LEMMA ReadingGoesOn ==
  ASSUME Inv, Stays \/ Goes \/ Returns
  PROVE  queries # <<>> /\ queries' # <<>> /\ ok' = ok
<1>1. queries # <<>> /\ ok' = ok
  BY DEF Stays, Goes, Returns
<1>2. Nested /\ Depth \in Nat \ {0}
  BY <1>1, Top DEF Inv
<1>3. CASE Stays
  <2>1. PICK q : Keeps(q, Q) /\ queries' = [queries EXCEPT ![Depth] = q]
    BY <1>3 DEF Stays
  <2>2. Len(queries') = Depth
    BY <1>1, <1>2, <2>1, FramesReplaced DEF Q
  <2> QED
    BY <1>1, <1>2, <2>2
<1>4. CASE Goes
  <2>1. PICK q, r : Keeps(q, Q) /\ queries' = Append([queries EXCEPT ![Depth] = q], r)
    BY <1>4 DEF Goes
  <2> DEFINE t == [queries EXCEPT ![Depth] = q]
  <2>2. PICK S : t \in Seq(S)
    <3>1. Depth \in 1 .. Depth /\ Keeps(q, queries[Depth])
      BY <1>2, <2>1 DEF Q
    <3> QED
      BY <1>1, <1>2, <3>1, FramesReplaced
  <2>3. t \in Seq(S \cup {r}) /\ queries' = Append(t, r)
    BY <2>1, <2>2
  <2> HIDE DEF t
  <2>4. queries' # <<>>
    BY <2>3, AppendProperties
  <2> QED
    BY <1>1, <2>4
<1>5. CASE Returns
  <2>1. PICK q : queries' = [Outside EXCEPT ![Depth - 1] = q]
    BY <1>5 DEF Returns
  <2>2. PICK S : queries \in Seq(S)
    BY <1>2 DEF Nested
  <2>3. Depth - 1 \in 1 .. Depth
    BY <1>2, <1>5 DEF Returns
  <2>4. Outside \in Seq(S) /\ Len(Outside) = Depth - 1
    BY <2>2, <2>3 DEF Outside, Depth
  <2>5. Len(queries') = Depth - 1
    BY <2>1, <2>3, <2>4, Replaced
  <2> QED
    BY <1>1, <2>3, <2>5
<1> QED
  BY <1>3, <1>4, <1>5

\* Each step of ParseSelect, in whatever query of the statement, is a step of
\* the query that Ddl takes the statement for, or none: no end on any of its
\* error paths is missing from the walk of Ddl.
THEOREM ImplementsQuery == Spec => IsQueryOfTheWalk
<1>1. Init => D!Init
  BY InitIsOfTheWalk
<1>2. Inv /\ [Next]_vars => [D!Query]_(D!vars)
  <2> SUFFICES ASSUME Inv, [Next]_vars PROVE [D!Query]_(D!vars)
    OBVIOUS
  <2>1. ASSUME UNCHANGED <<WalkAt, WalkPos, WalkRest, StatementsRead, ok>>
        PROVE  UNCHANGED D!vars
    BY <2>1 DEF D!vars
  <2>2. CASE Next
    <3>1. CASE Stays \/ Goes \/ Returns
      BY <2>1, <3>1, ReadingGoesOn, ReadingIsWaited
    <3>2. CASE EndsBadly
      BY <3>2, EndsBadlyIsQuery
    <3>3. CASE EndsWell
      BY <3>3, EndsWellIsQuery
    <3>4. CASE Ended
      <4>1. UNCHANGED <<WalkAt, WalkPos, WalkRest, StatementsRead, ok>>
        BY <3>4 DEF Ended, vars, WalkAt, WalkPos, WalkRest, StatementsRead, Returned
      <4> QED
        BY <2>1, <4>1
    <3> QED
      BY <2>2, <3>1, <3>2, <3>3, <3>4, NextStackStep DEF StackStep
  <2>3. CASE UNCHANGED vars
    <3>1. UNCHANGED <<WalkAt, WalkPos, WalkRest, StatementsRead, ok>>
      BY <2>3 DEF vars, WalkAt, WalkPos, WalkRest, StatementsRead, Returned
    <3> QED
      BY <2>1, <3>1
  <2> QED
    BY <2>2, <2>3
<1> QED
  BY <1>1, <1>2, Invariant, PTL DEF Spec, IsQueryOfTheWalk
=============================================================================
