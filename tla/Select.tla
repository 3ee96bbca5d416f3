-------------------------------- MODULE Select --------------------------------
(***************************************************************************)
(* SELECT (src/parser/parse-select.ts): the names of a query, read clause  *)
(* by clause, and which column each of them is taken for.                  *)
(*                                                                         *)
(* The code keeps one flat map, alias -> row, for whatever an expression   *)
(* may name: CTEs, the tables of FROM, and what the enclosing query had.   *)
(* SQL has a level of names for each query.  `queries` holds both: `scope` *)
(* is the map, `bound` the level.                                          *)
(*                                                                         *)
(* As in Dml the source is chosen as it is read, and `left` is the place   *)
(* of the parser in it: the closing brackets ahead whose opening ones are  *)
(* behind or missing, plus one for the statement's `;`.                    *)
(***************************************************************************)
EXTENDS Jsql, Integers, FiniteSets

CONSTANTS Tables,      \* the columns of each table of the default schema
          Aliases,     \* names that are given: aliases, and those of CTEs
          References,  \* references that occur: `column` and `alias.column`
          Items,       \* items of a select list
          MaxList,     \* items in a select list, tables in a FROM
          MaxNames,    \* names in a statement: tables, CTEs, items, terms, queries
          MaxExtra,    \* closing brackets of the statement that close nothing
          MaxOpen,     \* brackets open where an expression goes wrong
          Recoveries,  \* how often the grammar of expressions skips for one error
          MaxSkips     \* no fewer than that

\* The name of an only item that has none, which is no name of a column.
Anonymous == "?column?"

ASSUME SelectAssumption ==
  /\ SchemaNames # {} /\ SetNames # {}
  /\ DOMAIN Tables = SetNames
  /\ \A n \in SetNames : Tables[n] = Null \/ Tables[n] \subseteq ColNames
  /\ Null \notin SetNames /\ Null \notin ColNames
  /\ Aliases \subseteq SetNames
  /\ References \subseteq {<<c>> : c \in ColNames} \cup (SetNames \X ColNames)
  /\ MaxList \in Nat /\ MaxNames \in Nat /\ MaxExtra \in Nat /\ MaxOpen \in Nat
  /\ MaxSkips \in Nat
  /\ Recoveries \subseteq 1 .. MaxSkips
  /\ \A it \in Items :
       /\ it.label \in ColNames \cup {Null}
       /\ it.kind \in {"col", "agg"} => it.ref \in {<<c>> : c \in ColNames} \cup (SetNames \X ColNames)
       /\ it.kind = "all" => it.ref \in {<<n>> : n \in SetNames}
  /\ Anonymous \notin ColNames

VARIABLES
  queries,  \* the queries being read, an enclosing one before those in it;
            \* none when the parser has returned
  left,     \* where the parser stands: see above
  ok,       \* no error
  names,    \* names read so far
  odd,      \* ghost: how the names of the statement clash, see below
  astray    \* ghost: kinds of references that were not taken for what SQL has

vars == <<queries, left, ok, names, odd, astray>>

-----------------------------------------------------------------------------
(* Scopes: ScopeMap, and the columns of a ScopeEntry.  A column is where   *)
(* it comes from: a table's column, or made by an expression.              *)

Made == <<>>

TableRow(n) == [c \in Tables[n] |-> <<n, c>>]

Nothing == [a \in {} |-> Null]

Only(k, v) == [x \in {k} |-> v]

\* A plausible slip: the outer scope wins.
MergeScopeOuterWins(inner, outer) ==
  [k \in DOMAIN inner \cup DOMAIN outer |->
     IF k \in DOMAIN outer THEN outer[k] ELSE inner[k]]

\* MergeScope and MergeStringRecords.
MergeScope(inner, outer) ==
  [k \in DOMAIN inner \cup DOMAIN outer |->
     IF k \in DOMAIN inner THEN inner[k] ELSE outer[k]]

LastOf(r) == r[Len(r)]

\* ScopeKeysWithColumn.
AliasesWith(scope, c) == {a \in DOMAIN scope : c \in DOMAIN scope[a]}

\* A plausible slip: the column is looked for in the other rows, too.
OwnersAnyAlias(scope, r) ==
  IF Len(r) = 2 /\ r[1] \in AliasesWith(scope, r[2])
  THEN {r[1]} ELSE AliasesWith(scope, LastOf(r))

\* The alias a reference is looked up under.
Owners(scope, r) ==
  IF Len(r) = 2 THEN {r[1]} \cap AliasesWith(scope, r[2]) ELSE AliasesWith(scope, r[1])

\* ResolveColumnRefValue: Null when unknown or ambiguous.
ResolveColumnRef(scope, r) ==
  IF \E a \in SetNames : Owners(scope, r) = {a}
  THEN scope[CHOOSE a \in SetNames : Owners(scope, r) = {a}][LastOf(r)]
  ELSE Null

-----------------------------------------------------------------------------
(* The queries being read. *)

Depth == Len(queries)

Q == queries[Depth]

\* A query about to be read: the statement's own, or one in brackets.
NewQuery(role, name, outer, lost) ==
  [role    |-> role,      \* "main", "cte", "derived" or "sub", in an expression
   name    |-> name,      \* of the CTE
   outer   |-> outer,     \* OuterScope
   lost    |-> lost,      \* skips of the callers an error is returned to
   at      |-> "start",   \* what is read next
   ctes    |-> Nothing,   \* CteBase
   scope   |-> outer,     \* what is in scope there
   bound   |-> <<>>,      \* ghost: the FROM list, the query's level of names
   on      |-> FALSE,     \* the table read next needs an ON
   items   |-> <<>>,      \* the select list
   done    |-> 0,         \* how many items are resolved
   row     |-> Nothing,   \* the columns they give
   clause  |-> 0,         \* the last clause read
   keys    |-> {},        \* the references that are terms of GROUP BY
   grouped |-> FALSE]     \* there is a GROUP BY or a HAVING

At(p) == queries # <<>> /\ Q.at = p

\* Reads on in the same query.
Reads(q, l) == queries' = [queries EXCEPT ![Depth] = q] /\ left' = l /\ UNCHANGED ok

Peeks(p) == Reads([Q EXCEPT !.at = p], left)

\* Reads an opening bracket and goes into the query behind it; q is the
\* enclosing one as it will go on.
Enters(q, role, name, outer, skips) ==
  /\ queries' = Append([queries EXCEPT ![Depth] = q],
                       NewQuery(role, name, outer, {k + n : k \in Q.lost, n \in skips}))
  /\ left' = left + 1
  /\ UNCHANGED ok

\* A plausible slip: the callers skip, but hand no error on.
EndsAtWithoutError(l) ==
  /\ queries' = <<>> /\ UNCHANGED ok
  /\ \E k \in Q.lost : left' = l - k

\* The error is returned from l, and skipped for by the callers.
EndsAt(l) ==
  /\ queries' = <<>> /\ ok' = FALSE
  /\ \E k \in Q.lost : left' = l - k

SkipsFrom(l) == EndsAt(l - 1)

\* Where the parser stands behind any token, and where an expression that
\* does not parse leaves it.
Unexpected == {left, left + 1, left - 1}

Unparsed == {left + d - k : d \in 0 .. MaxOpen, k \in Recoveries}

Names(n) == names + n <= MaxNames /\ names' = names + n

-----------------------------------------------------------------------------
(* What SQL has: a level of names for each query. *)

AliasesOf(q) == {q.bound[i].alias : i \in DOMAIN q.bound}

Bound(j) == AliasesOf(queries[j])

Named(j) == Bound(j) \cup DOMAIN queries[j].ctes

\* The queries whose names a reference may use: up to a query that is not an
\* expression's.
Visible == {j \in 1 .. Depth : \A i \in j + 1 .. Depth : queries[i].role = "sub"}

\* Those of the FROM list of a query that a reference may mean.
Meanings(j, r) ==
  {i \in DOMAIN queries[j].bound :
     IF Len(r) = 2 THEN queries[j].bound[i].alias = r[1]
     ELSE r[1] \in DOMAIN queries[j].bound[i].row}

\* The innermost level that has any, and its only one.
Meant(levels, r) ==
  LET hit == {j \in levels : Meanings(j, r) # {}}
      top == CHOOSE j \in hit : \A k \in hit : k <= j
      one == CHOOSE i \in Meanings(top, r) : TRUE
  IN  IF hit # {} /\ Meanings(top, r) = {one} /\ LastOf(r) \in DOMAIN queries[top].bound[one].row
      THEN queries[top].bound[one].row[LastOf(r)]
      ELSE Null

\* How a reference that is answered with `got` is not what SQL has: another
\* column, or none though there is one.
Strays(r, got, meant) ==
  CASE got # meant /\ got # Null /\ Len(r) = 1 -> {"bare"}
    [] got # meant /\ got # Null /\ Len(r) = 2 -> {"qualified"}
    [] got # meant /\ got = Null /\ Len(r) = 2 -> {"refused"}
    [] OTHER                                   -> {}

\* The level that the code's answer, of an alias in `as`, is of.
Provider(as) ==
  LET by == {j \in Visible : as \cap Named(j) # {}}
  IN  IF by = {} THEN 0 ELSE CHOOSE j \in by : \A k \in by : k <= j

\* Ways in which names clash.  A reference is answered by a CTE that FROM does
\* not read ...
UnreadCte(as) == Provider(as) # 0 /\ as \cap Bound(Provider(as)) = {}

\* ... in the list of a query whose FROM is not read yet, from outside it ...
AskedEarly(as) ==
  \E f \in Visible \ {Depth} : queries[f].at = "item" /\ Provider(as) \in 1 .. f

\* ... or it is a bare name, and an alias hides another one with such a column.
HiddenAlias(r) ==
  /\ Len(r) = 1
  /\ \E i, j \in Visible : j < i /\ \E b \in DOMAIN queries[j].bound :
       /\ queries[j].bound[b].alias \in Named(i)
       /\ r[1] \in DOMAIN queries[j].bound[b].row

Flags(test, flag) == IF test THEN {flag} ELSE {}

Clash(test) == Flags(test, "clash")

AliasClashes(as) ==
  Clash(UnreadCte(as)) \cup Clash(AskedEarly(as))

\* The aliases of the scope that the answer to a reference depends on: the one
\* it says, which may lack the column, or those with such a column.
Asked(r) ==
  IF Len(r) = 2 THEN {r[1]} \cap DOMAIN Q.scope ELSE AliasesWith(Q.scope, r[1])

Clashes(r) ==
  AliasClashes(Asked(r)) \cup Flags(HiddenAlias(r), "hidden alias")

\* Looks references up among the levels.
Looks(refs, levels) ==
  /\ odd' = odd \cup UNION {Clashes(r) : r \in refs}
  /\ astray' = astray \cup
       UNION {Strays(r, ResolveColumnRef(Q.scope, r), Meant(levels, r)) : r \in refs}

Found(r) == ResolveColumnRef(Q.scope, r) # Null

Plain == UNCHANGED <<odd, astray>>

-----------------------------------------------------------------------------
Init ==
  /\ queries = <<NewQuery("main", Null, Nothing, {0})>>
  /\ left \in 1 .. MaxExtra + 1
  /\ ok = TRUE /\ names = 0
  /\ odd = {} /\ astray = {}

-----------------------------------------------------------------------------
(* WITH. *)

InWith == At("start") \/ At("cte")

\* A name that is none of those before, AS, and a query in brackets, which
\* sees none of them.
Cte(n) ==
  /\ InWith /\ Names(1) /\ Plain
  /\ \/ n \in DOMAIN Q.ctes /\ EndsAt(left)
     \/ n \notin DOMAIN Q.ctes /\ Enters([Q EXCEPT !.at = "ctes"], "cte", n, Nothing, {1})

BadCte ==
  /\ InWith /\ Plain /\ UNCHANGED names
  /\ \/ \E l \in Unexpected : SkipsFrom(l)  \* no name
     \/ SkipsFrom(left)                     \* no bracket
     \/ SkipsFrom(left + 1)                 \* no SELECT in it

\* A comma, SELECT, or neither.
AfterCte ==
  /\ At("ctes") /\ Plain /\ UNCHANGED names
  /\ \/ Peeks("cte")
     \/ Reads([Q EXCEPT !.at = "list", !.scope = MergeScope(Q.ctes, Q.outer)], left)
     \/ SkipsFrom(left)

-----------------------------------------------------------------------------
(* The select list.  Only the queries in it are resolved before FROM. *)

\* SELECT or a comma is read with what follows it.
InList == At("start") \/ At("list") \/ At("item")

\* An item is `*`, `alias.*`, a reference, an aggregate of one, or another
\* expression, with a label that AS gives, or none.
Item(kind, r, label) == [kind |-> kind, ref |-> r, label |-> label]

Labels == {it.label : it \in {i \in Items : i.kind = "made"}}

ListItem(it) ==
  /\ InList /\ Names(1) /\ Plain /\ Len(Q.items) < MaxList
  /\ Reads([Q EXCEPT !.items = Append(@, it), !.at = "item"], left)

ListQuery(label) ==
  /\ InList /\ Names(1) /\ Plain /\ Len(Q.items) < MaxList
  /\ \E r \in Recoveries :
       Enters([Q EXCEPT !.items = Append(@, Item("made", <<>>, label)), !.at = "item"],
              "sub", Null, Q.scope, {r + 2})

BadItem ==
  /\ InList /\ Plain /\ UNCHANGED names
  /\ \E l \in Unparsed : SkipsFrom(l)

\* SelectListStarInvalid.
StarNotAlone == Q.items # <<>> /\ Q.items[1].kind = "star" /\ Len(Q.items) > 1

\* FROM, also behind a comma or SELECT: its scope starts with the CTEs.
From ==
  /\ InList /\ Plain /\ UNCHANGED names
  /\ \/ StarNotAlone /\ EndsAt(left)
     \/ ~StarNotAlone /\ Reads([Q EXCEPT !.at = "table", !.scope = Q.ctes], left)

\* A star of nothing: its row has every name, and such queries are left out.
StarOfNothing == Q.outer = Nothing /\ \E i \in DOMAIN Q.items : Q.items[i].kind = "star"

\* The end instead: the CTEs are dropped, and no clause can follow.
NoFrom ==
  /\ At("item") /\ Plain /\ UNCHANGED names
  /\ \/ StarNotAlone /\ EndsAt(left)
     \/ /\ ~StarNotAlone
        /\ \/ /\ ~StarOfNothing
              /\ Reads([Q EXCEPT !.at = "resolve", !.ctes = Nothing, !.scope = Q.outer,
                                 !.clause = 6], left)
           \/ SkipsFrom(left)

-----------------------------------------------------------------------------
(* FROM and its joins. *)

\* A table's name in FROM: of a CTE or an alias before it, or of the schema.
TableNamed(n, qualified) ==
  IF ~qualified /\ n \in DOMAIN Q.scope THEN Q.scope[n]
  ELSE IF Tables[n] # Null THEN TableRow(n) ELSE Null

\* One more table in the scope; in SQL its row may be another.
Binds(q, alias, row, sqlRow) ==
  [q EXCEPT !.bound = Append(@, [alias |-> alias, row |-> sqlRow]),
            !.scope = MergeScope(Only(alias, row), @),
            !.at    = IF q.on THEN "on" ELSE "join"]

\* An alias that its FROM has already; a name that is an alias in the same
\* FROM of something else; one of a CTE that is not in scope here.
AliasTwice(q, alias) ==
  Clash(alias \in AliasesOf(q))

SqlTableNamed(n, qualified) ==
  LET ctes == IF qualified THEN {} ELSE {j \in 1 .. Depth : n \in DOMAIN queries[j].ctes}
  IN  CASE ctes # {}                        -> queries[CHOOSE j \in ctes : \A k \in ctes : k <= j].ctes[n]
        [] ctes = {} /\ Tables[n] # Null    -> TableRow(n)
        [] OTHER                            -> Nothing

AliasAsTable(n) ==
  Clash(n \in AliasesOf(Q) /\ Q.scope[n] # SqlTableNamed(n, FALSE))

OverlooksCte(n) ==
  Clash(n \notin DOMAIN Q.scope /\ \E j \in 1 .. Depth - 1 : n \in DOMAIN queries[j].ctes)

\* Behind FROM, or JOIN, with an ON ahead unless it is a CROSS JOIN.
ReadsTable(on) ==
  /\ At("join") \/ (At("table") /\ ~on)
  /\ Len(Q.bound) < MaxList

FromTable(n, qualified, label, on) ==
  LET row   == TableNamed(n, qualified)
      alias == IF label = Null THEN n ELSE label
  IN
  /\ ReadsTable(on) /\ Names(1)
  /\ \/ row = Null /\ EndsAt(left) /\ Plain
     \/ /\ row # Null
        /\ Reads(Binds([Q EXCEPT !.on = on], alias, row, SqlTableNamed(n, qualified)), left)
        /\ odd' = odd \cup AliasTwice(Q, alias)
                      \cup (IF qualified THEN {} ELSE AliasAsTable(n) \cup OverlooksCte(n))
        /\ UNCHANGED astray

\* There is no table, half of a JOIN, or no alias where one must be.
BadTable ==
  /\ At("table") \/ At("join")
  /\ Plain /\ UNCHANGED names
  /\ \E l \in Unexpected : EndsAt(l)

\* A query in brackets, which sees nothing of this one.
FromQuery(on) ==
  /\ ReadsTable(on) /\ Names(1) /\ Plain
  /\ Enters([Q EXCEPT !.on = on], "derived", Null, Nothing, {0})

\* `alias.column = alias.column`, in the scope of the joins so far; the types of
\* the two may not fit.
On(l, r) ==
  /\ At("on") /\ Names(1)
  /\ Looks({l} \cup (IF Found(l) THEN {r} ELSE {}), {Depth})
  /\ \/ Found(l) /\ Found(r) /\ Peeks("join")
     \/ EndsAt(left)

BadOn == At("on") /\ Plain /\ UNCHANGED names /\ EndsAt(left)

\* The end of the joins.  From here on the enclosing scope is seen, too.
EndOfFrom ==
  /\ At("join") /\ Plain /\ UNCHANGED names
  /\ Reads([Q EXCEPT !.at = IF Q.items = <<>> THEN "clauses" ELSE "resolve",
                     !.scope = MergeScope(Q.scope, Q.outer)], left)

-----------------------------------------------------------------------------
(* The select list again: ResolveSelectList. *)

OutName(it) ==
  IF it.label # Null THEN it.label
  ELSE IF it.kind = "col" THEN LastOf(it.ref)
  ELSE IF Len(Q.items) = 1 THEN Anonymous
  ELSE Null

\* The aliases whose columns `*` or `alias.*` stands for.
Starred(it) == IF it.kind = "star" THEN DOMAIN Q.scope ELSE {it.ref[1]} \cap DOMAIN Q.scope

StarRow(it) ==
  IF \E a \in SetNames : Starred(it) = {a}
  THEN Q.scope[CHOOSE a \in SetNames : Starred(it) = {a}]
  ELSE Null

\* In SQL: those of all tables of FROM, here of its only one, or of the
\* innermost table of that alias.
StarMeant(it) ==
  LET hit == {j \in Visible : Starred(it) \cap Bound(j) # {}}
      top == CHOOSE j \in hit : \A k \in hit : k <= j
      one == CHOOSE i \in DOMAIN queries[top].bound : queries[top].bound[i].alias \in Starred(it)
  IN  CASE it.kind = "star" /\ Len(Q.bound) = 1 -> Q.bound[1].row
        [] it.kind = "all" /\ hit # {}          -> queries[top].bound[one].row
        [] OTHER                                -> Null

IsStar(it) == it.kind \in {"star", "all"}

\* What an item adds to the row; Null when it does not resolve.
Adds(it) ==
  CASE IsStar(it)                                        -> StarRow(it)
    [] it.kind \in {"col", "agg"} /\ ~Found(it.ref)      -> Null
    [] ~IsStar(it) /\ OutName(it) = Null                 -> Null
    [] it.kind = "col" /\ OutName(it) # Null /\ Found(it.ref) ->
         Only(OutName(it), ResolveColumnRef(Q.scope, it.ref))
    [] OTHER                                             -> Only(OutName(it), Made)

Resolves(it) ==
  LET adds == Adds(it) IN
  /\ IF adds = Null
     THEN EndsAt(left)
     ELSE Reads([Q EXCEPT !.row  = MergeScope(adds, @),
                          !.done = @ + 1,
                          !.at   = IF Q.done + 1 = Len(Q.items) THEN "clauses" ELSE "resolve"],
                left)
  /\ odd' = odd
       \cup Clash(adds # Null /\ DOMAIN adds \cap DOMAIN Q.row # {})
       \cup Clash(it.kind = "star" /\ Q.bound = <<>>)
       \cup (IF it.kind = "all" THEN AliasClashes(Starred(it)) ELSE {})
       \cup (IF it.kind \in {"col", "agg"} THEN Clashes(it.ref) ELSE {})
  /\ astray' = astray
       \cup Flags(IsStar(it) /\ adds # Null /\ adds # StarMeant(it), "star")
       \cup (IF it.kind \in {"col", "agg"}
             THEN Strays(it.ref, ResolveColumnRef(Q.scope, it.ref), Meant(Visible, it.ref))
             ELSE {})

ResolveItem ==
  /\ At("resolve") /\ UNCHANGED names
  /\ Resolves(Q.items[Q.done + 1])

\* An expression of the list whose parts do not fit.
BadResolve ==
  /\ At("resolve") /\ Plain /\ UNCHANGED names
  /\ Q.items[Q.done + 1].kind \in {"agg", "made"}
  /\ EndsAt(left)

-----------------------------------------------------------------------------
(* The clauses behind FROM, each optional, in their order. *)

Clauses == {"where", "group", "having", "order", "page"}

Rank(cl) == CASE cl = "where"  -> 1
              [] cl = "group"  -> 2
              [] cl = "having" -> 3
              [] cl = "order"  -> 4
              [] cl = "page"   -> 5

\* How often the parsers of a clause skip for an error of its expression.
Skips(cl) == CASE cl \in {"where", "having"} -> 1
               [] cl = "group"               -> 0
               [] cl = "order"               -> 4
               [] cl = "page"                -> 3

\* A clause may have several terms; those of the first three come before the
\* look at the groups.
MayRead(cl) ==
  /\ At(IF Rank(cl) <= 3 THEN "clauses" ELSE "tail")
  /\ Q.clause <= Rank(cl)

WithClause(q, cl) ==
  [q EXCEPT !.clause  = Rank(cl),
            !.grouped = @ \/ cl \in {"group", "having"}]

\* A label in ORDER BY that is of something else than the column of the name.
LabelSorted(cl, r) ==
  /\ cl = "order" /\ Len(r) = 1
  /\ \E i \in DOMAIN Q.items : Q.items[i].label = r[1]

\* ORDER BY looks for a bare name among the columns of the result first.
ClauseMeant(cl, r) ==
  IF cl = "order" /\ Len(r) = 1 /\ r[1] \in DOMAIN Q.row THEN Q.row[r[1]] ELSE Meant(Visible, r)

Term(cl, r) ==
  /\ MayRead(cl) /\ Names(1)
  /\ odd' = odd \cup Clashes(r) \cup Clash(LabelSorted(cl, r))
  /\ astray' = astray \cup Strays(r, ResolveColumnRef(Q.scope, r), ClauseMeant(cl, r))
  /\ \/ ~Found(r) /\ EndsAt(left - Skips(cl))
     \/ /\ Found(r)
        /\ Reads([WithClause(Q, cl) EXCEPT !.keys = IF cl = "group" THEN @ \cup {r} ELSE @], left)

TermQuery(cl) ==
  /\ MayRead(cl) /\ Names(1) /\ Plain
  /\ \E r \in Recoveries :
       Enters(WithClause(Q, cl), "sub", Null, Q.scope, {1 + r + Skips(cl)})

\* A term that does not parse, or is not of a type that fits.
BadTerm(cl) ==
  /\ MayRead(cl) /\ Plain /\ UNCHANGED names
  /\ \E l \in Unparsed \cup {left} : EndsAt(l - Skips(cl))

\* GROUP or ORDER without BY, FETCH without what belongs to it.
BadClause ==
  /\ Plain /\ UNCHANGED names
  /\ \/ MayRead("group") /\ EndsAt(left)
     \/ MayRead("order") /\ \E l \in Unexpected : EndsAt(l - 2)
     \/ MayRead("page") /\ EndsAt(left - 2)

\* GroupedProjValidationOutcome: what is grouped, or aggregated, has no bare
\* column but the terms of GROUP BY.
NeedsGrouping == Q.grouped \/ \E i \in DOMAIN Q.items : Q.items[i].kind = "agg"

\* A plausible slip: a column of another table will do.
ValidInsideGroupedByName(it) ==
  CASE it.kind = "col" -> \E k \in Q.keys : LastOf(k) = LastOf(it.ref)
    [] it.kind = "all" -> FALSE
    [] OTHER           -> TRUE

ValidInsideGrouped(it) ==
  CASE it.kind = "col" -> it.ref \in Q.keys
    [] it.kind = "all" -> FALSE
    [] OTHER           -> TRUE

GroupedProjection ==
  /\ At("clauses") /\ UNCHANGED <<names, odd>>
  /\ IF NeedsGrouping /\ \E i \in DOMAIN Q.items : ~ValidInsideGrouped(Q.items[i])
     THEN EndsAt(left) /\ UNCHANGED astray
     ELSE /\ Reads([Q EXCEPT !.at = "tail", !.keys = {}], left)
          /\ astray' = astray \cup Flags(
               /\ NeedsGrouping
               /\ \E i \in DOMAIN Q.items :
                    /\ Q.items[i].kind = "col"
                    /\ \A k \in Q.keys : ResolveColumnRef(Q.scope, k)
                                           # ResolveColumnRef(Q.scope, Q.items[i].ref),
               "ungrouped")

-----------------------------------------------------------------------------
(* The end. *)

Ends == At("tail") /\ Plain /\ UNCHANGED names

Inner == queries[Depth - 1]

Outside == SubSeq(queries, 1, Depth - 1)

\* A plausible slip: the bracket is left to the enclosing query.
ClosesNothing(q) ==
  /\ queries' = [Outside EXCEPT ![Depth - 1] = q]
  /\ UNCHANGED <<left, ok>>

\* The closing bracket: the enclosing query goes on.
Closes(q) ==
  /\ queries' = [Outside EXCEPT ![Depth - 1] = q]
  /\ left' = left - 1
  /\ UNCHANGED ok

CloseCte ==
  /\ Ends /\ Q.role = "cte"
  /\ \/ Closes([Inner EXCEPT !.ctes = MergeScope(Only(Q.name, Q.row), @)])
     \/ EndsAt(left)

\* The alias of a derived table must be there.
CloseDerived(alias) ==
  /\ At("tail") /\ UNCHANGED names
  /\ Q.role = "derived"
  /\ \/ /\ left' = left - 1 /\ UNCHANGED ok
        /\ queries' = [Outside EXCEPT ![Depth - 1] = Binds(Inner, alias, Q.row, Q.row)]
        /\ odd' = odd \cup AliasTwice(Inner, alias)
        /\ UNCHANGED astray
     \/ \E l \in {left - 1} \cup {left, left - 2} : EndsAt(l) /\ Plain

CloseSub ==
  /\ Ends /\ Q.role = "sub"
  /\ Closes(Inner) \/ EndsAt(left)

\* The `;`.
Finish ==
  /\ Ends /\ Q.role = "main"
  /\ \/ left = 1 /\ queries' = <<>> /\ left' = 0 /\ UNCHANGED ok
     \/ SkipsFrom(left)

\* The parser has returned.
Ended == queries = <<>> /\ UNCHANGED vars

-----------------------------------------------------------------------------
Next ==
  \/ BadCte \/ AfterCte
  \/ BadItem \/ From \/ NoFrom
  \/ BadTable \/ BadOn \/ EndOfFrom
  \/ ResolveItem \/ BadResolve
  \/ BadClause \/ GroupedProjection
  \/ CloseCte \/ CloseSub \/ Finish \/ Ended
  \/ \E n \in Aliases : Cte(n) \/ CloseDerived(n)
  \/ \E on \in BOOLEAN :
       \/ FromQuery(on)
       \/ \E n \in SetNames, qualified \in BOOLEAN : \E label \in (Aliases \ {n}) \cup {Null} :
            FromTable(n, qualified, label, on)
  \/ \E it \in Items : ListItem(it)
  \/ \E label \in Labels : ListQuery(label)
  \/ \E l, r \in {r \in References : Len(r) = 2} : On(l, r)
  \/ \E cl \in Clauses : TermQuery(cl) \/ BadTerm(cl) \/ \E r \in References : Term(cl, r)

Spec == Init /\ [][Next]_vars
-----------------------------------------------------------------------------
(* Properties. *)

Places == {"start", "cte", "ctes", "list", "item", "table", "on",
           "join", "resolve", "clauses", "tail"}

\* A query whose list is being resolved has an item left, and what it has
\* resolved is in its row.
QueryOK(q) ==
  /\ q.role \in {"main", "cte", "derived", "sub"}
  /\ q.name \in SetNames \cup {Null} /\ (q.role = "cte" => q.name # Null)
  /\ q.at \in Places
  /\ q.lost \subseteq Nat
  /\ q.clause \in 0 .. 6 /\ q.on \in BOOLEAN /\ q.grouped \in BOOLEAN
  /\ q.done \in 0 .. Len(q.items)
  /\ q.at = "resolve" => q.done < Len(q.items)
  /\ q.at \in {"clauses", "tail"} => q.done = Len(q.items)
  /\ q.at \in {"table", "on", "join"} => AliasesOf(q) \subseteq DOMAIN q.scope

\* The parser is in as many brackets as queries are being read but one, and
\* the statement's own end is ahead.
TypeOK ==
  /\ \A j \in DOMAIN queries : QueryOK(queries[j]) /\ (queries[j].role = "main" <=> j = 1)
  /\ ok \in BOOLEAN /\ left \in Int
  /\ names \in 0 .. MaxNames
  /\ queries # <<>> => ok /\ left - Depth \in 0 .. MaxExtra
  /\ queries = <<>> /\ ok => left = 0
  /\ odd \subseteq {"clash", "hidden alias"}
  /\ astray \subseteq {"bare", "qualified", "refused", "star", "ungrouped"}

\* For all that aliases repeat those of enclosing queries, that CTEs have the
\* names of tables, and that scopes are one map: when none of the clashes is in
\* a statement, every name that is answered is the column SQL says it is, and
\* none that says its alias is refused.
MeansTheSame == odd = {} => astray = {}

\* An alias that hides one of an enclosing query does no harm to names that say
\* the alias: they are of the innermost table of that alias, are not found when
\* it has no such column, and only then.
QualifiedMeansTheSame == odd \subseteq {"hidden alias"} => astray \subseteq {"bare"}

\* In a query with groups or aggregates each column outside an aggregate is one
\* the rows of a group agree on, `*` excepted.
GroupsAgree == "ungrouped" \notin astray

-----------------------------------------------------------------------------
(* The statement as the walk over the script sees it. *)

Returned == queries = <<>>

WalkAt == IF Returned /\ left < 0 THEN "skip" ELSE "statement"

WalkPos == IF Returned /\ left > 0 THEN "tail" ELSE "boundary"

WalkRest == CASE Returned /\ left > 0 -> left
              [] Returned /\ left < 0 -> -left
              [] OTHER                -> 0

StatementsRead == IF Returned THEN 1 ELSE 0

D == INSTANCE Ddl WITH
       EnumNames <- {}, SqlTypes <- {}, EnumValues <- {},
       BatchSize <- 1, Batches <- 1, ColumnLists <- {}, EnumLists <- {},
       MaxRest  <- MaxExtra + MaxNames + MaxOpen + 2,
       MaxSkips <- (MaxNames + 1) * (MaxSkips + 5),
       db       <- EmptyMap(SchemaNames),
       failed   <- ~ok,
       at       <- WalkAt,
       target   <- CHOOSE st \in SchemaNames \X SetNames : TRUE,
       pos      <- WalkPos,
       rest     <- WalkRest,
       calls    <- StatementsRead,
       read     <- StatementsRead,
       lost     <- {}

\* However deep its queries are nested and wherever one of them goes wrong, the
\* statement leaves the walk over the script as Ddl has it: behind its `;`, in
\* its rest, or skipping over statements after it.
IsQueryOfTheWalk == D!Init /\ [][D!Query]_(D!vars)
=============================================================================
