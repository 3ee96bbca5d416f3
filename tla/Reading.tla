------------------------------- MODULE Reading -------------------------------
(***************************************************************************)
(* An expression is read before FROM and typed behind it: ParseExpression- *)
(* AST, then ResolveExpressionAST.  Here are the two steps, and what the   *)
(* trees and the types are held to: the precedence of SQL's operators, by  *)
(* splitting a text at its weakest one, and the values that SQL gives.     *)
(***************************************************************************)
EXTENDS Typing

CONSTANT Sources      \* the texts read

VARIABLES
  source,   \* the whole text
  phase,
  read,     \* what the parser answered
  type      \* what it was resolved to

vars == <<source, phase, read, type>>

Accepted == read.ast.kind \notin {"error", "never"}

\* The text that was read.
Prefix == SubSeq(source, 1, Len(source) - Len(read.rest))

\* The `?` of a text, but for the name of an operator in OPERATOR(?).
MarksIn(s) == Cardinality({k \in DOMAIN s : s[k] = "?" /\ ~(k > 2 /\ s[k - 1] = "(" /\ s[k - 2] = "operator")})

TypeOK ==
  /\ phase \in {"text", "parsed", "resolved"}
  /\ IsSuffix(read.rest, source)
  /\ read.next \in 0 .. MarksIn(source)
  /\ type.nullable \in BOOLEAN
  /\ type.type \in {"none", "error", "never", "null", "unknown", "array", "boolean", "text", "integer", "bigint",
                    "numeric", "timestamp with time zone"}

Init ==
  /\ source \in Sources
  /\ phase = "text"
  /\ read = Read(source, Never, 0)
  /\ type = Type("none")

Parse ==
  /\ phase = "text"
  /\ phase' = "parsed"
  /\ read' = ParseExpressionAST(source)
  /\ UNCHANGED <<source, type>>

Resolve ==
  /\ phase = "parsed" /\ Accepted
  /\ phase' = "resolved"
  /\ type' = ResolveExpressionAST(read.ast)
  /\ UNCHANGED <<source, read>>

Next == Parse \/ Resolve

Spec == Init /\ [][Next]_vars

-----------------------------------------------------------------------------
(* Precedence.  A text is split at the last of its weakest operators that  *)
(* stand outside brackets.                                                 *)

Outside(s) == {k \in DOMAIN s : Height(s, k) = 0 /\ s[k] \notin Closing}

Latest(S) == CHOOSE k \in S : \A j \in S : j <= k

\* An AND that closes a BETWEEN is no operator.
BoundsAnd(s, k) ==
  \E j \in Outside(s) : /\ j < k /\ s[j] = "between"
                        /\ \A i \in Outside(s) : j < i /\ i < k => s[i] # "and"

EndsOperand(t) == t \in Literal \cup Ident \cup {")", "]"}

Predicates == {"=", "like", "is", "between"}

\* The operators, weakest first, NOT and the sign among them at the head.
Levels == <<{"or"}, {"and"}, {"not"}, Predicates, {"||"}, {"+", "-"}, {"*", "/", "%"}, {"^"}, {"neg"}>>

Operators(s, level) ==
  {k \in Outside(s) :
     CASE level \in {3, 9} -> k = 1 /\ s[1] = (IF level = 3 THEN "not" ELSE "-")
       [] level = 2        -> s[k] = "and" /\ ~BoundsAnd(s, k)
       [] OTHER            -> s[k] \in Levels[level] /\ k > 1 /\ EndsOperand(s[k - 1])}

KindOf(t) ==
  CASE t = "="  -> "cmp"
    [] t = "+"  -> "add"
    [] t = "-"  -> "sub"
    [] t \in {"*", "/"} -> "mul"
    [] t = "%"  -> "mod"
    [] t = "^"  -> "exp"
    [] OTHER    -> t

RECURSIVE Reference(_)
Reference(s) ==
  LET present == {level \in DOMAIN Levels : Operators(s, level) # {}}
      level   == CHOOSE l \in present : \A m \in present : l <= m
      k       == Latest(Operators(s, level))
      Of(i, j) == Reference(SubSeq(s, i, j))
      n       == Len(s)
      left    == Of(1, k - 1)
      and     == CHOOSE j \in Outside(s) : s[j] = "and" /\ j > k /\ BoundsAnd(s, j)
      open    == Latest({j \in 1 .. n - 1 : s[j] \in Opening /\ Height(s, j - 1) = 0})
      casts   == {j \in Outside(s) : s[j] = "::"}
  IN IF present # {}
     THEN CASE level = 3                          -> Node("not", <<Of(2, n)>>)
            [] level = 9                          -> Node("neg", <<Of(2, n)>>)
            [] level = 4 /\ s[k] = "is"           -> Node(IF s[k + 1] = "not" THEN "is_not_null" ELSE "is_null", <<left>>)
            [] level = 4 /\ s[k] = "between"      -> Node("between", <<left, Of(k + 1, and - 1), Of(and + 1, n)>>)
            [] level = 5                          -> Tree("custom_op", <<"||">>, <<left, Of(k + 1, n)>>)
            [] OTHER                              -> Node(KindOf(s[k]), <<left, Of(k + 1, n)>>)
     ELSE CASE s[n] = "]"                         -> Node("array_index", <<Of(1, open - 1), Of(open + 1, n - 1)>>)
            [] s[n] # "]" /\ casts # {}           -> Tree("pg_cast", SubSeq(s, Latest(casts) + 1, n), <<Of(1, Latest(casts) - 1)>>)
            [] s[n] = ")"                         -> Of(2, n - 1)
            [] n = 1 /\ s[1] \in Literal          -> Node(s[1], <<>>)
            [] OTHER                              -> Tree("col", s, <<>>)

Operatorlike == UNION {Levels[i] : i \in DOMAIN Levels} \cup Literal \cup Ident \cup {"(", ")", "[", "]", "::"}

\* The tree is the one that the operators of SQL give the text that was read:
\* neither the ways around the levels (identifiers have a parser of their own,
\* and so have the operands of BETWEEN) nor the loops change what binds what.
\* Texts without calls, lists and CASE.
PrecedenceOfSql ==
  /\ phase # "text" /\ Accepted
  /\ \A k \in DOMAIN Prefix : Prefix[k] \in Operatorlike /\ (Prefix[k] = "(" => k = 1 \/ Prefix[k - 1] \notin Ident)
  => read.ast = Reference(Prefix)

-----------------------------------------------------------------------------
(* Positional parameters. *)

RECURSIVE Numbers(_)
Numbers(ast) ==
  IF ast.kind = "?" THEN <<ast.index>> ELSE FlattenSeq([i \in DOMAIN ast.args |-> Numbers(ast.args[i])])

\* The binder replaces each `?` by the next number: outside of subqueries the
\* trees number them so too, whichever of the parsers read them, since each
\* hands the environment of the last one on.
MarksNumbered ==
  phase # "text" /\ Accepted =>
    /\ Numbers(read.ast) = [k \in 1 .. MarksIn(Prefix) |-> k - 1]
    /\ read.next = MarksIn(Prefix)

-----------------------------------------------------------------------------
(* Values.  What SQL gives: the class of a value, "null", or "wrong" for    *)
(* what it refuses.                                                         *)

Values == {"numeric", "boolean", "text", "null", "wrong"}

ValuesOf(t) == {SqlComparisonClass(t)} \cup (IF t.nullable THEN {"null"} ELSE {})

\* What an operation gives for the values of its operands: NULL for NULL.
Outcome(v, ok, result) ==
  CASE \E i \in DOMAIN v : v[i] = "wrong" -> "wrong"
    [] \E i \in DOMAIN v : v[i] = "null" /\ \A j \in DOMAIN v : v[j] # "wrong" -> "null"
    [] OTHER -> IF ok THEN result ELSE "wrong"

AllOf(v, class) == \A i \in DOMAIN v : v[i] = class

Alike(v) == \A i, j \in DOMAIN v : v[i] = v[j]

Nullary(ast) == CASE ast.kind = "number"   -> {"numeric"}
                  [] ast.kind = "string"   -> {"text"}
                  [] ast.kind = "sql_null" -> {"null"}
                  [] ast.kind = "col"      -> ValuesOf(Columns[ast.text])
                  [] OTHER                 -> {"boolean"}

Applied(ast, v) ==
  CASE ast.kind \in {"add", "sub", "mul", "mod", "exp", "neg"}  -> Outcome(v, AllOf(v, "numeric"), "numeric")
    [] ast.kind \in {"and", "or", "not"}                        -> Outcome(v, AllOf(v, "boolean"), "boolean")
    [] ast.kind \in {"cmp", "between", "in_list"}               -> Outcome(v, Alike(v), "boolean")
    [] ast.kind = "like"                                        -> Outcome(v, AllOf(v, "text"), "boolean")
    [] ast.kind = "custom_op"                                   -> Outcome(v, ~AllOf(v, "numeric") /\ "text" \in {v[1], v[2]}, "text")
    [] ast.kind \in {"is_null", "is_not_null"}                  -> IF v[1] = "wrong" THEN "wrong" ELSE "boolean"
    [] OTHER -> CASE ast.text = <<"text">>    -> Outcome(v, TRUE, "text")
                  [] ast.text = <<"integer">> -> Outcome(v, v[1] # "boolean", "numeric")
                  [] OTHER                    -> Outcome(v, v[1] # "numeric", "boolean")

\* The values of a CASE are those of its branches, which must be alike.
Branches(conditions, results) ==
  LET results1 == UNION {results[i] : i \in DOMAIN results}
  IN IF conditions /\ Cardinality(results1 \ {"null"}) <= 1 THEN results1 ELSE {"wrong"}

RECURSIVE ValuesAt(_)
ValuesAt(ast) ==
  LET a      == [i \in DOMAIN ast.args |-> ValuesAt(ast.args[i])]
      simple == IF ast.kind = "case_simple" THEN 1 ELSE 0
      else   == (Len(a) - simple) % 2 = 1
      whens  == {i \in DOMAIN a : i > simple /\ (i - simple) % 2 = 1 /\ (else => i < Len(a))}
      compared(i) == IF simple = 1 THEN \A v \in a[1], w \in a[i] : Outcome(<<v, w>>, v = w, "boolean") # "wrong"
                     ELSE a[i] \subseteq {"boolean", "null"}
      thens  == DOMAIN a \ (whens \cup (1 .. simple))
  IN CASE a = <<>> -> Nullary(ast)
       [] a # <<>> /\ ast.kind \in {"case_searched", "case_simple"} ->
            Branches(\A i \in whens : compared(i), [i \in thens |-> a[i]]) \cup (IF else THEN {} ELSE {"null"})
       [] OTHER -> {Applied(ast, v) : v \in {w \in [DOMAIN a -> Values] : \A i \in DOMAIN a : w[i] \in a[i]}}

\* Trees without what has no class or no definition here: calls, arrays,
\* subqueries, parameters, names of other types.
RECURSIVE Classed(_)
Classed(ast) ==
  /\ ast.kind \notin {"function_call", "window_function", "array_ctor", "array_index", "any_op", "exists", "in_subquery",
                      "scalar_subquery", "param", "?", "star"}
  /\ ast.kind \in {"pg_cast", "sql_cast"} => ast.text \in {<<"text">>, <<"integer">>, <<"boolean">>}
  /\ ast.kind = "custom_op" => ast.text = <<"||">>
  /\ \A i \in DOMAIN ast.args : Classed(ast.args[i])

\* What is typed can be evaluated, and its value is of the class of the type,
\* or NULL.  (Whether it can be NULL is not said: a type is not nullable
\* behind an operator, a cast or a CASE that one of whose operands is.)
ClassesAreSound ==
  phase = "resolved" /\ Classed(read.ast) /\ type \notin {Refused, Nothing} =>
    ValuesAt(read.ast) \subseteq {SqlComparisonClass(type), "null"}
=============================================================================
