------------------------------- MODULE Typing --------------------------------
(***************************************************************************)
(* The types of expressions: ResolveExpressionAST of                       *)
(* src/parser/parse-expression.ts.                                         *)
(*                                                                         *)
(* A type keeps its name and whether it is nullable.  Errors are not told  *)
(* apart.                                                                  *)
(***************************************************************************)
EXTENDS Expression

CONSTANTS Columns,    \* the types of the columns in scope, by the chain that names them
          Params,     \* the types of the positional parameters
          Named,      \* the type of the named parameter
          QueryType   \* the type of the column of a subquery

Type(name) == [type |-> name, nullable |-> FALSE]

SqlNull == [type |-> "null", nullable |-> TRUE]

Refused == Type("error")

Nothing == Type("never")

-----------------------------------------------------------------------------
(* Classes. *)

SqlComparisonClass(t) ==
  CASE t.type \in {"integer", "bigint", "numeric"}              -> "numeric"
    [] t.type \in {"boolean", "text", "uuid"}                   -> t.type
    [] t.type \in {"timestamp", "timestamp with time zone", "date"} -> "datetime"
    [] OTHER                                                    -> "unknown"

SameComparisonClass(t, u) ==
  \/ "unknown" \in {SqlComparisonClass(t), SqlComparisonClass(u)}
  \/ SqlComparisonClass(t) = SqlComparisonClass(u)

IsNull(t) == t.type = "null"

IsClass(t, class) == SqlComparisonClass(t) = class

If(condition, t) == IF condition THEN t ELSE Refused

\* Arrays, and what is not known.
Listlike(t) == t.type \in {"array", "unknown"}

-----------------------------------------------------------------------------
(* What the operators make of the types of their operands. *)

MergeComparison(t, u) == If(~IsNull(t) /\ ~IsNull(u) /\ SameComparisonClass(t, u), Type("boolean"))

MergeBetweenBounds(t, low, high) ==
  If(~IsNull(t) /\ ~IsNull(low) /\ ~IsNull(high) /\ SameComparisonClass(t, low) /\ SameComparisonClass(t, high),
     Type("boolean"))

\* Plausible slips: one side only.
MergeLikeLeft(t, pattern) == If(IsClass(t, "text"), Type("boolean"))

MergeLikeOperands(t, pattern) == If(IsClass(t, "text") /\ IsClass(pattern, "text"), Type("boolean"))

MergeBoolBinary(t, u) == If(IsClass(t, "boolean") /\ IsClass(u, "boolean"), Type("boolean"))

MergeBoolNot(t) == If(IsClass(t, "boolean"), Type("boolean"))

\* The type of the left operand, whatever the right one's is, nullable or not.
ResolvePair(t, u) == If(IsClass(t, "numeric") /\ IsClass(u, "numeric"), t)

ResolveNeg(t) == If(IsClass(t, "numeric"), t)

TextLike == {"text", "integer", "bigint", "numeric", "uuid", "boolean"}

\* `||`; of the other operators the containments are boolean and the rest unknown.
ResolveCustomOp(op, t, u) ==
  CASE op # "||"                                 -> Type(IF op \in {"@>", "<@", "&&"} THEN "boolean" ELSE "unknown")
    [] op = "||" /\ "array" \in {t.type, u.type} ->
         If("text" \notin {t.type, u.type}, IF t.type = "array" THEN t ELSE u)
    [] OTHER -> If("text" \in {t.type, u.type} /\ {t.type, u.type} \subseteq TextLike, Type("text"))

\* The names of types that may be written; a cast forgets that its operand is nullable.
ResolveCastFromShape(t, name) ==
  CASE IsNull(t)                           -> SqlNull
    [] ~IsNull(t) /\ name = <<"text">>     -> Type("text")
    [] ~IsNull(t) /\ name = <<"integer">>  -> If(t.type # "boolean", Type("integer"))
    [] ~IsNull(t) /\ name = <<"boolean">>  -> If(t.type \notin {"integer", "bigint", "numeric"}, Type("boolean"))
    [] OTHER                               -> Type("unknown")

\* `never`, not an error, for a null on the left.
ValidateInListElement(t, u) ==
  IF IsNull(t) THEN Nothing ELSE If(~IsNull(u) /\ SameComparisonClass(t, u), Type("boolean"))

\* A branch that is NULL changes nothing.
MergeCaseThenAccum(acc, t) ==
  CASE IsNull(acc)                  -> t
    [] ~IsNull(acc) /\ IsNull(t)    -> acc
    [] OTHER                        -> If(SameComparisonClass(acc, t), acc)

InferArrayType(types) == If(types # <<>>, Type("array"))

ResolveAnyAllSome(t, u, query) == IF query THEN MergeComparison(t, u) ELSE If(Listlike(u), Type("boolean"))

-----------------------------------------------------------------------------
(* Calls.  A star is an argument of count only. *)

ResolveFunctionCall(name, types) ==
  LET n == Len(types)
      Star == \E i \in DOMAIN types : types[i].type = "star"
  IN CASE name = "count"                               -> Type("bigint")
       [] name # "count" /\ Star                       -> Refused
       [] name = "lower" /\ ~Star                      -> If(n > 0, Type("text"))
       [] name \in {"coalesce", "max"} /\ ~Star        -> If(n > 0, types[1])
       [] name = "sum" /\ ~Star                        -> If(n > 0, Type("numeric"))
       [] name = "now" /\ ~Star                        -> If(n = 0, Type("timestamp with time zone"))
       [] name = "unnest" /\ ~Star                     -> If(n = 1 /\ Listlike(types[1]), Type("unknown"))
       [] name = "array_length" /\ ~Star               -> If(n = 2 /\ Listlike(types[1]), Type("integer"))
       [] OTHER                                        -> Refused

ResolveWindowFunction(name, types) ==
  CASE name = "row_number" -> If(types = <<>>, Type("bigint"))
    [] name = "lag"        -> If(types # <<>>, types[1])
    [] OTHER               -> Refused

-----------------------------------------------------------------------------
RECURSIVE ResolveExpressionAST(_), ResolveInListItems(_, _), ResolveArms(_, _, _, _)

\* The types of the operands, or the first that is none.
WithTypes(args, F(_)) ==
  LET types == [i \in DOMAIN args |-> ResolveExpressionAST(args[i])]
      bad   == {i \in DOMAIN args : types[i] \in {Refused, Nothing}}
  IN IF bad = {} THEN F(types) ELSE types[CHOOSE i \in bad : \A j \in bad : i <= j]

ResolveInListItems(left, items) ==
  LET item == ResolveExpressionAST(Head(items))
      v    == IF item \in {Refused, Nothing} THEN item ELSE ValidateInListElement(left, item)
  IN IF v \in {Refused, Nothing} \/ Len(items) = 1 THEN v ELSE ResolveInListItems(left, Tail(items))

\* acc is "none" before the first arm.  Without ELSE the result is nullable.
ResolveArms(arms, acc, Disc, simple) ==
  LET Merge(t) == CASE t \in {Refused, Nothing}            -> t
                    [] t \notin {Refused, Nothing} /\ acc = Type("none") -> t
                    [] OTHER                               -> MergeCaseThenAccum(acc, t)
      when == ResolveExpressionAST(arms[1])
      match == IF simple THEN MergeComparison(Disc, when) ELSE MergeBoolNot(when)
      then == Merge(ResolveExpressionAST(arms[2]))
  IN CASE arms = <<>>   -> [acc EXCEPT !.nullable = TRUE]
       [] Len(arms) = 1 -> Merge(when)
       [] OTHER -> CASE when \in {Refused, Nothing}  -> when
                     [] when \notin {Refused, Nothing} /\ match = Refused -> Refused
                     [] OTHER -> IF then \in {Refused, Nothing} THEN then
                                 ELSE ResolveArms(SubSeq(arms, 3, Len(arms)), then, Disc, simple)

ResolveExpressionAST(ast) ==
  LET a == ast.args
      k == ast.kind
      First(F(_)) == WithTypes(<<a[1]>>, LAMBDA ts : F(ts[1]))
      Both(F(_, _)) == WithTypes(a, LAMBDA ts : F(ts[1], ts[2]))
  IN CASE k \in {"true", "false", "exists"}      -> Type("boolean")
       [] k = "sql_null"                         -> SqlNull
       [] k = "string"                           -> Type("text")
       [] k = "number"                           -> Type("integer")
       [] k = "param"                            -> Named
       \* A number is a key of any tuple: beyond its end there is no error.
       [] k = "?"                                -> IF ast.index < Len(Params) THEN Params[ast.index + 1] ELSE Nothing
       [] k = "col"                              -> IF ast.text \in DOMAIN Columns THEN Columns[ast.text] ELSE Refused
       [] k = "star"                             -> Refused
       [] k = "query"                            -> QueryType
       [] k = "count_star"                       -> Type("star")
       [] k = "scalar_subquery"                  -> QueryType
       [] k = "neg"                              -> First(ResolveNeg)
       [] k = "not"                              -> First(MergeBoolNot)
       [] k \in {"add", "sub", "mul", "mod", "exp"} -> Both(ResolvePair)
       [] k \in {"and", "or"}                    -> Both(MergeBoolBinary)
       [] k = "cmp"                              -> Both(MergeComparison)
       [] k = "like"                             -> Both(MergeLikeOperands)
       [] k \in {"is_null", "is_not_null"}       -> First(LAMBDA t : Type("boolean"))
       [] k \in {"pg_cast", "sql_cast"}          -> First(LAMBDA t : ResolveCastFromShape(t, ast.text))
       [] k = "between"                          -> WithTypes(a, LAMBDA ts : MergeBetweenBounds(ts[1], ts[2], ts[3]))
       [] k = "custom_op"                        -> Both(LAMBDA t, u : ResolveCustomOp(ast.text[1], t, u))
       [] k = "array_ctor"                       -> WithTypes(a, InferArrayType)
       [] k = "array_index"                      -> Both(LAMBDA t, u : Type("unknown"))
       [] k = "any_op"                           -> Both(LAMBDA t, u : ResolveAnyAllSome(t, u, a[2].kind = "query"))
       [] k = "in_subquery"                      -> Both(ValidateInListElement)
       [] k = "in_list"                          -> First(LAMBDA t : ResolveInListItems(t, Tail(a)))
       [] k = "case_searched"                    -> ResolveArms(a, Type("none"), Type("boolean"), FALSE)
       [] k = "case_simple"                      -> First(LAMBDA t : ResolveArms(Tail(a), Type("none"), t, TRUE))
       [] k = "function_call"                    -> WithTypes(a, LAMBDA ts : ResolveFunctionCall(ast.text[1], ts))
       \* The window is not looked at.
       [] k = "window_function" -> WithTypes(a[1].args, LAMBDA ts : ResolveWindowFunction(ast.text[1], ts))
       [] OTHER                                  -> Nothing
=============================================================================
