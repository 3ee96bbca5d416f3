----------------------------- MODULE Expression ------------------------------
(***************************************************************************)
(* The parser of expressions, src/parser/parse-expression.ts: one operator *)
(* for each level of the grammar, from ParseOr down to TryOperand.         *)
(*                                                                         *)
(* A token is the name of its kind: a literal is the kind of its tree, "=" *)
(* stands for the comparisons, "like" for ILIKE too and "~" for ~*, "||"   *)
(* for the custom operators.  Identifiers are told apart.  The token       *)
(* "select" stands for a whole SELECT, in order, that returns one column   *)
(* and in which as many `?` may be as it likes: its parser is given none   *)
(* of the counting (see ParseQuery).  Where a type comes out as `never`    *)
(* the tree is Never, and stays it.                                        *)
(***************************************************************************)
EXTENDS Skip

CONSTANT Ident        \* identifiers

Literal == {"true", "false", "sql_null", "string", "number", "param"}

\* Tokens that are not keys.
Words == Ident \cup {"string", "number", "param", "eot"}

-----------------------------------------------------------------------------
(* Trees, and what a parser answers: what is left, the tree, and the number *)
(* that the next `?` has (positionalParamIndex of the environment).         *)

Tree(kind, text, args) == [kind |-> kind, text |-> text, index |-> 0, args |-> args]

Node(kind, args) == Tree(kind, <<>>, args)

Error == Node("error", <<>>)

Never == Node("never", <<>>)

Read(s, ast, next) == [rest |-> s, ast |-> ast, next |-> next]

\* The tree so far and the one read behind it, under one node.
Joined(kind, l, r) == Read(r.rest, Node(kind, <<l.ast, r.ast>>), r.next)

Is(s, tokens) == Peek(s) \in tokens

\* SkipFailedExpression and SkipFailedExpressionWithEnv.
SkipFailed(s, next) == Read(ParseSkipStatement(s).rest, Error, next)

\* An error is handed on behind one more skip, at every level.
Then(r, Continue(_)) ==
  CASE r.ast.kind = "error" -> SkipFailed(r.rest, r.next)
    [] r.ast.kind = "never" -> r
    [] OTHER                -> Continue(r)

\* The token, or an error from where it should be.
Expect(r, token, ast) ==
  IF Is(r.rest, {token}) THEN Read(Tail(r.rest), ast, r.next) ELSE SkipFailed(r.rest, r.next)

-----------------------------------------------------------------------------
(* Names of types, and casts. *)

RECURSIVE ParseSqlTypeName(_, _, _)
ParseSqlTypeName(s, parts, n) ==
  LET More(t) == ParseSqlTypeName(t, Append(parts, Head(s)), n)
  IN CASE ~Is(s, Ident) /\ parts = <<>> -> SkipFailed(s, n)
       [] ~Is(s, Ident) /\ parts # <<>> -> Read(s, Tree("type", parts, <<>>), n)
       [] OTHER ->
            CASE Is(Tail(s), {"("}) ->
                   LET skip == SkipUntil(Tail(Tail(s)), {")"}, <<>>)
                   IN IF skip.result = "skipped" THEN More(Tail(skip.rest)) ELSE SkipFailed(skip.rest, n)
              [] Is(Tail(s), {"."}) -> More(Tail(Tail(s)))
              [] OTHER              -> More(Tail(s))

\* A missing name is an error, of which the callers, who ask for a tree, make
\* `never`.
RECURSIVE ParsePgCastSuffixTail(_)
ParsePgCastSuffixTail(l) ==
  IF ~Is(l.rest, {"::"}) THEN l
  ELSE LET t == ParseSqlTypeName(Tail(l.rest), <<>>, l.next)
       IN IF t.ast = Error THEN Read(t.rest, Never, t.next)
          ELSE ParsePgCastSuffixTail(Read(t.rest, Tree("pg_cast", t.ast.text, <<l.ast>>), t.next))

\* a, a.b, a.b.c, and the stars a.* and a.b.* of select lists.
MaximalIdentChain(s, n) ==
  LET At(k, tokens) == Len(s) >= k /\ s[k] \in tokens
      Chain(kind, k) == Read(SubSeq(s, k + 1, Len(s)),
                             Tree(kind, SelectSeq(SubSeq(s, 1, k), LAMBDA t : t \in Ident), <<>>), n)
  IN CASE ~At(2, {"."})                                               -> Chain("col", 1)
       [] At(2, {"."}) /\ At(3, {"*"})                                -> Chain("star", 3)
       [] At(2, {"."}) /\ At(3, Ident) /\ ~At(4, {"."})               -> Chain("col", 3)
       [] At(2, {"."}) /\ At(3, Ident) /\ At(4, {"."}) /\ At(5, {"*"}) -> Chain("star", 5)
       [] At(2, {"."}) /\ At(3, Ident) /\ At(4, {"."}) /\ At(5, Ident) -> Chain("col", 5)
       [] OTHER                                                       -> Read(s, Never, n)

\* What cannot stand before an arithmetic operator (ScalarAstNonNumericForMulHead).
RECURSIVE NonNumericHead(_)
NonNumericHead(ast) ==
  \/ ast.kind \in {"string", "true", "false", "sql_null", "exists", "in_subquery", "array_ctor", "array_index"}
  \/ ast.kind = "neg" /\ NonNumericHead(ast.args[1])
  \/ ast.kind \in {"pg_cast", "sql_cast"} /\ (ast.text = <<"text">> \/ NonNumericHead(ast.args[1]))

\* A plausible slip: the number grows twice.
ReadMarkTwice(s, n) == Read(Tail(s), [Node("?", <<>>) EXCEPT !.index = n], n + 2)

\* A positional parameter has the number of the environment, and the next one
\* the next (GetPositionalParamIndex, IncrementPositionalParamIndex).
ReadMark(s, n) == Read(Tail(s), [Node("?", <<>>) EXCEPT !.index = n], n + 1)

\* A SELECT in brackets, s behind the opening one.  Its `?` are numbered from
\* 0, and the caller goes on with its own number.
ParseQuery(s, n) == Expect(Read(Tail(s), Node("query", <<>>), n), ")", Node("query", <<>>))

-----------------------------------------------------------------------------
(* A level calls the next one, and a bracket the first, by the name of the  *)
(* rule: Rule, at the end, chooses among them.                              *)

RECURSIVE Rule(_, _, _)
RECURSIVE ParseAfterRel(_), ParseAnyAllSome(_, _), ParseFromIdent(_, _), ParseNonIdent(_, _), TryOperand(_, _)
RECURSIVE ParseParen(_, _), ParseCast(_, _), ParseCase(_, _), ParseAfterArm(_, _, _, _), ParseOver(_, _)
RECURSIVE ParseOrLoop(_), ParseAndLoop(_), ParseOtherLoop(_), ParseAddLoop(_), ParseMulLoop(_), ParseExpLoop(_)
RECURSIVE ParseIndexTail(_), ParseInList(_, _, _), ParseElements(_, _, _, _), ParsePartition(_, _, _), ParseOrder(_, _, _)
RECURSIVE ParseWhen(_, _, _, _)

ParseOr(s, n) == Then(Rule("and", s, n), LAMBDA r : ParseOrLoop(r))

ParseOrLoop(l) ==
  IF ~Is(l.rest, {"or"}) THEN l
  ELSE Then(Rule("and", Tail(l.rest), l.next), LAMBDA r : ParseOrLoop(Joined("or", l, r)))

ParseAnd(s, n) == Then(Rule("not", s, n), LAMBDA r : ParseAndLoop(r))

ParseAndLoop(l) ==
  IF ~Is(l.rest, {"and"}) THEN l
  ELSE Then(Rule("not", Tail(l.rest), l.next), LAMBDA r : ParseAndLoop(Joined("and", l, r)))

ParseNot(s, n) ==
  CASE Is(s, {"exists"}) ->
         (CASE ~Is(Tail(s), {"("})                                     -> SkipFailed(Tail(s), n)
            [] Is(Tail(s), {"("}) /\ ~Is(Tail(Tail(s)), {"select"})    -> SkipFailed(Tail(Tail(s)), n)
            [] OTHER -> Then(ParseQuery(Tail(Tail(s)), n),
                             LAMBDA r : Read(r.rest, Node("exists", <<r.ast>>), n)))
    [] Is(s, {"not"}) -> Then(Rule("not", Tail(s), n), LAMBDA r : Read(r.rest, Node("not", <<r.ast>>), r.next))
    [] OTHER -> Rule("rel", s, n)

ParseRel(s, n) == Then(Rule("other", s, n), LAMBDA r : ParseAfterRel(r))

\* At most one of these behind an operand; NOT IN and its like are not read.
ParseAfterRel(l) ==
  LET s == IF l.rest = <<>> THEN <<>> ELSE Tail(l.rest)
      Operand(kind) == Then(Rule("other", s, l.next), LAMBDA r : Joined(kind, l, r))
      Low == Rule("add", s, l.next)
      Between(low, high) == Read(high.rest, Node("between", <<l.ast, low.ast, high.ast>>), high.next)
      In == IF Is(Tail(s), {"select"})
            THEN Then(Then(ParseQuery(Tail(s), l.next), LAMBDA r : Joined("in_subquery", l, r)), LAMBDA r : r)
            ELSE Then(ParseInList(Tail(s), <<>>, l.next),
                      LAMBDA r : Read(r.rest, Node("in_list", <<l.ast>> \o r.ast.args), r.next))
  IN CASE Is(l.rest, {"="}) /\ Is(s, {"any", "all", "some"})  -> ParseAnyAllSome(l, s)
       [] Is(l.rest, {"="}) /\ ~Is(s, {"any", "all", "some"}) -> Operand("cmp")
       [] Is(l.rest, {"like", "~"})          -> Operand("like")
       [] Is(l.rest, {"!~"}) ->
            Then(Rule("other", s, l.next), LAMBDA r : Read(r.rest, Node("not", <<Joined("like", l, r).ast>>), r.next))
       [] Is(l.rest, {"is"}) /\ Is(s, {"not"})  -> Expect(Read(Tail(s), l.ast, l.next), "sql_null", Node("is_not_null", <<l.ast>>))
       [] Is(l.rest, {"is"}) /\ ~Is(s, {"not"}) -> Expect(Read(s, l.ast, l.next), "sql_null", Node("is_null", <<l.ast>>))
       [] Is(l.rest, {"in"}) -> IF Is(s, {"("}) THEN In ELSE SkipFailed(s, l.next)
       [] Is(l.rest, {"between"}) ->
            Then(Low, LAMBDA low :
              IF ~Is(low.rest, {"and"}) THEN SkipFailed(low.rest, low.next)
              ELSE Then(Rule("other", Tail(low.rest), low.next), LAMBDA high : Between(low, high)))
       [] OTHER -> l

\* s begins with ANY, ALL or SOME; the three are typed alike.
ParseAnyAllSome(l, s) ==
  LET inner == Tail(Tail(s))
  IN CASE ~Is(Tail(s), {"("}) -> SkipFailed(Tail(s), l.next)
       [] Is(Tail(s), {"("}) /\ Is(inner, {"select"}) ->
            Then(ParseQuery(inner, l.next), LAMBDA r : Joined("any_op", l, r))
       [] OTHER -> Then(Rule("or", inner, l.next),
                        LAMBDA r : Expect(r, ")", Node("any_op", <<l.ast, r.ast>>)))

ParseOther(s, n) == Then(Rule("add", s, n), LAMBDA r : ParseOtherLoop(r))

\* `a || b`, and `a operator(||) b`.
ParseOtherLoop(l) ==
  LET Operand(op, s) == Then(Rule("add", s, l.next), LAMBDA r :
                          ParseOtherLoop(Read(r.rest, Tree("custom_op", <<op>>, <<l.ast, r.ast>>), r.next)))
      At(k) == SubSeq(l.rest, k, Len(l.rest))
  IN CASE Is(l.rest, {"||"}) -> Operand("||", At(2))
       [] Is(l.rest, {"operator"}) /\ ~Is(At(2), {"("})                    -> SkipFailed(At(2), l.next)
       [] Is(l.rest, {"operator"}) /\ Is(At(2), {"("}) /\ Is(At(3), Words) -> SkipFailed(At(3), l.next)
       [] Is(l.rest, {"operator"}) /\ Is(At(2), {"("}) /\ ~Is(At(3), Words) ->
            IF Is(At(4), {")"}) THEN Operand(l.rest[3], At(5)) ELSE SkipFailed(At(4), l.next)
       [] OTHER -> l

ParseAdd(s, n) == IF Is(s, Ident) THEN ParseFromIdent(s, n) ELSE ParseNonIdent(s, n)

\* A plausible slip: what is behind a sign is read with the signs behind it.
ParseAddLoopRight(l) ==
  CASE Is(l.rest, {"+"}) -> Then(ParseNonIdent(Tail(l.rest), l.next), LAMBDA r : Joined("add", l, r))
    [] Is(l.rest, {"-"}) -> Then(ParseNonIdent(Tail(l.rest), l.next), LAMBDA r : Joined("sub", l, r))
    [] OTHER             -> l

\* The operands behind a sign are no identifiers.
ParseAddLoop(l) ==
  CASE Is(l.rest, {"+"}) -> Then(Rule("mul", Tail(l.rest), l.next), LAMBDA r : ParseAddLoop(Joined("add", l, r)))
    [] Is(l.rest, {"-"}) -> Then(Rule("mul", Tail(l.rest), l.next), LAMBDA r : ParseAddLoop(Joined("sub", l, r)))
    [] OTHER             -> l

\* What begins with an identifier: a column, a cast or a call.  A `*` behind
\* it is not read, and nothing behind a call.
ParseFromIdent(s, n) ==
  LET c    == MaximalIdentChain(s, n)
      cast == ParsePgCastSuffixTail(c)
      skip == SkipUntil(Tail(c.rest), {")"}, <<>>)
      args == IF Is(Tail(c.rest), {"*"}) THEN Expect(Read(Tail(Tail(c.rest)), Error, n), ")", Node("list", <<Node("count_star", <<>>)>>))
              ELSE ParseElements(Tail(c.rest), ")", <<>>, n)
  IN CASE c.ast.kind = "never" -> c
       [] c.ast.kind = "star" /\ ~Is(c.rest, {"("}) -> c
       [] c.ast.kind = "star" /\ Is(c.rest, {"("}) ->
            SkipFailed(IF skip.result = "skipped" THEN Tail(skip.rest) ELSE skip.rest, n)
       [] c.ast.kind = "col" /\ Is(c.rest, {"("}) ->
            Then(args, LAMBDA r : IF Len(c.ast.text) = 1 THEN ParseOver(c.ast.text, r)
                                  ELSE SkipFailed(r.rest, r.next))
       [] OTHER -> IF cast.ast = Never THEN cast ELSE ParseAddLoop(cast)

ParseNonIdent(s, n) ==
  Then(Rule("mul", s, n), LAMBDA r :
    CASE NonNumericHead(r.ast) /\ Is(r.rest, {"+", "-", "*"})  -> SkipFailed(r.rest, r.next)
      [] NonNumericHead(r.ast) /\ ~Is(r.rest, {"+", "-", "*"}) -> r
      [] OTHER                                                 -> ParseAddLoop(r))

ParseMul(s, n) ==
  Then(Rule("exp", s, n), LAMBDA r :
    CASE NonNumericHead(r.ast) /\ Is(r.rest, {"+", "-", "*", "/", "%", "^"})  -> SkipFailed(r.rest, r.next)
      [] NonNumericHead(r.ast) /\ ~Is(r.rest, {"+", "-", "*", "/", "%", "^"}) -> r
      [] OTHER                                                                -> ParseMulLoop(r))

ParseMulLoop(l) ==
  IF ~Is(l.rest, {"*", "/", "%"}) THEN l
  ELSE Then(Rule("exp", Tail(l.rest), l.next), LAMBDA r :
         ParseMulLoop(Joined(IF Is(l.rest, {"%"}) THEN "mod" ELSE "mul", l, r)))

ParseExp(s, n) == Then(Rule("unary", s, n), LAMBDA r : ParseExpLoop(r))

ParseExpLoop(l) ==
  IF ~Is(l.rest, {"^"}) THEN l
  ELSE Then(Rule("unary", Tail(l.rest), l.next), LAMBDA r : ParseExpLoop(Joined("exp", l, r)))

ParseUnary(s, n) ==
  IF Is(s, {"-"})
  THEN Then(Rule("unary", Tail(s), n), LAMBDA r : Read(r.rest, Node("neg", <<r.ast>>), r.next))
  ELSE Then(TryOperand(s, n), LAMBDA r :
         LET cast == ParsePgCastSuffixTail(r) IN IF cast.ast = Never THEN cast ELSE ParseIndexTail(cast))

ParseIndexTail(l) ==
  IF ~Is(l.rest, {"["}) THEN l
  ELSE Then(Rule("or", Tail(l.rest), l.next), LAMBDA r :
         IF ~Is(r.rest, {"]"}) THEN SkipFailed(r.rest, r.next)
         ELSE ParseIndexTail(Read(Tail(r.rest), Node("array_index", <<l.ast, r.ast>>), r.next)))

-----------------------------------------------------------------------------
(* Operands.  An identifier is none: ParseAdd takes it before. *)

TryOperand(s, n) ==
  CASE Is(s, {"cast"})  -> ParseCast(Tail(s), n)
    [] Is(s, {"case"})  -> ParseCase(Tail(s), n)
    [] Is(s, {"array"}) ->
         IF ~Is(Tail(s), {"["}) THEN Read(s, Never, n)
         ELSE Then(Then(ParseElements(Tail(Tail(s)), "]", <<>>, n),
                        LAMBDA r : Read(r.rest, Node("array_ctor", r.ast.args), r.next)),
                   LAMBDA r : r)
    [] Is(s, {"("})     -> ParseParen(Tail(s), n)
    [] Is(s, Literal)   -> Read(Tail(s), Node(Head(s), <<>>), n)
    [] Is(s, {"?"})     -> ReadMark(s, n)
    [] OTHER            -> SkipFailed(SkipToken(s), n)

ParseParen(s, n) ==
  IF Is(s, {"select"})
  THEN Then(ParseQuery(s, n), LAMBDA r : Read(r.rest, Node("scalar_subquery", <<r.ast>>), n))
  ELSE Then(Rule("or", s, n), LAMBDA r :
         IF Is(r.rest, {")"}) THEN Read(Tail(r.rest), r.ast, r.next)
         ELSE SkipFailed(SkipToken(r.rest), r.next))

\* s is behind CAST.
ParseCast(s, n) ==
  IF ~Is(s, {"("}) THEN SkipFailed(s, n)
  ELSE Then(Rule("or", Tail(s), n), LAMBDA r :
         IF ~Is(r.rest, {"as"}) THEN SkipFailed(r.rest, r.next)
         ELSE Then(ParseSqlTypeName(Tail(r.rest), <<>>, r.next), LAMBDA t :
                Read(SkipToken(t.rest),
                     IF Is(t.rest, {")"}) THEN Tree("sql_cast", t.ast.text, <<r.ast>>) ELSE Error,
                     t.next)))

\* A plausible slip: the values of IN are all read in the environment of the
\* first.
ParseInListStale(s, items, n) ==
  IF items = <<>> /\ Is(s, {")"}) THEN SkipFailed(s, n)
  ELSE Then(Rule("or", s, n), LAMBDA r :
         IF Is(r.rest, {","}) THEN ParseInList(Tail(r.rest), Append(items, r.ast), n)
         ELSE Expect(r, ")", Node("list", Append(items, r.ast))))

\* The values of IN, at least one.
ParseInList(s, items, n) ==
  IF items = <<>> /\ Is(s, {")"}) THEN SkipFailed(s, n)
  ELSE Then(Rule("or", s, n), LAMBDA r :
         IF Is(r.rest, {","}) THEN ParseInList(Tail(r.rest), Append(items, r.ast), r.next)
         ELSE Expect(r, ")", Node("list", Append(items, r.ast))))

\* The arguments of a call and the elements of an array, of which the last may
\* have its comma.
ParseElements(s, close, items, n) ==
  IF Is(s, {close}) THEN Read(Tail(s), Node("list", items), n)
  ELSE Then(Rule("or", s, n), LAMBDA r :
         IF Is(r.rest, {","}) THEN ParseElements(Tail(r.rest), close, Append(items, r.ast), r.next)
         ELSE Expect(r, close, Node("list", Append(items, r.ast))))

\* s is behind CASE.  The arms are pairs of args, behind the discriminant of
\* the simple form and before the tree of ELSE.
ParseCase(s, n) ==
  IF Is(s, {"when"}) THEN ParseWhen(s, "case_searched", <<>>, n)
  ELSE Then(Rule("or", s, n), LAMBDA r :
         IF Is(r.rest, {"when"}) THEN ParseWhen(r.rest, "case_simple", <<r.ast>>, r.next)
         ELSE SkipFailed(r.rest, r.next))

ParseWhen(s, kind, args, n) ==
  Then(Rule("or", Tail(s), n), LAMBDA w :
    IF ~Is(w.rest, {"then"}) THEN SkipFailed(w.rest, w.next)
    ELSE Then(Rule("or", Tail(w.rest), w.next), LAMBDA t :
           ParseAfterArm(t.rest, kind, args \o <<w.ast, t.ast>>, t.next)))

ParseAfterArm(s, kind, args, n) ==
  CASE Is(s, {"when"}) -> ParseWhen(s, kind, args, n)
    [] Is(s, {"else"}) -> Then(Rule("or", Tail(s), n), LAMBDA e : Expect(e, "end", Node(kind, Append(args, e.ast))))
    [] OTHER           -> Expect(Read(s, Error, n), "end", Node(kind, args))

-----------------------------------------------------------------------------
(* Calls: name( ... ) [OVER ( [PARTITION BY ...] [ORDER BY ...] )]. *)

ParseOver(name, r) ==
  LET s == Tail(r.rest)
      Window(more) == Tree("window_function", name, <<r.ast>> \o more)
      Order(p) ==
        IF ~Is(Tail(p.rest), {"by"}) THEN SkipFailed(Tail(p.rest), p.next)
        ELSE Then(ParseOrder(Tail(Tail(p.rest)), p.ast.args, p.next), LAMBDA o : Expect(o, ")", Window(o.ast.args)))
      none == Read(Tail(s), Node("list", <<>>), r.next)
  IN CASE ~Is(r.rest, {"over"}) -> Read(r.rest, Tree("function_call", name, r.ast.args), r.next)
       [] Is(r.rest, {"over"}) /\ ~Is(s, {"("}) -> SkipFailed(s, r.next)
       [] OTHER ->
            CASE Is(Tail(s), {"partition"}) ->
                   (IF ~Is(Tail(Tail(s)), {"by"}) THEN SkipFailed(Tail(Tail(s)), r.next)
                    ELSE Then(ParsePartition(Tail(Tail(Tail(s))), <<>>, r.next), LAMBDA p :
                           IF Is(p.rest, {"order"}) THEN Order(p) ELSE Expect(p, ")", Window(p.ast.args))))
              [] Is(Tail(s), {"order"}) -> Order(none)
              [] OTHER                  -> SkipFailed(Tail(s), r.next)

ParsePartition(s, items, n) ==
  Then(Rule("or", s, n), LAMBDA r :
    IF Is(r.rest, {","}) THEN ParsePartition(Tail(r.rest), Append(items, r.ast), r.next)
    ELSE Read(r.rest, Node("list", Append(items, r.ast)), r.next))

ParseOrder(s, items, n) ==
  Then(Rule("or", s, n), LAMBDA r :
    LET t == IF Is(r.rest, {"asc", "desc"}) THEN Tail(r.rest) ELSE r.rest
    IN IF Is(t, {","}) THEN ParseOrder(Tail(t), Append(items, r.ast), r.next)
       ELSE Read(t, Node("list", Append(items, r.ast)), r.next))

Rule(rule, s, n) ==
  CASE rule = "or"    -> ParseOr(s, n)
    [] rule = "and"   -> ParseAnd(s, n)
    [] rule = "not"   -> ParseNot(s, n)
    [] rule = "rel"   -> ParseRel(s, n)
    [] rule = "other" -> ParseOther(s, n)
    [] rule = "add"   -> ParseAdd(s, n)
    [] rule = "mul"   -> ParseMul(s, n)
    [] rule = "exp"   -> ParseExp(s, n)
    [] rule = "unary" -> ParseUnary(s, n)

\* ParseExpressionAST, with an environment in which no `?` has been read.
ParseExpressionAST(s) == Rule("or", s, 0)
=============================================================================
