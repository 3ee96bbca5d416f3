------------------------------- MODULE Binders -------------------------------
(***************************************************************************)
(* The run-time binders, src/postgres/bind-colon-named-params-for-pg.ts    *)
(* and bind-positional-params-for-pg.ts, beside the lexer whose parameters *)
(* they bind, and the comments of scripts/split-sql-token-statements.ts:   *)
(* all scan the same source, each by rules of its own.                     *)
(***************************************************************************)
EXTENDS Lexer

-----------------------------------------------------------------------------
(* The scans. *)

\* A plausible slip: literals are not looked at.
QuotedNever(s) == FALSE

Quoted(s) == Starts(s, Quote)

\* s is inside a literal: a quote ends it, two are one.
AfterString[s \in Text] ==
  IF ~Has(s, Quote) THEN <<>>
  ELSE LET after == Behind(s, Quote)
       IN IF Starts(after, Quote) THEN AfterString[Tail(after)] ELSE after

\* A plausible slip: no look at `::`.
CastNever(s) == FALSE

Cast(s) == Starts(s, <<":", ":">>)

Named(s) == Len(s) > 1 /\ s[1] = ":" /\ s[2] \in StartTokenChar

\* The names that bindColonNamedParamsForPg replaces, in order.
ColonNames[s \in Text] ==
  CASE s = <<>>  -> <<>>
    [] Quoted(s) -> ColonNames[AfterString[Tail(s)]]
    [] Cast(s)   -> ColonNames[From(s, 3)]
    [] Named(s)  -> LET n == RunOf(Tail(s), TokenChar)
                    IN <<SubSeq(s, 2, n + 1)>> \o ColonNames[From(s, n + 2)]
    [] OTHER     -> ColonNames[Tail(s)]

\* How many `?` bindPositionalParamsForPg replaces.
QuestionMarks[s \in Text] ==
  CASE s = <<>>            -> 0
    [] Quoted(s)           -> QuestionMarks[AfterString[Tail(s)]]
    [] Starts(s, <<"?">>)  -> 1 + QuestionMarks[Tail(s)]
    [] OTHER               -> QuestionMarks[Tail(s)]

\* nameToIndex: a name has the index of its first occurrence among the
\* different names, and values holds one value for each.
Distinct[names \in Seq(Text)] ==
  IF names = <<>> THEN <<>>
  ELSE LET earlier == Distinct[Front(names)]
       IN IF Contains(earlier, Last(names)) THEN earlier ELSE Append(earlier, Last(names))

NameToIndex(names, n) == CHOOSE i \in DOMAIN Distinct[names] : Distinct[names][i] = n

\* bindColonNamedParamsForPg: the names whose values are sent, and for each
\* placeholder the index it is given.
BindColon(s) ==
  LET names == ColonNames[s]
  IN [values |-> Distinct[names], slots |-> [k \in DOMAIN names |-> NameToIndex(names, names[k])]]

\* pgQueryArgs with an array of count values: how many are sent, -1 when the
\* binder throws.  Without a `?` they are taken for $1, $2 and so on.
Sent(s, count) ==
  CASE ~Has(s, <<"?">>)                               -> count
    [] Has(s, <<"?">>) /\ QuestionMarks[s] > count -> -1
    [] OTHER                                          -> QuestionMarks[s]

\* skipToBlockCommentEnd, from behind the opening of a comment: what is left
\* when as many have ended as have begun.
SkipToBlockCommentEnd[s \in Text] ==
  [depth \in Nat |->
     CASE depth = 0 \/ s = <<>>                -> s
       [] depth # 0 /\ Starts(s, Opening)      -> SkipToBlockCommentEnd[From(s, 3)][depth + 1]
       [] depth # 0 /\ Starts(s, Closing)      -> SkipToBlockCommentEnd[From(s, 3)][depth - 1]
       [] OTHER                                -> SkipToBlockCommentEnd[Tail(s)][depth]]

-----------------------------------------------------------------------------
(* What is the same for all. *)

\* The source without what is inside its literals.
Outside[s \in Text] ==
  CASE s = <<>>  -> <<>>
    [] Quoted(s) -> <<"'">> \o Outside[AfterString[Tail(s)]]
    [] OTHER     -> <<Head(s)>> \o Outside[Tail(s)]

\* Nothing but literals hides characters from the lexer, and no parameter is
\* a number.
Plain(s) ==
  LET o == Outside[s]
  IN /\ ~Has(o, Dashes) /\ ~Has(o, Opening)
     /\ ~Has(o, <<"dq">>) /\ ~Has(o, <<"$">>)
     /\ \A d \in Digit : ~Has(o, <<":", d>>)

Read == token.kind = "eot"

\* The parameters the statement was checked with are the ones it runs with:
\* the k-th `:name` of the lexer gets the k-th placeholder, and the value at
\* its index is the one of that name.
NamesAreBound ==
  Read /\ Plain(source) /\ "named-params" \in Syntax =>
    LET bound == BindColon(source)
    IN named = [k \in DOMAIN bound.slots |-> bound.values[bound.slots[k]]]

\* Every `?` the lexer took for a parameter is sent a value, and nothing else
\* is, unless an operator contains one.
MarksAreBound ==
  Read /\ Plain(source) /\ ~wide => Sent(source, marks) = marks

\* Comments nest the same way in the lexer, which cuts the text at the first
\* */ and looks back for an opening, and in the splitter, which counts; /*/
\* and */* included.
CommentsNestAlike == SkipMultiComment[rest] = SkipToBlockCommentEnd[rest][1]

=============================================================================
