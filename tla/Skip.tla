-------------------------------- MODULE Skip ---------------------------------
(***************************************************************************)
(* SkipBracketedUntil (src/parser/skip-statement.ts) from its first call   *)
(* to its last, as the parsers of expressions use it.                      *)
(***************************************************************************)
EXTENDS Brackets, SequencesExt

\* Where the skip stops, and with what.
Stops(s, result) == [rest |-> s, result |-> result]

\* PeekToken: the end of the text is a token.
Peek(s) == IF s = <<>> THEN "eot" ELSE Head(s)

SkipToken(s) == IF s = <<>> THEN s ELSE Tail(s)

RECURSIVE SkipUntil(_, _, _)
SkipUntil(s, ends, stack) ==
  LET call == SkipCall(Peek(s), ends, stack)
  IN IF call.result = "on" THEN SkipUntil(SkipToken(s), ends, call.stack)
     ELSE Stops(s, call.result)

SkipBracketedUntil(s) == SkipUntil(s, EndOfStatement, <<>>)

\* ParseSkipStatement, and SkipFailedStatement but for its error: behind the
\* token at which the skip stops.
ParseSkipStatement(s) ==
  LET skip == SkipBracketedUntil(s) IN Stops(SkipToken(skip.rest), skip.result)
=============================================================================
