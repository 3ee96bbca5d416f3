------------------------------ MODULE Brackets -------------------------------
(***************************************************************************)
(* Statements and brackets among tokens: how SkipBracketedUntil            *)
(* (src/parser/skip-statement.ts), by which every parser recovers from an  *)
(* error and every unread rest is passed, and how the grouping of          *)
(* scripts/split-sql-token-statements.ts goes over them token by token,    *)
(* and what a statement and its unmatched brackets are, by counting.       *)
(*                                                                         *)
(* Tokens are brackets, ";" and others; "eot" is the end of the text.      *)
(***************************************************************************)
EXTENDS Integers, Sequences, FiniteSets

Semicolon == ";"

Opening == {"(", "["}
Closing == {")", "]"}

ClosingOf(t) == IF t = "(" THEN ")" ELSE "]"

-----------------------------------------------------------------------------
(* One call of SkipBracketedUntil, which looks at a token: it goes on with *)
(* the next one and a stack, or stops, with a result.                      *)

On(stack) == [result |-> "on", stack |-> stack]

With(result) == [result |-> result, stack |-> <<>>]

\* A plausible slip: an end token between brackets ends the skip.
SkipCallUnbracketed(t, ends, stack) ==
  CASE t \in Opening                                -> On(<<ClosingOf(t)>> \o stack)
    [] t \in ends \ Opening                         -> With("skipped")
    [] t \in Closing \ ends /\ stack = <<>>         -> With("unmatched")
    [] t \in Closing \ ends /\ stack # <<>>         -> On(Tail(stack))
    [] t = "eot" /\ t \notin ends                   -> With("missing")
    [] t \notin ends \cup Opening \cup Closing \cup {"eot"} -> On(stack)

\* A plausible slip: square brackets are opened and not closed.
SkipCallRound(t, ends, stack) ==
  CASE t \in Opening                          -> On(<<ClosingOf(t)>> \o stack)
    [] t = "eot" /\ stack # <<>>              -> With("unclosed")
    [] t = ")" /\ stack # <<>>                -> On(Tail(stack))
    [] t \in ends /\ stack = <<>>             -> With("skipped")
    [] t \in Closing \ ends /\ stack = <<>>   -> With("unmatched")
    [] t \notin Opening \cup {"eot", ")"} /\ (stack # <<>> \/ t \notin ends \cup Closing) -> On(stack)

\* SkipBracketedUntil<Tokens, EndToken, ClosingBracketsStack>, t being the token
\* that Tokens are at.
SkipCall(t, ends, stack) ==
  IF t \in Opening THEN On(<<ClosingOf(t)>> \o stack)
  ELSE IF stack # <<>>
       THEN CASE t = "eot"                        -> With("unclosed")
              [] t = Head(stack)                  -> On(Tail(stack))
              [] t \in Closing \ {Head(stack)}    -> With("unmatched")
              [] t \notin Closing \cup {"eot"}    -> On(stack)
       ELSE CASE t \in ends                       -> With("skipped")
              [] t = "eot" /\ t \notin ends       -> With("missing")
              [] t \in Closing \ ends             -> With("unmatched")
              [] t \notin ends \cup Closing \cup {"eot"} -> On(stack)

\* To the end of the statement, which is the default.
EndOfStatement == {"eot", Semicolon}

-----------------------------------------------------------------------------
(* One round of the loop of splitTokenStreamIntoStatements. *)

\* The stack behind a token: a closing bracket that closes nothing is ignored.
OpenBehind(t, open) ==
  IF t \in Opening THEN <<ClosingOf(t)>> \o open
  ELSE IF open # <<>> /\ t = Head(open) THEN Tail(open) ELSE open

\* Whether the statement ends with it.
Cuts(t, open) == t = Semicolon /\ open = <<>>

-----------------------------------------------------------------------------
(* The same by counting. *)

Count(s, k, Class) == Cardinality({i \in 1 .. k : s[i] \in Class})

Height(s, k) == Count(s, k, Opening) - Count(s, k, Closing)

\* No lower since the beginning: what opened before k is closed before it.
AtGround(s, k) == \A j \in 0 .. k : Height(s, k) <= Height(s, j)

\* A closing bracket that closes nothing.
Unmatched(s, k) == s[k] \in Closing /\ \A j \in 0 .. k - 1 : Height(s, k) < Height(s, j)

\* Where the statement that s begins with ends.
Ends(s) == {k \in DOMAIN s : s[k] = Semicolon /\ AtGround(s, k)}

End(s) == CHOOSE k \in Ends(s) : \A j \in Ends(s) : k <= j

\* The skips it takes from behind the n-th token to there.
SkipsTo(s, n, end) == 1 + Cardinality({k \in n + 1 .. end : Unmatched(s, k)})

\* The k-th token closes the bracket that the j-th one opens.
Closes(s, j, k) ==
  /\ s[j] \in Opening
  /\ Height(s, j - 1) = Height(s, k)
  /\ \A i \in j .. k - 1 : Height(s, i) > Height(s, k)

\* A bracket that closes something in the statement closes one of its kind.
WellTyped(s) ==
  \A k \in 1 .. End(s) : s[k] \in Closing /\ ~Unmatched(s, k) =>
    \E j \in 1 .. k - 1 : Closes(s, j, k) /\ ClosingOf(s[j]) = s[k]
=============================================================================
