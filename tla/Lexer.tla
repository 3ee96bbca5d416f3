-------------------------------- MODULE Lexer --------------------------------
(***************************************************************************)
(* The compile-time lexer: src/lexer/sql-lexer.ts, read token by token     *)
(* through the monad of src/lexer/parser-monad.ts.                         *)
(*                                                                         *)
(* A source is a sequence of characters, of which the constants choose     *)
(* one or two of each class that the lexer tells apart: "e" is the letter  *)
(* of an exponent, "nl" the line feed, "sp" the space, "dq" the double     *)
(* quote, "," any character of no other class.  A token keeps its kind,    *)
(* the name of a parameter and the spelling of an operator or a key; words *)
(* and strings are not told apart.                                         *)
(***************************************************************************)
EXTENDS Integers, Sequences, SequencesExt

CONSTANTS Sources,   \* the sources read
          Syntax     \* features of the driver's lexer, a set of strings

VARIABLES
  source,   \* the whole source
  token,    \* PeekToken of the monad
  rest,     \* what the monad has not read
  named,    \* history: the names of the parameters read
  marks,    \* history: how many `?` were read
  wide      \* history: an operator that only contains a `?` was read

vars == <<source, token, rest, named, marks, wide>>

-----------------------------------------------------------------------------
(* Characters. *)

Letter         == {"a", "e"}
Digit          == {"0", "1"}
StartTokenChar == Letter \cup {"_"}
TokenChar      == StartTokenChar \cup Digit
Space          == {"sp", "nl"}
PlusMinus      == {"+", "-"}
Narrow         == {"*", "/", "="}
Wide           == {"@", "?"}
OperatorChars  == PlusMinus \cup Narrow \cup Wide
Char           == TokenChar \cup Space \cup OperatorChars \cup {"'", "dq", ":", "$", ".", ","}

Text == Seq(Char)

ASSUME SourcesAssumption == Sources \subseteq Text

Opening == <<"/", "*">>
Closing == <<"*", "/">>
Dashes  == <<"-", "-">>
Quote   == <<"'">>
Feed    == <<"nl">>

-----------------------------------------------------------------------------
(* Template literal types: `${infer Before}p${infer Rest}` finds the first p. *)

From(s, i) == SubSeq(s, i, Len(s))

Upto(s, i) == SubSeq(s, 1, i)

Places(s, p) == {i \in 1 .. Len(s) - Len(p) + 1 : \A k \in DOMAIN p : s[i + k - 1] = p[k]}

Starts(s, p) == 1 \in Places(s, p)

Has(s, p) == Places(s, p) # {}

First(s, p) == CHOOSE i \in Places(s, p) : \A j \in Places(s, p) : i <= j

Behind(s, p) == From(s, First(s, p) + Len(p))

Before(s, p) == Upto(s, First(s, p) - 1)

\* The characters of a class at the head.
RunOf(s, Class) ==
  CHOOSE n \in 0 .. Len(s) : /\ \A i \in 1 .. n : s[i] \in Class
                             /\ n < Len(s) => s[n + 1] \notin Class

\* What is left when n characters have been read: the buffer that is cut at a
\* space takes the space along when all of it was read.
Left(s, n) == IF n < Len(s) /\ s[n + 1] = "sp" THEN From(s, n + 2) ELSE From(s, n + 1)

-----------------------------------------------------------------------------
(* Spaces and comments. *)

\* A plausible slip: a comment that begins with the slash of the first */ is
\* not seen.
CommentWithinWhole(comment) == Has(comment, Opening)

\* What is before the first */ has an opening, or its slash is half of one.
CommentWithin(comment) == Has(comment, Opening) \/ (comment # <<>> /\ Last(comment) = "/")

\* A comment ends at the first */ unless a comment begins before it, in which
\* case that one is skipped first.
SkipMultiComment[s \in Text] ==
  IF ~Has(s, Closing) THEN <<>>
  ELSE IF CommentWithin(Before(s, Closing)) THEN SkipMultiComment[SkipMultiComment[Behind(s, Opening)]]
  ELSE Behind(s, Closing)

SkipSpaces[s \in Text] ==
  CASE s # <<>> /\ Head(s) \in Space -> SkipSpaces[Tail(s)]
    [] Starts(s, Dashes)             -> IF Has(s, Feed) THEN SkipSpaces[Behind(s, Feed)] ELSE <<>>
    [] Starts(s, Opening)            -> SkipSpaces[SkipMultiComment[From(s, 3)]]
    [] OTHER                         -> s

-----------------------------------------------------------------------------
(* Tokens.  Each reader answers what was read and what is left. *)

Token(kind, text) == [kind |-> kind, text |-> text]

Key(text) == Token("key", text)

Return(t, s) == [token |-> t, rest |-> s]

Error(s) == Return(Token("error", <<>>), s)

\* Operators are as long as they can be, but end in a sign only if a wide
\* character is in them, and end where a comment begins.
OperatorLength(s) ==
  LET n    == RunOf(s, OperatorChars)
      core == {i \in 1 .. n : s[i] \in Narrow}
  IN IF \E i \in 1 .. n : s[i] \in Wide THEN n
     ELSE IF core # {} THEN CHOOSE i \in core : \A j \in core : j <= i
     ELSE 1

ReadOperator(s) ==
  LET word == Upto(s, OperatorLength(s))
      Cut(comment) == Return(Key(Before(word, comment)), From(s, First(word, comment)))
  IN CASE Has(word, Dashes)                        -> Cut(Dashes)
       [] ~Has(word, Dashes) /\ Has(word, Opening) -> Cut(Opening)
       [] OTHER                                    -> Return(Key(word), Left(s, Len(word)))

\* s is behind the opening quote, and so is what is left when none closes.
ReadSingleQuotedString[s \in Text] ==
  IF ~Has(s, Quote) THEN Error(s)
  ELSE LET after == Behind(s, Quote)
           next  == SkipSpaces[after]
           Continued(r) == IF r.token.kind = "error" THEN Error(s) ELSE r
       IN CASE Starts(after, Quote)                          -> Continued(ReadSingleQuotedString[Tail(after)])
            [] ~Starts(after, Quote) /\ Starts(next, Quote) -> Continued(ReadSingleQuotedString[Tail(next)])
            [] OTHER                                         -> Return(Token("string", <<>>), next)

\* s is behind the first dollar.
ReadDollarString(s) ==
  LET Body(tag, t) == IF Has(t, tag) THEN Return(Token("string", <<>>), Behind(t, tag))
                      ELSE Error(s)
  IN CASE Head(s) = "$" -> Body(<<"$", "$">>, Tail(s))
       [] Head(s) # "$" /\ ~Has(Tail(s), <<"$">>) -> Error(s)
       [] OTHER -> LET tag == Before(s, <<"$">>)
                   IN IF Left(Tail(tag), RunOf(Tail(tag), TokenChar)) # <<>> THEN Error(s)
                      ELSE Body(<<"$">> \o tag \o <<"$">>, Behind(s, <<"$">>))

\* The states of the number readers, GetNumber to GetNumberExpNum.
Reader == {"int", "frac", "expstart", "expsign", "exp"}

NumberStep(state, c) ==
  CASE c \in Digit                           -> IF state \in {"expstart", "expsign"} THEN "exp" ELSE state
    [] state = "int" /\ c = "."              -> "frac"
    [] state \in {"int", "frac"} /\ c = "e"  -> "expstart"
    [] state = "expstart" /\ c \in PlusMinus -> "expsign"
    [] \/ state = "expstart" /\ c \notin Digit \cup PlusMinus
       \/ state = "expsign" /\ c \notin Digit
       \/ state \in {"int", "frac"} /\ c \in Letter \ {"e"}
       \/ state = "exp" /\ c \in Letter     -> "error"
    [] OTHER                                 -> "end"

\* What is left behind the number, in each state of its reader.
ReadNumber[s \in Text] ==
  [state \in Reader |->
     LET next == IF s # <<>> THEN NumberStep(state, Head(s))
                 ELSE IF state \in {"expstart", "expsign"} THEN "error" ELSE "end"
     IN CASE next = "end"   -> Return(Token("number", <<>>), s)
          [] next = "error" -> Error(s)
          [] OTHER          -> ReadNumber[Tail(s)][next]]

\* s is behind the dollar.
ReadIndexedParam(s) ==
  LET r     == ReadNumber[Tail(s)]["int"]
      index == Upto(s, Len(s) - Len(r.rest))
  IN IF r.token.kind = "number" /\ \A i \in DOMAIN index : index[i] \in Digit
     THEN Return(Token("indexed_param", index), r.rest)
     ELSE Error(Tail(s))

\* A plausible slip: the name keeps its colon.
ReadColonWhole(s) ==
  LET n == RunOf(Tail(s), TokenChar)
  IN IF n = 0 THEN Return(Key(<<":">>), Tail(s)) ELSE Return(Token("param", Upto(s, n + 1)), Left(Tail(s), n))

\* A plausible slip: a colon that begins nothing is not consumed.
ReadColonStays(s) ==
  LET n == RunOf(Tail(s), TokenChar)
  IN IF n = 0 THEN Return(Key(<<":">>), s) ELSE Return(Token("param", SubSeq(s, 2, n + 1)), Left(Tail(s), n))

ReadColon(s) ==
  LET n == RunOf(Tail(s), TokenChar)
  IN CASE Starts(s, <<":", ":">>)          -> Return(Key(<<":", ":">>), From(s, 3))
       [] n > 0 /\ "named-params" \in Syntax -> Return(Token("param", SubSeq(s, 2, n + 1)), Left(Tail(s), n))
       [] OTHER                            -> Return(Key(<<":">>), Tail(s))

ReadDollar(s) ==
  CASE Len(s) > 1 /\ s[2] \in StartTokenChar \cup {"$"} /\ "dollar-strings" \in Syntax -> ReadDollarString(Tail(s))
    [] Len(s) > 1 /\ s[2] \in Digit \ {"0"} /\ "indexed-params" \in Syntax              -> ReadIndexedParam(Tail(s))
    [] OTHER                                                                            -> Error(s)

\* What begins with no space and no comment.
ReadToken(s) ==
  LET c == Head(s)
  IN CASE s = <<>> -> Return(Token("eot", <<>>), s)
       [] s # <<>> /\ c \in StartTokenChar -> Return(Token("word", <<>>), Left(s, RunOf(s, TokenChar)))
       [] s # <<>> /\ c \in OperatorChars -> ReadOperator(s)
       [] s # <<>> /\ c \in Digit -> ReadNumber[Tail(s)]["int"]
       [] s # <<>> /\ c = "." -> IF Len(s) > 1 /\ s[2] \in Digit THEN ReadNumber[From(s, 3)]["frac"]
                                 ELSE Return(Key(<<c>>), Tail(s))
       [] s # <<>> /\ c = "dq" -> IF Has(Tail(s), <<"dq">>) THEN Return(Token("word", <<>>), Behind(Tail(s), <<"dq">>))
                                  ELSE Error(s)
       [] s # <<>> /\ c = "'" -> ReadSingleQuotedString[Tail(s)]
       [] s # <<>> /\ c = ":" -> ReadColon(s)
       [] s # <<>> /\ c = "$" -> ReadDollar(s)
       [] OTHER -> Return(Key(<<c>>), Tail(s))

\* The reader begins anew behind spaces and comments, and SkipSpaces stops at
\* neither.
ReadTokenFromString(s) == ReadToken(SkipSpaces[s])

-----------------------------------------------------------------------------
(* The monad. *)

Record(t) ==
  /\ named' = IF t.kind = "param" THEN Append(named, t.text) ELSE named
  /\ marks' = IF t = Key(<<"?">>) THEN marks + 1 ELSE marks
  /\ wide' = (wide \/ (t.kind = "key" /\ Len(t.text) > 1 /\ Has(t.text, <<"?">>)))

\* CreateParserMonad reads the first token, which is why it is not in Init.
Init ==
  /\ source \in Sources
  /\ rest = source
  /\ token = Token("start", <<>>)
  /\ named = <<>> /\ marks = 0 /\ wide = FALSE

SkipToken ==
  LET r == ReadTokenFromString(rest)
  IN /\ token' = r.token
     /\ rest' = r.rest
     /\ Record(r.token)
     /\ UNCHANGED source

\* The parsers give a source up at an error.
Next == token.kind \notin {"eot", "error"} /\ SkipToken

Spec == Init /\ [][Next]_vars

-----------------------------------------------------------------------------
TypeOK ==
  /\ source \in Sources
  /\ \E i \in 1 .. Len(source) + 1 : rest = From(source, i)
  /\ token.kind \in {"start", "word", "string", "number", "key", "param", "indexed_param", "eot", "error"}
  /\ named \in Seq(Seq(TokenChar))
  /\ marks \in Nat /\ wide \in BOOLEAN

\* However far the lexer is: a step reads something, or the lexer stays where
\* it is for good, on an error.  SkipBracketedUntil recurses on SkipToken
\* until it sees an end, and never would.
ReadsOn == [][Len(rest') < Len(rest) \/ token'.kind \in {"eot", "error"}]_vars
=============================================================================
