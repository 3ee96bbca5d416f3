------------------------------- MODULE SkipWalk ------------------------------
(***************************************************************************)
(* The walk over the unread rest of a statement: ApplyStatements calls     *)
(* ParseSqlStatement on it until it is passed, and since it begins like no *)
(* statement, that is ParseSkipStatement, which goes over the tokens one   *)
(* call of SkipBracketedUntil at a time.  Ddl counts the calls of          *)
(* ParseSqlStatement (SkipRest); here are the tokens it counts.            *)
(*                                                                         *)
(* Beside it the run-time splitter groups the same tokens: its loop takes  *)
(* each of them when the walk does.                                        *)
(***************************************************************************)
EXTENDS Brackets, Jsql

CONSTANTS Rests,      \* unread rests, with what follows them
          BatchSize, Batches

VARIABLES text,       \* the unread rest, and what follows it
          end,        \* history: at which token the rest ends
          at,         \* "walk" in ApplyParsedStatementsInner, "skip" in a skip
          taken,      \* how many tokens have been consumed
          start,      \* how many had been when the skip began, or will have
          stack,      \* ClosingBracketsStack
          failed,     \* a skip ended at a bracket
          ended,      \* history: the tokens at which a skip ended, without error
          calls,      \* calls of ParseSqlStatement
          open,       \* `stack` of the splitter
          cuts        \* the tokens behind which it has ended a statement

vars == <<text, end, at, taken, start, stack, failed, ended, calls, open, cuts>>

Limit == BatchSize * Batches

\* The rests that Ddl speaks of: they have their `;`, and a bracket that closes
\* one closes one of its kind.
ASSUME RestsAssumption ==
  \A s \in Rests : /\ s \in Seq(Opening \cup Closing \cup {Semicolon, "x"})
                   /\ Ends(s) # {} /\ WellTyped(s)

ASSUME LimitAssumption == BatchSize \in Nat \ {0} /\ Batches \in Nat \ {0}

Init ==
  /\ text \in Rests /\ end = End(text)
  /\ at = "walk"
  /\ taken = 0 /\ start = 0
  /\ stack = <<>>
  /\ failed = FALSE /\ ended = {}
  /\ calls = 0
  /\ open = <<>> /\ cuts = {}

PeekToken == IF taken = Len(text) THEN "eot" ELSE text[taken + 1]

\* The next call of SkipBracketedUntil.
TheCall == SkipCall(PeekToken, EndOfStatement, stack)

SkipToken == taken' = IF taken = Len(text) THEN taken ELSE taken + 1

\* The splitter's loop.
SplitToken ==
  /\ open' = OpenBehind(PeekToken, open)
  /\ cuts' = IF Cuts(PeekToken, open) THEN cuts \cup {taken + 1} ELSE cuts

\* The walk, before the rest, calls ParseSqlStatement and that the skip.
ParseSqlStatement ==
  /\ at = "walk" /\ start < end
  /\ calls < Limit
  /\ at' = "skip"
  /\ calls' = calls + 1
  /\ UNCHANGED <<text, end, taken, start, stack, failed, ended, open, cuts>>

\* SkipBracketedUntil calls itself on the next token.
SkipOn ==
  /\ at = "skip"
  /\ TheCall.result = "on"
  /\ stack' = TheCall.stack
  /\ SkipToken /\ SplitToken
  /\ UNCHANGED <<text, end, at, start, failed, ended, calls>>

\* A plausible slip: the token at which the skip stops is not consumed when it
\* is a bracket.
SkipStopsShort ==
  /\ at = "skip"
  /\ TheCall.result # "on"
  /\ at' = "walk" /\ stack' = <<>>
  /\ IF TheCall.result = "skipped" THEN SkipToken /\ SplitToken
     ELSE UNCHANGED <<taken, open, cuts>>
  /\ start' = taken'
  /\ IF TheCall.result = "skipped"
     THEN UNCHANGED failed /\ ended' = ended \cup {taken + 1}
     ELSE failed' = TRUE /\ UNCHANGED ended
  /\ UNCHANGED <<text, end, calls>>

\* It stops, and ParseSkipStatement returns from behind the token it stopped at.
SkipStops ==
  /\ at = "skip"
  /\ TheCall.result # "on"
  /\ at' = "walk" /\ stack' = <<>>
  /\ SkipToken /\ SplitToken
  /\ start' = taken'
  /\ IF TheCall.result = "skipped"
     THEN UNCHANGED failed /\ ended' = ended \cup {taken + 1}
     ELSE failed' = TRUE /\ UNCHANGED ended
  /\ UNCHANGED <<text, end, calls>>

Next == ParseSqlStatement \/ SkipOn \/ SkipStops

Spec == Init /\ [][Next]_vars

-----------------------------------------------------------------------------
\* However brackets stand, a skip never runs into the statements behind, and
\* never reaches the end of the text.
TypeOK ==
  /\ text \in Rests
  /\ at \in {"walk", "skip"}
  /\ taken \in 0 .. end /\ start \in 0 .. taken
  /\ stack \in Seq(Closing) /\ open \in Seq(Closing)
  /\ failed \in BOOLEAN
  /\ calls \in 0 .. Limit
  /\ ended \subseteq 1 .. taken /\ cuts \subseteq 1 .. taken

InRest == start < end

D == INSTANCE Ddl WITH
       ColumnLists <- {}, EnumLists <- {}, MaxRest <- 1, MaxSkips <- 1,
       db     <- EmptyMap(SchemaNames),
       at     <- "statement",
       target <- CHOOSE st \in SchemaNames \X SetNames : TRUE,
       pos    <- IF InRest THEN "tail" ELSE "boundary",
       rest   <- IF InRest THEN SkipsTo(text, start, end) ELSE 0,
       calls  <- IF at = "skip" THEN calls - 1 ELSE calls,
       read   <- 0,
       lost   <- {}

\* Each call passes one unmatched bracket, the last one the `;`, and none runs
\* into the statements behind: what Ddl counts is what the skips do.
IsRestOfTheWalk == [][D!SkipRest]_(D!vars)

\* splitTokenStreamIntoStatements ends a statement at the tokens where a skip
\* ends one, and nowhere else, as its comment says ("`;` / paren / bracket policy
\* of SkipStatement"), though it goes on at closing brackets at which the skips
\* stop.
GroupsAsSkipped == cuts = ended
=============================================================================
