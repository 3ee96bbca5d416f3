--------------------------- MODULE SkipWalkProofs ---------------------------
(***************************************************************************)
(* That the skips over an unread rest are what Ddl counts, and that the    *)
(* splitter ends statements where they do, for rests of any length and     *)
(* brackets nested to any depth.                                           *)
(***************************************************************************)
EXTENDS SkipWalk, TLAPS, FiniteSetTheorems, WellFoundedInduction

-----------------------------------------------------------------------------
(* Counting. *)

Tokens == Opening \cup Closing \cup {Semicolon, "x"}

LEMMA TokenClasses ==
  /\ Opening \cap Closing = {} /\ Semicolon \notin Opening \cup Closing
  /\ "x" \notin Opening \cup Closing \cup {Semicolon}
  /\ "eot" \notin Tokens
  /\ \A t : ClosingOf(t) \in Closing
BY Zenon DEF Tokens, Opening, Closing, ClosingOf, Semicolon

LEMMA CountStep ==
  ASSUME NEW s, NEW k \in Nat, NEW Class
  PROVE  /\ Count(s, k, Class) \in Nat
         /\ Count(s, 0, Class) = 0
         /\ Count(s, k + 1, Class) =
              IF s[k + 1] \in Class THEN Count(s, k, Class) + 1 ELSE Count(s, k, Class)
<1> DEFINE C(n) == {i \in 1 .. n : s[i] \in Class}
<1>1. ASSUME NEW n \in Nat PROVE IsFiniteSet(C(n)) /\ Cardinality(C(n)) \in Nat
  <2>1. IsFiniteSet(1 .. n)
    BY FS_Interval
  <2>2. IsFiniteSet(C(n))
    BY <2>1, FS_Subset
  <2> QED
    BY <2>2, FS_CardinalityType
<1>2. C(0) = {}
  OBVIOUS
<1>3. C(k + 1) = IF s[k + 1] \in Class THEN C(k) \cup {k + 1} ELSE C(k)
  OBVIOUS
<1>4. k + 1 \notin C(k)
  OBVIOUS
<1>5. Cardinality(C(k) \cup {k + 1}) = Cardinality(C(k)) + 1
  BY <1>1, <1>4, FS_AddElement
<1> HIDE DEF C
<1>6. /\ Cardinality(C(k)) \in Nat /\ Cardinality(C(0)) = 0
      /\ Cardinality(C(k + 1)) = IF s[k + 1] \in Class THEN Cardinality(C(k)) + 1 ELSE Cardinality(C(k))
  BY <1>1, <1>2, <1>3, <1>5, FS_EmptySet
<1> QED
  BY <1>6 DEF Count, C

\* A token raises, lowers or keeps the height.
LEMMA HeightStep ==
  ASSUME NEW s, NEW k \in Nat
  PROVE  /\ Height(s, k) \in Int
         /\ Height(s, 0) = 0
         /\ s[k + 1] \in Opening => Height(s, k + 1) = Height(s, k) + 1
         /\ s[k + 1] \in Closing => Height(s, k + 1) = Height(s, k) - 1
         /\ s[k + 1] \notin Opening \cup Closing => Height(s, k + 1) = Height(s, k)
<1>1. /\ Count(s, k, Opening) \in Nat /\ Count(s, 0, Opening) = 0
      /\ Count(s, k + 1, Opening) = IF s[k + 1] \in Opening THEN Count(s, k, Opening) + 1 ELSE Count(s, k, Opening)
  BY CountStep
<1>2. /\ Count(s, k, Closing) \in Nat /\ Count(s, 0, Closing) = 0
      /\ Count(s, k + 1, Closing) = IF s[k + 1] \in Closing THEN Count(s, k, Closing) + 1 ELSE Count(s, k, Closing)
  BY CountStep
<1>3. s[k + 1] \in Opening => s[k + 1] \notin Closing
  BY TokenClasses
<1> QED
  BY <1>1, <1>2, <1>3 DEF Height

\* A rest ends at its first `;` on the ground.
LEMMA EndOfRest ==
  ASSUME NEW s \in Rests
  PROVE  /\ End(s) \in 1 .. Len(s) /\ s[End(s)] = Semicolon /\ AtGround(s, End(s))
         /\ \A k \in 1 .. Len(s) : s[k] = Semicolon /\ AtGround(s, k) => End(s) <= k
         /\ Len(s) \in Nat /\ \A k \in 1 .. Len(s) : s[k] \in Tokens
<1>1. s \in Seq(Tokens) /\ Ends(s) # {}
  BY RestsAssumption DEF Tokens
<1>2. DOMAIN s = 1 .. Len(s) /\ Len(s) \in Nat
  BY <1>1
<1>3. Ends(s) \subseteq Nat
  <2>1. Ends(s) \subseteq 1 .. Len(s)
    BY <1>2, Zenon DEF Ends
  <2> QED
    BY <1>2, <2>1
<1>4. PICK k \in Ends(s) : \A j \in Ends(s) : ~(<<j, k>> \in OpToRel(<, Nat))
  BY <1>1, <1>3, NatLessThanWellFounded, WFMin
<1>5. \A j \in Ends(s) : k <= j
  <2>1. \A j \in Ends(s) : ~(j < k)
    BY <1>3, <1>4 DEF OpToRel
  <2> QED
    BY <1>3, <2>1
<1>6. End(s) \in Ends(s) /\ \A j \in Ends(s) : End(s) <= j
  BY <1>5 DEF End
<1>7. \A j : j \in Ends(s) <=> j \in 1 .. Len(s) /\ s[j] = Semicolon /\ AtGround(s, j)
  BY <1>2 DEF Ends
<1>8. End(s) \in 1 .. Len(s) /\ s[End(s)] = Semicolon /\ AtGround(s, End(s))
  BY <1>6, <1>7
<1>9. \A j \in 1 .. Len(s) : s[j] = Semicolon /\ AtGround(s, j) => End(s) <= j
  BY <1>6, <1>7
<1>10. \A j \in 1 .. Len(s) : s[j] \in Tokens
  BY <1>1, <1>2
<1> QED
  BY <1>2, <1>8, <1>9, <1>10

-----------------------------------------------------------------------------
(* The invariant. *)

H(k) == Height(text, k)

\* The skip under way is within the rest, and a token of it is left.
Walks ==
  /\ text \in Rests /\ end = End(text)
  /\ at \in {"walk", "skip"}
  /\ taken \in 0 .. end /\ start \in 0 .. taken
  /\ failed \in BOOLEAN /\ calls \in 0 .. Limit
  /\ at = "walk" => taken = start /\ stack = <<>>
  /\ at = "skip" => taken < end

\* A skip begins on the ground, and does not read on below it.
Grounded == \A j \in 0 .. taken : H(start) <= H(j)

\* The i-th bracket of the stack closes the one that the p-th token opens.
ClosesAt(p, i) ==
  /\ text[p] \in Opening /\ stack[i] = ClosingOf(text[p])
  /\ H(p - 1) = H(taken) - i
  /\ \A k \in p .. taken : H(k) > H(taken) - i

\* The stack holds what is open since the skip began.
Stacked ==
  /\ stack \in Seq(Closing)
  /\ Len(stack) = H(taken) - H(start)
  /\ \A i \in 1 .. Len(stack) : \E p \in 1 .. taken : ClosesAt(p, i)

\* The splitter has the same stack and the same statements.
Grouped == open = stack /\ cuts = ended /\ ended \subseteq 1 .. taken

Inv == Walks /\ Grounded /\ Stacked /\ Grouped

-----------------------------------------------------------------------------
(* The token that is looked at. *)

LEMMA TheToken ==
  ASSUME Inv, at = "skip"
  PROVE  /\ taken \in Nat /\ start \in 0 .. taken /\ taken + 1 \in 1 .. end /\ end \in 1 .. Len(text)
         /\ PeekToken = text[taken + 1] /\ PeekToken \in Tokens
         /\ (SkipToken <=> taken' = taken + 1)
         /\ (PeekToken # Semicolon => taken + 1 < end)
<1>1. /\ end \in 1 .. Len(text) /\ text[end] = Semicolon /\ Len(text) \in Nat
      /\ \A k \in 1 .. Len(text) : text[k] \in Tokens
  BY EndOfRest DEF Inv, Walks
<1>2. taken \in Nat /\ taken < end /\ start \in 0 .. taken
  BY <1>1 DEF Inv, Walks
<1>3. taken # Len(text) /\ taken + 1 \in 1 .. Len(text) /\ taken + 1 \in 1 .. end
  BY <1>1, <1>2
<1>4. PeekToken = text[taken + 1]
  BY <1>3 DEF PeekToken
<1>5. PeekToken # Semicolon => taken + 1 < end
  BY <1>1, <1>3, <1>4
<1> QED
  BY <1>1, <1>2, <1>3, <1>4, <1>5 DEF SkipToken

LEMMA Heights ==
  ASSUME NEW k \in Nat
  PROVE  /\ H(k) \in Int
         /\ text[k + 1] \in Opening => H(k + 1) = H(k) + 1
         /\ text[k + 1] \in Closing => H(k + 1) = H(k) - 1
         /\ text[k + 1] \notin Opening \cup Closing => H(k + 1) = H(k)
BY HeightStep DEF H

\* A `;` ends the rest exactly when the stack is empty.
LEMMA SemicolonEnds ==
  ASSUME Inv, at = "skip", PeekToken = Semicolon
  PROVE  stack = <<>> <=> taken + 1 = end
<1> DEFINE n == taken + 1
<1>1. /\ taken \in Nat /\ start \in 0 .. taken /\ n \in 1 .. end /\ end \in 1 .. Len(text)
      /\ text[n] = Semicolon /\ end = End(text)
  BY TheToken DEF Inv, Walks
<1>2. H(n) = H(taken) /\ \A k \in Nat : H(k) \in Int
  BY <1>1, Heights, TokenClasses
<1>3. stack \in Seq(Closing) /\ Len(stack) = H(taken) - H(start) /\ \A j \in 0 .. taken : H(start) <= H(j)
  BY DEF Inv, Stacked, Grounded
<1>4. stack = <<>> <=> H(n) = H(start)
  <2>1. Len(stack) \in Nat /\ (stack = <<>> <=> Len(stack) = 0)
    BY <1>3
  <2>2. H(start) \in Int /\ H(taken) \in Int
    BY <1>1, <1>2
  <2> QED
    BY <1>2, <1>3, <2>1, <2>2
<1>5. ASSUME stack = <<>> PROVE n = end
  <2>1. AtGround(text, n)
    <3> SUFFICES ASSUME NEW j \in 0 .. n PROVE H(n) <= H(j)
      BY DEF AtGround, H
    <3>1. j = n \/ j \in 0 .. taken
      BY <1>1
    <3>2. H(n) \in Int
      BY <1>1, <1>2
    <3> QED
      BY <1>3, <1>4, <1>5, <3>1, <3>2
  <2>2. end <= n
    <3>1. n \in 1 .. Len(text)
      BY <1>1
    <3> QED
      BY <1>1, <2>1, <3>1, EndOfRest DEF Inv, Walks
  <2> QED
    BY <1>1, <2>2
<1>6. ASSUME n = end PROVE stack = <<>>
  <2>1. AtGround(text, n)
    BY <1>1, <1>6, EndOfRest DEF Inv, Walks
  <2>2. H(n) <= H(start)
    <3>1. start \in 0 .. n
      BY <1>1
    <3> QED
      BY <2>1, <3>1 DEF AtGround, H
  <2>3. start \in 0 .. taken /\ H(start) <= H(taken)
    <3>1. taken \in 0 .. taken
      BY <1>1
    <3> QED
      BY <1>1, <1>3, <3>1
  <2>4. H(n) \in Int /\ H(start) \in Int
    BY <1>1, <1>2
  <2> QED
    BY <1>2, <1>4, <2>2, <2>3, <2>4
<1> QED
  BY <1>5, <1>6

\* While something is open, a closing bracket closes the last of it.
LEMMA ClosesLast ==
  ASSUME Inv, at = "skip", PeekToken \in Closing, stack # <<>>
  PROVE  PeekToken = Head(stack)
<1> DEFINE n == taken + 1
<1>1. /\ taken \in Nat /\ start \in 0 .. taken /\ n \in 1 .. end /\ end \in 1 .. Len(text)
      /\ text[n] \in Closing /\ PeekToken = text[n] /\ end = End(text) /\ text \in Rests
  BY TheToken DEF Inv, Walks
<1>2. H(n) = H(taken) - 1 /\ \A k \in Nat : H(k) \in Int
  BY <1>1, Heights
<1>3. stack \in Seq(Closing) /\ Len(stack) = H(taken) - H(start) /\ Len(stack) >= 1 /\ Head(stack) = stack[1]
  BY DEF Inv, Stacked
<1>4. ~Unmatched(text, n)
  <2>1. start \in 0 .. n - 1 /\ H(start) \in Int /\ H(taken) \in Int
    BY <1>1, <1>2
  <2>2. ~(H(n) < H(start))
    BY <1>2, <1>3, <2>1
  <2> QED
    BY <2>1, <2>2 DEF Unmatched, H
<1>5. PICK j \in 1 .. taken : Closes(text, j, n) /\ ClosingOf(text[j]) = text[n]
  <2>1. WellTyped(text) /\ n - 1 = taken
    BY <1>1, RestsAssumption
  <2>2. n \in 1 .. End(text) /\ text[n] \in Closing
    BY <1>1
  <2> QED
    BY <1>4, <2>1, <2>2 DEF WellTyped
<1>6. H(j - 1) = H(taken) - 1 /\ \A i \in j .. taken : H(i) > H(taken) - 1
  <2>1. n - 1 = taken
    BY <1>1
  <2> QED
    BY <1>2, <1>5, <2>1 DEF Closes, H
<1>7. PICK p \in 1 .. taken : ClosesAt(p, 1)
  <2>1. 1 \in 1 .. Len(stack)
    BY <1>3
  <2> QED
    BY <2>1 DEF Inv, Stacked
<1>8. H(p - 1) = H(taken) - 1 /\ \A i \in p .. taken : H(i) > H(taken) - 1
  BY <1>7 DEF ClosesAt
<1>9. j = p
  <2>1. CASE j < p
    <3>1. p - 1 \in j .. taken
      BY <1>1, <2>1
    <3>2. H(taken) \in Int
      BY <1>1, <1>2
    <3> QED
      BY <1>6, <1>8, <3>1, <3>2
  <2>2. CASE p < j
    <3>1. j - 1 \in p .. taken
      BY <1>1, <2>2
    <3>2. H(taken) \in Int
      BY <1>1, <1>2
    <3> QED
      BY <1>6, <1>8, <3>1, <3>2
  <2> QED
    BY <1>1, <2>1, <2>2
<1> QED
  BY <1>1, <1>3, <1>5, <1>7, <1>9 DEF ClosesAt

-----------------------------------------------------------------------------
(* What a call of SkipBracketedUntil does. *)

Pushes == /\ PeekToken \in Opening
          /\ TheCall = On(<<ClosingOf(PeekToken)>> \o stack)

Pops == /\ PeekToken \in Closing /\ stack # <<>> /\ PeekToken = Head(stack)
        /\ TheCall = On(Tail(stack))

Passes == /\ PeekToken \notin Opening \cup Closing
          /\ (PeekToken = Semicolon => stack # <<>>)
          /\ TheCall = On(stack)

StopsAtBracket == PeekToken \in Closing /\ stack = <<>> /\ TheCall = With("unmatched")

StopsAtEnd == PeekToken = Semicolon /\ stack = <<>> /\ TheCall = With("skipped")

LEMMA CallDoes ==
  ASSUME Inv, at = "skip"
  PROVE  Pushes \/ Pops \/ Passes \/ StopsAtBracket \/ StopsAtEnd
<1> DEFINE t == PeekToken
<1>1. t \in Tokens /\ t # "eot"
  BY TheToken, TokenClasses, Zenon
<1>2. t \in EndOfStatement <=> t = Semicolon
  BY <1>1 DEF EndOfStatement
<1>3. CASE t \in Opening
  BY <1>3, Zenon DEF Pushes, TheCall, SkipCall
<1>4. CASE t \in Closing
  <2>1. t \notin Opening /\ t # Semicolon
    BY <1>4, TokenClasses, Zenon
  <2>2. CASE stack = <<>>
    <3>1. TheCall = With("unmatched")
      BY <1>1, <1>2, <1>4, <2>1, <2>2, Zenon DEF TheCall, SkipCall
    <3> QED
      BY <1>4, <2>2, <3>1, Zenon DEF StopsAtBracket
  <2>3. CASE stack # <<>>
    <3>1. t = Head(stack)
      BY <1>4, <2>3, ClosesLast, Zenon
    <3>2. t \notin Closing \ {Head(stack)}
      BY <3>1, Zenon
    <3>3. TheCall = On(Tail(stack))
      BY <1>1, <1>4, <2>1, <2>3, <3>1, <3>2, Zenon DEF TheCall, SkipCall
    <3> QED
      BY <1>4, <2>3, <3>1, <3>3, Zenon DEF Pops
  <2> QED
    BY <2>2, <2>3, Zenon
<1>5. CASE t \notin Opening \cup Closing /\ (t = Semicolon => stack # <<>>)
  <2>1. t \notin Opening /\ t \notin Closing /\ t \notin Closing \cup {"eot"}
    BY <1>1, <1>5, Zenon
  <2>2. TheCall = On(stack)
    <3>1. CASE stack = <<>>
      <4>1. t \notin EndOfStatement /\ t \notin EndOfStatement \cup Closing \cup {"eot"}
        BY <1>2, <1>5, <2>1, <3>1, Zenon
      <4> QED
        BY <2>1, <3>1, <4>1, Zenon DEF TheCall, SkipCall
    <3>2. CASE stack # <<>>
      <4>1. Head(stack) \in Closing
        BY <3>2 DEF Inv, Stacked
      <4>2. t # Head(stack)
        BY <2>1, <4>1, Zenon
      <4> QED
        BY <1>1, <2>1, <3>2, <4>2, Zenon DEF TheCall, SkipCall
    <3> QED
      BY <3>1, <3>2, Zenon
  <2> QED
    BY <1>5, <2>2, Zenon DEF Passes
<1>6. CASE t = Semicolon /\ stack = <<>>
  <2>1. t \notin Opening /\ t \in EndOfStatement
    BY <1>2, <1>6, TokenClasses, Zenon
  <2>2. t \notin Closing
    BY <1>6, TokenClasses, Zenon
  <2>3. TheCall = With("skipped")
    BY <1>1, <1>6, <2>1, <2>2, Zenon DEF TheCall, SkipCall
  <2> QED
    BY <1>6, <2>3, Zenon DEF StopsAtEnd
<1> QED
  BY <1>3, <1>4, <1>5, <1>6, Zenon

\* The splitter's stack goes with it; a bracket at which the skip stops is
\* ignored.
LEMMA SplitDoes ==
  ASSUME Inv, at = "skip", SplitToken
  PROVE  /\ Pushes => open' = TheCall.stack
         /\ Pops => open' = TheCall.stack
         /\ Passes => open' = TheCall.stack
         /\ StopsAtBracket \/ StopsAtEnd => open' = <<>>
         /\ cuts' = IF StopsAtEnd THEN cuts \cup {taken + 1} ELSE cuts
<1> DEFINE t == PeekToken
<1>1. open = stack /\ open' = OpenBehind(t, open)
  BY DEF Inv, Grouped, SplitToken
<1>2. \A s : On(s).stack = s
  BY DEF On
<1>3. ASSUME Pushes PROVE open' = TheCall.stack
  BY <1>1, <1>2, <1>3 DEF Pushes, OpenBehind
<1>4. ASSUME Pops PROVE open' = TheCall.stack
  <2>1. t \notin Opening
    BY <1>4, TokenClasses, Zenon DEF Pops
  <2> QED
    BY <1>1, <1>2, <1>4, <2>1 DEF Pops, OpenBehind
<1>5. ASSUME Passes PROVE open' = TheCall.stack
  <2>1. t \notin Opening /\ t \notin Closing
    BY <1>5, Zenon DEF Passes
  <2>2. stack # <<>> => Head(stack) \in Closing
    BY DEF Inv, Stacked
  <2>3. open' = open
    BY <1>1, <2>1, <2>2, Zenon DEF OpenBehind
  <2> QED
    BY <1>1, <1>2, <1>5, <2>3 DEF Passes
<1>6. ASSUME StopsAtBracket \/ StopsAtEnd PROVE open' = <<>>
  <2>1. t \notin Opening /\ stack = <<>>
    BY <1>6, TokenClasses, Zenon DEF StopsAtBracket, StopsAtEnd
  <2> QED
    BY <1>1, <2>1, Zenon DEF OpenBehind
<1>7. Cuts(t, open) <=> StopsAtEnd
  <2>1. ASSUME t = Semicolon, stack = <<>> PROVE StopsAtEnd
    <3>1. t \notin Opening /\ t \notin Closing
      BY <2>1, TokenClasses, Zenon
    <3>2. ~Pushes /\ ~Pops /\ ~Passes /\ ~StopsAtBracket
      BY <2>1, <3>1, Zenon DEF Pushes, Pops, Passes, StopsAtBracket
    <3> QED
      BY <3>2, CallDoes, Zenon
  <2>2. StopsAtEnd => t = Semicolon /\ stack = <<>>
    BY Zenon DEF StopsAtEnd
  <2> QED
    BY <1>1, <2>1, <2>2, Zenon DEF Cuts
<1>8. cuts' = IF StopsAtEnd THEN cuts \cup {taken + 1} ELSE cuts
  BY <1>7, Zenon DEF SplitToken
<1> QED
  BY <1>3, <1>4, <1>5, <1>6, <1>8, Zenon

-----------------------------------------------------------------------------
(* The skip goes on. *)

LEMMA SkipOnDoes ==
  ASSUME Inv, SkipOn
  PROVE  /\ at = "skip" /\ taken' = taken + 1 /\ stack' = TheCall.stack
         /\ text' = text /\ end' = end /\ start' = start /\ at' = at
         /\ failed' = failed /\ ended' = ended /\ calls' = calls
         /\ SplitToken
         /\ Pushes \/ Pops \/ Passes
<1>1. at = "skip" /\ TheCall.result = "on" /\ SkipToken
  BY DEF SkipOn
<1>2. ~StopsAtBracket /\ ~StopsAtEnd
  BY <1>1 DEF StopsAtBracket, StopsAtEnd, With
<1> QED
  BY <1>1, <1>2, CallDoes, TheToken, Zenon DEF SkipOn

LEMMA SkipOnGrounded ==
  ASSUME Inv, SkipOn
  PROVE  /\ H(taken + 1) \in Int /\ H(start) \in Int /\ H(taken) \in Int
         /\ H(start) <= H(taken + 1)
         /\ taken + 1 < end
<1>1. at = "skip" /\ (Pushes \/ Pops \/ Passes)
  BY SkipOnDoes, Zenon
<1>2. /\ taken \in Nat /\ start \in 0 .. taken /\ taken + 1 \in 1 .. end /\ end \in Nat
      /\ PeekToken = text[taken + 1] /\ (PeekToken # Semicolon => taken + 1 < end)
  BY <1>1, TheToken
<1>3. /\ H(taken + 1) \in Int /\ H(start) \in Int /\ H(taken) \in Int
      /\ PeekToken \in Opening => H(taken + 1) = H(taken) + 1
      /\ PeekToken \in Closing => H(taken + 1) = H(taken) - 1
      /\ PeekToken \notin Opening \cup Closing => H(taken + 1) = H(taken)
  BY <1>2, Heights
<1>4. stack \in Seq(Closing) /\ Len(stack) = H(taken) - H(start)
  BY DEF Inv, Stacked
<1>5. Len(stack) >= 0 /\ (stack # <<>> => Len(stack) >= 1)
  BY <1>4
<1>6. H(start) <= H(taken + 1)
  <2>1. CASE Pushes
    BY <1>3, <1>4, <1>5, <2>1 DEF Pushes
  <2>2. CASE Pops
    BY <1>3, <1>4, <1>5, <2>2 DEF Pops
  <2>3. CASE Passes
    BY <1>3, <1>4, <1>5, <2>3 DEF Passes
  <2> QED
    BY <1>1, <2>1, <2>2, <2>3
<1>7. taken + 1 < end
  <2>1. CASE PeekToken = Semicolon
    <3>1. PeekToken \notin Opening /\ PeekToken \notin Closing
      BY <2>1, TokenClasses, Zenon
    <3>2. stack # <<>>
      BY <1>1, <2>1, <3>1, Zenon DEF Pushes, Pops, Passes
    <3>3. taken + 1 # end
      BY <1>1, <2>1, <3>2, SemicolonEnds
    <3> QED
      BY <1>2, <3>3
  <2> QED
    BY <1>2, <2>1
<1> QED
  BY <1>3, <1>6, <1>7

LEMMA PushStacked ==
  ASSUME Inv, SkipOn, Pushes
  PROVE  Stacked'
<1> DEFINE n == taken + 1
<1>1. /\ at = "skip" /\ taken' = n /\ text' = text /\ start' = start
      /\ stack' = <<ClosingOf(text[n])>> \o stack /\ text[n] \in Opening
  BY SkipOnDoes, TheToken DEF Pushes, On
<1>2. taken \in Nat /\ n \in Nat /\ n - 1 = taken
  BY <1>1, TheToken
<1>3. /\ H(n) = H(taken) + 1 /\ \A k \in Nat : H(k) \in Int
      /\ \A k : H(k)' = Height(text', k) /\ H(k) = Height(text, k)
  BY <1>1, <1>2, Heights DEF H
<1>4. stack \in Seq(Closing) /\ Len(stack) = H(taken) - H(start) /\ ClosingOf(text[n]) \in Closing
  BY TokenClasses DEF Inv, Stacked
<1>5. /\ stack' \in Seq(Closing) /\ Len(stack') = Len(stack) + 1 /\ Len(stack) \in Nat
      /\ stack'[1] = ClosingOf(text[n])
      /\ \A i \in 2 .. Len(stack) + 1 : stack'[i] = stack[i - 1]
  BY <1>1, <1>4
<1>6. ASSUME NEW i \in 1 .. Len(stack')
      PROVE  \E p \in 1 .. n :
               /\ text[p] \in Opening /\ stack'[i] = ClosingOf(text[p])
               /\ H(p - 1) = H(n) - i /\ \A k \in p .. n : H(k) > H(n) - i
  <2>1. CASE i = 1
    <3>1. \A k \in n .. n : k = n
      BY <1>2
    <3>2. H(n - 1) = H(n) - i /\ \A k \in n .. n : H(k) > H(n) - i
      BY <1>2, <1>3, <2>1, <3>1
    <3>3. n \in 1 .. n
      BY <1>2
    <3> QED
      BY <1>1, <1>5, <2>1, <3>2, <3>3
  <2>2. CASE i # 1
    <3>1. i - 1 \in 1 .. Len(stack) /\ stack'[i] = stack[i - 1] /\ i \in Nat
      BY <1>5, <2>2
    <3>2. PICK p \in 1 .. taken : ClosesAt(p, i - 1)
      BY <3>1 DEF Inv, Stacked
    <3>3. H(taken) \in Int /\ H(taken) - (i - 1) = H(n) - i
      <4>1. H(taken) \in Int /\ H(n) = H(taken) + 1 /\ i \in Int
        BY <1>2, <1>3, <3>1
      <4> HIDE DEF n
      <4> QED
        BY <4>1
    <3>4. H(p - 1) = H(n) - i
      BY <3>2, <3>3 DEF ClosesAt
    <3>5. ASSUME NEW k \in p .. n PROVE H(k) > H(n) - i
      <4>1. CASE k = n
        <5>1. H(n) \in Int
          BY <1>2, <1>3
        <5> QED
          BY <3>1, <4>1, <5>1
      <4>2. CASE k # n
        <5>1. k \in p .. taken
          BY <1>2, <4>2
        <5>2. H(k) > H(taken) - (i - 1)
          BY <3>2, <5>1 DEF ClosesAt
        <5> QED
          BY <3>3, <5>2
      <4> QED
        BY <4>1, <4>2
    <3>6. p \in 1 .. n /\ text[p] \in Opening /\ stack'[i] = ClosingOf(text[p])
      BY <1>2, <3>1, <3>2 DEF ClosesAt
    <3> QED
      BY <3>4, <3>5, <3>6
  <2> QED
    BY <2>1, <2>2
<1>7. Len(stack') = H(n) - H(start)
  <2>1. start \in Nat
    BY <1>1, TheToken
  <2>2. H(taken) \in Int /\ H(start) \in Int
    BY <1>2, <1>3, <2>1
  <2> QED
    BY <1>3, <1>4, <1>5, <2>2
<1> HIDE DEF n
<1>8. \A i \in 1 .. Len(stack') : \E p \in 1 .. taken' : ClosesAt(p, i)'
  BY <1>1, <1>3, <1>6 DEF ClosesAt
<1>9. Len(stack') = H(taken)' - H(start)'
  BY <1>1, <1>3, <1>7
<1> QED
  BY <1>5, <1>8, <1>9 DEF Stacked

LEMMA PopStacked ==
  ASSUME Inv, SkipOn, Pops
  PROVE  Stacked'
<1> DEFINE n == taken + 1
<1>1. /\ at = "skip" /\ taken' = n /\ text' = text /\ start' = start
      /\ stack' = Tail(stack) /\ stack # <<>> /\ text[n] \in Closing
  BY SkipOnDoes, TheToken DEF Pops, On
<1>2. taken \in Nat /\ n \in Nat
  BY <1>1, TheToken
<1>3. /\ H(n) = H(taken) - 1 /\ \A k \in Nat : H(k) \in Int
      /\ \A k : H(k)' = Height(text', k) /\ H(k) = Height(text, k)
  BY <1>1, <1>2, Heights DEF H
<1>4. stack \in Seq(Closing) /\ Len(stack) = H(taken) - H(start)
  BY DEF Inv, Stacked
<1>5. /\ stack' \in Seq(Closing) /\ Len(stack') = Len(stack) - 1 /\ Len(stack) \in Nat
      /\ \A i \in 1 .. Len(stack') : i + 1 \in 1 .. Len(stack) /\ stack'[i] = stack[i + 1]
  BY <1>1, <1>4
<1>6. ASSUME NEW i \in 1 .. Len(stack')
      PROVE  \E p \in 1 .. n :
               /\ text[p] \in Opening /\ stack'[i] = ClosingOf(text[p])
               /\ H(p - 1) = H(n) - i /\ \A k \in p .. n : H(k) > H(n) - i
  <2>1. i + 1 \in 1 .. Len(stack) /\ stack'[i] = stack[i + 1] /\ i \in Nat \ {0}
    BY <1>5
  <2>2. PICK p \in 1 .. taken : ClosesAt(p, i + 1)
    BY <2>1 DEF Inv, Stacked
  <2>3. H(n) \in Int /\ H(taken) \in Int /\ H(taken) - (i + 1) = H(n) - i
    <3>1. H(taken) \in Int /\ H(n) = H(taken) - 1 /\ i \in Int
      BY <1>2, <1>3, <2>1
    <3> HIDE DEF n
    <3> QED
      BY <3>1
  <2>4. H(p - 1) = H(n) - i
    BY <2>2, <2>3 DEF ClosesAt
  <2>5. ASSUME NEW k \in p .. n PROVE H(k) > H(n) - i
    <3>1. CASE k = n
      BY <2>1, <2>3, <3>1
    <3>2. CASE k # n
      <4>1. k \in p .. taken
        BY <1>2, <3>2
      <4>2. H(k) > H(taken) - (i + 1)
        BY <2>2, <4>1 DEF ClosesAt
      <4> QED
        BY <2>3, <4>2
    <3> QED
      BY <3>1, <3>2
  <2>6. p \in 1 .. n /\ text[p] \in Opening /\ stack'[i] = ClosingOf(text[p])
    BY <1>2, <2>1, <2>2 DEF ClosesAt
  <2> QED
    BY <2>4, <2>5, <2>6
<1>7. Len(stack') = H(n) - H(start)
  <2>1. start \in Nat
    BY <1>1, TheToken
  <2>2. H(taken) \in Int /\ H(start) \in Int
    BY <1>2, <1>3, <2>1
  <2> QED
    BY <1>3, <1>4, <1>5, <2>2
<1> HIDE DEF n
<1>8. \A i \in 1 .. Len(stack') : \E p \in 1 .. taken' : ClosesAt(p, i)'
  BY <1>1, <1>3, <1>6 DEF ClosesAt
<1>9. Len(stack') = H(taken)' - H(start)'
  BY <1>1, <1>3, <1>7
<1> QED
  BY <1>5, <1>8, <1>9 DEF Stacked

LEMMA PassStacked ==
  ASSUME Inv, SkipOn, Passes
  PROVE  Stacked'
<1> DEFINE n == taken + 1
<1>1. /\ at = "skip" /\ taken' = n /\ text' = text /\ start' = start
      /\ stack' = stack /\ text[n] \notin Opening \cup Closing
  BY SkipOnDoes, TheToken DEF Passes, On
<1>2. taken \in Nat /\ n \in Nat /\ start \in Nat
  BY <1>1, TheToken
<1>3. /\ H(n) = H(taken) /\ \A k \in Nat : H(k) \in Int
      /\ \A k : H(k)' = Height(text', k) /\ H(k) = Height(text, k)
  BY <1>1, <1>2, Heights DEF H
<1>4. stack \in Seq(Closing) /\ Len(stack) = H(taken) - H(start)
  BY DEF Inv, Stacked
<1>5. ASSUME NEW i \in 1 .. Len(stack)
      PROVE  \E p \in 1 .. n :
               /\ text[p] \in Opening /\ stack[i] = ClosingOf(text[p])
               /\ H(p - 1) = H(n) - i /\ \A k \in p .. n : H(k) > H(n) - i
  <2>1. PICK p \in 1 .. taken : ClosesAt(p, i)
    BY DEF Inv, Stacked
  <2>2. H(n) \in Int /\ i \in Nat \ {0}
    BY <1>2, <1>3, <1>4
  <2>3. ASSUME NEW k \in p .. n PROVE H(k) > H(n) - i
    <3>1. CASE k = n
      BY <2>2, <3>1
    <3>2. CASE k # n
      <4>1. k \in p .. taken
        BY <1>2, <3>2
      <4> QED
        BY <1>3, <2>1, <4>1 DEF ClosesAt
    <3> QED
      BY <3>1, <3>2
  <2>4. p \in 1 .. n
    BY <1>2
  <2> QED
    BY <1>3, <2>1, <2>3, <2>4 DEF ClosesAt
<1> HIDE DEF n
<1>6. \A i \in 1 .. Len(stack') : \E p \in 1 .. taken' : ClosesAt(p, i)'
  BY <1>1, <1>3, <1>5 DEF ClosesAt
<1>7. Len(stack') = H(taken)' - H(start)'
  BY <1>1, <1>3, <1>4
<1> QED
  BY <1>1, <1>4, <1>6, <1>7 DEF Stacked

LEMMA SkipOnKeeps == Inv /\ SkipOn => Inv'
<1> SUFFICES ASSUME Inv, SkipOn PROVE Inv'
  OBVIOUS
<1>1. /\ at = "skip" /\ taken' = taken + 1 /\ stack' = TheCall.stack
      /\ text' = text /\ end' = end /\ start' = start /\ at' = at
      /\ failed' = failed /\ ended' = ended /\ calls' = calls
      /\ Pushes \/ Pops \/ Passes
  BY SkipOnDoes
<1>2. /\ taken \in Nat /\ start \in 0 .. taken /\ taken + 1 < end
      /\ H(taken + 1) \in Int /\ H(start) <= H(taken + 1)
  BY <1>1, TheToken, SkipOnGrounded
<1>3. Walks'
  <2>1. end \in Nat /\ taken' \in 0 .. end' /\ start' \in 0 .. taken' /\ taken' < end'
    <3>1. end \in Nat
      BY <1>1, TheToken
    <3> QED
      BY <1>1, <1>2, <3>1
  <2>2. end' = End(text') /\ Limit' = Limit
    BY <1>1 DEF Inv, Walks, Limit
  <2> QED
    BY <1>1, <2>1, <2>2 DEF Inv, Walks
<1>4. Grounded'
  <2>1. \A j \in 0 .. taken + 1 : H(start) <= H(j)
    <3> TAKE j \in 0 .. taken + 1
    <3>1. j = taken + 1 \/ j \in 0 .. taken
      BY <1>2
    <3> QED
      BY <1>2, <3>1 DEF Inv, Grounded
  <2> QED
    BY <1>1, <2>1 DEF Grounded, H
<1>5. Stacked'
  BY <1>1, PushStacked, PopStacked, PassStacked
<1>6. Grouped'
  <2>1. open' = stack'
    BY <1>1, SkipOnDoes, SplitDoes, Zenon
  <2>2. ~StopsAtEnd
    BY <1>1, TokenClasses, Zenon DEF StopsAtEnd, Pushes, Pops, Passes
  <2>3. cuts' = cuts
    BY <1>1, <2>2, SkipOnDoes, SplitDoes, Zenon
  <2>4. 1 .. taken \subseteq 1 .. taken'
    BY <1>1, <1>2
  <2> QED
    BY <1>1, <2>1, <2>3, <2>4 DEF Inv, Grouped
<1> QED
  BY <1>3, <1>4, <1>5, <1>6 DEF Inv

-----------------------------------------------------------------------------
(* The skip stops, at a bracket or at the end of the rest. *)

LEMMA SkipStopsDoes ==
  ASSUME Inv, SkipStops
  PROVE  /\ at = "skip" /\ at' = "walk" /\ stack' = <<>> /\ stack = <<>>
         /\ taken' = taken + 1 /\ start' = taken + 1
         /\ text' = text /\ end' = end /\ calls' = calls
         /\ SplitToken
         /\ \/ StopsAtBracket /\ failed' = TRUE /\ ended' = ended
            \/ StopsAtEnd /\ failed' = failed /\ ended' = ended \cup {taken + 1}
<1>1. at = "skip" /\ TheCall.result # "on" /\ SkipToken /\ start' = taken'
  BY DEF SkipStops
<1>2. ~Pushes /\ ~Pops /\ ~Passes
  BY <1>1 DEF Pushes, Pops, Passes, On
<1>3. StopsAtBracket \/ StopsAtEnd
  BY <1>1, <1>2, CallDoes, Zenon
<1>4. taken' = taken + 1 /\ start' = taken + 1
  BY <1>1, TheToken, Zenon
<1>5. stack = <<>>
  BY <1>3 DEF StopsAtBracket, StopsAtEnd
<1>6. CASE StopsAtBracket
  <2>1. TheCall.result # "skipped"
    BY <1>6 DEF StopsAtBracket, With
  <2> QED
    BY <1>1, <1>4, <1>5, <1>6, <2>1 DEF SkipStops
<1>7. CASE StopsAtEnd
  <2>1. TheCall.result = "skipped"
    BY <1>7 DEF StopsAtEnd, With
  <2> QED
    BY <1>1, <1>4, <1>5, <1>7, <2>1 DEF SkipStops
<1> QED
  BY <1>3, <1>6, <1>7

\* It stops on new ground: below all before, or where the rest ends.
LEMMA StopGround ==
  ASSUME Inv, SkipStops
  PROVE  /\ taken \in Nat /\ start \in 0 .. taken /\ end \in Nat /\ taken + 1 <= end
         /\ \A k \in Nat : H(k) \in Int
         /\ H(taken) = H(start)
         /\ StopsAtBracket => text[taken + 1] \in Closing /\ taken + 1 < end /\ H(taken + 1) = H(start) - 1
         /\ StopsAtEnd => taken + 1 = end /\ H(taken + 1) = H(start)
<1>1. at = "skip" /\ stack = <<>>
  BY SkipStopsDoes, Zenon
<1>2. /\ taken \in Nat /\ start \in 0 .. taken /\ taken + 1 \in 1 .. end /\ end \in Nat
      /\ PeekToken = text[taken + 1] /\ (PeekToken # Semicolon => taken + 1 < end)
  BY <1>1, TheToken
<1>3. \A k \in Nat : H(k) \in Int
  BY Heights
<1>4. H(taken) = H(start)
  <2>1. Len(stack) = 0
    BY <1>1
  <2>2. Len(stack) = H(taken) - H(start) /\ H(taken) \in Int /\ H(start) \in Int
    BY <1>2, <1>3 DEF Inv, Stacked
  <2> QED
    BY <2>1, <2>2
<1>5. ASSUME StopsAtBracket
      PROVE  text[taken + 1] \in Closing /\ taken + 1 < end /\ H(taken + 1) = H(start) - 1
  <2>1. PeekToken \in Closing /\ PeekToken # Semicolon
    BY <1>5, TokenClasses, Zenon DEF StopsAtBracket
  <2> QED
    BY <1>2, <1>4, <2>1, Heights
<1>6. ASSUME StopsAtEnd PROVE taken + 1 = end /\ H(taken + 1) = H(start)
  <2>1. PeekToken = Semicolon /\ PeekToken \notin Opening \cup Closing
    BY <1>6, TokenClasses, Zenon DEF StopsAtEnd
  <2> QED
    BY <1>1, <1>2, <1>4, <2>1, Heights, SemicolonEnds
<1> QED
  BY <1>2, <1>3, <1>4, <1>5, <1>6

LEMMA SkipStopsKeeps == Inv /\ SkipStops => Inv'
<1> SUFFICES ASSUME Inv, SkipStops PROVE Inv'
  OBVIOUS
<1>1. /\ at = "skip" /\ at' = "walk" /\ stack' = <<>>
      /\ taken' = taken + 1 /\ start' = taken + 1
      /\ text' = text /\ end' = end /\ calls' = calls
      /\ \/ StopsAtBracket /\ failed' = TRUE /\ ended' = ended
         \/ StopsAtEnd /\ failed' = failed /\ ended' = ended \cup {taken + 1}
  BY SkipStopsDoes
<1>2. /\ taken \in Nat /\ start \in 0 .. taken /\ end \in Nat /\ taken + 1 <= end
      /\ \A k \in Nat : H(k) \in Int
  BY StopGround
<1>3. H(taken + 1) \in {H(start), H(start) - 1}
  BY <1>1, StopGround
<1>4. Walks'
  <2>1. end' = End(text') /\ Limit' = Limit /\ failed' \in BOOLEAN
    BY <1>1 DEF Inv, Walks, Limit
  <2>2. taken' \in 0 .. end' /\ start' \in 0 .. taken'
    BY <1>1, <1>2
  <2> QED
    BY <1>1, <2>1, <2>2 DEF Inv, Walks
<1>5. Grounded'
  <2>1. \A j \in 0 .. taken + 1 : H(taken + 1) <= H(j)
    <3> TAKE j \in 0 .. taken + 1
    <3>1. H(j) \in Int /\ H(start) \in Int /\ H(taken + 1) \in Int
      BY <1>2
    <3>2. CASE j = taken + 1
      BY <3>1, <3>2
    <3>3. CASE j # taken + 1
      <4>1. j \in 0 .. taken
        BY <1>2, <3>3
      <4>2. H(start) <= H(j)
        BY <4>1 DEF Inv, Grounded
      <4> QED
        BY <1>3, <3>1, <4>2
    <3> QED
      BY <3>2, <3>3
  <2> QED
    BY <1>1, <2>1 DEF Grounded, H
<1>6. Stacked'
  <2>1. H(taken)' = H(start)' /\ H(start)' \in Int
    BY <1>1, <1>2 DEF H
  <2>2. stack' \in Seq(Closing) /\ Len(stack') = 0
    BY <1>1
  <2> QED
    BY <2>1, <2>2 DEF Stacked
<1>7. Grouped'
  <2>1. open' = <<>>
    BY <1>1, SkipStopsDoes, SplitDoes, Zenon
  <2>2. cuts' = ended'
    <3>1. CASE StopsAtEnd
      <4>1. ~StopsAtBracket
        BY <3>1, TokenClasses, Zenon DEF StopsAtEnd, StopsAtBracket
      <4> QED
        BY <1>1, <3>1, <4>1, SkipStopsDoes, SplitDoes, Zenon DEF Inv, Grouped
    <3>2. CASE ~StopsAtEnd
      BY <1>1, <3>2, SkipStopsDoes, SplitDoes, Zenon DEF Inv, Grouped
    <3> QED
      BY <3>1, <3>2
  <2>3. ended' \subseteq 1 .. taken'
    <3>1. ended \subseteq 1 .. taken
      BY DEF Inv, Grouped
    <3>2. ended' \subseteq ended \cup {taken + 1}
      BY <1>1, Zenon
    <3>3. 1 .. taken \cup {taken + 1} \subseteq 1 .. taken'
      BY <1>1, <1>2
    <3> QED
      BY <3>1, <3>2, <3>3, Zenon
  <2> QED
    BY <1>1, <2>1, <2>2, <2>3 DEF Grouped
<1> QED
  BY <1>4, <1>5, <1>6, <1>7 DEF Inv

-----------------------------------------------------------------------------
LEMMA LimitIsNat == Limit \in Nat
BY LimitAssumption DEF Limit

LEMMA InitInv == Init => Inv
<1> SUFFICES ASSUME Init PROVE Inv
  OBVIOUS
<1>1. text \in Rests /\ end = End(text) /\ end \in Nat
  BY EndOfRest DEF Init
<1>2. Walks
  <2>1. /\ at = "walk" /\ taken = 0 /\ start = 0 /\ stack = <<>>
        /\ failed = FALSE /\ calls = 0
    BY DEF Init
  <2>2. taken \in 0 .. end /\ start \in 0 .. taken /\ calls \in 0 .. Limit
    BY <1>1, <2>1, LimitIsNat
  <2> QED
    BY <1>1, <2>1, <2>2 DEF Walks
<1>3. H(0) = 0 /\ \A j \in 0 .. 0 : j = 0
  BY HeightStep DEF H
<1>4. Grounded
  BY <1>3 DEF Init, Grounded
<1>5. Stacked
  BY <1>3 DEF Init, Stacked
<1>6. Grouped
  BY DEF Init, Grouped
<1> QED
  BY <1>2, <1>4, <1>5, <1>6 DEF Inv

LEMMA ParseSqlStatementKeeps == Inv /\ ParseSqlStatement => Inv'
<1> SUFFICES ASSUME Inv, ParseSqlStatement PROVE Inv'
  OBVIOUS
<1>1. /\ at = "walk" /\ start < end /\ calls < Limit /\ at' = "skip" /\ calls' = calls + 1
      /\ text' = text /\ end' = end /\ taken' = taken /\ start' = start /\ stack' = stack
      /\ failed' = failed /\ ended' = ended /\ open' = open /\ cuts' = cuts
  BY DEF ParseSqlStatement
<1>2. calls' \in 0 .. Limit' /\ end' = End(text')
  BY <1>1, LimitIsNat DEF Inv, Walks, Limit
<1>3. Walks'
  BY <1>1, <1>2 DEF Inv, Walks
<1>4. Grounded'
  BY <1>1 DEF Inv, Grounded, H
<1>5. Stacked'
  BY <1>1 DEF Inv, Stacked, ClosesAt, H
<1>6. Grouped'
  BY <1>1 DEF Inv, Grouped
<1> QED
  BY <1>3, <1>4, <1>5, <1>6 DEF Inv

LEMMA NextInv == Inv /\ [Next]_vars => Inv'
<1> SUFFICES ASSUME Inv, [Next]_vars PROVE Inv'
  OBVIOUS
<1>1. CASE UNCHANGED vars
  BY <1>1 DEF vars, Inv, Walks, Grounded, Stacked, Grouped, ClosesAt, H, Limit
<1> QED
  BY <1>1, ParseSqlStatementKeeps, SkipOnKeeps, SkipStopsKeeps DEF Next

LEMMA Invariant == Spec => []Inv
BY InitInv, NextInv, PTL DEF Spec

-----------------------------------------------------------------------------
(* What the walk counts. *)

\* No bracket of the skip so far closes nothing.
LEMMA NoneUnmatchedYet ==
  ASSUME Inv, NEW k \in start + 1 .. taken
  PROVE  ~Unmatched(text, k)
<1>1. start \in Nat /\ taken \in Nat /\ end \in Nat
  BY EndOfRest DEF Inv, Walks
<1>2. k \in 0 .. taken /\ start \in 0 .. k - 1 /\ start \in 0 .. taken
  BY <1>1
<1>3. H(start) <= H(k)
  BY <1>2 DEF Inv, Grounded
<1>4. H(start) \in Int /\ H(k) \in Int
  BY <1>1, <1>2, Heights
<1>5. ~(H(k) < H(start))
  BY <1>3, <1>4
<1> QED
  BY <1>2, <1>5 DEF Unmatched, H

LEMMA BracketCounts ==
  ASSUME Inv, SkipStops, StopsAtBracket
  PROVE  /\ SkipsTo(text, start, end) = SkipsTo(text, taken + 1, end) + 1
         /\ SkipsTo(text, taken + 1, end) \in Nat \ {0}
<1> DEFINE n == taken + 1
           U(i) == {k \in i + 1 .. end : Unmatched(text, k)}
<1>1. /\ taken \in Nat /\ start \in 0 .. taken /\ end \in Nat /\ n < end /\ text[n] \in Closing
      /\ H(n) = H(start) - 1 /\ \A k \in Nat : H(k) \in Int
  BY StopGround
<1>2. Unmatched(text, n)
  <2>1. ASSUME NEW j \in 0 .. n - 1 PROVE H(n) < H(j)
    <3>1. j \in 0 .. taken /\ j \in Nat
      BY <1>1
    <3>2. H(start) <= H(j)
      BY <3>1 DEF Inv, Grounded
    <3>3. H(start) \in Int /\ H(j) \in Int
      BY <1>1, <3>1
    <3> QED
      BY <1>1, <3>2, <3>3
  <2> QED
    BY <1>1, <2>1 DEF Unmatched, H
<1>3. U(start) = U(n) \cup {n} /\ n \notin U(n)
  <2>1. ASSUME NEW k PROVE k \in U(start) <=> k \in U(n) \cup {n}
    <3>1. CASE k \in start + 1 .. taken
      <4>1. k \notin n + 1 .. end /\ k # n
        BY <1>1, <3>1
      <4> QED
        BY <3>1, <4>1, NoneUnmatchedYet
    <3>2. CASE k = n
      <4>1. n \in start + 1 .. end
        BY <1>1
      <4> QED
        BY <1>2, <3>2, <4>1
    <3>3. CASE k \notin start + 1 .. taken /\ k # n
      <4>1. k \in start + 1 .. end <=> k \in n + 1 .. end
        BY <1>1, <3>3
      <4> QED
        BY <3>3, <4>1
    <3> QED
      BY <3>1, <3>2, <3>3
  <2>2. n \notin n + 1 .. end
    BY <1>1
  <2> QED
    BY <2>1, <2>2
<1>4. IsFiniteSet(U(n)) /\ Cardinality(U(n)) \in Nat
  <2>1. IsFiniteSet(n + 1 .. end)
    BY <1>1, FS_Interval
  <2>2. IsFiniteSet(U(n))
    BY <2>1, FS_Subset
  <2> QED
    BY <2>2, FS_CardinalityType
<1>5. Cardinality(U(n) \cup {n}) = Cardinality(U(n)) + 1
  BY <1>3, <1>4, FS_AddElement
<1>6. SkipsTo(text, n, end) = 1 + Cardinality(U(n)) /\ SkipsTo(text, start, end) = 1 + Cardinality(U(start))
  BY DEF SkipsTo
<1> HIDE DEF U, n
<1>7. SkipsTo(text, start, end) = SkipsTo(text, n, end) + 1 /\ SkipsTo(text, n, end) \in Nat \ {0}
  BY <1>3, <1>4, <1>5, <1>6
<1> QED
  BY <1>7 DEF n

LEMMA EndCounts ==
  ASSUME Inv, SkipStops, StopsAtEnd
  PROVE  SkipsTo(text, start, end) = 1
<1>1. /\ taken \in Nat /\ start \in 0 .. taken /\ taken + 1 = end
  BY StopGround
<1>2. ~Unmatched(text, end)
  <2>1. text[end] = Semicolon
    BY EndOfRest DEF Inv, Walks
  <2> QED
    BY <2>1, TokenClasses, Zenon DEF Unmatched
<1>3. ASSUME NEW k \in start + 1 .. end PROVE ~Unmatched(text, k)
  <2>1. k = end \/ k \in start + 1 .. taken
    BY <1>1
  <2> QED
    BY <1>2, <2>1, NoneUnmatchedYet
<1>4. {k \in start + 1 .. end : Unmatched(text, k)} = {}
  BY <1>3
<1> QED
  BY <1>4, FS_EmptySet DEF SkipsTo

-----------------------------------------------------------------------------
(* The walk of Ddl. *)

LEMMA StopsIsSkipRest ==
  ASSUME Inv, SkipStops
  PROVE  D!SkipRest
<1>1. /\ at = "skip" /\ at' = "walk" /\ start' = taken + 1
      /\ text' = text /\ end' = end /\ calls' = calls
      /\ \/ StopsAtBracket /\ failed' = TRUE
         \/ StopsAtEnd /\ failed' = failed
  BY SkipStopsDoes
<1>2. /\ start < end /\ calls \in 0 .. Limit
      /\ taken \in Nat /\ start \in Nat /\ end \in Nat
  BY <1>1, StopGround DEF Inv, Walks
<1>3. InRest
  BY <1>2 DEF InRest
<1>4. calls - 1 < D!Limit /\ calls = (calls - 1) + 1
  BY <1>2, LimitIsNat DEF D!Limit, Limit
<1>5. CASE StopsAtBracket
  <2>1. taken + 1 < end /\ failed' = TRUE
    BY <1>1, <1>5, StopGround, TokenClasses DEF StopsAtBracket, StopsAtEnd
  <2>2. InRest'
    BY <1>1, <2>1 DEF InRest
  <2>3. /\ SkipsTo(text, start, end) # 1
        /\ SkipsTo(text', start', end') = SkipsTo(text, start, end) - 1
    BY <1>1, <1>5, BracketCounts
  <2> QED
    BY <1>1, <1>3, <1>4, <2>1, <2>2, <2>3 DEF D!SkipRest, D!Fails, D!LeavesRest
<1>6. CASE StopsAtEnd
  <2>1. taken + 1 = end /\ failed' = failed
    BY <1>1, <1>6, StopGround, TokenClasses DEF StopsAtBracket, StopsAtEnd
  <2>2. ~InRest'
    BY <1>1, <1>2, <2>1 DEF InRest
  <2>3. SkipsTo(text, start, end) = 1
    BY <1>6, EndCounts
  <2> QED
    BY <1>1, <1>3, <1>4, <2>1, <2>2, <2>3 DEF D!SkipRest, D!Succeeds, D!EndsOwn
<1> QED
  BY <1>1, <1>5, <1>6

LEMMA NextIsOfTheWalk == Inv /\ [Next]_vars => [D!SkipRest]_(D!vars)
<1> SUFFICES ASSUME Inv, [Next]_vars PROVE D!SkipRest \/ UNCHANGED D!vars
  OBVIOUS
<1>1. CASE SkipStops
  BY <1>1, StopsIsSkipRest
<1>2. CASE ParseSqlStatement
  <2>1. /\ at = "walk" /\ at' = "skip" /\ calls' = calls + 1
        /\ text' = text /\ end' = end /\ start' = start /\ failed' = failed
    BY <1>2 DEF ParseSqlStatement
  <2>2. calls' - 1 = calls
    BY <2>1, LimitIsNat DEF Inv, Walks
  <2> QED
    BY <2>1, <2>2 DEF D!vars, InRest
<1>3. CASE SkipOn
  <2>1. at' = at /\ calls' = calls /\ text' = text /\ end' = end /\ start' = start /\ failed' = failed
    BY <1>3, SkipOnDoes
  <2> QED
    BY <2>1 DEF D!vars, InRest
<1>4. CASE UNCHANGED vars
  BY <1>4 DEF vars, D!vars, InRest
<1> QED
  BY <1>1, <1>2, <1>3, <1>4 DEF Next

-----------------------------------------------------------------------------
(* The theorems. *)

\* Whatever brackets a rest has, and however deep, no skip over it reaches the
\* statements behind or the end of the text (SkipBracketedUntil,
\* ParseSkipStatement).
THEOREM TypeCorrect == Spec => []TypeOK
<1>1. Inv => TypeOK
  BY DEF Inv, Walks, Stacked, Grouped, TypeOK
<1> QED
  BY <1>1, Invariant, PTL

\* The splitter's loop ends a statement at the tokens where SkipBracketedUntil
\* stops without an error, and nowhere else: two stacks, of which one is given
\* up at a closing bracket that closes nothing and the other is kept, agree.
THEOREM StatementsAreGrouped == Spec => []GroupsAsSkipped
<1>1. Inv => GroupsAsSkipped
  BY DEF Inv, Grouped, GroupsAsSkipped
<1> QED
  BY <1>1, Invariant, PTL

\* A call of ParseSqlStatement on an unread rest passes one unmatched bracket,
\* with an error, or the `;`, without: the number that Ddl counts down for the
\* tokens of a rest is the number of calls the skips take.
THEOREM RestsAreWalked == Spec => IsRestOfTheWalk
<1>1. Inv /\ [Next]_vars => [D!SkipRest]_(D!vars)
  BY NextIsOfTheWalk
<1> QED
  BY <1>1, Invariant, PTL DEF Spec, IsRestOfTheWalk
==============================================================================
