------------------------------ MODULE BindersProofs ------------------------------
(***************************************************************************)
(* What the binders do with every source: the scans beside the lexer.      *)
(***************************************************************************)
EXTENDS Binders, LexerProofs

-----------------------------------------------------------------------------
(* Comments. *)

\* What is behind a mark of two characters, and behind any character.
LEMMA ScanAhead ==
  ASSUME NEW s \in Text
  PROVE  /\ s # <<>> => Tail(s) \in Text /\ Len(Tail(s)) < Len(s) /\ Tail(s) \in RestsOf(s)
         /\ Starts(s, Opening) => From(s, 3) \in Text /\ Len(From(s, 3)) < Len(s) /\ From(s, 3) \in RestsOf(s)
         /\ Starts(s, Closing) => From(s, 3) \in Text /\ Len(From(s, 3)) < Len(s) /\ From(s, 3) \in RestsOf(s)
         /\ Starts(s, Opening) => s # <<>> /\ ~Starts(s, Closing)
         /\ Starts(s, Closing) => s # <<>>
<1>1. ASSUME Len(s) > 1 PROVE From(s, 3) \in Text /\ Len(From(s, 3)) < Len(s) /\ From(s, 3) \in RestsOf(s)
  <2>1. 3 \in 1 .. Len(s) + 1
    BY <1>1, LenIs
  <2> QED
    BY <2>1, FromSuffix, LenIs
<1>2. Len(s) > 1 => s # <<>>
  BY EmptySuffix
<1> QED
  BY <1>1, <1>2, DelimiterStarts, TailSuffix

LEMMA SkipToBlockCommentEndUnfolds ==
  ASSUME NEW s \in Text
  PROVE  SkipToBlockCommentEnd[s] =
           [depth \in Nat |->
              CASE depth = 0 \/ s = <<>>                -> s
                [] depth # 0 /\ Starts(s, Opening)      -> SkipToBlockCommentEnd[From(s, 3)][depth + 1]
                [] depth # 0 /\ Starts(s, Closing)      -> SkipToBlockCommentEnd[From(s, 3)][depth - 1]
                [] OTHER                                -> SkipToBlockCommentEnd[Tail(s)][depth]]
<1> DEFINE Body(f, t) ==
             [depth \in Nat |->
                CASE depth = 0 \/ t = <<>>                -> t
                  [] depth # 0 /\ Starts(t, Opening)      -> f[From(t, 3)][depth + 1]
                  [] depth # 0 /\ Starts(t, Closing)      -> f[From(t, 3)][depth - 1]
                  [] OTHER                                -> f[Tail(t)][depth]]
           size == [t \in Text |-> Len(t)]
           step == [t \in Text |-> [f \in [Text -> [Nat -> Text]] |-> Body(f, t)]]
<1>1. ASSUME NEW t \in Text, NEW f \in [Text -> [Nat -> Text]]
      PROVE  Body(f, t) \in [Nat -> Text]
  <2> DEFINE Value(depth) ==
               CASE depth = 0 \/ t = <<>>                -> t
                 [] depth # 0 /\ Starts(t, Opening)      -> f[From(t, 3)][depth + 1]
                 [] depth # 0 /\ Starts(t, Closing)      -> f[From(t, 3)][depth - 1]
                 [] OTHER                                -> f[Tail(t)][depth]
  <2>1. \A depth \in Nat : Value(depth) \in Text
    <3> TAKE depth \in Nat
    <3>1. depth + 1 \in Nat /\ (depth # 0 => depth - 1 \in Nat)
      OBVIOUS
    <3>2. /\ Starts(t, Opening) => f[From(t, 3)] \in [Nat -> Text]
          /\ Starts(t, Closing) => f[From(t, 3)] \in [Nat -> Text]
          /\ t # <<>> => f[Tail(t)] \in [Nat -> Text]
          /\ Starts(t, Opening) => t # <<>> /\ ~Starts(t, Closing)
          /\ Starts(t, Closing) => t # <<>>
      BY <1>1, ScanAhead
    <3> QED
      BY <3>1, <3>2
  <2> HIDE DEF Value
  <2>2. [depth \in Nat |-> Value(depth)] \in [Nat -> Text]
    BY <2>1
  <2> QED
    BY <2>2 DEF Value
<1>2. ASSUME NEW t \in Text, NEW f \in [Text -> [Nat -> Text]], NEW g \in [Text -> [Nat -> Text]],
             \A y \in Text : Len(y) < Len(t) => f[y] = g[y]
      PROVE  Body(f, t) = Body(g, t)
  <2>1. /\ t # <<>> => f[Tail(t)] = g[Tail(t)]
        /\ Starts(t, Opening) => f[From(t, 3)] = g[From(t, 3)]
        /\ Starts(t, Closing) => f[From(t, 3)] = g[From(t, 3)]
        /\ Starts(t, Opening) => t # <<>> /\ ~Starts(t, Closing)
        /\ Starts(t, Closing) => t # <<>>
    BY <1>2, ScanAhead
  <2> DEFINE Value(h, depth) ==
               CASE depth = 0 \/ t = <<>>                -> t
                 [] depth # 0 /\ Starts(t, Opening)      -> h[From(t, 3)][depth + 1]
                 [] depth # 0 /\ Starts(t, Closing)      -> h[From(t, 3)][depth - 1]
                 [] OTHER                                -> h[Tail(t)][depth]
  <2>2. \A depth \in Nat : Value(f, depth) = Value(g, depth)
    BY <2>1
  <2> HIDE DEF Value
  <2>3. [depth \in Nat |-> Value(f, depth)] = [depth \in Nat |-> Value(g, depth)]
    BY <2>2
  <2> QED
    BY <2>3 DEF Value
<1> HIDE DEF Body
<1>3. Descends(Text, [Nat -> Text], size, step)
  <2>1. size \in [Text -> Nat] /\ step \in [Text -> [[Text -> [Nat -> Text]] -> [Nat -> Text]]]
    BY <1>1, LenIs
  <2>2. ASSUME NEW t \in Text, NEW f \in [Text -> [Nat -> Text]], NEW g \in [Text -> [Nat -> Text]],
               \A y \in Text : size[y] < size[t] => f[y] = g[y]
        PROVE  step[t][f] = step[t][g]
    <3>1. \A y \in Text : Len(y) < Len(t) => f[y] = g[y]
      BY <2>2
    <3> QED
      BY <1>2, <3>1
  <2>3. [Nat -> Text] # {}
    <3>1. [depth \in Nat |-> <<>>] \in [Nat -> Text]
      BY EmptySuffix
    <3> QED
      BY <3>1
  <2> HIDE DEF size, step
  <2> QED
    BY <2>1, <2>2, <2>3 DEF Descends
<1>4. \E g \in [Text -> [Nat -> Text]] : \A t \in Text : g[t] = step[t][g]
  <2> HIDE DEF size, step
  <2> QED
    BY <1>3, Recursion
<1>5. \E g : g = [t \in Text |-> Body(g, t)]
  BY <1>4
<1>6. SkipToBlockCommentEnd = CHOOSE f : f = [t \in Text |-> Body(f, t)]
  BY DEF SkipToBlockCommentEnd, Body
<1>7. SkipToBlockCommentEnd = [t \in Text |-> Body(SkipToBlockCommentEnd, t)]
  BY <1>5, <1>6
<1>8. SkipToBlockCommentEnd[s] = Body(SkipToBlockCommentEnd, s)
  BY <1>7
<1> QED
  BY <1>8 DEF Body


LEMMA SkipToBlockCommentEndIs ==
  ASSUME NEW s \in Text, NEW depth \in Nat
  PROVE  SkipToBlockCommentEnd[s][depth] =
           CASE depth = 0 \/ s = <<>>                -> s
             [] depth # 0 /\ Starts(s, Opening)      -> SkipToBlockCommentEnd[From(s, 3)][depth + 1]
             [] depth # 0 /\ Starts(s, Closing)      -> SkipToBlockCommentEnd[From(s, 3)][depth - 1]
             [] OTHER                                -> SkipToBlockCommentEnd[Tail(s)][depth]
<1> DEFINE Value(d) ==
             CASE d = 0 \/ s = <<>>                -> s
               [] d # 0 /\ Starts(s, Opening)      -> SkipToBlockCommentEnd[From(s, 3)][d + 1]
               [] d # 0 /\ Starts(s, Closing)      -> SkipToBlockCommentEnd[From(s, 3)][d - 1]
               [] OTHER                            -> SkipToBlockCommentEnd[Tail(s)][d]
<1>1. SkipToBlockCommentEnd[s] = [d \in Nat |-> Value(d)]
  BY SkipToBlockCommentEndUnfolds
<1>2. SkipToBlockCommentEnd[s][depth] = Value(depth)
  <2> HIDE DEF Value
  <2> QED
    BY <1>1
<1> QED
  BY <1>2

\* The steps of the count, one by one.
LEMMA CountSteps ==
  ASSUME NEW s \in Text
  PROVE  /\ SkipToBlockCommentEnd[s][0] = s
         /\ s = <<>> => \A d \in Nat : SkipToBlockCommentEnd[s][d] = <<>>
         /\ Starts(s, Opening) => \A d \in Nat : SkipToBlockCommentEnd[s][d + 1] = SkipToBlockCommentEnd[From(s, 3)][d + 2]
         /\ Starts(s, Closing) => \A d \in Nat : SkipToBlockCommentEnd[s][d + 1] = SkipToBlockCommentEnd[From(s, 3)][d]
         /\ s # <<>> /\ ~Starts(s, Opening) /\ ~Starts(s, Closing) =>
              \A d \in Nat : SkipToBlockCommentEnd[s][d + 1] = SkipToBlockCommentEnd[Tail(s)][d + 1]
<1>1. \A d \in Nat : d + 1 \in Nat /\ d + 1 # 0 /\ d + 1 - 1 = d /\ d + 1 + 1 = d + 2
  OBVIOUS
<1>2. SkipToBlockCommentEnd[s][0] = s
  BY SkipToBlockCommentEndIs
<1>3. s = <<>> => \A d \in Nat : SkipToBlockCommentEnd[s][d] = <<>>
  BY ScanAhead, SkipToBlockCommentEndIs
<1>4. ASSUME Starts(s, Opening), NEW d \in Nat
      PROVE  SkipToBlockCommentEnd[s][d + 1] = SkipToBlockCommentEnd[From(s, 3)][d + 2]
  <2> DEFINE e == d + 1
  <2>1. e \in Nat /\ e # 0 /\ e + 1 = d + 2
    OBVIOUS
  <2> HIDE DEF e
  <2>2. SkipToBlockCommentEnd[s][e] = SkipToBlockCommentEnd[From(s, 3)][e + 1]
    BY <1>4, <2>1, ScanAhead, SkipToBlockCommentEndIs
  <2> QED
    BY <2>1, <2>2 DEF e
<1>5. ASSUME Starts(s, Closing), NEW d \in Nat
      PROVE  SkipToBlockCommentEnd[s][d + 1] = SkipToBlockCommentEnd[From(s, 3)][d]
  <2> DEFINE e == d + 1
  <2>1. e \in Nat /\ e # 0 /\ e - 1 = d
    OBVIOUS
  <2> HIDE DEF e
  <2>2. SkipToBlockCommentEnd[s][e] = SkipToBlockCommentEnd[From(s, 3)][e - 1]
    BY <1>5, <2>1, ScanAhead, SkipToBlockCommentEndIs
  <2> QED
    BY <2>1, <2>2 DEF e
<1>6. ASSUME s # <<>>, ~Starts(s, Opening), ~Starts(s, Closing), NEW d \in Nat
      PROVE  SkipToBlockCommentEnd[s][d + 1] = SkipToBlockCommentEnd[Tail(s)][d + 1]
  <2> DEFINE e == d + 1
  <2>1. e \in Nat /\ e # 0
    OBVIOUS
  <2> HIDE DEF e
  <2>2. SkipToBlockCommentEnd[s][e] = SkipToBlockCommentEnd[Tail(s)][e]
    BY <1>6, <2>1, SkipToBlockCommentEndIs
  <2> QED
    BY <2>1, <2>2 DEF e
<1> QED
  BY <1>2, <1>3, <1>4, <1>5, <1>6

\* The count leaves a suffix, and ends of comments add up: behind the end of the
\* innermost comment, the others have yet to end.
LEMMA CountsAdd ==
  ASSUME NEW s \in Text
  PROVE  \A d \in Nat : /\ SkipToBlockCommentEnd[s][d] \in RestsOf(s)
                        /\ SkipToBlockCommentEnd[s][d + 1] = SkipToBlockCommentEnd[SkipToBlockCommentEnd[s][1]][d]
<1> DEFINE E == SkipToBlockCommentEnd
           Adds(t) == \A d \in Nat : E[t][d] \in RestsOf(t) /\ E[t][d + 1] = E[E[t][1]][d]
           P == {t \in Text : Adds(t)}
           size == [t \in Text |-> Len(t)]
<1>1. ASSUME NEW t \in Text, \A y \in Text : size[y] < size[t] => y \in P
      PROVE  t \in P
  <2>0. \A y \in Text : Len(y) < Len(t) => Adds(y)
    BY <1>1
  <2>1. ASSUME \A d \in Nat : E[t][d + 1] \in RestsOf(t)
        PROVE  \A d \in Nat : E[t][d] \in RestsOf(t)
    <3> TAKE d \in Nat
    <3>1. CASE d = 0
      BY <3>1, CountSteps, SuffixItself
    <3>2. CASE d # 0
      <4>1. d - 1 \in Nat /\ d - 1 + 1 = d
        BY <3>2
      <4> QED
        BY <2>1, <4>1
    <3> QED
      BY <3>1, <3>2
  <2>2. CASE t = <<>>
    <3>1. \A d \in Nat : E[t][d] = <<>> /\ E[t][d + 1] = <<>> /\ E[t][1] = <<>>
      BY <2>2, CountSteps
    <3>2. \A d \in Nat : E[t][d] \in RestsOf(t) /\ E[t][d + 1] = E[E[t][1]][d]
      BY <2>2, <3>1, SuffixItself
    <3> QED
      BY <3>2
  <2>3. CASE Starts(t, Opening)
    <3> DEFINE u == From(t, 3)
               w == E[u][1]
    <3>1. u \in Text /\ Len(u) < Len(t) /\ u \in RestsOf(t)
      BY <2>3, ScanAhead
    <3>2. \A d \in Nat : E[t][d + 1] = E[u][d + 2]
      BY <2>3, CountSteps
    <3> HIDE DEF u
    <3>3. Adds(u)
      BY <2>0, <3>1
    <3>4. w \in RestsOf(u) /\ w \in Text /\ Len(w) < Len(t)
      <4>1. w \in RestsOf(u)
        BY <3>3
      <4> QED
        BY <3>1, <4>1, SuffixIs, LenIs
    <3>5. Adds(w)
      <4> HIDE DEF w
      <4> QED
        BY <2>0, <3>4
    <3>6. \A d \in Nat : E[t][d + 1] = E[w][d + 1]
      <4> TAKE d \in Nat
      <4>1. d + 1 \in Nat /\ d + 1 + 1 = d + 2
        OBVIOUS
      <4>2. E[u][d + 1 + 1] = E[w][d + 1]
        BY <3>3, <4>1
      <4> QED
        BY <3>2, <4>1, <4>2
    <3>7. E[t][1] = E[w][1]
      BY <3>6
    <3> HIDE DEF w
    <3>8. \A d \in Nat : E[t][d + 1] = E[E[t][1]][d]
      BY <3>5, <3>6, <3>7
    <3>9. \A d \in Nat : E[t][d + 1] \in RestsOf(t)
      <4> TAKE d \in Nat
      <4>1. d + 1 \in Nat
        OBVIOUS
      <4>2. E[w][d + 1] \in RestsOf(w)
        BY <3>5, <4>1
      <4> QED
        BY <3>1, <3>4, <3>6, <4>2, SuffixOfSuffix
    <3> QED
      BY <2>1, <3>8, <3>9
  <2>4. CASE Starts(t, Closing)
    <3> DEFINE u == From(t, 3)
    <3>1. u \in Text /\ Len(u) < Len(t) /\ u \in RestsOf(t)
      BY <2>4, ScanAhead
    <3>2. \A d \in Nat : E[t][d + 1] = E[u][d]
      BY <2>4, CountSteps
    <3> HIDE DEF u
    <3>3. E[t][1] = u
      <4>1. E[t][0 + 1] = E[u][0] /\ E[u][0] = u
        BY <3>1, <3>2, CountSteps
      <4> QED
        BY <4>1
    <3>4. \A d \in Nat : E[t][d + 1] \in RestsOf(t)
      <4> TAKE d \in Nat
      <4>1. E[u][d] \in RestsOf(u)
        BY <2>0, <3>1
      <4> QED
        BY <3>1, <3>2, <4>1, SuffixOfSuffix
    <3> QED
      BY <2>1, <3>2, <3>3, <3>4
  <2>5. CASE t # <<>> /\ ~Starts(t, Opening) /\ ~Starts(t, Closing)
    <3> DEFINE u == Tail(t)
    <3>1. u \in Text /\ Len(u) < Len(t) /\ u \in RestsOf(t)
      BY <2>5, ScanAhead
    <3>2. \A d \in Nat : E[t][d + 1] = E[u][d + 1]
      BY <2>5, CountSteps
    <3> HIDE DEF u
    <3>3. E[t][1] = E[u][1]
      BY <3>2
    <3>4. \A d \in Nat : E[t][d + 1] \in RestsOf(t)
      <4> TAKE d \in Nat
      <4>1. d + 1 \in Nat
        OBVIOUS
      <4>2. E[u][d + 1] \in RestsOf(u)
        BY <2>0, <3>1, <4>1
      <4> QED
        BY <3>1, <3>2, <4>2, SuffixOfSuffix
    <3>5. \A d \in Nat : E[t][d + 1] = E[E[t][1]][d]
      BY <2>0, <3>1, <3>2, <3>3
    <3> QED
      BY <2>1, <3>4, <3>5
  <2> QED
    BY <2>2, <2>3, <2>4, <2>5
<1>2. size \in [Text -> Nat]
  BY LenIs
<1>3. s \in P
  <2> HIDE DEF P, size
  <2> QED
    BY <1>1, <1>2, Sizes
<1> QED
  BY <1>3

\* What does not change from a place to the next is the same at both ends.
LEMMA Constant ==
  ASSUME NEW n \in Nat, NEW f, \A i \in 1 .. n : f[i] = f[i + 1]
  PROVE  f[1] = f[n + 1]
<1> DEFINE P == {m \in Nat : m <= n => f[1] = f[m + 1]}
<1>1. ASSUME NEW m \in Nat, \A k \in 0 .. m - 1 : k \in P
      PROVE  m \in P
  <2>1. CASE m = 0
    BY <2>1
  <2>2. CASE m # 0
    <3>1. m - 1 \in 0 .. m - 1 /\ m - 1 + 1 = m /\ (m <= n => m \in 1 .. n /\ m - 1 <= n)
      BY <2>2
    <3>2. m - 1 \in P
      <4> HIDE DEF P
      <4> QED
        BY <1>1, <3>1
    <3>3. m <= n => f[1] = f[m]
      BY <3>1, <3>2
    <3> QED
      BY <3>1, <3>3
  <2> QED
    BY <2>1, <2>2
<1>2. \A m \in Nat : m \in P
  <2> HIDE DEF P
  <2> QED
    BY <1>1, Numbers
<1> QED
  BY <1>2

\* From a place to the next.
LEMMA NextPlace ==
  ASSUME NEW s \in Text, NEW i \in 1 .. Len(s)
  PROVE  /\ From(s, i) \in Text /\ From(s, i) # <<>> /\ Tail(From(s, i)) = From(s, i + 1)
         /\ Head(From(s, i)) = s[i] /\ Len(From(s, i)) = Len(s) - i + 1
         /\ From(s, i + 1) \in Text /\ From(s, i + 1) \in RestsOf(s)
<1>1. i \in 1 .. Len(s) + 1 /\ i + 1 \in 1 .. Len(s) + 1 /\ 2 \in 1 .. Len(s) - i + 2 /\ i + 2 - 1 = i + 1
      /\ 1 \in 1 .. Len(s) - i + 1 /\ i + 1 - 1 = i
  BY LenIs
<1>2. /\ From(s, i) \in Text /\ Len(From(s, i)) = Len(s) - i + 1
      /\ \A k \in 1 .. Len(s) - i + 1 : From(s, i)[k] = s[i + k - 1]
  BY <1>1, FromIs
<1>3. From(s, i) # <<>>
  <2>1. Len(From(s, i)) > 0
    BY <1>2, LenIs
  <2> QED
    BY <2>1
<1>4. From(From(s, i), 2) = From(s, i + 1)
  BY <1>1, FromFrom
<1>5. From(s, i)[1] = s[i]
  BY <1>1, <1>2
<1> HIDE DEF From
<1>6. Tail(From(s, i)) = From(From(s, i), 2) /\ Head(From(s, i)) = From(s, i)[1]
  BY <1>2, <1>3, TailIsFrom
<1>7. From(s, i + 1) \in Text /\ From(s, i + 1) \in RestsOf(s)
  BY <1>1, FromSuffix
<1> QED
  BY <1>2, <1>3, <1>4, <1>5, <1>6, <1>7

\* The places of a suffix.
LEMMA PlacesFrom ==
  ASSUME NEW s \in Text, NEW p, DOMAIN p = {1, 2}, Len(p) = 2, NEW i \in 1 .. Len(s) + 1
  PROVE  /\ \A j : j \in Places(From(s, i), p) <=> j >= 1 /\ j \in Nat /\ i + j - 1 \in Places(s, p)
         /\ Starts(From(s, i), p) <=> i \in Places(s, p)
<1> DEFINE t == From(s, i)
<1>1. t \in Text /\ Len(t) = Len(s) - i + 1 /\ Len(s) \in Nat /\ \A k \in 1 .. Len(t) : t[k] = s[i + k - 1]
  BY FromIs, LenIs
<1> HIDE DEF t
<1>2. /\ Places(s, p) = {k \in 1 .. Len(s) - 1 : s[k] = p[1] /\ s[k + 1] = p[2]}
      /\ Places(t, p) = {k \in 1 .. Len(t) - 1 : t[k] = p[1] /\ t[k + 1] = p[2]}
  BY <1>1, PlacesTwo
<1>3. ASSUME NEW j \in Nat, j >= 1
      PROVE  j \in Places(t, p) <=> i + j - 1 \in Places(s, p)
  <2>1. j \in 1 .. Len(t) - 1 <=> i + j - 1 \in 1 .. Len(s) - 1
    BY <1>1, <1>3
  <2>2. ASSUME j \in 1 .. Len(t) - 1
        PROVE  t[j] = s[i + j - 1] /\ t[j + 1] = s[i + j - 1 + 1]
    <3>1. j \in 1 .. Len(t) /\ j + 1 \in 1 .. Len(t) /\ i + (j + 1) - 1 = i + j - 1 + 1
      BY <1>1, <2>2
    <3> QED
      BY <1>1, <3>1
  <2> QED
    BY <1>2, <2>1, <2>2
<1>4. \A j : j \in Places(t, p) => j \in Nat /\ j >= 1
  BY <1>1, <1>2
<1>5. Starts(t, p) <=> i \in Places(s, p)
  <2>1. 1 \in Places(t, p) <=> i + 1 - 1 \in Places(s, p)
    BY <1>3
  <2>2. i + 1 - 1 = i
    BY <1>1
  <2> QED
    BY <2>1, <2>2 DEF Starts
<1> QED
  BY <1>3, <1>4, <1>5 DEF t

\* Up to the first mark nothing is counted.
LEMMA NothingCounted ==
  ASSUME NEW s \in Text, NEW n \in 0 .. Len(s), NEW d \in Nat,
         \A i \in 1 .. n : i \notin Places(s, Opening) /\ i \notin Places(s, Closing)
  PROVE  SkipToBlockCommentEnd[s][d + 1] = SkipToBlockCommentEnd[From(s, n + 1)][d + 1]
<1> DEFINE f == [i \in 1 .. n + 1 |-> SkipToBlockCommentEnd[From(s, i)][d + 1]]
<1>1. ASSUME NEW i \in 1 .. n PROVE f[i] = f[i + 1]
  <2>1. i \in 1 .. Len(s) /\ i \in 1 .. Len(s) + 1 /\ i \in 1 .. n + 1 /\ i + 1 \in 1 .. n + 1
    BY LenIs
  <2>2. From(s, i) \in Text /\ From(s, i) # <<>> /\ Tail(From(s, i)) = From(s, i + 1)
    BY <2>1, NextPlace
  <2>3. ~Starts(From(s, i), Opening) /\ ~Starts(From(s, i), Closing)
    BY <2>1, PlacesFrom, Delimiters
  <2>4. SkipToBlockCommentEnd[From(s, i)][d + 1] = SkipToBlockCommentEnd[From(s, i + 1)][d + 1]
    <3> DEFINE t == From(s, i)
               u == From(s, i + 1)
    <3>1. t \in Text /\ t # <<>> /\ Tail(t) = u /\ ~Starts(t, Opening) /\ ~Starts(t, Closing)
      BY <2>2, <2>3
    <3> HIDE DEF t, u
    <3>2. SkipToBlockCommentEnd[t][d + 1] = SkipToBlockCommentEnd[Tail(t)][d + 1]
      BY <3>1, CountSteps
    <3> QED
      BY <3>1, <3>2 DEF t, u
  <2> QED
    BY <2>1, <2>4
<1>2. f[1] = f[n + 1]
  <2> HIDE DEF f
  <2> QED
    BY <1>1, LenIs, Constant
<1>3. 1 \in 1 .. n + 1 /\ n + 1 \in 1 .. n + 1
  BY LenIs
<1> QED
  BY <1>2, <1>3, FromOne

\* The lexer, which cuts at the first end and looks back for an opening, and
\* the splitter, which counts, leave the same behind a comment of any text.
LEMMA CommentsCount ==
  ASSUME NEW s \in Text
  PROVE  SkipMultiComment[s] = SkipToBlockCommentEnd[s][1]
<1> DEFINE E == SkipToBlockCommentEnd
           P == {t \in Text : SkipMultiComment[t] = E[t][1]}
           size == [t \in Text |-> Len(t)]
<1>1. ASSUME NEW t \in Text, \A y \in Text : size[y] < size[t] => y \in P
      PROVE  t \in P
  <2>0. \A y \in Text : Len(y) < Len(t) => SkipMultiComment[y] = E[y][1]
    BY <1>1
  <2> DEFINE m == First(t, Opening)
             n == First(t, Closing)
  <2>1. CASE ~Has(t, Closing)
    <3>1. SkipMultiComment[t] = <<>>
      BY <2>1, SkipMultiCommentUnfolds
    <3>2. \A y \in Text : ~Has(y, Closing) => \A d \in Nat : E[y][d + 1] = <<>>
      <4> DEFINE Q == {y \in Text : ~Has(y, Closing) => \A d \in Nat : E[y][d + 1] = <<>>}
      <4>1. ASSUME NEW y \in Text, \A z \in Text : size[z] < size[y] => z \in Q
            PROVE  y \in Q
        <5> SUFFICES ASSUME ~Has(y, Closing), NEW d \in Nat PROVE E[y][d + 1] = <<>>
          OBVIOUS
        <5>1. ~Starts(y, Closing)
          BY DEF Starts, Has
        <5>2. ASSUME NEW z \in RestsOf(y), Len(z) < Len(y)
              PROVE  z \in Text /\ ~Has(z, Closing) /\ \A e \in Nat : E[z][e + 1] = <<>>
          <6>1. PICK i \in 1 .. Len(y) + 1 : z = From(y, i)
            BY DEF RestsOf
          <6>2. z \in Text
            BY SuffixIs
          <6>3. ~Has(z, Closing)
            BY <6>1, PlacesFrom, Delimiters DEF Has
          <6>4. z \in Q
            BY <4>1, <5>2, <6>2
          <6> QED
            BY <6>2, <6>3, <6>4
        <5>3. CASE y = <<>>
          BY <5>3, CountSteps
        <5>4. CASE Starts(y, Opening)
          <6>1. E[y][d + 1] = E[From(y, 3)][d + 2]
            BY <5>4, CountSteps
          <6>2. d + 1 \in Nat /\ d + 1 + 1 = d + 2
            OBVIOUS
          <6>3. E[From(y, 3)][d + 1 + 1] = <<>>
            BY <5>2, <5>4, <6>2, ScanAhead
          <6> QED
            BY <6>1, <6>2, <6>3
        <5>5. CASE y # <<>> /\ ~Starts(y, Opening)
          <6>1. E[y][d + 1] = E[Tail(y)][d + 1]
            BY <5>1, <5>5, CountSteps
          <6> QED
            BY <5>2, <5>5, <6>1, ScanAhead
        <5> QED
          BY <5>3, <5>4, <5>5
      <4>2. \A y \in Text : y \in Q
        <5>1. size \in [Text -> Nat]
          BY LenIs
        <5> HIDE DEF Q, size
        <5> QED
          BY <4>1, <5>1, Sizes
      <4> QED
        BY <4>2
    <3>3. E[t][0 + 1] = <<>>
      BY <2>1, <3>2
    <3> QED
      BY <3>1, <3>3
  <2>2. CASE Has(t, Closing) /\ ~CommentWithin(Before(t, Closing))
    <3>1. n \in 1 .. Len(t) - 1 /\ n \in Places(t, Closing) /\ (\A j \in Places(t, Closing) : n <= j)
          /\ \A i \in Places(t, Opening) : ~ (i < n)
      BY <2>2, WithinIs, FirstIs, Delimiters
    <3>2. SkipMultiComment[t] = From(t, n + 2)
      BY <2>2, SkipMultiCommentUnfolds, BehindIs, Delimiters
    <3> HIDE DEF n
    <3>3. n - 1 \in 0 .. Len(t) /\ n - 1 + 1 = n /\ n \in 1 .. Len(t) + 1 /\ 3 \in 1 .. Len(t) - n + 2 /\ n + 3 - 1 = n + 2
      BY <3>1, LenIs
    <3>4. \A i \in 1 .. n - 1 : i \notin Places(t, Opening) /\ i \notin Places(t, Closing)
      BY <3>1
    <3>5. E[t][0 + 1] = E[From(t, n)][0 + 1]
      BY <3>3, <3>4, NothingCounted
    <3>6. Starts(From(t, n), Closing) /\ From(t, n) \in Text
      BY <3>1, <3>3, PlacesFrom, Delimiters, FromIs
    <3>7. E[From(t, n)][0 + 1] = E[From(From(t, n), 3)][0]
      BY <3>6, CountSteps
    <3>8. From(From(t, n), 3) = From(t, n + 2)
      BY <3>3, FromFrom
    <3>9. From(t, n + 2) \in Text
      BY <3>6, <3>8, ScanAhead
    <3> QED
      BY <3>2, <3>5, <3>7, <3>8, <3>9, CountSteps
  <2>3. CASE Has(t, Closing) /\ CommentWithin(Before(t, Closing))
    <3>1. Has(t, Opening) /\ Behind(t, Opening) \in RestsOf(t) /\ Behind(t, Opening) \in Text
          /\ Len(Behind(t, Opening)) < Len(t)
      BY <2>3, InnerComment
    <3>2. /\ m \in 1 .. Len(t) - 1 /\ m \in Places(t, Opening) /\ (\A j \in Places(t, Opening) : m <= j)
          /\ \A j \in Places(t, Closing) : n <= j
          /\ m < n
      <4>1. m \in 1 .. Len(t) - 1 /\ m \in Places(t, Opening) /\ (\A j \in Places(t, Opening) : m <= j)
        <5>1. /\ m \in Places(t, Opening) /\ (\A j \in Places(t, Opening) : m <= j)
              /\ m \in 1 .. Len(t) - Len(Opening) + 1
          BY <3>1, FirstIs, Delimiters
        <5>2. Len(t) - Len(Opening) + 1 = Len(t) - 1
          BY Delimiters, LenIs
        <5> QED
          BY <5>1, <5>2
      <4>2. n \in 1 .. Len(t) - 1 /\ \A j \in Places(t, Closing) : n <= j
        BY <2>3, WithinIs, FirstIs, Delimiters
      <4>3. PICK i \in Places(t, Opening) : i < n
        BY <2>3, WithinIs
      <4>4. i \in 1 .. Len(t) - 1
        BY DelimiterPlaces
      <4> HIDE DEF m, n
      <4>5. m < n
        BY <4>1, <4>2, <4>3, <4>4
      <4> QED
        BY <4>1, <4>2, <4>5
    <3>3. Behind(t, Opening) = From(t, m + 2)
      BY <3>1, BehindIs, Delimiters
    <3> DEFINE u == From(t, m + 2)
    <3>4. n \in Nat
      BY <2>3, WithinIs
    <3> HIDE DEF m, n
    <3>5. m - 1 \in 0 .. Len(t) /\ m - 1 + 1 = m /\ m \in 1 .. Len(t) + 1 /\ 3 \in 1 .. Len(t) - m + 2 /\ m + 3 - 1 = m + 2
      BY <3>2, LenIs
    <3>6. \A i \in 1 .. m - 1 : i \notin Places(t, Opening) /\ i \notin Places(t, Closing)
      BY <3>2, <3>4
    <3>7. E[t][0 + 1] = E[From(t, m)][0 + 1]
      BY <3>5, <3>6, NothingCounted
    <3>8. Starts(From(t, m), Opening) /\ From(t, m) \in Text
      BY <3>2, <3>5, PlacesFrom, Delimiters, FromIs
    <3>9. E[From(t, m)][0 + 1] = E[From(From(t, m), 3)][0 + 2]
      BY <3>8, CountSteps
    <3>10. From(From(t, m), 3) = u
      BY <3>5, FromFrom
    <3>11. u \in RestsOf(t) /\ u \in Text /\ Len(u) < Len(t) /\ SkipMultiComment[t] = SkipMultiComment[SkipMultiComment[u]]
      BY <2>3, <3>1, <3>3, SkipMultiCommentUnfolds
    <3> HIDE DEF u
    <3>12. E[u][1 + 1] = E[E[u][1]][1] /\ E[u][1] \in RestsOf(u)
      BY <3>11, CountsAdd
    <3>13. SkipMultiComment[u] = E[u][1]
      BY <2>0, <3>11
    <3>14. SkipMultiComment[E[u][1]] = E[E[u][1]][1]
      <4>1. E[u][1] \in Text /\ Len(E[u][1]) < Len(t)
        BY <3>11, <3>12, SuffixIs, LenIs
      <4> QED
        BY <2>0, <4>1
    <3> QED
      BY <3>7, <3>9, <3>10, <3>11, <3>12, <3>13, <3>14
  <2> QED
    BY <2>1, <2>2, <2>3
<1>2. size \in [Text -> Nat]
  BY LenIs
<1>3. s \in P
  <2> HIDE DEF P, size
  <2> QED
    BY <1>1, <1>2, Sizes
<1> QED
  BY <1>3

\* CommentsNestAlike for every source: comments end at the same place for the
\* lexer and for the splitter, wherever the lexer is.
THEOREM CommentsNestAlikeAlways == Spec => []CommentsNestAlike
<1>1. TypeOK => CommentsNestAlike
  <2> SUFFICES ASSUME TypeOK PROVE CommentsNestAlike
    OBVIOUS
  <2>1. rest \in Text
    BY SourcesAssumption, FromSuffix DEF TypeOK
  <2> QED
    BY <2>1, CommentsCount DEF CommentsNestAlike
<1> QED
  BY <1>1, TypeCorrect, PTL

-----------------------------------------------------------------------------
(* The scans of the binders. *)

\* What they tell apart.
LEMMA ScansApart ==
  ASSUME NEW s \in Text
  PROVE  /\ Quoted(s) <=> Len(s) > 0 /\ s[1] = "'"
         /\ Cast(s) <=> Len(s) > 1 /\ s[1] = ":" /\ s[2] = ":"
         /\ Starts(s, <<"?">>) <=> Len(s) > 0 /\ s[1] = "?"
         /\ Quoted(s) \/ Cast(s) \/ Named(s) \/ Starts(s, <<"?">>) => s # <<>>
         /\ ~ (Quoted(s) /\ Cast(s)) /\ ~ (Quoted(s) /\ Named(s)) /\ ~ (Cast(s) /\ Named(s))
         /\ ~ (Quoted(s) /\ Starts(s, <<"?">>))
<1>1. Quoted(s) <=> Len(s) > 0 /\ s[1] = "'"
  BY DelimiterStarts DEF Quoted
<1>2. Cast(s) <=> Len(s) > 1 /\ s[1] = ":" /\ s[2] = ":"
  <2>1. DOMAIN <<":", ":">> = {1, 2} /\ Len(<<":", ":">>) = 2 /\ <<":", ":">>[1] = ":" /\ <<":", ":">>[2] = ":"
    OBVIOUS
  <2> QED
    BY <2>1, StartsTwo DEF Cast
<1>3. Starts(s, <<"?">>) <=> Len(s) > 0 /\ s[1] = "?"
  BY StartsOne, Chars
<1>4. Named(s) <=> Len(s) > 1 /\ s[1] = ":" /\ s[2] \in StartTokenChar
  BY DEF Named
<1>5. ":" \notin StartTokenChar
  BY DEF StartTokenChar, Letter
<1>6. Len(s) > 0 => s # <<>>
  BY EmptySuffix
<1> QED
  BY <1>1, <1>2, <1>3, <1>4, <1>5, <1>6, LenIs

\* Behind a quote.
LEMMA QuoteAhead ==
  ASSUME NEW s \in Text, Has(s, Quote)
  PROVE  /\ Behind(s, Quote) \in Text /\ Behind(s, Quote) \in RestsOf(s) /\ Len(Behind(s, Quote)) < Len(s)
         /\ Starts(Behind(s, Quote), Quote) => /\ Tail(Behind(s, Quote)) \in Text /\ Tail(Behind(s, Quote)) \in RestsOf(s)
                                               /\ Len(Tail(Behind(s, Quote))) < Len(s)
BY StringAhead


LEMMA AfterStringUnfolds ==
  ASSUME NEW s \in Text
  PROVE  AfterString[s] =
           IF ~Has(s, Quote) THEN <<>>
           ELSE LET after == Behind(s, Quote)
                IN IF Starts(after, Quote) THEN AfterString[Tail(after)] ELSE after
<1> DEFINE Body(f, t) ==
             IF ~Has(t, Quote) THEN <<>>
             ELSE LET after == Behind(t, Quote)
                  IN IF Starts(after, Quote) THEN f[Tail(after)] ELSE after
           size == [t \in Text |-> Len(t)]
           step == [t \in Text |-> [f \in [Text -> Text] |-> Body(f, t)]]
<1>1. ASSUME NEW t \in Text, NEW f \in [Text -> Text]
      PROVE  Body(f, t) \in Text
  BY <1>1, QuoteAhead, EmptySuffix
<1>2. ASSUME NEW t \in Text, NEW f \in [Text -> Text], NEW g \in [Text -> Text],
             \A y \in Text : Len(y) < Len(t) => f[y] = g[y]
      PROVE  Body(f, t) = Body(g, t)
  BY <1>2, QuoteAhead
<1> HIDE DEF Body
<1>3. Descends(Text, Text, size, step)
  <2>1. size \in [Text -> Nat] /\ step \in [Text -> [[Text -> Text] -> Text]]
    BY <1>1, LenIs
  <2>2. ASSUME NEW t \in Text, NEW f \in [Text -> Text], NEW g \in [Text -> Text],
               \A y \in Text : size[y] < size[t] => f[y] = g[y]
        PROVE  step[t][f] = step[t][g]
    <3>1. \A y \in Text : Len(y) < Len(t) => f[y] = g[y]
      BY <2>2
    <3> QED
      BY <1>2, <3>1
  <2>3. Text # {}
    BY EmptySuffix
  <2> HIDE DEF size, step
  <2> QED
    BY <2>1, <2>2, <2>3 DEF Descends
<1>4. \E g \in [Text -> Text] : \A t \in Text : g[t] = step[t][g]
  <2> HIDE DEF size, step
  <2> QED
    BY <1>3, Recursion
<1>5. \E g : g = [t \in Text |-> Body(g, t)]
  BY <1>4
<1>6. AfterString = CHOOSE f : f = [t \in Text |-> Body(f, t)]
  BY DEF AfterString, Body
<1>7. AfterString = [t \in Text |-> Body(AfterString, t)]
  BY <1>5, <1>6
<1>8. AfterString[s] = Body(AfterString, s)
  BY <1>7
<1> QED
  BY <1>8 DEF Body


\* What is behind a literal is a suffix.
LEMMA AfterStringLeaves ==
  ASSUME NEW s \in Text
  PROVE  AfterString[s] \in RestsOf(s) /\ AfterString[s] \in Text /\ Len(AfterString[s]) <= Len(s)
<1> DEFINE P == {t \in Text : AfterString[t] \in RestsOf(t)}
           size == [t \in Text |-> Len(t)]
<1>1. ASSUME NEW t \in Text, \A y \in Text : size[y] < size[t] => y \in P
      PROVE  t \in P
  <2> DEFINE after == Behind(t, Quote)
  <2>1. CASE ~Has(t, Quote)
    BY <2>1, AfterStringUnfolds, EmptySuffix
  <2>2. CASE Has(t, Quote) /\ ~Starts(after, Quote)
    BY <2>2, AfterStringUnfolds, QuoteAhead
  <2>3. CASE Has(t, Quote) /\ Starts(after, Quote)
    <3>1. AfterString[t] = AfterString[Tail(after)]
      BY <2>3, AfterStringUnfolds
    <3>2. Tail(after) \in Text /\ Tail(after) \in RestsOf(t) /\ Len(Tail(after)) < Len(t)
      BY <2>3, QuoteAhead
    <3> HIDE DEF after
    <3>3. AfterString[Tail(after)] \in RestsOf(Tail(after))
      BY <1>1, <3>2
    <3> QED
      BY <3>1, <3>2, <3>3, SuffixOfSuffix
  <2> QED
    BY <2>1, <2>2, <2>3
<1>2. size \in [Text -> Nat]
  BY LenIs
<1>3. s \in P
  <2> HIDE DEF P, size
  <2> QED
    BY <1>1, <1>2, Sizes
<1> QED
  BY <1>3, SuffixIs

\* Where the scans go on.
LEMMA ScansAhead ==
  ASSUME NEW s \in Text, s # <<>>
  PROVE  /\ Tail(s) \in Text /\ Tail(s) \in RestsOf(s) /\ Len(Tail(s)) < Len(s)
         /\ AfterString[Tail(s)] \in Text /\ AfterString[Tail(s)] \in RestsOf(s) /\ Len(AfterString[Tail(s)]) < Len(s)
         /\ Cast(s) => From(s, 3) \in Text /\ From(s, 3) \in RestsOf(s) /\ Len(From(s, 3)) < Len(s)
         /\ \A n : n = RunOf(Tail(s), TokenChar) =>
              /\ From(s, n + 2) \in Text /\ From(s, n + 2) \in RestsOf(s) /\ Len(From(s, n + 2)) < Len(s)
              /\ SubSeq(s, 2, n + 1) \in Text
<1>1. Tail(s) \in Text /\ Tail(s) \in RestsOf(s) /\ Len(Tail(s)) < Len(s)
  BY TailSuffix
<1>2. AfterString[Tail(s)] \in Text /\ AfterString[Tail(s)] \in RestsOf(s) /\ Len(AfterString[Tail(s)]) < Len(s)
  <2>1. AfterString[Tail(s)] \in RestsOf(Tail(s))
    BY <1>1, AfterStringLeaves
  <2> QED
    BY <1>1, <2>1, Smaller
<1>3. ASSUME NEW i \in 2 .. Len(s) + 1
      PROVE  From(s, i) \in Text /\ From(s, i) \in RestsOf(s) /\ Len(From(s, i)) < Len(s)
  <2>1. i \in 1 .. Len(s) + 1 /\ Len(s) - i + 1 < Len(s)
    BY LenIs
  <2> QED
    BY <2>1, FromSuffix
<1>4. Cast(s) => 3 \in 2 .. Len(s) + 1
  BY ScansApart, LenIs
<1>5. ASSUME NEW n, n = RunOf(Tail(s), TokenChar)
      PROVE  n + 2 \in 2 .. Len(s) + 1 /\ SubSeq(s, 2, n + 1) \in Text
  <2>1. n \in 0 .. Len(s) - 1 /\ SubSeq(s, 2, n + 1) \in Seq(TokenChar)
    BY <1>5, ParamText
  <2>2. TokenChar \subseteq Char
    BY DEF Char
  <2>3. SubSeq(s, 2, n + 1) \in Text
    BY <2>1, <2>2, SeqMonotonic DEF Text
  <2> QED
    BY <2>1, <2>3, LenIs
<1> QED
  BY <1>1, <1>2, <1>3, <1>4, <1>5


LEMMA ColonNamesUnfolds ==
  ASSUME NEW s \in Text
  PROVE  ColonNames[s] =
           CASE s = <<>>  -> <<>>
             [] Quoted(s) -> ColonNames[AfterString[Tail(s)]]
             [] Cast(s)   -> ColonNames[From(s, 3)]
             [] Named(s)  -> LET n == RunOf(Tail(s), TokenChar)
                             IN <<SubSeq(s, 2, n + 1)>> \o ColonNames[From(s, n + 2)]
             [] OTHER     -> ColonNames[Tail(s)]
<1> DEFINE Body(f, t) ==
             CASE t = <<>>  -> <<>>
               [] Quoted(t) -> f[AfterString[Tail(t)]]
               [] Cast(t)   -> f[From(t, 3)]
               [] Named(t)  -> LET n == RunOf(Tail(t), TokenChar)
                               IN <<SubSeq(t, 2, n + 1)>> \o f[From(t, n + 2)]
               [] OTHER     -> f[Tail(t)]
           size == [t \in Text |-> Len(t)]
           step == [t \in Text |-> [f \in [Text -> Seq(Text)] |-> Body(f, t)]]
<1>1. ASSUME NEW t \in Text, NEW f \in [Text -> Seq(Text)]
      PROVE  Body(f, t) \in Seq(Text)
  <2> DEFINE n == RunOf(Tail(t), TokenChar)
             name == SubSeq(t, 2, n + 1)
  <2>1. t # <<>> => /\ f[AfterString[Tail(t)]] \in Seq(Text)
                    /\ Cast(t) => f[From(t, 3)] \in Seq(Text)
                    /\ f[Tail(t)] \in Seq(Text)
    BY <1>1, ScansAhead
  <2>2. t # <<>> => <<name>> \o f[From(t, n + 2)] \in Seq(Text)
    <3> SUFFICES ASSUME t # <<>> PROVE <<name>> \o f[From(t, n + 2)] \in Seq(Text)
      OBVIOUS
    <3>1. f[From(t, n + 2)] \in Seq(Text) /\ name \in Text
      BY <1>1, ScansAhead
    <3> HIDE DEF n, name
    <3>2. <<name>> \in Seq(Text)
      BY <3>1
    <3> QED
      BY <3>1, <3>2, ConcatProperties
  <2>3. <<>> \in Seq(Text)
    BY EmptySeq
  <2> QED
    BY <2>1, <2>2, <2>3, ScansApart
<1>2. ASSUME NEW t \in Text, NEW f \in [Text -> Seq(Text)], NEW g \in [Text -> Seq(Text)],
             \A y \in Text : Len(y) < Len(t) => f[y] = g[y]
      PROVE  Body(f, t) = Body(g, t)
  <2> DEFINE n == RunOf(Tail(t), TokenChar)
  <2>1. t # <<>> => /\ f[AfterString[Tail(t)]] = g[AfterString[Tail(t)]]
                    /\ Cast(t) => f[From(t, 3)] = g[From(t, 3)]
                    /\ f[From(t, n + 2)] = g[From(t, n + 2)]
                    /\ f[Tail(t)] = g[Tail(t)]
    BY <1>2, ScansAhead
  <2> QED
    BY <2>1, ScansApart
<1> HIDE DEF Body
<1>3. Descends(Text, Seq(Text), size, step)
  <2>1. size \in [Text -> Nat] /\ step \in [Text -> [[Text -> Seq(Text)] -> Seq(Text)]]
    BY <1>1, LenIs
  <2>2. ASSUME NEW t \in Text, NEW f \in [Text -> Seq(Text)], NEW g \in [Text -> Seq(Text)],
               \A y \in Text : size[y] < size[t] => f[y] = g[y]
        PROVE  step[t][f] = step[t][g]
    <3>1. \A y \in Text : Len(y) < Len(t) => f[y] = g[y]
      BY <2>2
    <3> QED
      BY <1>2, <3>1
  <2>3. Seq(Text) # {}
    BY EmptySeq
  <2> HIDE DEF size, step
  <2> QED
    BY <2>1, <2>2, <2>3 DEF Descends
<1>4. \E g \in [Text -> Seq(Text)] : \A t \in Text : g[t] = step[t][g]
  <2> HIDE DEF size, step
  <2> QED
    BY <1>3, Recursion
<1>5. \E g : g = [t \in Text |-> Body(g, t)]
  BY <1>4
<1>6. ColonNames = CHOOSE f : f = [t \in Text |-> Body(f, t)]
  BY DEF ColonNames, Body
<1>7. ColonNames = [t \in Text |-> Body(ColonNames, t)]
  BY <1>5, <1>6
<1>8. ColonNames[s] = Body(ColonNames, s)
  BY <1>7
<1> QED
  BY <1>8 DEF Body


LEMMA QuestionMarksUnfolds ==
  ASSUME NEW s \in Text
  PROVE  QuestionMarks[s] =
           CASE s = <<>>            -> 0
             [] Quoted(s)           -> QuestionMarks[AfterString[Tail(s)]]
             [] Starts(s, <<"?">>)  -> 1 + QuestionMarks[Tail(s)]
             [] OTHER               -> QuestionMarks[Tail(s)]
<1> DEFINE Body(f, t) ==
             CASE t = <<>>            -> 0
               [] Quoted(t)           -> f[AfterString[Tail(t)]]
               [] Starts(t, <<"?">>)  -> 1 + f[Tail(t)]
               [] OTHER               -> f[Tail(t)]
           size == [t \in Text |-> Len(t)]
           step == [t \in Text |-> [f \in [Text -> Nat] |-> Body(f, t)]]
<1>1. ASSUME NEW t \in Text, NEW f \in [Text -> Nat]
      PROVE  Body(f, t) \in Nat
  <2>1. t # <<>> => f[AfterString[Tail(t)]] \in Nat /\ f[Tail(t)] \in Nat
    BY <1>1, ScansAhead
  <2> QED
    BY <2>1, ScansApart
<1>2. ASSUME NEW t \in Text, NEW f \in [Text -> Nat], NEW g \in [Text -> Nat],
             \A y \in Text : Len(y) < Len(t) => f[y] = g[y]
      PROVE  Body(f, t) = Body(g, t)
  <2>1. t # <<>> => f[AfterString[Tail(t)]] = g[AfterString[Tail(t)]] /\ f[Tail(t)] = g[Tail(t)]
    BY <1>2, ScansAhead
  <2> QED
    BY <2>1, ScansApart
<1> HIDE DEF Body
<1>3. Descends(Text, Nat, size, step)
  <2>1. size \in [Text -> Nat] /\ step \in [Text -> [[Text -> Nat] -> Nat]]
    BY <1>1, LenIs
  <2>2. ASSUME NEW t \in Text, NEW f \in [Text -> Nat], NEW g \in [Text -> Nat],
               \A y \in Text : size[y] < size[t] => f[y] = g[y]
        PROVE  step[t][f] = step[t][g]
    <3>1. \A y \in Text : Len(y) < Len(t) => f[y] = g[y]
      BY <2>2
    <3> QED
      BY <1>2, <3>1
  <2>3. Nat # {}
    OBVIOUS
  <2> HIDE DEF size, step
  <2> QED
    BY <2>1, <2>2, <2>3 DEF Descends
<1>4. \E g \in [Text -> Nat] : \A t \in Text : g[t] = step[t][g]
  <2> HIDE DEF size, step
  <2> QED
    BY <1>3, Recursion
<1>5. \E g : g = [t \in Text |-> Body(g, t)]
  BY <1>4
<1>6. QuestionMarks = CHOOSE f : f = [t \in Text |-> Body(f, t)]
  BY DEF QuestionMarks, Body
<1>7. QuestionMarks = [t \in Text |-> Body(QuestionMarks, t)]
  BY <1>5, <1>6
<1>8. QuestionMarks[s] = Body(QuestionMarks, s)
  BY <1>7
<1> QED
  BY <1>8 DEF Body


LEMMA OutsideUnfolds ==
  ASSUME NEW s \in Text
  PROVE  Outside[s] =
           CASE s = <<>>  -> <<>>
             [] Quoted(s) -> <<"'">> \o Outside[AfterString[Tail(s)]]
             [] OTHER     -> <<Head(s)>> \o Outside[Tail(s)]
<1> DEFINE Body(f, t) ==
             CASE t = <<>>  -> <<>>
               [] Quoted(t) -> <<"'">> \o f[AfterString[Tail(t)]]
               [] OTHER     -> <<Head(t)>> \o f[Tail(t)]
           size == [t \in Text |-> Len(t)]
           step == [t \in Text |-> [f \in [Text -> Text] |-> Body(f, t)]]
<1>1. ASSUME NEW t \in Text, NEW f \in [Text -> Text]
      PROVE  Body(f, t) \in Text
  <2>1. ASSUME t # <<>>, NEW c \in Char, NEW u \in Text
        PROVE  <<c>> \o f[u] \in Text
    <3>1. f[u] \in Text /\ <<c>> \in Text
      BY <1>1, <2>1, Marks
    <3> QED
      BY <3>1, ConcatProperties DEF Text
  <2>2. t # <<>> => /\ <<"'">> \o f[AfterString[Tail(t)]] \in Text
                    /\ <<Head(t)>> \o f[Tail(t)] \in Text
    <3>1. t # <<>> => Head(t) \in Char
      BY HeadTailProperties DEF Text
    <3> QED
      BY <2>1, <3>1, ScansAhead, Chars
  <2> QED
    BY <2>2, ScansApart, EmptySuffix
<1>2. ASSUME NEW t \in Text, NEW f \in [Text -> Text], NEW g \in [Text -> Text],
             \A y \in Text : Len(y) < Len(t) => f[y] = g[y]
      PROVE  Body(f, t) = Body(g, t)
  <2>1. t # <<>> => f[AfterString[Tail(t)]] = g[AfterString[Tail(t)]] /\ f[Tail(t)] = g[Tail(t)]
    BY <1>2, ScansAhead
  <2> QED
    BY <2>1, ScansApart
<1> HIDE DEF Body
<1>3. Descends(Text, Text, size, step)
  <2>1. size \in [Text -> Nat] /\ step \in [Text -> [[Text -> Text] -> Text]]
    BY <1>1, LenIs
  <2>2. ASSUME NEW t \in Text, NEW f \in [Text -> Text], NEW g \in [Text -> Text],
               \A y \in Text : size[y] < size[t] => f[y] = g[y]
        PROVE  step[t][f] = step[t][g]
    <3>1. \A y \in Text : Len(y) < Len(t) => f[y] = g[y]
      BY <2>2
    <3> QED
      BY <1>2, <3>1
  <2>3. Text # {}
    BY EmptySuffix
  <2> HIDE DEF size, step
  <2> QED
    BY <2>1, <2>2, <2>3 DEF Descends
<1>4. \E g \in [Text -> Text] : \A t \in Text : g[t] = step[t][g]
  <2> HIDE DEF size, step
  <2> QED
    BY <1>3, Recursion
<1>5. \E g : g = [t \in Text |-> Body(g, t)]
  BY <1>4
<1>6. Outside = CHOOSE f : f = [t \in Text |-> Body(f, t)]
  BY DEF Outside, Body
<1>7. Outside = [t \in Text |-> Body(Outside, t)]
  BY <1>5, <1>6
<1>8. Outside[s] = Body(Outside, s)
  BY <1>7
<1> QED
  BY <1>8 DEF Body

\* The steps of the scans.
LEMMA ScanSteps ==
  ASSUME NEW s \in Text, s # <<>>
  PROVE  /\ Quoted(s) => /\ ColonNames[s] = ColonNames[AfterString[Tail(s)]]
                         /\ QuestionMarks[s] = QuestionMarks[AfterString[Tail(s)]]
                         /\ Outside[s] = <<"'">> \o Outside[AfterString[Tail(s)]]
         /\ ~Quoted(s) => /\ Outside[s] = <<Head(s)>> \o Outside[Tail(s)]
                          /\ Head(s) = "?" => QuestionMarks[s] = 1 + QuestionMarks[Tail(s)]
                          /\ Head(s) # "?" => QuestionMarks[s] = QuestionMarks[Tail(s)]
         /\ Cast(s) => ColonNames[s] = ColonNames[From(s, 3)]
         /\ Named(s) => \A n : n = RunOf(Tail(s), TokenChar) =>
                          ColonNames[s] = <<SubSeq(s, 2, n + 1)>> \o ColonNames[From(s, n + 2)]
         /\ ~Quoted(s) /\ ~Cast(s) /\ ~Named(s) => ColonNames[s] = ColonNames[Tail(s)]
<1>1. Head(s) = s[1] /\ Len(s) > 0
  BY TailIsFrom
<1>2. Starts(s, <<"?">>) <=> Head(s) = "?"
  BY <1>1, ScansApart
<1>3. /\ ~ (Quoted(s) /\ Cast(s)) /\ ~ (Quoted(s) /\ Named(s)) /\ ~ (Cast(s) /\ Named(s))
      /\ ~ (Quoted(s) /\ Starts(s, <<"?">>))
  BY ScansApart
<1>4. /\ Quoted(s) => Outside[s] = <<"'">> \o Outside[AfterString[Tail(s)]]
      /\ ~Quoted(s) => Outside[s] = <<Head(s)>> \o Outside[Tail(s)]
  BY OutsideUnfolds
<1>5. /\ Quoted(s) => QuestionMarks[s] = QuestionMarks[AfterString[Tail(s)]]
      /\ ~Quoted(s) => /\ Head(s) = "?" => QuestionMarks[s] = 1 + QuestionMarks[Tail(s)]
                       /\ Head(s) # "?" => QuestionMarks[s] = QuestionMarks[Tail(s)]
  BY <1>2, <1>3, QuestionMarksUnfolds
<1>6. /\ Quoted(s) => ColonNames[s] = ColonNames[AfterString[Tail(s)]]
      /\ Cast(s) => ColonNames[s] = ColonNames[From(s, 3)]
      /\ Named(s) => \A n : n = RunOf(Tail(s), TokenChar) =>
                          ColonNames[s] = <<SubSeq(s, 2, n + 1)>> \o ColonNames[From(s, n + 2)]
      /\ ~Quoted(s) /\ ~Cast(s) /\ ~Named(s) => ColonNames[s] = ColonNames[Tail(s)]
  BY <1>3, ColonNamesUnfolds
<1> QED
  BY <1>4, <1>5, <1>6

\* What they answer.
LEMMA ScanTypes ==
  ASSUME NEW s \in Text
  PROVE  ColonNames[s] \in Seq(Text) /\ QuestionMarks[s] \in Nat /\ Outside[s] \in Text
<1> DEFINE Typed(t) == ColonNames[t] \in Seq(Text) /\ QuestionMarks[t] \in Nat /\ Outside[t] \in Text
           P == {t \in Text : Typed(t)}
           size == [t \in Text |-> Len(t)]
<1>1. ASSUME NEW t \in Text, \A y \in Text : size[y] < size[t] => y \in P
      PROVE  t \in P
  <2>0. \A y \in Text : Len(y) < Len(t) => Typed(y)
    BY <1>1
  <2>1. CASE t = <<>>
    <3>1. ColonNames[t] = <<>> /\ QuestionMarks[t] = 0 /\ Outside[t] = <<>>
      BY <2>1, ScansApart, ColonNamesUnfolds, QuestionMarksUnfolds, OutsideUnfolds
    <3>2. <<>> \in Seq(Text) /\ 0 \in Nat /\ <<>> \in Text
      BY <2>1, EmptySeq
    <3>3. Typed(t)
      BY <3>1, <3>2
    <3> QED
      BY <3>3
  <2>2. CASE t # <<>>
    <3> DEFINE n == RunOf(Tail(t), TokenChar)
               name == SubSeq(t, 2, n + 1)
    <3>1. /\ Typed(Tail(t)) /\ Typed(AfterString[Tail(t)]) /\ Typed(From(t, n + 2))
          /\ Cast(t) => Typed(From(t, 3))
          /\ name \in Text
      BY <2>0, <2>2, ScansAhead
    <3>2. Outside[t] \in Text
      <4>1. Head(t) \in Char /\ "'" \in Char
        BY <2>2, HeadTailProperties, Chars DEF Text
      <4>2. <<"'">> \o Outside[AfterString[Tail(t)]] \in Text /\ <<Head(t)>> \o Outside[Tail(t)] \in Text
        BY <3>1, <4>1, Marks, ConcatProperties DEF Text
      <4> QED
        BY <2>2, <4>2, ScanSteps
    <3>3. QuestionMarks[t] \in Nat
      <4>1. QuestionMarks[Tail(t)] \in Nat /\ QuestionMarks[AfterString[Tail(t)]] \in Nat
        BY <3>1
      <4>2. \/ QuestionMarks[t] = QuestionMarks[AfterString[Tail(t)]]
            \/ QuestionMarks[t] = 1 + QuestionMarks[Tail(t)]
            \/ QuestionMarks[t] = QuestionMarks[Tail(t)]
        BY <2>2, ScanSteps
      <4> QED
        BY <4>1, <4>2
    <3>4. ColonNames[t] \in Seq(Text)
      <4>1. <<name>> \o ColonNames[From(t, n + 2)] \in Seq(Text)
        <5>1. <<name>> \in Seq(Text) /\ ColonNames[From(t, n + 2)] \in Seq(Text)
          <6> HIDE DEF name, n
          <6> QED
            BY <3>1
        <5> HIDE DEF name, n
        <5> QED
          BY <5>1, ConcatProperties
      <4>2. Named(t) => ColonNames[t] = <<name>> \o ColonNames[From(t, n + 2)]
        BY <2>2, ScanSteps
      <4> HIDE DEF name, n
      <4> QED
        BY <2>2, <3>1, <4>1, <4>2, ScanSteps
    <3> QED
      BY <3>2, <3>3, <3>4
  <2> QED
    BY <2>1, <2>2
<1>2. size \in [Text -> Nat]
  BY LenIs
<1>3. s \in P
  <2> HIDE DEF P, size
  <2> QED
    BY <1>1, <1>2, Sizes
<1> QED
  BY <1>3

-----------------------------------------------------------------------------
(* The lexer beside the scans. *)

\* What is outside the literals of the text t ends what is outside those of s.
Hides(s, t) == t \in Text /\ Outside[t] \in RestsOf(Outside[s])

\* Between s and t there is no name to bind, no mark, neither.
NamesPass(s, t) == Hides(s, t) /\ ColonNames[s] = ColonNames[t]

MarksPass(s, t) == Hides(s, t) /\ QuestionMarks[s] = QuestionMarks[t]

Passes(s, t) == NamesPass(s, t) /\ MarksPass(s, t)

LEMMA PassesItself ==
  ASSUME NEW s \in Text
  PROVE  Hides(s, s) /\ NamesPass(s, s) /\ MarksPass(s, s) /\ Passes(s, s)
BY ScanTypes, SuffixItself DEF Hides, NamesPass, MarksPass, Passes

LEMMA PassesOn ==
  ASSUME NEW s \in Text, NEW t, NEW u
  PROVE  /\ Hides(s, t) /\ Hides(t, u) => Hides(s, u)
         /\ NamesPass(s, t) /\ NamesPass(t, u) => NamesPass(s, u)
         /\ MarksPass(s, t) /\ MarksPass(t, u) => MarksPass(s, u)
         /\ Passes(s, t) /\ Passes(t, u) => Passes(s, u)
<1>1. Hides(s, t) /\ Hides(t, u) => Hides(s, u)
  BY ScanTypes, SuffixOfSuffix DEF Hides
<1> QED
  BY <1>1 DEF NamesPass, MarksPass, Passes

\* A character before a text.
LEMMA Prefixed ==
  ASSUME NEW c \in Char, NEW o \in Text
  PROVE  /\ <<c>> \o o \in Text /\ Len(<<c>> \o o) = Len(o) + 1 /\ (<<c>> \o o)[1] = c
         /\ \A k \in 1 .. Len(o) : (<<c>> \o o)[k + 1] = o[k]
         /\ o \in RestsOf(<<c>> \o o)
<1> DEFINE p == <<c>> \o o
<1>1. <<c>> \in Text /\ Len(<<c>>) = 1 /\ <<c>>[1] = c
  BY Marks
<1>2. /\ p \in Text /\ Len(p) = 1 + Len(o) /\ Len(o) \in Nat
      /\ \A i \in 1 .. 1 + Len(o) : p[i] = IF i <= 1 THEN <<c>>[i] ELSE o[i - 1]
  BY <1>1, ConcatProperties, LenIs DEF Text
<1> HIDE DEF p
<1>3. Len(p) = Len(o) + 1 /\ p[1] = c /\ p # <<>>
  <2>1. 1 \in 1 .. 1 + Len(o) /\ Len(p) > 0
    BY <1>2
  <2> QED
    BY <1>1, <1>2, <2>1, EmptySuffix
<1>4. \A k \in 1 .. Len(o) : p[k + 1] = o[k]
  <2> TAKE k \in 1 .. Len(o)
  <2>1. k + 1 \in 1 .. 1 + Len(o) /\ ~ (k + 1 <= 1) /\ k + 1 - 1 = k
    BY <1>2
  <2> QED
    BY <1>2, <2>1
<1>5. o \in RestsOf(p)
  <2>1. 2 \in 1 .. Len(p) + 1 /\ Len(p) - 2 + 1 = Len(o)
    BY <1>2, <1>3
  <2>2. /\ From(p, 2) \in Text /\ Len(From(p, 2)) = Len(p) - 2 + 1
        /\ \A k \in 1 .. Len(p) - 2 + 1 : From(p, 2)[k] = p[2 + k - 1]
    BY <1>2, <2>1, FromIs
  <2>3. \A k \in 1 .. Len(o) : From(p, 2)[k] = o[k]
    <3> TAKE k \in 1 .. Len(o)
    <3>1. 2 + k - 1 = k + 1
      OBVIOUS
    <3> QED
      BY <1>4, <2>1, <2>2, <3>1
  <2>4. Len(From(p, 2)) = Len(o)
    BY <2>1, <2>2
  <2>5. From(p, 2) = o
    BY <2>2, <2>3, <2>4, SeqEqual DEF Text
  <2> QED
    BY <2>1, <2>5 DEF RestsOf
<1> QED
  BY <1>2, <1>3, <1>4, <1>5 DEF p

\* What is outside the literals begins as the text does.
LEMMA OutsideBegins ==
  ASSUME NEW s \in Text, s # <<>>
  PROVE  /\ Len(Outside[s]) > 0 /\ Outside[s][1] = Head(s)
         /\ ~Quoted(s) => Hides(s, Tail(s))
         /\ Quoted(s) => Hides(s, AfterString[Tail(s)])
         /\ ~Quoted(s) /\ Len(s) > 1 => Len(Outside[s]) > 1 /\ Outside[s][2] = s[2]
<1>1. ASSUME NEW t \in Text, t # <<>>
      PROVE  /\ Len(Outside[t]) > 0 /\ Outside[t][1] = Head(t)
             /\ ~Quoted(t) => Hides(t, Tail(t)) /\ Len(Outside[t]) = Len(Outside[Tail(t)]) + 1
                              /\ \A k \in 1 .. Len(Outside[Tail(t)]) : Outside[t][k + 1] = Outside[Tail(t)][k]
             /\ Quoted(t) => Hides(t, AfterString[Tail(t)])
  <2>1. Head(t) \in Char /\ "'" \in Char /\ Head(t) = t[1] /\ (Quoted(t) => Head(t) = "'")
    BY <1>1, HeadTailProperties, Chars, TailIsFrom, ScansApart DEF Text
  <2>2. Tail(t) \in Text /\ AfterString[Tail(t)] \in Text
    BY <1>1, ScansAhead
  <2> DEFINE o == Outside[Tail(t)]
             q == Outside[AfterString[Tail(t)]]
  <2>3. o \in Text /\ q \in Text
    BY <2>2, ScanTypes
  <2>4. Outside[t] = <<Head(t)>> \o (IF Quoted(t) THEN q ELSE o)
    BY <1>1, <2>1, ScanSteps
  <2> HIDE DEF o, q
  <2>5. Len(o) \in Nat /\ Len(q) \in Nat
    BY <2>3, LenIs
  <2>6. CASE Quoted(t)
    <3>1. Len(Outside[t]) = Len(q) + 1 /\ Outside[t][1] = Head(t) /\ q \in RestsOf(Outside[t])
      <4>1. Outside[t] = <<Head(t)>> \o q
        BY <2>4, <2>6
      <4> QED
        BY <2>1, <2>3, <4>1, Prefixed
    <3> QED
      BY <2>1, <2>2, <2>5, <2>6, <3>1 DEF q, Hides
  <2>7. CASE ~Quoted(t)
    <3>1. /\ Len(Outside[t]) = Len(o) + 1 /\ Outside[t][1] = Head(t) /\ o \in RestsOf(Outside[t])
          /\ \A k \in 1 .. Len(o) : Outside[t][k + 1] = o[k]
      <4>1. Outside[t] = <<Head(t)>> \o o
        BY <2>4, <2>7
      <4> QED
        BY <2>1, <2>3, <4>1, Prefixed
    <3> QED
      BY <2>2, <2>5, <2>7, <3>1 DEF o, Hides
  <2> QED
    BY <2>6, <2>7
<1>2. ASSUME ~Quoted(s), Len(s) > 1
      PROVE  Len(Outside[s]) > 1 /\ Outside[s][2] = s[2]
  <2> DEFINE t == Tail(s)
  <2>1. t \in Text /\ Len(t) = Len(s) - 1 /\ t = From(s, 2) /\ Len(s) \in Nat
    BY TailIsFrom
  <2>2. t # <<>> /\ Head(t) = s[2]
    <3>1. 2 \in 1 .. Len(s)
      BY <1>2, <2>1
    <3> HIDE DEF From, t
    <3> QED
      BY <2>1, <3>1, NextPlace
  <2> HIDE DEF t
  <2>3. Len(Outside[t]) > 0 /\ Outside[t][1] = s[2]
    BY <1>1, <2>1, <2>2
  <2>4. /\ Len(Outside[s]) = Len(Outside[t]) + 1
        /\ \A k \in 1 .. Len(Outside[t]) : Outside[s][k + 1] = Outside[t][k]
    BY <1>1, <1>2 DEF t
  <2>5. 1 \in 1 .. Len(Outside[t]) /\ Len(Outside[t]) + 1 > 1
    <3>1. Len(Outside[t]) \in Nat
      BY <2>1, ScanTypes, LenIs
    <3> QED
      BY <2>3, <3>1
  <2>6. Outside[s][1 + 1] = Outside[t][1]
    BY <2>4, <2>5
  <2> QED
    BY <2>3, <2>4, <2>5, <2>6
<1> QED
  BY <1>1, <1>2

\* What a text does not have, its suffixes do not.
LEMMA HasFewer ==
  ASSUME NEW s \in Text, NEW t \in RestsOf(s)
  PROVE  /\ \A c \in Char : Has(t, <<c>>) => Has(s, <<c>>)
         /\ \A p : DOMAIN p = {1, 2} /\ Len(p) = 2 /\ Has(t, p) => Has(s, p)
<1>1. PICK i \in 1 .. Len(s) + 1 : t = From(s, i)
  BY DEF RestsOf
<1>2. t \in Text /\ Len(t) = Len(s) - i + 1 /\ (\A k \in 1 .. Len(s) - i + 1 : t[k] = s[i + k - 1]) /\ Len(s) \in Nat
  BY <1>1, FromIs, LenIs
<1>3. ASSUME NEW c \in Char, Has(t, <<c>>) PROVE Has(s, <<c>>)
  <2>1. Places(t, <<c>>) = {k \in 1 .. Len(t) : t[k] = c} /\ Places(s, <<c>>) = {k \in 1 .. Len(s) : s[k] = c}
    BY <1>2, PlacesOne
  <2>2. PICK k \in 1 .. Len(t) : t[k] = c
    BY <1>3, <2>1 DEF Has
  <2>3. i + k - 1 \in 1 .. Len(s) /\ s[i + k - 1] = c
    BY <1>2, <2>2
  <2> QED
    BY <2>1, <2>3 DEF Has
<1>4. ASSUME NEW p, DOMAIN p = {1, 2}, Len(p) = 2, Has(t, p) PROVE Has(s, p)
  <2>1. PICK j : j \in Places(t, p)
    BY <1>4 DEF Has
  <2>2. i + j - 1 \in Places(s, p)
    BY <1>1, <1>4, <2>1, PlacesFrom
  <2> QED
    BY <2>2 DEF Has
<1> QED
  BY <1>3, <1>4

LEMMA PlainHides ==
  ASSUME NEW s \in Text, NEW t, Plain(s), Hides(s, t)
  PROVE  Plain(t)
<1>1. Outside[s] \in Text /\ Outside[t] \in RestsOf(Outside[s])
  BY ScanTypes DEF Hides
<1>2. \A d : DOMAIN <<":", d>> = {1, 2} /\ Len(<<":", d>>) = 2
  OBVIOUS
<1>3. /\ \A c \in Char : Has(Outside[t], <<c>>) => Has(Outside[s], <<c>>)
      /\ Has(Outside[t], Dashes) => Has(Outside[s], Dashes)
      /\ Has(Outside[t], Opening) => Has(Outside[s], Opening)
      /\ \A d \in Digit : Has(Outside[t], <<":", d>>) => Has(Outside[s], <<":", d>>)
  BY <1>1, <1>2, HasFewer, Delimiters
<1> QED
  BY <1>3, Chars DEF Plain

\* How a plain text does not begin.
LEMMA PlainBegins ==
  ASSUME NEW s \in Text, s # <<>>, Plain(s)
  PROVE  /\ ~Starts(s, Dashes) /\ ~Starts(s, Opening) /\ Head(s) \notin {"dq", "$"}
         /\ Head(s) = ":" /\ Len(s) > 1 => s[2] \notin Digit
<1> DEFINE o == Outside[s]
<1>1. /\ o \in Text /\ Len(o) > 0 /\ o[1] = Head(s) /\ Head(s) = s[1] /\ Len(s) \in Nat /\ Len(o) \in Nat
      /\ Head(s) # "'" /\ Len(s) > 1 => Len(o) > 1 /\ o[2] = s[2]
  BY ScanTypes, OutsideBegins, TailIsFrom, LenIs, ScansApart
<1>2. ~Has(o, Dashes) /\ ~Has(o, Opening) /\ ~Has(o, <<"dq">>) /\ ~Has(o, <<"$">>) /\ \A d \in Digit : ~Has(o, <<":", d>>)
  BY DEF Plain
<1> HIDE DEF o
<1>3. ~Starts(o, Dashes) /\ ~Starts(o, Opening) /\ ~Starts(o, <<"dq">>) /\ ~Starts(o, <<"$">>)
      /\ \A d \in Digit : ~Starts(o, <<":", d>>)
  BY <1>2 DEF Starts, Has
<1>4. ~Starts(s, Dashes) /\ ~Starts(s, Opening)
  BY <1>1, <1>3, DelimiterStarts
<1>5. Head(s) \notin {"dq", "$"}
  BY <1>1, <1>3, StartsOne, Chars
<1>6. ASSUME Head(s) = ":", Len(s) > 1, s[2] \in Digit
      PROVE  FALSE
  <2> DEFINE p == <<":", s[2]>>
  <2>1. DOMAIN p = {1, 2} /\ Len(p) = 2 /\ p[1] = ":" /\ p[2] = s[2]
    OBVIOUS
  <2>2. ~Starts(o, p)
    BY <1>3, <1>6
  <2> HIDE DEF p
  <2>3. Starts(o, p) <=> Len(o) > 1 /\ o[1] = p[1] /\ o[2] = p[2]
    BY <1>1, <2>1, StartsTwo
  <2> QED
    BY <1>1, <1>6, <2>1, <2>2, <2>3
<1> QED
  BY <1>4, <1>5, <1>6

\* A character that begins nothing.
LEMMA CharacterPasses ==
  ASSUME NEW s \in Text, s # <<>>, Head(s) # "'"
  PROVE  /\ Hides(s, Tail(s))
         /\ Head(s) # ":" => NamesPass(s, Tail(s))
         /\ Head(s) # "?" => MarksPass(s, Tail(s))
         /\ Head(s) \notin {":", "?"} => Passes(s, Tail(s))
<1>1. Head(s) = s[1] /\ ~Quoted(s) /\ (Head(s) # ":" => ~Cast(s) /\ ~Named(s))
  BY TailIsFrom, ScansApart DEF Named
<1>2. Hides(s, Tail(s))
  BY <1>1, OutsideBegins
<1> QED
  BY <1>1, <1>2, ScanSteps DEF NamesPass, MarksPass, Passes

\* A literal.
LEMMA LiteralPasses ==
  ASSUME NEW s \in Text, Quoted(s)
  PROVE  Passes(s, AfterString[Tail(s)])
<1>1. s # <<>>
  BY ScansApart
<1> QED
  BY <1>1, OutsideBegins, ScanSteps DEF NamesPass, MarksPass, Passes

\* Characters that begin nothing, up to a place.
LEMMA RunPasses ==
  ASSUME NEW s \in Text, NEW n \in 0 .. Len(s)
  PROVE  /\ (\A i \in 1 .. n : s[i] \notin {"'", ":"}) => NamesPass(s, From(s, n + 1))
         /\ (\A i \in 1 .. n : s[i] \notin {"'", "?"}) => MarksPass(s, From(s, n + 1))
<1>1. ASSUME NEW m \in 0 .. n, m + 1 <= n
      PROVE  /\ From(s, m + 1) \in Text /\ From(s, m + 1) # <<>> /\ Tail(From(s, m + 1)) = From(s, m + 1 + 1)
             /\ Head(From(s, m + 1)) = s[m + 1]
  <2>1. m + 1 \in 1 .. Len(s)
    BY <1>1, LenIs
  <2> QED
    BY <2>1, NextPlace
<1>2. ASSUME \A i \in 1 .. n : s[i] \notin {"'", ":"}
      PROVE  NamesPass(s, From(s, n + 1))
  <2> DEFINE P == {m \in Nat : m <= n => NamesPass(s, From(s, m + 1))}
  <2>1. ASSUME NEW m \in Nat, \A k \in 0 .. m - 1 : k \in P
        PROVE  m \in P
    <3>1. CASE m = 0
      BY <3>1, FromOne, PassesItself
    <3>2. CASE m # 0
      <4> SUFFICES ASSUME m <= n PROVE NamesPass(s, From(s, m + 1))
        OBVIOUS
      <4> DEFINE k == m - 1
      <4>1. k \in 0 .. m - 1 /\ k \in 0 .. n /\ k + 1 <= n /\ k + 1 = m /\ m \in 1 .. n
        BY <3>2
      <4>2. k \in P
        <5> HIDE DEF P, k
        <5> QED
          BY <2>1, <4>1
      <4> HIDE DEF k
      <4>3. NamesPass(s, From(s, k + 1))
        BY <4>1, <4>2
      <4> DEFINE t == From(s, k + 1)
      <4>4. t \in Text /\ t # <<>> /\ Tail(t) = From(s, k + 1 + 1) /\ Head(t) = s[k + 1]
        BY <1>1, <4>1
      <4>5. Head(t) \notin {"'", ":"}
        BY <1>2, <4>1, <4>4
      <4> HIDE DEF t
      <4>6. NamesPass(t, Tail(t))
        BY <4>4, <4>5, CharacterPasses
      <4>7. NamesPass(s, Tail(t))
        BY <4>3, <4>6, PassesOn DEF t
      <4> QED
        BY <4>1, <4>4, <4>7
    <3> QED
      BY <3>1, <3>2
  <2>2. \A m \in Nat : m \in P
    <3> HIDE DEF P
    <3> QED
      BY <2>1, Numbers
  <2>3. n \in Nat /\ n <= n
    BY LenIs
  <2> QED
    BY <2>2, <2>3
<1>3. ASSUME \A i \in 1 .. n : s[i] \notin {"'", "?"}
      PROVE  MarksPass(s, From(s, n + 1))
  <2> DEFINE P == {m \in Nat : m <= n => MarksPass(s, From(s, m + 1))}
  <2>1. ASSUME NEW m \in Nat, \A k \in 0 .. m - 1 : k \in P
        PROVE  m \in P
    <3>1. CASE m = 0
      BY <3>1, FromOne, PassesItself
    <3>2. CASE m # 0
      <4> SUFFICES ASSUME m <= n PROVE MarksPass(s, From(s, m + 1))
        OBVIOUS
      <4> DEFINE k == m - 1
      <4>1. k \in 0 .. m - 1 /\ k \in 0 .. n /\ k + 1 <= n /\ k + 1 = m /\ m \in 1 .. n
        BY <3>2
      <4>2. k \in P
        <5> HIDE DEF P, k
        <5> QED
          BY <2>1, <4>1
      <4> HIDE DEF k
      <4>3. MarksPass(s, From(s, k + 1))
        BY <4>1, <4>2
      <4> DEFINE t == From(s, k + 1)
      <4>4. t \in Text /\ t # <<>> /\ Tail(t) = From(s, k + 1 + 1) /\ Head(t) = s[k + 1]
        BY <1>1, <4>1
      <4>5. Head(t) \notin {"'", "?"}
        BY <1>3, <4>1, <4>4
      <4> HIDE DEF t
      <4>6. MarksPass(t, Tail(t))
        BY <4>4, <4>5, CharacterPasses
      <4>7. MarksPass(s, Tail(t))
        BY <4>3, <4>6, PassesOn DEF t
      <4> QED
        BY <4>1, <4>4, <4>7
    <3> QED
      BY <3>1, <3>2
  <2>2. \A m \in Nat : m \in P
    <3> HIDE DEF P
    <3> QED
      BY <2>1, Numbers
  <2>3. n \in Nat /\ n <= n
    BY LenIs
  <2> QED
    BY <2>2, <2>3
<1> QED
  BY <1>2, <1>3

\* The space that is cut off with a token.
LEMMA LeftPasses ==
  ASSUME NEW s \in Text, NEW n \in 0 .. Len(s)
  PROVE  Passes(From(s, n + 1), Left(s, n))
<1>1. CASE n < Len(s) /\ s[n + 1] = "sp"
  <2>1. n + 1 \in 1 .. Len(s) /\ n + 1 + 1 = n + 2
    BY <1>1, LenIs
  <2> DEFINE t == From(s, n + 1)
  <2>2. t \in Text /\ t # <<>> /\ Tail(t) = From(s, n + 2) /\ Head(t) = "sp"
    BY <1>1, <2>1, NextPlace
  <2>3. Left(s, n) = From(s, n + 2)
    BY <1>1 DEF Left
  <2> HIDE DEF t
  <2>4. Passes(t, Tail(t))
    BY <2>2, CharacterPasses
  <2> QED
    BY <2>2, <2>3, <2>4 DEF t
<1>2. CASE ~ (n < Len(s) /\ s[n + 1] = "sp")
  <2>1. Left(s, n) = From(s, n + 1) /\ n + 1 \in 1 .. Len(s) + 1
    BY <1>2, LenIs DEF Left
  <2> QED
    BY <2>1, FromIs, PassesItself
<1> QED
  BY <1>1, <1>2

\* Spaces, and in a plain text there is nothing else that SkipSpaces skips.
LEMMA SpacesPass ==
  ASSUME NEW s \in Text, Plain(s)
  PROVE  Passes(s, SkipSpaces[s])
<1> DEFINE P == {t \in Text : Plain(t) => Passes(t, SkipSpaces[t])}
           size == [t \in Text |-> Len(t)]
<1>1. ASSUME NEW t \in Text, \A y \in Text : size[y] < size[t] => y \in P
      PROVE  t \in P
  <2> SUFFICES ASSUME Plain(t) PROVE Passes(t, SkipSpaces[t])
    OBVIOUS
  <2>1. CASE t # <<>> /\ Head(t) \in Space
    <3>1. SkipSpaces[t] = SkipSpaces[Tail(t)]
      BY <2>1, SkipSpacesUnfolds, SpacesApart
    <3>2. Passes(t, Tail(t))
      BY <2>1, CharacterPasses DEF Space
    <3>3. Plain(Tail(t)) /\ Tail(t) \in Text /\ Len(Tail(t)) < Len(t)
      BY <2>1, <3>2, PlainHides, TailSuffix DEF Passes, NamesPass
    <3>4. Passes(Tail(t), SkipSpaces[Tail(t)])
      BY <1>1, <3>3
    <3> QED
      BY <3>1, <3>2, <3>4, PassesOn
  <2>2. CASE ~(t # <<>> /\ Head(t) \in Space)
    <3>1. ~Starts(t, Dashes) /\ ~Starts(t, Opening)
      <4>1. t = <<>> => ~Starts(t, Dashes) /\ ~Starts(t, Opening)
        BY DelimiterStarts
      <4> QED
        BY <4>1, PlainBegins
    <3>2. SkipSpaces[t] = t
      BY <2>2, <3>1, SkipSpacesUnfolds
    <3> QED
      BY <3>2, PassesItself
  <2> QED
    BY <2>1, <2>2
<1>2. size \in [Text -> Nat]
  BY LenIs
<1>3. s \in P
  <2> HIDE DEF P, size
  <2> QED
    BY <1>1, <1>2, Sizes
<1> QED
  BY <1>3

\* A number has no characters of the scans.
LEMMA NumberPasses ==
  ASSUME NEW s \in Text, NEW state \in Reader, ReadNumber[s][state].token.kind = "number"
  PROVE  Passes(s, ReadNumber[s][state].rest)
<1> DEFINE Passing(t, st) == ReadNumber[t][st].token.kind = "number" => Passes(t, ReadNumber[t][st].rest)
           P == {t \in Text : \A st \in Reader : Passing(t, st)}
           size == [t \in Text |-> Len(t)]
<1>1. ASSUME NEW t \in Text, \A y \in Text : size[y] < size[t] => y \in P
      PROVE  t \in P
  <2> SUFFICES ASSUME NEW st \in Reader PROVE Passing(t, st)
    OBVIOUS
  <2> DEFINE Following(r) == IF t # <<>> THEN NumberStep(r, Head(t))
                             ELSE IF r \in {"expstart", "expsign"} THEN "error" ELSE "end"
             Value(r) == CASE Following(r) = "end"   -> Return(Token("number", <<>>), t)
                           [] Following(r) = "error" -> Error(t)
                           [] OTHER                  -> ReadNumber[Tail(t)][Following(r)]
             next == Following(st)
  <2>1. ReadNumber[t][st] = Value(st)
    <3>1. ReadNumber[t] = [r \in Reader |-> Value(r)]
      BY ReadNumberUnfolds
    <3> HIDE DEF Value
    <3> QED
      BY <3>1
  <2>2. CASE next = "end"
    BY <2>1, <2>2, AnswerIs, PassesItself
  <2>3. CASE next = "error"
    BY <2>1, <2>3, AnswerIs
  <2>4. CASE next \notin {"end", "error"}
    <3>1. t # <<>> /\ next \in Reader /\ Tail(t) \in Text /\ Len(Tail(t)) < Len(t)
      BY <2>4, NextReader, TailSuffix
    <3>2. ReadNumber[t][st] = ReadNumber[Tail(t)][next]
      BY <2>1, <2>4
    <3>3. Head(t) \notin {"'", ":", "?"}
      BY <2>4, <3>1 DEF NumberStep, Digit, PlusMinus, Letter
    <3>4. Passes(t, Tail(t))
      BY <3>1, <3>3, CharacterPasses
    <3> HIDE DEF next
    <3>5. Passing(Tail(t), next)
      BY <1>1, <3>1
    <3> QED
      BY <3>2, <3>4, <3>5, PassesOn
  <2> QED
    BY <2>2, <2>3, <2>4
<1>2. size \in [Text -> Nat]
  BY LenIs
<1>3. s \in P
  <2> HIDE DEF P, size
  <2> QED
    BY <1>1, <1>2, Sizes
<1> QED
  BY <1>3

\* A string of the lexer: the literals of the binders, with spaces between.
LEMMA StringPasses ==
  ASSUME NEW s \in Text, Plain(AfterString[s]), ReadSingleQuotedString[s].token.kind = "string"
  PROVE  Passes(AfterString[s], ReadSingleQuotedString[s].rest)
<1> DEFINE R == ReadSingleQuotedString
           Passing(t) == Plain(AfterString[t]) /\ R[t].token.kind = "string" => Passes(AfterString[t], R[t].rest)
           P == {t \in Text : Passing(t)}
           size == [t \in Text |-> Len(t)]
<1>1. ASSUME NEW t \in Text, \A y \in Text : size[y] < size[t] => y \in P
      PROVE  t \in P
  <2>0. \A y \in Text : Len(y) < Len(t) => Passing(y)
    BY <1>1
  <2> SUFFICES ASSUME Plain(AfterString[t]), R[t].token.kind = "string"
               PROVE  Passes(AfterString[t], R[t].rest)
    OBVIOUS
  <2> DEFINE after == Behind(t, Quote)
             next  == SkipSpaces[after]
             Continued(r) == IF r.token.kind = "error" THEN Error(t) ELSE r
  <2>1. CASE ~Has(t, Quote)
    <3>1. R[t] = Error(t)
      BY <2>1, ReadSingleQuotedStringUnfolds
    <3> QED
      BY <3>1, AnswerIs
  <2>2. \A u : R[t] = Continued(R[u]) => R[t] = R[u]
    BY AnswerIs
  <2>3. CASE Has(t, Quote) /\ Starts(after, Quote)
    <3>1. R[t] = R[Tail(after)]
      <4>1. R[t] = Continued(R[Tail(after)])
        BY <2>3, ReadSingleQuotedStringUnfolds
      <4> HIDE DEF Continued, R
      <4> QED
        BY <2>2, <4>1
    <3>2. AfterString[t] = AfterString[Tail(after)]
      BY <2>3, AfterStringUnfolds
    <3>3. Tail(after) \in Text /\ Len(Tail(after)) < Len(t)
      BY <2>3, QuoteAhead
    <3>4. Passing(Tail(after))
      BY <2>0, <3>3
    <3> HIDE DEF after
    <3> QED
      BY <3>1, <3>2, <3>4
  <2>4. CASE Has(t, Quote) /\ ~Starts(after, Quote)
    <3>1. AfterString[t] = after
      BY <2>4, AfterStringUnfolds
    <3>2. after \in Text /\ next \in Text
      BY <2>4, StringAhead
    <3>3. Passes(after, next)
      BY <3>1, <3>2, SpacesPass
    <3>4. Plain(next)
      BY <3>1, <3>2, <3>3, PlainHides DEF Passes, NamesPass
    <3>5. CASE Starts(next, Quote)
      <4>1. R[t] = R[Tail(next)]
        <5>1. R[t] = Continued(R[Tail(next)])
          BY <2>4, <3>5, ReadSingleQuotedStringUnfolds
        <5> HIDE DEF Continued, R
        <5> QED
          BY <2>2, <5>1
      <4>2. Tail(next) \in Text /\ Len(Tail(next)) < Len(t)
        BY <2>4, <3>5, StringAhead
      <4> HIDE DEF next, after
      <4>3. Passes(next, AfterString[Tail(next)])
        BY <3>2, <3>5, LiteralPasses DEF Quoted
      <4>4. Plain(AfterString[Tail(next)])
        BY <3>2, <3>4, <4>3, PlainHides DEF Passes, NamesPass
      <4>5. Passing(Tail(next))
        BY <2>0, <4>2
      <4>6. Passes(AfterString[Tail(next)], R[t].rest)
        BY <4>1, <4>4, <4>5
      <4>7. Passes(next, R[t].rest)
        BY <3>2, <4>3, <4>6, PassesOn
      <4> QED
        BY <3>1, <3>2, <3>3, <4>7, PassesOn
    <3>6. CASE ~Starts(next, Quote)
      <4>1. R[t] = Return(Token("string", <<>>), next)
        BY <2>4, <3>6, ReadSingleQuotedStringUnfolds
      <4>2. R[t].rest = next
        BY <4>1, AnswerIs
      <4> QED
        BY <3>1, <3>3, <4>2
    <3> QED
      BY <3>5, <3>6
  <2> QED
    BY <2>1, <2>3, <2>4
<1>2. size \in [Text -> Nat]
  BY LenIs
<1>3. s \in P
  <2> HIDE DEF P, size
  <2> QED
    BY <1>1, <1>2, Sizes
<1> QED
  BY <1>3

-----------------------------------------------------------------------------
(* The tokens beside the scans. *)

NamesOf(t) == IF t.kind = "param" THEN <<t.text>> ELSE <<>>

MarksOf(t) == IF t = Key(<<"?">>) THEN 1 ELSE 0

Widens(t) == t.kind = "key" /\ Len(t.text) > 1 /\ Has(t.text, <<"?">>)

\* Between s and t the scans find what is to be bound for a token.
Follows(s, tok, t) ==
  /\ Hides(s, t)
  /\ "named-params" \in Syntax => ColonNames[s] = NamesOf(tok) \o ColonNames[t]
  /\ ~Widens(tok) => QuestionMarks[s] = MarksOf(tok) + QuestionMarks[t]

LEMMA NamesNothing ==
  ASSUME NEW s \in Text, NEW t, NamesPass(s, t), NEW tok, tok.kind # "param"
  PROVE  Hides(s, t) /\ ColonNames[s] = NamesOf(tok) \o ColonNames[t]
<1>1. t \in Text /\ ColonNames[t] \in Seq(Text) /\ NamesOf(tok) = <<>>
  BY ScanTypes DEF NamesPass, Hides, NamesOf
<1>2. <<>> \o ColonNames[t] = ColonNames[t]
  BY <1>1, ConcatEmptySeq
<1> QED
  BY <1>1, <1>2 DEF NamesPass

LEMMA BindsNothing ==
  ASSUME NEW s \in Text, NEW t, Passes(s, t), NEW tok, tok.kind # "param", tok # Key(<<"?">>)
  PROVE  Follows(s, tok, t)
<1>1. Hides(s, t) /\ ColonNames[s] = NamesOf(tok) \o ColonNames[t]
  BY NamesNothing DEF Passes
<1>2. t \in Text /\ QuestionMarks[t] \in Nat /\ QuestionMarks[s] = QuestionMarks[t]
  BY ScanTypes DEF Passes, MarksPass, Hides
<1> QED
  BY <1>1, <1>2 DEF Follows, MarksOf

LEMMA KeyIs ==
  ASSUME NEW kind, NEW text
  PROVE  /\ Token(kind, text).kind = kind /\ Token(kind, text).text = text
         /\ Key(text).kind = "key" /\ Key(text).text = text
         /\ kind # "key" => Token(kind, text) # Key(<<"?">>)
         /\ \A c : c # "?" => Key(<<c>>) # Key(<<"?">>)
<1>1. \A c : c # "?" => <<c>> # <<"?">>
  <2> TAKE c
  <2>1. <<c>>[1] = c /\ <<"?">>[1] = "?"
    OBVIOUS
  <2> QED
    BY <2>1
<1> QED
  BY <1>1 DEF Token, Key

\* An operator is the characters it is cut to.
LEMMA OperatorReads ==
  ASSUME NEW s \in Text, s # <<>>, Head(s) \in OperatorChars, ~Starts(s, Dashes), ~Starts(s, Opening)
  PROVE  \E m \in 1 .. Len(s) : /\ \A i \in 1 .. m : s[i] \in OperatorChars
                                /\ ReadOperator(s).token = Key(Upto(s, m))
                                /\ ReadOperator(s).rest \in {From(s, m + 1), Left(s, m)}
<1> DEFINE n == OperatorLength(s)
           word == Upto(s, n)
<1>1. n \in 1 .. Len(s) /\ Len(s) \in Nat /\ \A i \in 1 .. n : s[i] \in OperatorChars
  BY OperatorIs, LenIs
<1>2. word \in Text /\ Len(word) = n /\ \A k \in 1 .. n : word[k] = s[k]
  BY <1>1, UptoIs
<1>3. \A t, r : Return(t, r).token = t /\ Return(t, r).rest = r
  BY DEF Return
<1>4. ASSUME NEW p, DOMAIN p = {1, 2}, Len(p) = 2, p \in Text, p # <<>>, ~Starts(s, p), Has(word, p),
             ReadOperator(s) = Return(Key(Before(word, p)), From(s, First(word, p)))
      PROVE  \E m \in 1 .. Len(s) : /\ \A i \in 1 .. m : s[i] \in OperatorChars
                                    /\ ReadOperator(s).token = Key(Upto(s, m))
                                    /\ ReadOperator(s).rest \in {From(s, m + 1), Left(s, m)}
  <2> DEFINE j == First(word, p)
             m == j - 1
  <2>1. j \in Places(word, p) /\ j \in 1 .. n - 1
    <3> HIDE DEF word
    <3>1. First(word, p) \in Places(word, p) /\ First(word, p) \in 1 .. Len(word) - Len(p) + 1
      BY <1>2, <1>4, FirstIs
    <3> QED
      BY <1>1, <1>2, <1>4, <3>1
  <2>2. j # 1
    <3> HIDE DEF j, word, n
    <3>1. Places(word, p) = {k \in 1 .. Len(word) - 1 : word[k] = p[1] /\ word[k + 1] = p[2]}
      BY <1>2, <1>4, PlacesTwo
    <3>2. SUFFICES ASSUME j = 1 PROVE FALSE
      OBVIOUS
    <3>3. 1 \in 1 .. n - 1 /\ word[1] = p[1] /\ word[1 + 1] = p[2]
      BY <2>1, <3>1, <3>2
    <3>4. Len(s) > 1 /\ s[1] = p[1] /\ s[2] = p[2]
      BY <1>1, <1>2, <3>3
    <3> QED
      BY <1>4, <3>4, StartsTwo
  <2>3. m \in 1 .. n /\ m \in 1 .. Len(s) /\ m \in 0 .. Len(word) /\ m \in 0 .. Len(s) /\ m + 1 = j
    BY <1>1, <1>2, <2>1, <2>2
  <2>4. Before(word, p) = Upto(s, m)
    <3>1. Before(word, p) = Upto(word, m)
      BY DEF Before
    <3> HIDE DEF m, word, n
    <3>2. Upto(word, m) \in Text /\ Len(Upto(word, m)) = m /\ \A k \in 1 .. m : Upto(word, m)[k] = word[k]
      BY <1>2, <2>3, UptoIs
    <3>3. Upto(s, m) \in Text /\ Len(Upto(s, m)) = m /\ \A k \in 1 .. m : Upto(s, m)[k] = s[k]
      BY <2>3, UptoIs
    <3>4. \A k \in 1 .. Len(Upto(word, m)) : Upto(word, m)[k] = Upto(s, m)[k]
      BY <1>1, <1>2, <2>3, <3>2, <3>3
    <3>5. Upto(word, m) = Upto(s, m)
      BY <3>2, <3>3, <3>4, SeqEqual DEF Text
    <3> QED
      BY <3>1, <3>5
  <2>5. ReadOperator(s).token = Key(Upto(s, m)) /\ ReadOperator(s).rest = From(s, m + 1)
    BY <1>3, <1>4, <2>3, <2>4
  <2>6. \A i \in 1 .. m : s[i] \in OperatorChars
    BY <1>1, <2>3
  <2> HIDE DEF m
  <2> QED
    BY <2>3, <2>5, <2>6
<1>5. ReadOperator(s) = CASE Has(word, Dashes) -> Return(Key(Before(word, Dashes)), From(s, First(word, Dashes)))
                          [] ~Has(word, Dashes) /\ Has(word, Opening) ->
                               Return(Key(Before(word, Opening)), From(s, First(word, Opening)))
                          [] OTHER -> Return(Key(word), Left(s, Len(word)))
  BY DEF ReadOperator
<1>6. CASE Has(word, Dashes)
  <2>1. ReadOperator(s) = Return(Key(Before(word, Dashes)), From(s, First(word, Dashes)))
    BY <1>5, <1>6
  <2> HIDE DEF word, n
  <2> QED
    BY <1>4, <1>6, <2>1, Delimiters
<1>7. CASE ~Has(word, Dashes) /\ Has(word, Opening)
  <2>1. ReadOperator(s) = Return(Key(Before(word, Opening)), From(s, First(word, Opening)))
    BY <1>5, <1>7
  <2> HIDE DEF word, n
  <2> QED
    BY <1>4, <1>7, <2>1, Delimiters
<1>8. CASE ~Has(word, Dashes) /\ ~Has(word, Opening)
  <2>1. ReadOperator(s) = Return(Key(word), Left(s, n))
    BY <1>2, <1>5, <1>8
  <2>2. ReadOperator(s).token = Key(Upto(s, n)) /\ ReadOperator(s).rest = Left(s, n)
    BY <1>3, <2>1
  <2> HIDE DEF n
  <2> QED
    BY <1>1, <2>2
<1> QED
  BY <1>6, <1>7, <1>8

\* An operator: a mark if it is a `?`, and else none, unless it contains one.
LEMMA OperatorFollows ==
  ASSUME NEW s \in Text, s # <<>>, Head(s) \in OperatorChars, ~Starts(s, Dashes), ~Starts(s, Opening)
  PROVE  Follows(s, ReadOperator(s).token, ReadOperator(s).rest)
<1> DEFINE r == ReadOperator(s)
<1>1. PICK m \in 1 .. Len(s) : /\ \A i \in 1 .. m : s[i] \in OperatorChars
                               /\ r.token = Key(Upto(s, m)) /\ r.rest \in {From(s, m + 1), Left(s, m)}
  BY OperatorReads
<1> HIDE DEF r
<1> DEFINE t == From(s, m + 1)
           text == Upto(s, m)
<1>2. m \in 0 .. Len(s) /\ m + 1 \in 1 .. Len(s) + 1 /\ m \in Nat \ {0} /\ 1 \in 1 .. m
  BY LenIs
<1>3. t \in Text /\ text \in Text /\ Len(text) = m /\ \A k \in 1 .. m : text[k] = s[k]
  BY <1>2, FromIs, UptoIs
<1>4. \A i \in 1 .. m : s[i] \notin {"'", ":"}
  BY <1>1 DEF OperatorChars, PlusMinus, Narrow, Wide
<1>5. NamesPass(s, t)
  BY <1>2, <1>4, RunPasses
<1>6. Passes(t, r.rest)
  <2>1. Passes(t, Left(s, m))
    BY <1>2, LeftPasses
  <2>2. Passes(t, t)
    BY <1>3, PassesItself
  <2> HIDE DEF t
  <2> QED
    BY <1>1, <2>1, <2>2 DEF t
<1>7. NamesPass(s, r.rest)
  <2> HIDE DEF t
  <2> QED
    BY <1>5, <1>6, PassesOn DEF Passes
<1>8. r.token.kind = "key" /\ r.token.text = text
  BY <1>1, KeyIs
<1>9. Hides(s, r.rest) /\ ColonNames[s] = NamesOf(r.token) \o ColonNames[r.rest]
  BY <1>7, <1>8, NamesNothing
<1>10. r.rest \in Text /\ QuestionMarks[t] = QuestionMarks[r.rest] /\ QuestionMarks[t] \in Nat
  BY <1>3, <1>6, ScanTypes DEF Passes, MarksPass, Hides
<1>11. ASSUME ~Widens(r.token) PROVE QuestionMarks[s] = MarksOf(r.token) + QuestionMarks[r.rest]
  <2>1. CASE m = 1 /\ s[1] = "?"
    <3>1. text = <<"?">>
      <4>1. <<"?">> \in Text /\ Len(<<"?">>) = 1 /\ <<"?">>[1] = "?"
        BY Marks, Chars
      <4>2. Len(text) = Len(<<"?">>) /\ \A k \in 1 .. Len(text) : text[k] = <<"?">>[k]
        BY <1>3, <2>1, <4>1
      <4> HIDE DEF text
      <4> QED
        BY <1>3, <4>1, <4>2, SeqEqual DEF Text
    <3>2. MarksOf(r.token) = 1
      BY <1>1, <3>1 DEF MarksOf
    <3>3. Tail(s) = t /\ Head(s) = "?" /\ ~Quoted(s)
      BY <2>1, TailIsFrom, ScansApart
    <3>4. QuestionMarks[s] = 1 + QuestionMarks[t]
      BY <3>3, ScanSteps
    <3> QED
      BY <1>10, <3>2, <3>4
  <2>2. CASE ~ (m = 1 /\ s[1] = "?")
    <3>1. \A i \in 1 .. m : s[i] # "?"
      <4> SUFFICES ASSUME NEW i \in 1 .. m, s[i] = "?" PROVE FALSE
        OBVIOUS
      <4>1. m > 1
        BY <1>2, <2>2
      <4>2. i \in Places(text, <<"?">>)
        <5> HIDE DEF text
        <5>1. Places(text, <<"?">>) = {k \in 1 .. Len(text) : text[k] = "?"}
          BY <1>3, PlacesOne, Chars
        <5> QED
          BY <1>3, <5>1
      <4> QED
        BY <1>3, <1>8, <1>11, <4>1, <4>2 DEF Widens, Has
    <3>2. \A i \in 1 .. m : s[i] \notin {"'", "?"}
      BY <1>4, <3>1
    <3>3. MarksPass(s, t)
      BY <1>2, <3>2, RunPasses
    <3>4. text # <<"?">>
      <4>1. <<"?">>[1] = "?"
        OBVIOUS
      <4> HIDE DEF text
      <4> QED
        BY <1>2, <1>3, <3>1, <4>1
    <3>5. MarksOf(r.token) = 0
      <4>1. Key(<<"?">>).text = <<"?">>
        BY KeyIs
      <4> QED
        BY <1>8, <3>4, <4>1 DEF MarksOf
    <3> QED
      BY <1>10, <3>3, <3>5 DEF MarksPass
  <2> QED
    BY <2>1, <2>2
<1> QED
  BY <1>9, <1>11 DEF Follows, r

\* A word, and what is left when a run of its characters is read.
LEMMA WordPasses ==
  ASSUME NEW s \in Text, NEW n \in 0 .. Len(s), \A i \in 1 .. n : s[i] \in TokenChar
  PROVE  Passes(s, From(s, n + 1)) /\ Passes(s, Left(s, n))
<1>1. \A i \in 1 .. n : s[i] \notin {"'", ":", "?"}
  BY DEF TokenChar, StartTokenChar, Letter, Digit
<1>2. Passes(s, From(s, n + 1))
  BY <1>1, RunPasses DEF Passes
<1>3. Passes(From(s, n + 1), Left(s, n))
  BY LeftPasses
<1> QED
  BY <1>2, <1>3, PassesOn

\* A colon: a name, in a lexer that has names, and else nothing.
LEMMA ColonFollows ==
  ASSUME NEW s \in Text, s # <<>>, Head(s) = ":", Plain(s)
  PROVE  Follows(s, ReadColon(s).token, ReadColon(s).rest)
<1> DEFINE n == RunOf(Tail(s), TokenChar)
           name == SubSeq(s, 2, n + 1)
<1>1. /\ Tail(s) = From(s, 2) /\ s[1] = ":" /\ Len(s) \in Nat \ {0} /\ Tail(s) \in Text /\ Len(Tail(s)) = Len(s) - 1
  BY TailIsFrom
<1>2. /\ n \in 0 .. Len(s) - 1 /\ n \in 0 .. Len(Tail(s)) /\ name \in Seq(TokenChar)
      /\ \A k \in 1 .. n : s[k + 1] \in TokenChar
  BY ParamText
<1>3. ~Quoted(s) /\ Hides(s, Tail(s)) /\ MarksPass(s, Tail(s))
  BY <1>1, ScansApart, CharacterPasses
<1>4. \A t, u : Return(t, u).token = t /\ Return(t, u).rest = u
  BY DEF Return
<1>5. CASE Cast(s)
  <2>1. ReadColon(s) = Return(Key(<<":", ":">>), From(s, 3))
    <3>1. n = 0
      <4> SUFFICES ASSUME n # 0 PROVE FALSE
        OBVIOUS
      <4>1. 1 \in 1 .. n /\ 1 + 1 = 2
        BY <1>2
      <4>2. s[2] \in TokenChar
        BY <1>2, <4>1
      <4>3. s[2] = ":"
        BY <1>5, ScansApart
      <4> QED
        BY <4>2, <4>3 DEF TokenChar, StartTokenChar, Letter, Digit
    <3> QED
      BY <1>5, <3>1 DEF ReadColon, Cast
  <2>2. 2 \in 0 .. Len(s) /\ s[1] = ":" /\ s[2] = ":"
    BY <1>1, <1>5, ScansApart
  <2>3. \A i \in 1 .. 2 : s[i] \notin {"'", "?"}
    BY <2>2
  <2>4. MarksPass(s, From(s, 3))
    <3>1. MarksPass(s, From(s, 2 + 1))
      BY <2>2, <2>3, RunPasses
    <3> QED
      BY <3>1
  <2>5. Passes(s, From(s, 3))
    BY <1>5, <2>4, ScanSteps DEF Passes, MarksPass, NamesPass
  <2>6. Key(<<":", ":">>).kind = "key" /\ Key(<<":", ":">>) # Key(<<"?">>)
    <3>1. <<":", ":">> # <<"?">>
      <4>1. Len(<<":", ":">>) = 2 /\ Len(<<"?">>) = 1
        OBVIOUS
      <4> QED
        BY <4>1
    <3> QED
      BY <3>1 DEF Key, Token
  <2> QED
    BY <1>4, <2>1, <2>5, <2>6, BindsNothing
<1>6. CASE ~Cast(s) /\ n > 0 /\ "named-params" \in Syntax
  <2>1. ReadColon(s) = Return(Token("param", name), Left(Tail(s), n))
    BY <1>6 DEF ReadColon, Cast
  <2>2. Named(s)
    <3>1. 1 \in 1 .. n /\ 1 + 1 = 2 /\ Len(s) > 1
      BY <1>1, <1>2, <1>6
    <3>2. s[2] \in TokenChar
      BY <1>2, <3>1
    <3>3. s[2] \notin Digit
      BY <3>1, PlainBegins
    <3> QED
      BY <1>1, <3>1, <3>2, <3>3 DEF Named, TokenChar
  <2> DEFINE t == From(s, n + 2)
  <2>3. ColonNames[s] = <<name>> \o ColonNames[t]
    BY <2>2, ScanSteps
  <2>4. From(Tail(s), n + 1) = t
    <3> HIDE DEF n
    <3>1. 2 \in 1 .. Len(s) + 1 /\ n + 1 \in 1 .. Len(s) - 2 + 2 /\ 2 + (n + 1) - 1 = n + 2
      BY <1>1, <1>2
    <3> QED
      BY <1>1, <3>1, FromFrom
  <2>5. MarksPass(s, t)
    <3>1. n + 1 \in 0 .. Len(s) /\ n + 1 + 1 = n + 2
      BY <1>1, <1>2
    <3>2. \A i \in 1 .. n + 1 : s[i] \notin {"'", "?"}
      <4> TAKE i \in 1 .. n + 1
      <4>1. CASE i = 1
        BY <1>1, <4>1
      <4>2. CASE i # 1
        <5>1. i - 1 \in 1 .. n /\ i - 1 + 1 = i
          BY <1>2, <4>2
        <5>2. s[i] \in TokenChar
          BY <1>2, <5>1
        <5> QED
          BY <5>2 DEF TokenChar, StartTokenChar, Letter, Digit
      <4> QED
        BY <4>1, <4>2
    <3> HIDE DEF n
    <3>3. MarksPass(s, From(s, n + 1 + 1))
      BY <3>1, <3>2, RunPasses
    <3> QED
      BY <3>1, <3>3
  <2>6. Passes(t, Left(Tail(s), n))
    <3> HIDE DEF n, t
    <3> QED
      BY <1>1, <1>2, <2>4, LeftPasses
  <2>7. t \in Text
    BY <2>5 DEF MarksPass, Hides
  <2> DEFINE u == Left(Tail(s), n)
             tok == Token("param", name)
  <2>8. MarksPass(s, u)
    <3> HIDE DEF t, u
    <3> QED
      BY <2>5, <2>6, PassesOn DEF Passes, u
  <2>9. u \in Text /\ ColonNames[t] = ColonNames[u] /\ QuestionMarks[u] \in Nat /\ QuestionMarks[s] = QuestionMarks[u] /\ Hides(s, u)
    <3>1. u \in Text
      BY <2>8 DEF MarksPass, Hides
    <3> HIDE DEF t, u
    <3> QED
      BY <2>6, <2>8, <3>1, ScanTypes DEF MarksPass, Passes, NamesPass, u
  <2>10. NamesOf(tok) = <<name>> /\ MarksOf(tok) = 0
    <3> HIDE DEF name
    <3>1. tok.kind = "param" /\ tok.text = name
      BY DEF Token
    <3>2. tok # Key(<<"?">>)
      BY <3>1, KeyIs
    <3> HIDE DEF tok
    <3> QED
      BY <3>1, <3>2 DEF NamesOf, MarksOf
  <2> HIDE DEF t, u, tok, n, name
  <2>11. Follows(s, tok, u)
    BY <2>3, <2>9, <2>10 DEF Follows
  <2> QED
    BY <1>4, <2>1, <2>11 DEF u, tok
<1>7. CASE ~Cast(s) /\ ~ (n > 0 /\ "named-params" \in Syntax)
  <2>1. ReadColon(s) = Return(Key(<<":">>), Tail(s))
    BY <1>7 DEF ReadColon, Cast
  <2>2. Key(<<":">>).kind = "key" /\ Key(<<":">>) # Key(<<"?">>)
    BY KeyIs
  <2>3. ASSUME "named-params" \in Syntax PROVE Passes(s, Tail(s))
    <3>1. n = 0
      BY <1>2, <1>7, <2>3
    <3>2. ~Named(s)
      <4> SUFFICES ASSUME Named(s) PROVE FALSE
        OBVIOUS
      <4>1. Len(s) > 1 /\ s[2] \in TokenChar
        BY DEF Named, TokenChar
      <4>2. Tail(s)[1] = s[2]
        <5>1. 1 \in 1 .. Len(s) - 1
          BY <1>1, <4>1
        <5> QED
          BY <5>1, HeadTailProperties DEF Text
      <4>3. RunOf(Tail(s), TokenChar) < Len(Tail(s)) => Tail(s)[RunOf(Tail(s), TokenChar) + 1] \notin TokenChar
        BY <1>1, RunIs
      <4>4. Tail(s)[0 + 1] \notin TokenChar
        BY <1>1, <3>1, <4>1, <4>3
      <4> QED
        BY <4>1, <4>2, <4>4
    <3> QED
      BY <1>3, <1>7, <3>2, ScanSteps DEF Passes, NamesPass
  <2>4. ASSUME "named-params" \in Syntax PROVE Follows(s, Key(<<":">>), Tail(s))
    BY <2>2, <2>3, <2>4, BindsNothing
  <2>5. ASSUME "named-params" \notin Syntax PROVE Follows(s, Key(<<":">>), Tail(s))
    <3>1. QuestionMarks[Tail(s)] \in Nat
      BY <1>1, ScanTypes
    <3> QED
      BY <1>3, <2>2, <2>5, <3>1 DEF Follows, MarksPass, MarksOf
  <2> QED
    BY <1>4, <2>1, <2>4, <2>5
<1> QED
  BY <1>5, <1>6, <1>7

\* Every token of a plain text binds what the scans find.
LEMMA TokenFollows ==
  ASSUME NEW s \in Text, Plain(s), NEW r, r = ReadToken(s), r.token.kind # "error"
  PROVE  Follows(s, r.token, r.rest)
<1>0. \A t, u : Return(t, u).token = t /\ Return(t, u).rest = u
  BY DEF Return
<1>1. CASE s = <<>>
  <2>1. r = Return(Token("eot", <<>>), s)
    BY <1>1 DEF ReadToken
  <2>2. Passes(s, s)
    BY PassesItself
  <2> QED
    BY <1>0, <2>1, <2>2, KeyIs, BindsNothing
<1>2. CASE s # <<>>
  <2> DEFINE c == Head(s)
  <2>1. /\ Tail(s) \in RestsOf(s) /\ Tail(s) \in Text /\ Len(Tail(s)) < Len(s) /\ Tail(s) = From(s, 2)
        /\ c = s[1] /\ Len(s) \in Nat \ {0} /\ Len(Tail(s)) = Len(s) - 1
    BY <1>2, TailSuffix, TailIsFrom
  <2>2. ~Starts(s, Dashes) /\ ~Starts(s, Opening) /\ c \notin {"dq", "$"}
    BY <1>2, PlainBegins
  <2>3. c \notin {"'", ":", "?"} => Passes(s, Tail(s)) /\ Follows(s, Key(<<c>>), Tail(s))
    <3>1. c \notin {"'", ":", "?"} => Passes(s, Tail(s))
      BY <1>2, CharacterPasses
    <3>2. c # "?" => Key(<<c>>) # Key(<<"?">>) /\ Key(<<c>>).kind = "key"
      BY KeyIs
    <3> QED
      BY <3>1, <3>2, BindsNothing
  <2>4. CASE c \in StartTokenChar
    <3> DEFINE n == RunOf(s, TokenChar)
    <3>1. n \in 0 .. Len(s) /\ \A i \in 1 .. n : s[i] \in TokenChar
      BY RunIs
    <3>2. Passes(s, Left(s, n))
      <4> HIDE DEF n
      <4> QED
        BY <3>1, WordPasses
    <3>3. r = Return(Token("word", <<>>), Left(s, n))
      BY <1>2, <2>4, TokenCases
    <3> QED
      BY <1>0, <3>2, <3>3, KeyIs, BindsNothing
  <2>5. CASE c \in OperatorChars
    BY <1>2, <2>2, <2>5, TokenCases, OperatorFollows
  <2>6. ASSUME NEW t \in Text, NEW state \in Reader, Passes(s, t), r = ReadNumber[t][state]
        PROVE  Follows(s, r.token, r.rest)
    <3>1. r.token.kind = "number"
      BY <2>6, NumberLeaves
    <3>2. Passes(t, r.rest)
      BY <2>6, <3>1, NumberPasses
    <3>3. Passes(s, r.rest)
      BY <2>6, <3>2, PassesOn
    <3>4. r.token.kind # "param" /\ r.token # Key(<<"?">>)
      BY <3>1, KeyIs
    <3> QED
      BY <3>3, <3>4, BindsNothing
  <2>7. CASE c \in Digit
    <3>1. c \notin {"'", ":", "?"} /\ "int" \in Reader
      BY <2>7 DEF Digit, Reader
    <3> QED
      BY <1>2, <2>1, <2>3, <2>6, <2>7, <3>1, TokenCases
  <2>8. CASE c = "."
    <3>1. Passes(s, Tail(s)) /\ Follows(s, Key(<<c>>), Tail(s))
      BY <2>3, <2>8
    <3>2. CASE Len(s) > 1 /\ s[2] \in Digit
      <4> DEFINE t == Tail(s)
                 u == From(s, 3)
      <4>1. 2 \in 1 .. Len(s) /\ 2 + 1 = 3
        BY <2>1, <3>2
      <4>2. t \in Text /\ t # <<>> /\ Tail(t) = u /\ Head(t) = s[2]
        <5> HIDE DEF From
        <5>1. From(s, 2) # <<>> /\ Tail(From(s, 2)) = From(s, 2 + 1) /\ Head(From(s, 2)) = s[2]
          BY <4>1, NextPlace
        <5> QED
          BY <2>1, <4>1, <5>1
      <4> HIDE DEF t, u
      <4>3. Head(t) \notin {"'", ":", "?"}
        BY <3>2, <4>2 DEF Digit
      <4>4. Passes(t, u)
        BY <4>2, <4>3, CharacterPasses
      <4>5. Passes(s, u) /\ u \in Text
        BY <3>1, <4>4, PassesOn DEF t, Passes, NamesPass, Hides
      <4>6. r = ReadNumber[u]["frac"] /\ "frac" \in Reader
        BY <1>2, <2>8, <3>2, TokenCases DEF u, Reader
      <4> QED
        BY <2>6, <4>5, <4>6
    <3>3. CASE ~ (Len(s) > 1 /\ s[2] \in Digit)
      <4>1. r = Return(Key(<<c>>), Tail(s))
        BY <1>2, <2>8, <3>3, TokenCases
      <4> QED
        BY <1>0, <3>1, <4>1
    <3> QED
      BY <3>2, <3>3
  <2>9. CASE c = "'"
    <3> DEFINE t == AfterString[Tail(s)]
    <3>1. r = ReadSingleQuotedString[Tail(s)]
      BY <1>2, <2>9, TokenCases
    <3>2. Quoted(s)
      BY <2>1, <2>9, ScansApart
    <3>3. Passes(s, t)
      BY <3>2, LiteralPasses
    <3>4. Plain(t)
      BY <3>3, PlainHides DEF Passes, NamesPass
    <3>5. r.token.kind = "string"
      BY <2>1, <3>1, StringLeaves
    <3>6. Passes(t, r.rest)
      BY <2>1, <3>1, <3>4, <3>5, StringPasses
    <3>7. Passes(s, r.rest)
      <4> HIDE DEF t
      <4> QED
        BY <3>3, <3>6, PassesOn
    <3>8. r.token.kind # "param" /\ r.token # Key(<<"?">>)
      BY <3>5, KeyIs
    <3> QED
      BY <3>7, <3>8, BindsNothing
  <2>10. CASE c = ":"
    <3>1. r = ReadColon(s)
      BY <1>2, <2>10, TokenCases
    <3> QED
      BY <1>2, <2>10, <3>1, ColonFollows
  <2>11. CASE c \notin StartTokenChar \cup OperatorChars \cup Digit \cup {".", "dq", "'", ":", "$"}
    <3>1. r = Return(Key(<<c>>), Tail(s))
      BY <1>2, <2>11, TokenCases
    <3>2. c \notin {"'", ":", "?"}
      BY <2>11 DEF OperatorChars, Wide
    <3> QED
      BY <1>0, <2>3, <3>1, <3>2
  <2> QED
    BY <2>2, <2>4, <2>5, <2>7, <2>8, <2>9, <2>10, <2>11
<1> QED
  BY <1>1, <1>2

LEMMA LexerFollows ==
  ASSUME NEW s \in Text, Plain(s), NEW r, r = ReadTokenFromString(s), r.token.kind # "error"
  PROVE  Follows(s, r.token, r.rest)
<1> DEFINE t == SkipSpaces[s]
<1>1. Passes(s, t)
  BY SpacesPass
<1>2. t \in Text /\ Plain(t)
  BY <1>1, PlainHides DEF Passes, NamesPass, Hides
<1>3. r = ReadToken(t)
  BY DEF ReadTokenFromString
<1> HIDE DEF t
<1>4. Follows(t, r.token, r.rest)
  BY <1>2, <1>3, TokenFollows
<1>5. Hides(s, r.rest)
  BY <1>1, <1>4, PassesOn DEF Follows, Passes, NamesPass
<1> QED
  BY <1>1, <1>4, <1>5 DEF Follows, Passes, NamesPass, MarksPass

-----------------------------------------------------------------------------
(* The values sent for the names. *)

LEMMA FrontIs ==
  ASSUME NEW t \in Seq(Text), t # <<>>
  PROVE  /\ Front(t) \in Seq(Text) /\ Len(Front(t)) = Len(t) - 1 /\ Len(t) \in Nat \ {0}
         /\ \A k \in 1 .. Len(t) - 1 : Front(t)[k] = t[k]
         /\ Last(t) = t[Len(t)] /\ Last(t) \in Text
<1>1. Len(t) \in Nat \ {0} /\ \A k \in 1 .. Len(t) : t[k] \in Text
  OBVIOUS
<1>2. 1 <= Len(t) /\ Len(t) - 1 \in 0 .. Len(t) /\ Len(t) - 1 <= Len(t)
  BY <1>1
<1> DEFINE m == Len(t) - 1
<1>3. m \in Int /\ \A k \in 1 .. m : t[k] \in Text
  BY <1>1
<1> HIDE DEF m
<1>4. /\ SubSeq(t, 1, m) \in Seq(Text)
      /\ Len(SubSeq(t, 1, m)) = IF 1 <= m THEN m - 1 + 1 ELSE 0
      /\ \A k \in 1 .. m - 1 + 1 : SubSeq(t, 1, m)[k] = t[1 + k - 1]
  BY <1>3, SubSeqProperties
<1>5. m \in Nat
  BY <1>1 DEF m
<1>6. m - 1 + 1 = m /\ (~ (1 <= m) => m = 0) /\ \A k \in 1 .. m : 1 + k - 1 = k
  BY <1>5
<1>7. Len(SubSeq(t, 1, m)) = m /\ \A k \in 1 .. m : SubSeq(t, 1, m)[k] = t[k]
  BY <1>4, <1>6
<1> QED
  BY <1>1, <1>4, <1>7 DEF Front, Last, m

LEMMA DistinctUnfolds ==
  ASSUME NEW s \in Seq(Text)
  PROVE  Distinct[s] =
           IF s = <<>> THEN <<>>
           ELSE LET earlier == Distinct[Front(s)]
                IN IF Contains(earlier, Last(s)) THEN earlier ELSE Append(earlier, Last(s))
<1> DEFINE Body(f, t) ==
             IF t = <<>> THEN <<>>
             ELSE LET earlier == f[Front(t)]
                  IN IF Contains(earlier, Last(t)) THEN earlier ELSE Append(earlier, Last(t))
           size == [t \in Seq(Text) |-> Len(t)]
           step == [t \in Seq(Text) |-> [f \in [Seq(Text) -> Seq(Text)] |-> Body(f, t)]]
<1>1. ASSUME NEW t \in Seq(Text), NEW f \in [Seq(Text) -> Seq(Text)]
      PROVE  Body(f, t) \in Seq(Text)
  <2>1. t # <<>> => Front(t) \in Seq(Text) /\ Last(t) \in Text
    BY FrontIs
  <2>2. t # <<>> => f[Front(t)] \in Seq(Text)
    BY <2>1
  <2>3. t # <<>> => Append(f[Front(t)], Last(t)) \in Seq(Text)
    BY <2>1, <2>2, AppendProperties
  <2>4. <<>> \in Seq(Text)
    BY EmptySeq
  <2> QED
    BY <2>2, <2>3, <2>4
<1>2. ASSUME NEW t \in Seq(Text), NEW f \in [Seq(Text) -> Seq(Text)], NEW g \in [Seq(Text) -> Seq(Text)],
             \A y \in Seq(Text) : Len(y) < Len(t) => f[y] = g[y]
      PROVE  Body(f, t) = Body(g, t)
  <2>1. t # <<>> => f[Front(t)] = g[Front(t)]
    BY <1>2, FrontIs
  <2> QED
    BY <2>1
<1> HIDE DEF Body
<1>3. Descends(Seq(Text), Seq(Text), size, step)
  <2>1. size \in [Seq(Text) -> Nat] /\ step \in [Seq(Text) -> [[Seq(Text) -> Seq(Text)] -> Seq(Text)]]
    BY <1>1
  <2>2. ASSUME NEW t \in Seq(Text), NEW f \in [Seq(Text) -> Seq(Text)], NEW g \in [Seq(Text) -> Seq(Text)],
               \A y \in Seq(Text) : size[y] < size[t] => f[y] = g[y]
        PROVE  step[t][f] = step[t][g]
    <3>1. \A y \in Seq(Text) : Len(y) < Len(t) => f[y] = g[y]
      BY <2>2
    <3> QED
      BY <1>2, <3>1
  <2>3. Seq(Text) # {}
    BY EmptySeq
  <2> HIDE DEF size, step
  <2> QED
    BY <2>1, <2>2, <2>3 DEF Descends
<1>4. \E g \in [Seq(Text) -> Seq(Text)] : \A t \in Seq(Text) : g[t] = step[t][g]
  <2> DEFINE V == Seq(Text)
  <2> HIDE DEF size, step, V
  <2>1. Descends(V, V, size, step)
    BY <1>3 DEF V
  <2>2. \E g \in [V -> V] : \A t \in V : g[t] = step[t][g]
    BY <2>1, Recursion
  <2> QED
    BY <2>2 DEF V
<1>5. \E g : g = [t \in Seq(Text) |-> Body(g, t)]
  BY <1>4
<1>6. Distinct = CHOOSE f : f = [t \in Seq(Text) |-> Body(f, t)]
  BY DEF Distinct, Body
<1>7. Distinct = [t \in Seq(Text) |-> Body(Distinct, t)]
  BY <1>5, <1>6
<1>8. Distinct[s] = Body(Distinct, s)
  BY <1>7
<1> QED
  BY <1>8 DEF Body

\* Every name is among the different ones.
LEMMA DistinctHolds ==
  ASSUME NEW s \in Seq(Text)
  PROVE  /\ Distinct[s] \in Seq(Text)
         /\ \A k \in 1 .. Len(s) : \E i \in 1 .. Len(Distinct[s]) : Distinct[s][i] = s[k]
<1> DEFINE Among(t) == /\ Distinct[t] \in Seq(Text)
                       /\ \A k \in 1 .. Len(t) : \E i \in 1 .. Len(Distinct[t]) : Distinct[t][i] = t[k]
           P == {t \in Seq(Text) : Among(t)}
           size == [t \in Seq(Text) |-> Len(t)]
<1>1. ASSUME NEW t \in Seq(Text), \A y \in Seq(Text) : size[y] < size[t] => y \in P
      PROVE  t \in P
  <2>1. CASE t = <<>>
    <3>1. Distinct[t] = <<>>
      BY <2>1, DistinctUnfolds
    <3> QED
      BY <2>1, <3>1, EmptySeq
  <2>2. CASE t # <<>>
    <3> DEFINE earlier == Distinct[Front(t)]
               last == Last(t)
    <3>1. Among(Front(t))
      BY <1>1, <2>2, FrontIs
    <3>2. Distinct[t] = IF Contains(earlier, last) THEN earlier ELSE Append(earlier, last)
      BY <2>2, DistinctUnfolds
    <3>3. last \in Text /\ last = t[Len(t)] /\ Len(t) \in Nat \ {0}
      BY <2>2, FrontIs
    <3>4. \A k \in 1 .. Len(t) - 1 : \E i \in 1 .. Len(earlier) : earlier[i] = t[k]
      BY <2>2, <3>1, FrontIs
    <3>5. earlier \in Seq(Text)
      BY <3>1
    <3> HIDE DEF earlier, last
    <3>6. CASE Contains(earlier, last)
      <4>1. \E i \in 1 .. Len(earlier) : earlier[i] = last
        BY <3>5, <3>6 DEF Contains
      <4>2. Distinct[t] = earlier
        BY <3>2, <3>6
      <4>3. \A k \in 1 .. Len(t) : \E i \in 1 .. Len(earlier) : earlier[i] = t[k]
        <5> TAKE k \in 1 .. Len(t)
        <5>1. k = Len(t) \/ k \in 1 .. Len(t) - 1
          BY <3>3
        <5> QED
          BY <3>3, <3>4, <4>1, <5>1
      <4> QED
        BY <3>5, <4>2, <4>3
    <3>7. CASE ~Contains(earlier, last)
      <4> DEFINE all == Append(earlier, last)
      <4>1. /\ all \in Seq(Text) /\ Len(all) = Len(earlier) + 1 /\ Len(earlier) \in Nat
            /\ all[Len(earlier) + 1] = last
            /\ \A i \in 1 .. Len(earlier) : all[i] = earlier[i]
        BY <3>3, <3>5, AppendProperties
      <4>2. Distinct[t] = all
        BY <3>2, <3>7
      <4> HIDE DEF all
      <4>3. \A k \in 1 .. Len(t) : \E i \in 1 .. Len(all) : all[i] = t[k]
        <5> TAKE k \in 1 .. Len(t)
        <5>1. CASE k = Len(t)
          <6>1. Len(earlier) + 1 \in 1 .. Len(all) /\ all[Len(earlier) + 1] = t[k]
            BY <3>3, <4>1, <5>1
          <6> QED
            BY <6>1
        <5>2. CASE k # Len(t)
          <6>1. k \in 1 .. Len(t) - 1
            BY <3>3, <5>2
          <6>2. PICK i \in 1 .. Len(earlier) : earlier[i] = t[k]
            BY <3>4, <6>1
          <6>3. i \in 1 .. Len(all) /\ all[i] = t[k]
            BY <4>1, <6>2
          <6> QED
            BY <6>3
        <5> QED
          BY <5>1, <5>2
      <4> QED
        BY <4>1, <4>2, <4>3
    <3> QED
      BY <3>6, <3>7
  <2> QED
    BY <2>1, <2>2
<1>2. size \in [Seq(Text) -> Nat]
  OBVIOUS
<1>3. \A t \in Seq(Text) : t \in P
  <2> DEFINE V == Seq(Text)
  <2> HIDE DEF P, size, V
  <2>1. \A x \in V : (\A y \in V : size[y] < size[x] => y \in P) => x \in P
    BY <1>1 DEF V
  <2>2. size \in [V -> Nat]
    BY <1>2 DEF V
  <2>3. \A x \in V : x \in P
    BY <2>1, <2>2, Sizes
  <2> QED
    BY <2>3 DEF V
<1> QED
  BY <1>3 DEF P

\* The value at the index of a name is the one of that name.
LEMMA ColonBinds ==
  ASSUME NEW s \in Text
  PROVE  [k \in DOMAIN BindColon(s).slots |-> BindColon(s).values[BindColon(s).slots[k]]] = ColonNames[s]
<1> DEFINE names == ColonNames[s]
           values == Distinct[names]
           slots == [k \in DOMAIN names |-> NameToIndex(names, names[k])]
<1>1. names \in Seq(Text)
  BY ScanTypes
<1>2. BindColon(s).values = values /\ BindColon(s).slots = slots
  BY DEF BindColon
<1> HIDE DEF names
<1>3. values \in Seq(Text)
  BY <1>1, DistinctHolds
<1>4. ASSUME NEW k \in DOMAIN names PROVE values[slots[k]] = names[k]
  <2>1. k \in 1 .. Len(names)
    BY <1>1
  <2>2. \E i \in DOMAIN values : values[i] = names[k]
    BY <1>1, <1>3, <2>1, DistinctHolds
  <2>3. values[NameToIndex(names, names[k])] = names[k]
    BY <2>2 DEF NameToIndex
  <2> QED
    BY <1>4, <2>3
<1> HIDE DEF values
<1>5. DOMAIN slots = DOMAIN names
  OBVIOUS
<1> HIDE DEF slots
<1>6. [k \in DOMAIN slots |-> values[slots[k]]] = [k \in DOMAIN names |-> names[k]]
  BY <1>4, <1>5
<1>7. names = [k \in DOMAIN names |-> names[k]]
  BY <1>1
<1>8. [k \in DOMAIN slots |-> values[slots[k]]] = names
  BY <1>6, <1>7
<1> QED
  BY <1>2, <1>8 DEF names

-----------------------------------------------------------------------------
(* What the lexer has read and what is left. *)

\* What the lexer has read and what the scans would find in what is left are
\* what they find in the source: the part of a source that is left begins
\* outside its literals, comments and quoted names, so that a scan that begins
\* there finds what one from the beginning does.
Kept ==
  Plain(source) /\ token.kind # "error" =>
    /\ Plain(rest)
    /\ token.kind = "eot" => rest = <<>>
    /\ "named-params" \in Syntax => named \o ColonNames[rest] = ColonNames[source]
    /\ ~wide => marks + QuestionMarks[rest] = QuestionMarks[source]

LEMMA InitKept == Init => Kept
<1> SUFFICES ASSUME Init PROVE Kept
  OBVIOUS
<1>1. rest = source /\ source \in Text /\ named = <<>> /\ marks = 0 /\ token.kind = "start"
  BY SourcesAssumption DEF Init, Token
<1>2. ColonNames[source] \in Seq(Text) /\ QuestionMarks[source] \in Nat
  BY <1>1, ScanTypes
<1>3. <<>> \o ColonNames[source] = ColonNames[source]
  BY <1>2, ConcatEmptySeq
<1>4. 0 + QuestionMarks[source] = QuestionMarks[source]
  BY <1>2
<1> QED
  BY <1>1, <1>3, <1>4 DEF Kept

\* The history of a step, in terms of its token.
LEMMA RecordIs ==
  ASSUME NEW t, Record(t), named \in Seq(Seq(TokenChar)), marks \in Nat,
         t.kind = "param" => t.text \in Seq(TokenChar)
  PROVE  named' = named \o NamesOf(t) /\ marks' = marks + MarksOf(t) /\ wide' = (wide \/ Widens(t))
<1>1. named' = named \o NamesOf(t)
  <2>1. CASE t.kind = "param"
    <3>1. named' = Append(named, t.text) /\ NamesOf(t) = <<t.text>> /\ t.text \in Seq(TokenChar)
      BY <2>1 DEF Record, NamesOf
    <3> QED
      BY <3>1, AppendIsConcat
  <2>2. CASE t.kind # "param"
    <3>1. named' = named /\ NamesOf(t) = <<>>
      BY <2>2 DEF Record, NamesOf
    <3> QED
      BY <3>1, ConcatEmptySeq
  <2> QED
    BY <2>1, <2>2
<1>2. marks' = marks + MarksOf(t)
  BY DEF Record, MarksOf
<1>3. wide' = (wide \/ Widens(t))
  BY DEF Record, Widens
<1> QED
  BY <1>1, <1>2, <1>3

LEMMA NextKept == TypeOK /\ Kept /\ [Next]_vars => Kept'
<1> SUFFICES ASSUME TypeOK, Kept, [Next]_vars, Plain(source)', (token.kind # "error")'
             PROVE  /\ Plain(rest)'
                    /\ (token.kind = "eot" => rest = <<>>)'
                    /\ ("named-params" \in Syntax => named \o ColonNames[rest] = ColonNames[source])'
                    /\ (~wide => marks + QuestionMarks[rest] = QuestionMarks[source])'
  BY DEF Kept
<1>1. source \in Text /\ rest \in Text /\ named \in Seq(Seq(TokenChar)) /\ marks \in Nat
  BY SourcesAssumption, FromSuffix DEF TypeOK
<1>2. CASE UNCHANGED vars
  BY <1>2 DEF vars, Kept
<1>3. CASE Next
  <2> DEFINE r == ReadTokenFromString(rest)
             tok == r.token
             t == r.rest
  <2>1. token.kind # "error" /\ token' = tok /\ rest' = t /\ Record(tok) /\ source' = source
    BY <1>3 DEF Next, SkipToken
  <2>2. Plain(source) /\ tok.kind # "error"
    BY <2>1
  <2>3. /\ Plain(rest)
        /\ "named-params" \in Syntax => named \o ColonNames[rest] = ColonNames[source]
        /\ ~wide => marks + QuestionMarks[rest] = QuestionMarks[source]
    BY <2>1, <2>2 DEF Kept
  <2>4. Good(rest, r)
    BY <1>1, LexerIsGood
  <2>5. Follows(rest, tok, t)
    <3>1. r.token.kind # "error"
      BY <2>2
    <3> HIDE DEF r
    <3> QED
      BY <1>1, <2>3, <3>1, LexerFollows DEF r
  <2> HIDE DEF r
  <2>6. t \in Text /\ Plain(t)
    BY <1>1, <2>3, <2>5, PlainHides DEF Follows, Hides
  <2>7. tok.kind = "eot" => t = <<>>
    BY <2>4 DEF Good
  <2>8. tok.kind = "param" => tok.text \in Seq(TokenChar)
    BY <2>4 DEF Good
  <2> HIDE DEF tok, t
  <2>9. named' = named \o NamesOf(tok) /\ marks' = marks + MarksOf(tok) /\ wide' = (wide \/ Widens(tok))
    BY <1>1, <2>1, <2>8, RecordIs
  <2>10. ASSUME "named-params" \in Syntax PROVE named' \o ColonNames[t] = ColonNames[source]
    <3>1. ColonNames[rest] = NamesOf(tok) \o ColonNames[t]
      BY <2>5, <2>10 DEF Follows
    <3>2. TokenChar \subseteq Char
      BY DEF Char
    <3>3. named \in Seq(Text) /\ ColonNames[t] \in Seq(Text) /\ NamesOf(tok) \in Seq(Text)
      <4>1. Seq(TokenChar) \subseteq Text
        BY <3>2, SeqMonotonic DEF Text
      <4>2. named \in Seq(Text)
        BY <1>1, <4>1, SeqMonotonic
      <4>3. ColonNames[t] \in Seq(Text)
        BY <2>6, ScanTypes
      <4>4. NamesOf(tok) \in Seq(Text)
        BY <2>8, <4>1 DEF NamesOf
      <4> QED
        BY <4>2, <4>3, <4>4
    <3>4. (named \o NamesOf(tok)) \o ColonNames[t] = named \o (NamesOf(tok) \o ColonNames[t])
      <4> DEFINE S == Text
                 read == NamesOf(tok)
                 left == ColonNames[t]
      <4>1. named \in Seq(S) /\ read \in Seq(S) /\ left \in Seq(S)
        BY <3>3
      <4> HIDE DEF S, read, left
      <4>2. (named \o read) \o left = named \o (read \o left)
        BY <4>1, ConcatAssociative
      <4> QED
        BY <4>2 DEF read, left
    <3> QED
      BY <2>3, <2>9, <2>10, <3>1, <3>4
  <2>11. ASSUME ~wide' PROVE marks' + QuestionMarks[t] = QuestionMarks[source]
    <3>1. ~wide /\ ~Widens(tok)
      BY <2>9, <2>11
    <3>2. QuestionMarks[rest] = MarksOf(tok) + QuestionMarks[t]
      BY <2>5, <3>1 DEF Follows
    <3>3. QuestionMarks[t] \in Nat /\ MarksOf(tok) \in Nat
      BY <2>6, ScanTypes DEF MarksOf
    <3>4. marks + (MarksOf(tok) + QuestionMarks[t]) = QuestionMarks[source]
      BY <2>3, <3>1, <3>2
    <3> QED
      BY <1>1, <2>9, <3>3, <3>4
  <2> QED
    BY <2>1, <2>6, <2>7, <2>10, <2>11
<1> QED
  BY <1>2, <1>3

LEMMA NothingLeft ==
  ASSUME NEW s \in Text
  PROVE  ColonNames[<<>>] = <<>> /\ QuestionMarks[<<>>] = 0
<1>1. <<>> \in Text
  BY EmptySuffix
<1>2. ~Quoted(<<>>) /\ ~Cast(<<>>) /\ ~Named(<<>>) /\ ~Starts(<<>>, <<"?">>)
  <2>1. \A t \in Text : Quoted(t) \/ Cast(t) \/ Named(t) \/ Starts(t, <<"?">>) => t # <<>>
    BY ScansApart
  <2> QED
    BY <1>1, <2>1
<1>3. ASSUME NEW t \in Text, t = <<>>, ~Quoted(t), ~Cast(t), ~Named(t), ~Starts(t, <<"?">>)
      PROVE  ColonNames[t] = <<>> /\ QuestionMarks[t] = 0
  <2>1. ColonNames[t] = <<>>
    BY <1>3, ColonNamesUnfolds
  <2>2. QuestionMarks[t] = 0
    BY <1>3, QuestionMarksUnfolds
  <2> QED
    BY <2>1, <2>2
<1> QED
  BY <1>1, <1>2, <1>3

LEMMA KeptAlways == Spec => [](TypeOK /\ Kept)
<1>1. Spec => []Kept
  BY InitKept, NextKept, TypeCorrect, PTL DEF Spec
<1> QED
  BY <1>1, TypeCorrect, PTL

\* NamesAreBound for every source: a name that the lexer took for a parameter
\* is replaced by the binder, and nothing else is, and the value at the index
\* of its placeholder is the one of that name, however often it occurs.
THEOREM NamesAreBoundAlways == Spec => []NamesAreBound
<1>1. TypeOK /\ Kept => NamesAreBound
  <2> SUFFICES ASSUME TypeOK, Kept, Read, Plain(source), "named-params" \in Syntax
               PROVE  named = [k \in DOMAIN BindColon(source).slots |->
                                 BindColon(source).values[BindColon(source).slots[k]]]
    BY DEF NamesAreBound
  <2>1. source \in Text /\ named \in Seq(Seq(TokenChar))
    BY SourcesAssumption DEF TypeOK
  <2>2. token.kind # "error" /\ rest = <<>> /\ named \o ColonNames[rest] = ColonNames[source]
    BY DEF Kept, Read
  <2>3. ColonNames[<<>>] = <<>>
    BY <2>1, NothingLeft
  <2>4. named = ColonNames[source]
    BY <2>1, <2>2, <2>3, ConcatEmptySeq
  <2> QED
    BY <2>1, <2>4, ColonBinds
<1> QED
  BY <1>1, KeptAlways, PTL

\* MarksAreBound for every source: the binder sends as many values as the
\* lexer read `?`, also where it takes a source without any for one with
\* numbered parameters.
THEOREM MarksAreBoundAlways == Spec => []MarksAreBound
<1>1. TypeOK /\ Kept => MarksAreBound
  <2> SUFFICES ASSUME TypeOK, Kept, Read, Plain(source), ~wide
               PROVE  Sent(source, marks) = marks
    BY DEF MarksAreBound
  <2>1. source \in Text /\ marks \in Nat
    BY SourcesAssumption DEF TypeOK
  <2>2. token.kind # "error" /\ rest = <<>> /\ marks + QuestionMarks[rest] = QuestionMarks[source]
    BY DEF Kept, Read
  <2>3. QuestionMarks[<<>>] = 0
    BY <2>1, NothingLeft
  <2>4. QuestionMarks[source] = marks
    BY <2>1, <2>2, <2>3
  <2>5. ~ (QuestionMarks[source] > marks)
    BY <2>1, <2>4
  <2> QED
    BY <2>4, <2>5 DEF Sent
<1> QED
  BY <1>1, KeptAlways, PTL
==============================================================================
