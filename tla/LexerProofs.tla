------------------------------ MODULE LexerProofs ------------------------------
(***************************************************************************)
(* What the lexer reads, for every source.                                 *)
(*                                                                         *)
(* The readers are recursive functions on texts.  Here is first what any   *)
(* such proof needs: induction on a size, with the set of what holds in    *)
(* place of a predicate, and that a recursion on smaller arguments has a   *)
(* solution.                                                               *)
(***************************************************************************)
EXTENDS Lexer, TLAPS, WellFoundedInduction, SequenceTheorems

-----------------------------------------------------------------------------
(* Induction and recursion. *)

\* A set of numbers has a least one.
LEMMA Least ==
  ASSUME NEW T \in SUBSET Nat, T # {}
  PROVE  \E n \in T : \A m \in T : n <= m
<1> DEFINE R == OpToRel(<, Nat)
<1>1. IsWellFoundedOn(R, Nat)
  BY NatLessThanWellFounded
<1>2. \A m, n \in Nat : m < n => <<m, n>> \in R
  BY DEF OpToRel
<1> HIDE DEF R
<1>3. \E n \in T : \A m \in T : ~ (<<m, n>> \in R)
  BY <1>1, WFMin
<1>4. PICK n \in T : \A m \in T : ~ (<<m, n>> \in R)
  BY <1>3
<1>5. \A m \in T : n <= m
  <2> TAKE m \in T
  <2>1. ~ (m < n)
    BY <1>2, <1>4
  <2> QED
    BY <2>1
<1> QED
  BY <1>5

\* A set with each number whose smaller ones are all in it has every number.
LEMMA Numbers ==
  ASSUME NEW P, \A n \in Nat : (\A m \in 0 .. n - 1 : m \in P) => n \in P
  PROVE  \A n \in Nat : n \in P
<1> DEFINE T == {n \in Nat : n \notin P}
<1>1. SUFFICES ASSUME T # {} PROVE FALSE
  OBVIOUS
<1>2. PICK n \in T : \A m \in T : n <= m
  BY <1>1, Least
<1>3. \A m \in 0 .. n - 1 : m \in P
  BY <1>2
<1> QED
  BY <1>2, <1>3

\* The same on a size.
LEMMA Sizes ==
  ASSUME NEW S, NEW size \in [S -> Nat], NEW P,
         \A x \in S : (\A y \in S : size[y] < size[x] => y \in P) => x \in P
  PROVE  \A x \in S : x \in P
<1> DEFINE Q == {n \in Nat : \A x \in S : size[x] = n => x \in P}
<1>1. ASSUME NEW n \in Nat, \A m \in 0 .. n - 1 : m \in Q
      PROVE  n \in Q
  <2> SUFFICES ASSUME NEW x \in S, size[x] = n PROVE x \in P
    OBVIOUS
  <2>1. ASSUME NEW y \in S, size[y] < size[x]
        PROVE  y \in P
    <3>1. size[y] \in 0 .. n - 1
      BY <2>1
    <3> QED
      BY <1>1, <3>1
  <2> QED
    BY <2>1
<1>2. \A n \in Nat : n \in Q
  <2> HIDE DEF Q
  <2> QED
    BY <1>1, Numbers
<1> QED
  BY <1>2

\* A recursion step gives a value for an argument from those for arguments of
\* smaller size.
Descends(S, V, size, step) ==
  /\ V # {} /\ size \in [S -> Nat] /\ step \in [S -> [[S -> V] -> V]]
  /\ \A x \in S : \A f, g \in [S -> V] :
       (\A y \in S : size[y] < size[x] => f[y] = g[y]) => step[x][f] = step[x][g]

\* Such a recursion has a solution.
LEMMA Recursion ==
  ASSUME NEW S, NEW V, NEW size, NEW step, Descends(S, V, size, step)
  PROVE  \E f \in [S -> V] : \A x \in S : f[x] = step[x][f]
<1> USE DEF Descends
<1> DEFINE Below == [n \in Nat |-> {f \in [S -> V] : \A x \in S : size[x] < n => f[x] = step[x][f]}]
           P == {n \in Nat : Below[n] # {}}
<1>1. ASSUME NEW n \in Nat, \A m \in 0 .. n - 1 : m \in P
      PROVE  n \in P
  <2>1. CASE n = 0
    <3>1. [x \in S |-> CHOOSE v \in V : TRUE] \in Below[0]
      OBVIOUS
    <3> QED
      BY <2>1, <3>1
  <2>2. CASE n # 0
    <3>1. n - 1 \in 0 .. n - 1 /\ n - 1 \in Nat
      BY <2>2
    <3>2. n - 1 \in P
      <4> HIDE DEF P
      <4> QED
        BY <1>1, <3>1
    <3>3. PICK f : f \in Below[n - 1]
      BY <3>2
    <3> DEFINE g == [x \in S |-> IF size[x] < n - 1 THEN f[x] ELSE step[x][f]]
    <3>4. f \in [S -> V] /\ \A x \in S : size[x] < n - 1 => f[x] = step[x][f]
      BY <3>1, <3>3
    <3>5. g \in [S -> V]
      BY <3>4
    <3>6. ASSUME NEW x \in S, size[x] < n
          PROVE  g[x] = step[x][g]
      <4>1. \A y \in S : size[y] < size[x] => f[y] = g[y]
        BY <3>6
      <4>2. step[x][f] = step[x][g]
        BY <3>4, <3>5, <4>1
      <4>3. g[x] = step[x][f]
        BY <3>4
      <4> QED
        BY <4>2, <4>3
    <3>7. g \in Below[n]
      BY <3>5, <3>6
    <3> QED
      BY <3>7
  <2> QED
    BY <2>1, <2>2
<1>2. \A n \in Nat : Below[n] # {}
  <2>1. \A n \in Nat : n \in P
    <3> HIDE DEF P
    <3> QED
      BY <1>1, Numbers
  <2> QED
    BY <2>1
<1>3. ASSUME NEW n \in Nat, NEW m \in Nat, NEW f \in Below[n], NEW g \in Below[m]
      PROVE  \A x \in S : size[x] < n /\ size[x] < m => f[x] = g[x]
  <2> DEFINE Q == {x \in S : size[x] < n /\ size[x] < m => f[x] = g[x]}
  <2>1. ASSUME NEW x \in S, \A y \in S : size[y] < size[x] => y \in Q
        PROVE  x \in Q
    <3> SUFFICES ASSUME size[x] < n, size[x] < m PROVE f[x] = g[x]
      OBVIOUS
    <3>1. \A y \in S : size[y] < size[x] => f[y] = g[y]
      BY <2>1
    <3>2. f \in [S -> V] /\ g \in [S -> V] /\ f[x] = step[x][f] /\ g[x] = step[x][g]
      OBVIOUS
    <3> QED
      BY <3>1, <3>2
  <2>2. \A x \in S : x \in Q
    <3> HIDE DEF Q
    <3> QED
      BY <2>1, Sizes
  <2> QED
    BY <2>2
<1> DEFINE at == [x \in S |-> CHOOSE f : f \in Below[size[x] + 1]]
           h == [x \in S |-> at[x][x]]
<1>4. \A x \in S : at[x] \in Below[size[x] + 1]
  <2> TAKE x \in S
  <2>1. size[x] + 1 \in Nat
    OBVIOUS
  <2>2. \E f : f \in Below[size[x] + 1]
    BY <1>2, <2>1
  <2> HIDE DEF Below
  <2> QED
    BY <2>2
<1>5. \A x \in S : at[x] \in [S -> V] /\ \A y \in S : size[y] < size[x] + 1 => at[x][y] = step[y][at[x]]
  <2> TAKE x \in S
  <2>1. size[x] + 1 \in Nat
    OBVIOUS
  <2>2. at[x] \in Below[size[x] + 1]
    <3> HIDE DEF at, Below
    <3> QED
      BY <1>4
  <2> HIDE DEF at
  <2> QED
    BY <2>1, <2>2
<1>6. \A x, y \in S : size[y] < size[x] => at[x][y] = at[y][y]
  <2> TAKE x, y \in S
  <2>1. size[x] + 1 \in Nat /\ size[y] + 1 \in Nat /\ (size[y] < size[x] => size[y] < size[x] + 1 /\ size[y] < size[y] + 1)
    OBVIOUS
  <2> HIDE DEF Below, at
  <2> QED
    BY <1>3, <1>4, <2>1
<1>7. h \in [S -> V] /\ \A x \in S : h[x] = at[x][x]
  <2> HIDE DEF at
  <2> QED
    BY <1>5
<1> HIDE DEF at, h
<1>8. ASSUME NEW x \in S PROVE h[x] = step[x][h]
  <2>1. \A y \in S : size[y] < size[x] => at[x][y] = h[y]
    BY <1>6, <1>7
  <2>2. step[x][at[x]] = step[x][h]
    BY <1>5, <1>7, <2>1
  <2>3. at[x][x] = step[x][at[x]]
    BY <1>5
  <2> QED
    BY <1>7, <2>2, <2>3
<1> QED
  BY <1>7, <1>8

-----------------------------------------------------------------------------
(* Texts. *)

LEMMA LenIs ==
  ASSUME NEW s \in Text
  PROVE  Len(s) \in Nat /\ DOMAIN s = 1 .. Len(s) /\ \A i \in 1 .. Len(s) : s[i] \in Char
BY DEF Text

LEMMA FromIs ==
  ASSUME NEW s \in Text, NEW i \in 1 .. Len(s) + 1
  PROVE  /\ From(s, i) \in Text
         /\ Len(From(s, i)) = Len(s) - i + 1
         /\ \A k \in 1 .. Len(s) - i + 1 : From(s, i)[k] = s[i + k - 1]
BY DEF From, Text

LEMMA FromOne ==
  ASSUME NEW s \in Text
  PROVE  From(s, 1) = s
BY SubSeqFull DEF From, Text

LEMMA FromFrom ==
  ASSUME NEW s \in Text, NEW i \in 1 .. Len(s) + 1, NEW j \in 1 .. Len(s) - i + 2
  PROVE  From(From(s, i), j) = From(s, i + j - 1)
<1>1. From(s, i) \in Text /\ j \in 1 .. Len(From(s, i)) + 1 /\ i + j - 1 \in 1 .. Len(s) + 1
  BY FromIs
<1> DEFINE m == i + j - 1
           t == From(s, i)
<1>2. m \in 1 .. Len(s) + 1 /\ t \in Text /\ j \in 1 .. Len(t) + 1 /\ Len(t) = Len(s) - i + 1 /\ Len(s) \in Nat
  BY <1>1, FromIs, LenIs
<1>3. \A k \in 1 .. Len(t) : t[k] = s[i + k - 1]
  BY FromIs
<1> HIDE DEF m, t
<1>4. /\ From(t, j) \in Text /\ Len(From(t, j)) = Len(t) - j + 1
      /\ \A k \in 1 .. Len(t) - j + 1 : From(t, j)[k] = t[j + k - 1]
  BY <1>2, FromIs
<1>5. /\ From(s, m) \in Text /\ Len(From(s, m)) = Len(s) - m + 1
      /\ \A k \in 1 .. Len(s) - m + 1 : From(s, m)[k] = s[m + k - 1]
  BY <1>2, FromIs
<1>6. Len(From(t, j)) = Len(From(s, m))
  BY <1>2, <1>4, <1>5 DEF m
<1>7. \A k \in 1 .. Len(From(t, j)) : From(t, j)[k] = From(s, m)[k]
  <2> TAKE k \in 1 .. Len(From(t, j))
  <2>1. /\ k \in 1 .. Len(t) - j + 1 /\ k \in 1 .. Len(s) - m + 1
        /\ j + k - 1 \in 1 .. Len(t) /\ i + (j + k - 1) - 1 = m + k - 1
    BY <1>2, <1>4, <1>5, <1>6 DEF m
  <2> QED
    BY <1>3, <1>4, <1>5, <2>1
<1>8. From(t, j) = From(s, m)
  BY <1>4, <1>5, <1>6, <1>7, SeqEqual DEF Text
<1> QED
  BY <1>8 DEF m, t

LEMMA TailIsFrom ==
  ASSUME NEW s \in Text, s # <<>>
  PROVE  /\ Tail(s) = From(s, 2) /\ Head(s) = s[1] /\ Len(s) \in Nat \ {0}
         /\ Tail(s) \in Text /\ Len(Tail(s)) = Len(s) - 1
BY DEF From, Text

\* Where a text has one or two characters, and whether it begins with them.
LEMMA PlacesOne ==
  ASSUME NEW s \in Text, NEW c \in Char
  PROVE  Places(s, <<c>>) = {i \in 1 .. Len(s) : s[i] = c}
<1>1. DOMAIN <<c>> = {1} /\ Len(<<c>>) = 1 /\ <<c>>[1] = c
  OBVIOUS
<1> QED
  BY <1>1 DEF Places, Text

LEMMA PlacesTwo ==
  ASSUME NEW s \in Text, NEW p, DOMAIN p = {1, 2}, Len(p) = 2
  PROVE  Places(s, p) = {i \in 1 .. Len(s) - 1 : s[i] = p[1] /\ s[i + 1] = p[2]}
<1>1. Len(s) - 2 + 1 = Len(s) - 1 /\ \A i \in 1 .. Len(s) - 1 : i + 1 - 1 = i /\ i + 2 - 1 = i + 1
  BY LenIs
<1> QED
  BY <1>1 DEF Places

LEMMA StartsOne ==
  ASSUME NEW s \in Text, NEW c \in Char
  PROVE  Starts(s, <<c>>) <=> Len(s) > 0 /\ s[1] = c
<1>1. Starts(s, <<c>>) <=> 1 \in {i \in 1 .. Len(s) : s[i] = c}
  BY PlacesOne DEF Starts
<1> QED
  BY <1>1, LenIs

LEMMA StartsTwo ==
  ASSUME NEW s \in Text, NEW p, DOMAIN p = {1, 2}, Len(p) = 2
  PROVE  Starts(s, p) <=> Len(s) > 1 /\ s[1] = p[1] /\ s[2] = p[2]
<1>1. Starts(s, p) <=> 1 \in {i \in 1 .. Len(s) - 1 : s[i] = p[1] /\ s[i + 1] = p[2]}
  BY PlacesTwo DEF Starts
<1> QED
  BY <1>1, LenIs

\* The first of the places, and what is before and behind it.
LEMMA FirstIs ==
  ASSUME NEW s \in Text, NEW p \in Text, p # <<>>, Has(s, p)
  PROVE  /\ First(s, p) \in Places(s, p)
         /\ \A j \in Places(s, p) : First(s, p) <= j
         /\ First(s, p) \in 1 .. Len(s) - Len(p) + 1
<1>1. Places(s, p) \in SUBSET (1 .. Len(s) - Len(p) + 1) /\ Places(s, p) # {}
  BY DEF Places, Has
<1>2. \E i \in Places(s, p) : \A j \in Places(s, p) : i <= j
  BY <1>1, Least
<1>3. First(s, p) \in Places(s, p) /\ \A j \in Places(s, p) : First(s, p) <= j
  BY <1>2 DEF First
<1> QED
  BY <1>3 DEF Places

LEMMA BehindIs ==
  ASSUME NEW s \in Text, NEW p \in Text, p # <<>>, Has(s, p)
  PROVE  /\ First(s, p) + Len(p) \in 2 .. Len(s) + 1
         /\ Behind(s, p) = From(s, First(s, p) + Len(p))
         /\ Behind(s, p) \in Text /\ Len(Behind(s, p)) = Len(s) - First(s, p) - Len(p) + 1
         /\ Len(Behind(s, p)) < Len(s)
         /\ Before(s, p) \in Text /\ Len(Before(s, p)) = First(s, p) - 1
         /\ \A k \in 1 .. First(s, p) - 1 : Before(s, p)[k] = s[k]
<1>1. Len(p) \in Nat \ {0} /\ First(s, p) \in 1 .. Len(s) - Len(p) + 1
  BY FirstIs DEF Text
<1>2. First(s, p) + Len(p) \in 2 .. Len(s) + 1
  BY <1>1 DEF Text
<1>3. Behind(s, p) = From(s, First(s, p) + Len(p))
  BY DEF Behind
<1>4. Behind(s, p) \in Text /\ Len(Behind(s, p)) = Len(s) - (First(s, p) + Len(p)) + 1
  BY <1>2, <1>3, FromIs
<1>5. /\ Before(s, p) \in Text /\ Len(Before(s, p)) = First(s, p) - 1
      /\ \A k \in 1 .. First(s, p) - 1 : Before(s, p)[k] = s[k]
  BY <1>1 DEF Before, Upto, Text
<1> QED
  BY <1>1, <1>2, <1>3, <1>4, <1>5 DEF Text

\* The characters of a class at the head of a text.
LEMMA RunIs ==
  ASSUME NEW s \in Text, NEW Class
  PROVE  /\ RunOf(s, Class) \in 0 .. Len(s)
         /\ \A i \in 1 .. RunOf(s, Class) : s[i] \in Class
         /\ RunOf(s, Class) < Len(s) => s[RunOf(s, Class) + 1] \notin Class
<1> DEFINE Others == {n \in 0 .. Len(s) : n < Len(s) => s[n + 1] \notin Class}
<1>1. Len(s) \in Nat
  BY DEF Text
<1>2. Others \in SUBSET Nat /\ Len(s) \in Others
  BY <1>1
<1>3. PICK n \in Others : \A m \in Others : n <= m
  BY <1>2, Least
<1>4. \A i \in 1 .. n : s[i] \in Class
  <2> SUFFICES ASSUME NEW i \in 1 .. n, s[i] \notin Class PROVE FALSE
    OBVIOUS
  <2>1. i - 1 \in 0 .. Len(s) /\ i - 1 + 1 = i /\ i - 1 < n /\ n \in 0 .. Len(s)
    BY <1>1
  <2>2. i - 1 \in Others
    BY <2>1
  <2> HIDE DEF Others
  <2> QED
    BY <1>3, <2>1, <2>2
<1>5. n \in 0 .. Len(s) /\ (\A i \in 1 .. n : s[i] \in Class) /\ (n < Len(s) => s[n + 1] \notin Class)
  BY <1>4
<1> QED
  BY <1>5 DEF RunOf

LEMMA LeftIs ==
  ASSUME NEW s \in Text, NEW n \in 0 .. Len(s)
  PROVE  \E i \in {n + 1, n + 2} : /\ i \in 1 .. Len(s) + 1 /\ Left(s, n) = From(s, i)
                                   /\ (i = n + 2 => s[n + 1] = "sp")
<1>1. CASE n < Len(s) /\ s[n + 1] = "sp"
  <2>1. n + 2 \in 1 .. Len(s) + 1 /\ Left(s, n) = From(s, n + 2)
    BY <1>1, LenIs DEF Left
  <2> QED
    BY <1>1, <2>1
<1>2. CASE ~ (n < Len(s) /\ s[n + 1] = "sp")
  <2>1. n + 1 \in 1 .. Len(s) + 1 /\ Left(s, n) = From(s, n + 1) /\ n + 1 # n + 2
    BY <1>2, LenIs DEF Left
  <2> QED
    BY <2>1
<1> QED
  BY <1>1, <1>2

-----------------------------------------------------------------------------
(* What is left of a text. *)

\* What a reader can leave of a text: its suffixes.
RestsOf(s) == {From(s, i) : i \in 1 .. Len(s) + 1}

LEMMA SuffixIs ==
  ASSUME NEW s \in Text, NEW t \in RestsOf(s)
  PROVE  t \in Text /\ Len(t) <= Len(s)
BY FromIs, LenIs DEF RestsOf

LEMMA SuffixItself ==
  ASSUME NEW s \in Text
  PROVE  s \in RestsOf(s)
<1>1. 1 \in 1 .. Len(s) + 1
  BY LenIs
<1> QED
  BY <1>1, FromOne DEF RestsOf

LEMMA SuffixOfSuffix ==
  ASSUME NEW s \in Text, NEW t \in RestsOf(s), NEW u \in RestsOf(t)
  PROVE  u \in RestsOf(s)
<1>1. PICK i \in 1 .. Len(s) + 1 : t = From(s, i)
  BY DEF RestsOf
<1>2. PICK j \in 1 .. Len(t) + 1 : u = From(t, j)
  BY DEF RestsOf
<1>3. j \in 1 .. Len(s) - i + 2 /\ i + j - 1 \in 1 .. Len(s) + 1
  BY <1>1, FromIs, LenIs
<1>4. u = From(s, i + j - 1)
  BY <1>1, <1>2, <1>3, FromFrom
<1> QED
  BY <1>3, <1>4 DEF RestsOf

LEMMA EmptySuffix ==
  ASSUME NEW s \in Text
  PROVE  <<>> \in RestsOf(s) /\ <<>> \in Text /\ Len(<<>>) = 0
<1>1. Len(s) + 1 \in 1 .. Len(s) + 1
  BY LenIs
<1>2. From(s, Len(s) + 1) = <<>>
  BY LenIs, SubSeqEmpty DEF From
<1> QED
  BY <1>1, <1>2, EmptySeq DEF RestsOf, Text

LEMMA TailSuffix ==
  ASSUME NEW s \in Text, s # <<>>
  PROVE  Tail(s) \in RestsOf(s) /\ Tail(s) \in Text /\ Len(Tail(s)) < Len(s)
<1>1. 2 \in 1 .. Len(s) + 1
  BY TailIsFrom
<1> QED
  BY <1>1, TailIsFrom DEF RestsOf

LEMMA FromSuffix ==
  ASSUME NEW s \in Text, NEW i \in 1 .. Len(s) + 1
  PROVE  From(s, i) \in RestsOf(s) /\ From(s, i) \in Text /\ Len(From(s, i)) = Len(s) - i + 1
BY FromIs DEF RestsOf

LEMMA BehindSuffix ==
  ASSUME NEW s \in Text, NEW p \in Text, p # <<>>, Has(s, p)
  PROVE  Behind(s, p) \in RestsOf(s) /\ Behind(s, p) \in Text /\ Len(Behind(s, p)) < Len(s)
<1>1. First(s, p) + Len(p) \in 1 .. Len(s) + 1
  BY BehindIs, LenIs
<1> QED
  BY <1>1, BehindIs DEF RestsOf

LEMMA Marks ==
  /\ \A c \in Char : <<c>> \in Text /\ <<c>> # <<>> /\ Len(<<c>>) = 1
  /\ \A c, d \in Char : <<c, d>> \in Text /\ <<c, d>> # <<>> /\ Len(<<c, d>>) = 2
BY DEF Text

LEMMA Chars ==
  /\ "/" \in Char /\ "*" \in Char /\ "-" \in Char /\ "'" \in Char /\ "nl" \in Char /\ "sp" \in Char
  /\ ":" \in Char /\ "?" \in Char /\ "$" \in Char /\ "dq" \in Char /\ "." \in Char /\ "," \in Char
BY DEF Char, Space, OperatorChars, PlusMinus, Narrow, Wide

LEMMA Delimiters ==
  /\ Opening \in Text /\ Opening # <<>> /\ Len(Opening) = 2
  /\ Closing \in Text /\ Closing # <<>> /\ Len(Closing) = 2
  /\ Dashes \in Text /\ Dashes # <<>> /\ Len(Dashes) = 2
  /\ Quote \in Text /\ Quote # <<>> /\ Len(Quote) = 1
  /\ Feed \in Text /\ Feed # <<>> /\ Len(Feed) = 1
  /\ DOMAIN Opening = {1, 2} /\ Opening[1] = "/" /\ Opening[2] = "*"
  /\ DOMAIN Closing = {1, 2} /\ Closing[1] = "*" /\ Closing[2] = "/"
  /\ DOMAIN Dashes = {1, 2} /\ Dashes[1] = "-" /\ Dashes[2] = "-"
<1>1. \A c, d \in Char : DOMAIN <<c, d>> = {1, 2} /\ <<c, d>>[1] = c /\ <<c, d>>[2] = d
  OBVIOUS
<1> QED
  BY <1>1, Chars, Marks DEF Opening, Closing, Dashes, Quote, Feed

LEMMA DelimiterPlaces ==
  ASSUME NEW s \in Text
  PROVE  /\ Places(s, Opening) = {i \in 1 .. Len(s) - 1 : s[i] = "/" /\ s[i + 1] = "*"}
         /\ Places(s, Closing) = {i \in 1 .. Len(s) - 1 : s[i] = "*" /\ s[i + 1] = "/"}
         /\ Places(s, Dashes) = {i \in 1 .. Len(s) - 1 : s[i] = "-" /\ s[i + 1] = "-"}
         /\ Places(s, Quote) = {i \in 1 .. Len(s) : s[i] = "'"}
         /\ Places(s, Feed) = {i \in 1 .. Len(s) : s[i] = "nl"}
<1>1. Places(s, Opening) = {i \in 1 .. Len(s) - 1 : s[i] = "/" /\ s[i + 1] = "*"}
  BY PlacesTwo, Delimiters
<1>2. Places(s, Closing) = {i \in 1 .. Len(s) - 1 : s[i] = "*" /\ s[i + 1] = "/"}
  BY PlacesTwo, Delimiters
<1>3. Places(s, Dashes) = {i \in 1 .. Len(s) - 1 : s[i] = "-" /\ s[i + 1] = "-"}
  BY PlacesTwo, Delimiters
<1>4. Places(s, Quote) = {i \in 1 .. Len(s) : s[i] = "'"}
  BY PlacesOne, Chars DEF Quote
<1>5. Places(s, Feed) = {i \in 1 .. Len(s) : s[i] = "nl"}
  BY PlacesOne, Chars DEF Feed
<1> QED
  BY <1>1, <1>2, <1>3, <1>4, <1>5

LEMMA DelimiterStarts ==
  ASSUME NEW s \in Text
  PROVE  /\ Starts(s, Opening) <=> Len(s) > 1 /\ s[1] = "/" /\ s[2] = "*"
         /\ Starts(s, Closing) <=> Len(s) > 1 /\ s[1] = "*" /\ s[2] = "/"
         /\ Starts(s, Dashes) <=> Len(s) > 1 /\ s[1] = "-" /\ s[2] = "-"
         /\ Starts(s, Quote) <=> Len(s) > 0 /\ s[1] = "'"
<1>1. Starts(s, Opening) <=> Len(s) > 1 /\ s[1] = "/" /\ s[2] = "*"
  BY StartsTwo, Delimiters
<1>2. Starts(s, Closing) <=> Len(s) > 1 /\ s[1] = "*" /\ s[2] = "/"
  BY StartsTwo, Delimiters
<1>3. Starts(s, Dashes) <=> Len(s) > 1 /\ s[1] = "-" /\ s[2] = "-"
  BY StartsTwo, Delimiters
<1>4. Starts(s, Quote) <=> Len(s) > 0 /\ s[1] = "'"
  BY StartsOne, Chars DEF Quote
<1> QED
  BY <1>1, <1>2, <1>3, <1>4

\* A comment begins within what is before the first end: its opening is in the
\* text, before that end.
LEMMA WithinIs ==
  ASSUME NEW s \in Text, Has(s, Closing)
  PROVE  /\ First(s, Closing) \in 1 .. Len(s) - 1
         /\ CommentWithin(Before(s, Closing)) <=> \E i \in Places(s, Opening) : i < First(s, Closing)
<1> DEFINE n == First(s, Closing)
           c == Before(s, Closing)
<1>1. /\ n \in 1 .. Len(s) - 1 /\ s[n] = "*" /\ s[n + 1] = "/"
  BY FirstIs, DelimiterPlaces, Delimiters
<1>2. c \in Text /\ Len(c) = n - 1 /\ \A k \in 1 .. n - 1 : c[k] = s[k]
  BY BehindIs, Delimiters
<1>3. Places(s, Opening) = {i \in 1 .. Len(s) - 1 : s[i] = "/" /\ s[i + 1] = "*"}
  BY DelimiterPlaces
<1>4. Places(c, Opening) = {i \in 1 .. Len(c) - 1 : c[i] = "/" /\ c[i + 1] = "*"}
  BY <1>2, DelimiterPlaces
<1>5. c # <<>> <=> n > 1
  BY <1>1, <1>2, EmptySeq DEF Text
<1>6. c # <<>> => Last(c) = s[n - 1]
  BY <1>1, <1>2, <1>5 DEF Last
<1> HIDE DEF n, c
<1>7. ASSUME CommentWithin(c) PROVE \E i \in Places(s, Opening) : i < n
  <2>1. CASE Has(c, Opening)
    <3>1. PICK i \in 1 .. Len(c) - 1 : c[i] = "/" /\ c[i + 1] = "*"
      BY <2>1, <1>4 DEF Has
    <3>2. i \in 1 .. Len(s) - 1 /\ s[i] = "/" /\ s[i + 1] = "*" /\ i < n
      BY <1>1, <1>2, <3>1, LenIs
    <3> QED
      BY <1>3, <3>2
  <2>2. CASE c # <<>> /\ Last(c) = "/"
    <3>1. n - 1 \in 1 .. Len(s) - 1 /\ s[n - 1] = "/" /\ s[n - 1 + 1] = "*" /\ n - 1 < n
      BY <1>1, <1>5, <1>6, <2>2, LenIs
    <3> QED
      BY <1>3, <3>1
  <2> QED
    BY <1>7, <2>1, <2>2 DEF CommentWithin
<1>8. ASSUME NEW i \in Places(s, Opening), i < n PROVE CommentWithin(c)
  <2>1. i \in 1 .. Len(s) - 1 /\ s[i] = "/" /\ s[i + 1] = "*"
    BY <1>3
  <2>2. CASE i = n - 1
    BY <1>1, <1>5, <1>6, <2>1, <2>2 DEF CommentWithin
  <2>3. CASE i # n - 1
    <3>1. i \in 1 .. Len(c) - 1 /\ c[i] = "/" /\ c[i + 1] = "*"
      BY <1>1, <1>2, <1>8, <2>1, <2>3, LenIs
    <3> QED
      BY <1>4, <3>1 DEF CommentWithin, Has
  <2> QED
    BY <2>2, <2>3
<1> QED
  BY <1>1, <1>7, <1>8 DEF n, c

\* Behind the opening that comes before the end.
LEMMA InnerComment ==
  ASSUME NEW s \in Text, Has(s, Closing), CommentWithin(Before(s, Closing))
  PROVE  Has(s, Opening) /\ Behind(s, Opening) \in RestsOf(s) /\ Behind(s, Opening) \in Text
         /\ Len(Behind(s, Opening)) < Len(s)
<1>1. Has(s, Opening)
  BY WithinIs DEF Has
<1> QED
  BY <1>1, BehindSuffix, Delimiters

LEMMA SkipMultiCommentUnfolds ==
  ASSUME NEW s \in Text
  PROVE  SkipMultiComment[s] =
           IF ~Has(s, Closing) THEN <<>>
           ELSE IF CommentWithin(Before(s, Closing)) THEN SkipMultiComment[SkipMultiComment[Behind(s, Opening)]]
           ELSE Behind(s, Closing)
<1> DEFINE Inner(t) == Has(t, Closing) /\ CommentWithin(Before(t, Closing))
           Outer(t) == IF ~Has(t, Closing) THEN <<>> ELSE Behind(t, Closing)
           Body(f, t) == IF ~Has(t, Closing) THEN <<>>
                         ELSE IF CommentWithin(Before(t, Closing)) THEN f[f[Behind(t, Opening)]]
                         ELSE Behind(t, Closing)
           size == [t \in Text |-> Len(t)]
           step == [t \in Text |-> [f \in [Text -> Text] |->
                     IF Inner(t)
                     THEN IF Len(f[Behind(t, Opening)]) < Len(t) THEN f[f[Behind(t, Opening)]] ELSE <<>>
                     ELSE Outer(t)]]
<1>1. \A t \in Text : Inner(t) => Behind(t, Opening) \in Text /\ Len(Behind(t, Opening)) < Len(t)
  BY InnerComment
<1>2. \A t \in Text : ~Inner(t) => Outer(t) \in Text /\ Len(Outer(t)) <= Len(t)
  <2> TAKE t \in Text
  <2>1. Has(t, Closing) => Behind(t, Closing) \in Text /\ Len(Behind(t, Closing)) < Len(t)
    BY BehindSuffix, Delimiters
  <2> QED
    BY <2>1, EmptySuffix, LenIs
<1>3. \A t \in Text : \A f : Body(f, t) = IF Inner(t) THEN f[f[Behind(t, Opening)]] ELSE Outer(t)
  OBVIOUS
<1>4. size \in [Text -> Nat] /\ <<>> \in Text
  BY LenIs, EmptySuffix
<1> HIDE DEF Inner, Outer
<1>5. step \in [Text -> [[Text -> Text] -> Text]]
  BY <1>1, <1>2, <1>4
<1>6. ASSUME NEW t \in Text, NEW f \in [Text -> Text], NEW g \in [Text -> Text],
             \A y \in Text : size[y] < size[t] => f[y] = g[y]
      PROVE  step[t][f] = step[t][g]
  <2>1. CASE Inner(t)
    <3>1. f[Behind(t, Opening)] = g[Behind(t, Opening)] /\ f[Behind(t, Opening)] \in Text
      BY <1>1, <1>6, <2>1
    <3>2. Len(f[Behind(t, Opening)]) < Len(t) => f[f[Behind(t, Opening)]] = g[f[Behind(t, Opening)]]
      BY <1>6, <3>1
    <3> QED
      BY <2>1, <3>1, <3>2
  <2>2. CASE ~Inner(t)
    BY <2>2
  <2> QED
    BY <2>1, <2>2
<1>7. \E g \in [Text -> Text] : \A t \in Text : g[t] = step[t][g]
  <2>1. \A t \in Text : \A f, g \in [Text -> Text] :
           (\A y \in Text : size[y] < size[t] => f[y] = g[y]) => step[t][f] = step[t][g]
    BY <1>6
  <2>2. Descends(Text, Text, size, step)
    <3> HIDE DEF size, step
    <3> QED
      BY <1>4, <1>5, <2>1 DEF Descends
  <2> HIDE DEF size, step
  <2> QED
    BY <2>2, Recursion
<1>8. PICK g \in [Text -> Text] : \A t \in Text : g[t] = step[t][g]
  BY <1>7
<1>9. \A t \in Text : g[t] = IF Inner(t)
                             THEN IF Len(g[Behind(t, Opening)]) < Len(t) THEN g[g[Behind(t, Opening)]] ELSE <<>>
                             ELSE Outer(t)
  BY <1>8
<1>10. \A t \in Text : Len(g[t]) <= Len(t)
  <2> DEFINE P == {t \in Text : Len(g[t]) <= Len(t)}
  <2>1. ASSUME NEW t \in Text, \A y \in Text : size[y] < size[t] => y \in P
        PROVE  t \in P
    <3>1. CASE Inner(t)
      <4>1. Len(g[Behind(t, Opening)]) < Len(t) /\ g[Behind(t, Opening)] \in Text
        BY <1>1, <2>1, <3>1, LenIs
      <4>2. Len(g[g[Behind(t, Opening)]]) <= Len(t)
        BY <2>1, <4>1, LenIs
      <4> QED
        BY <1>9, <3>1, <4>1, <4>2
    <3>2. CASE ~Inner(t)
      BY <1>2, <1>9, <3>2
    <3> QED
      BY <3>1, <3>2
  <2>2. \A t \in Text : t \in P
    <3> HIDE DEF P, size
    <3> QED
      BY <1>4, <2>1, Sizes
  <2> QED
    BY <2>2
<1>11. \A t \in Text : g[t] = IF Inner(t) THEN g[g[Behind(t, Opening)]] ELSE Outer(t)
  <2> TAKE t \in Text
  <2>1. Inner(t) => Len(g[Behind(t, Opening)]) < Len(t)
    BY <1>1, <1>10, LenIs
  <2> QED
    BY <1>9, <2>1
<1>12. g = [t \in Text |-> Body(g, t)]
  <2>1. \A t \in Text : g[t] = Body(g, t)
    <3> HIDE DEF Body
    <3> QED
      BY <1>3, <1>11
  <2> HIDE DEF Body
  <2> QED
    BY <2>1
<1>13. SkipMultiComment = CHOOSE f : f = [t \in Text |-> Body(f, t)]
  BY DEF SkipMultiComment
<1>14. SkipMultiComment = [t \in Text |-> Body(SkipMultiComment, t)]
  <2> HIDE DEF Body
  <2> QED
    BY <1>12, <1>13
<1>15. SkipMultiComment[s] = Body(SkipMultiComment, s)
  <2> HIDE DEF Body
  <2> QED
    BY <1>14
<1> QED
  BY <1>15

\* What is behind a comment is a suffix.
LEMMA SkipMultiCommentLeaves ==
  ASSUME NEW s \in Text
  PROVE  SkipMultiComment[s] \in RestsOf(s) /\ SkipMultiComment[s] \in Text /\ Len(SkipMultiComment[s]) <= Len(s)
<1> DEFINE P == {t \in Text : SkipMultiComment[t] \in RestsOf(t)}
           size == [t \in Text |-> Len(t)]
<1>1. ASSUME NEW t \in Text, \A y \in Text : size[y] < size[t] => y \in P
      PROVE  t \in P
  <2>1. CASE ~Has(t, Closing)
    BY <2>1, SkipMultiCommentUnfolds, EmptySuffix
  <2>2. CASE Has(t, Closing) /\ ~CommentWithin(Before(t, Closing))
    <3>1. SkipMultiComment[t] = Behind(t, Closing)
      BY <2>2, SkipMultiCommentUnfolds
    <3> QED
      BY <2>2, <3>1, BehindSuffix, Delimiters
  <2>3. CASE Has(t, Closing) /\ CommentWithin(Before(t, Closing))
    <3> DEFINE u == Behind(t, Opening)
               w == SkipMultiComment[u]
    <3>1. u \in RestsOf(t) /\ u \in Text /\ Len(u) < Len(t)
      BY <2>3, InnerComment
    <3>2. SkipMultiComment[t] = SkipMultiComment[w]
      BY <2>3, SkipMultiCommentUnfolds
    <3>3. w \in RestsOf(u)
      BY <1>1, <3>1
    <3> HIDE DEF u, w
    <3>4. w \in RestsOf(t) /\ w \in Text /\ Len(w) < Len(t)
      BY <3>1, <3>3, SuffixIs, SuffixOfSuffix, LenIs
    <3>5. SkipMultiComment[w] \in RestsOf(w)
      BY <1>1, <3>4
    <3> QED
      BY <3>2, <3>4, <3>5, SuffixOfSuffix
  <2> QED
    BY <2>1, <2>2, <2>3
<1>2. size \in [Text -> Nat]
  BY LenIs
<1>3. s \in P
  <2> HIDE DEF P, size
  <2> QED
    BY <1>1, <1>2, Sizes
<1> QED
  BY <1>3, SuffixIs

\* Where SkipSpaces goes on.
LEMMA SpaceAhead ==
  ASSUME NEW s \in Text
  PROVE  /\ s # <<>> /\ Head(s) \in Space => Tail(s) \in Text /\ Len(Tail(s)) < Len(s)
         /\ Has(s, Feed) => Behind(s, Feed) \in Text /\ Len(Behind(s, Feed)) < Len(s)
         /\ Starts(s, Opening) => /\ SkipMultiComment[From(s, 3)] \in Text
                                  /\ Len(SkipMultiComment[From(s, 3)]) < Len(s)
                                  /\ SkipMultiComment[From(s, 3)] \in RestsOf(s)
<1>1. Has(s, Feed) => Behind(s, Feed) \in Text /\ Len(Behind(s, Feed)) < Len(s)
  BY BehindSuffix, Delimiters
<1>2. ASSUME Starts(s, Opening)
      PROVE  /\ SkipMultiComment[From(s, 3)] \in Text /\ Len(SkipMultiComment[From(s, 3)]) < Len(s)
             /\ SkipMultiComment[From(s, 3)] \in RestsOf(s)
  <2>1. 3 \in 1 .. Len(s) + 1
    BY <1>2, DelimiterStarts, LenIs
  <2>2. From(s, 3) \in RestsOf(s) /\ From(s, 3) \in Text /\ Len(From(s, 3)) < Len(s)
    BY <2>1, FromSuffix, LenIs
  <2> QED
    BY <2>2, SkipMultiCommentLeaves, SuffixOfSuffix, LenIs
<1> QED
  BY <1>1, <1>2, TailSuffix


LEMMA SkipSpacesUnfolds ==
  ASSUME NEW s \in Text
  PROVE  SkipSpaces[s] =
           CASE s # <<>> /\ Head(s) \in Space -> SkipSpaces[Tail(s)]
             [] Starts(s, Dashes)             -> IF Has(s, Feed) THEN SkipSpaces[Behind(s, Feed)] ELSE <<>>
             [] Starts(s, Opening)            -> SkipSpaces[SkipMultiComment[From(s, 3)]]
             [] OTHER                         -> s
<1> DEFINE Body(f, t) ==
             CASE t # <<>> /\ Head(t) \in Space -> f[Tail(t)]
               [] Starts(t, Dashes)             -> IF Has(t, Feed) THEN f[Behind(t, Feed)] ELSE <<>>
               [] Starts(t, Opening)            -> f[SkipMultiComment[From(t, 3)]]
               [] OTHER                         -> t
           size == [t \in Text |-> Len(t)]
           step == [t \in Text |-> [f \in [Text -> Text] |-> Body(f, t)]]
<1>1. ASSUME NEW t \in Text, NEW f \in [Text -> Text]
      PROVE  Body(f, t) \in Text
  BY SpaceAhead, EmptySuffix
<1>2. ASSUME NEW t \in Text, NEW f \in [Text -> Text], NEW g \in [Text -> Text],
             \A y \in Text : Len(y) < Len(t) => f[y] = g[y]
      PROVE  Body(f, t) = Body(g, t)
  <2>1. t # <<>> /\ Head(t) \in Space => f[Tail(t)] = g[Tail(t)]
    BY <1>2, SpaceAhead
  <2>2. Has(t, Feed) => f[Behind(t, Feed)] = g[Behind(t, Feed)]
    BY <1>2, SpaceAhead
  <2>3. Starts(t, Opening) => f[SkipMultiComment[From(t, 3)]] = g[SkipMultiComment[From(t, 3)]]
    BY <1>2, SpaceAhead
  <2> QED
    BY <2>1, <2>2, <2>3
<1> HIDE DEF Body
<1>3. Descends(Text, Text, size, step)
  <2>1. size \in [Text -> Nat] /\ step \in [Text -> [[Text -> Text] -> Text]]
    BY <1>1, LenIs
  <2>2. ASSUME NEW t \in Text, NEW f \in [Text -> Text], NEW g \in [Text -> Text],
               \A y \in Text : size[y] < size[t] => f[y] = g[y]
        PROVE  step[t][f] = step[t][g]
    <3>1. \A y \in Text : Len(y) < Len(t) => f[y] = g[y]
      BY <2>2
    <3> QED
      BY <1>2, <3>1
  <2>3. Text # {}
    BY EmptySuffix
  <2> HIDE DEF size, step
  <2> QED
    BY <2>1, <2>2, <2>3 DEF Descends
<1>4. \E g \in [Text -> Text] : \A t \in Text : g[t] = step[t][g]
  <2> HIDE DEF size, step
  <2> QED
    BY <1>3, Recursion
<1>5. \E g : g = [t \in Text |-> Body(g, t)]
  BY <1>4
<1>6. SkipSpaces = CHOOSE f : f = [t \in Text |-> Body(f, t)]
  BY DEF SkipSpaces, Body
<1>7. SkipSpaces = [t \in Text |-> Body(SkipSpaces, t)]
  BY <1>5, <1>6
<1>8. SkipSpaces[s] = Body(SkipSpaces, s)
  BY <1>7
<1> QED
  BY <1>8 DEF Body

\* What SkipSpaces tells apart.
LEMMA SpacesApart ==
  ASSUME NEW t \in Text
  PROVE  /\ ~ (Starts(t, Dashes) /\ Starts(t, Opening))
         /\ t # <<>> /\ Head(t) \in Space => ~Starts(t, Dashes) /\ ~Starts(t, Opening)
BY DelimiterStarts, TailIsFrom DEF Space

\* SkipSpaces leaves a suffix, and that begins with no space and no comment.
LEMMA SkipSpacesLeaves ==
  ASSUME NEW s \in Text
  PROVE  /\ SkipSpaces[s] \in RestsOf(s) /\ SkipSpaces[s] \in Text /\ Len(SkipSpaces[s]) <= Len(s)
         /\ SkipSpaces[s] # <<>> => Head(SkipSpaces[s]) \notin Space
         /\ ~Starts(SkipSpaces[s], Dashes) /\ ~Starts(SkipSpaces[s], Opening)
<1> DEFINE Stops(t) == /\ t # <<>> => Head(t) \notin Space
                       /\ ~Starts(t, Dashes) /\ ~Starts(t, Opening)
           P == {t \in Text : SkipSpaces[t] \in RestsOf(t) /\ Stops(SkipSpaces[t])}
           size == [t \in Text |-> Len(t)]
<1>1. ASSUME NEW t \in Text, \A y \in Text : size[y] < size[t] => y \in P
      PROVE  t \in P
  <2>1. ASSUME NEW u \in RestsOf(t), u \in Text, Len(u) < Len(t), SkipSpaces[t] = SkipSpaces[u]
        PROVE  t \in P
    <3>1. u \in P
      BY <1>1, <2>1
    <3> QED
      BY <2>1, <3>1, SuffixOfSuffix
  <2>2. CASE t # <<>> /\ Head(t) \in Space
    <3>1. SkipSpaces[t] = SkipSpaces[Tail(t)]
      BY <2>2, SkipSpacesUnfolds, SpacesApart
    <3> QED
      BY <2>1, <2>2, <3>1, TailSuffix
  <2>3. CASE ~(t # <<>> /\ Head(t) \in Space) /\ Starts(t, Dashes) /\ Has(t, Feed)
    <3>1. SkipSpaces[t] = SkipSpaces[Behind(t, Feed)]
      BY <2>3, SkipSpacesUnfolds, SpacesApart
    <3> QED
      BY <2>1, <2>3, <3>1, BehindSuffix, Delimiters
  <2>4. CASE ~(t # <<>> /\ Head(t) \in Space) /\ Starts(t, Dashes) /\ ~Has(t, Feed)
    <3>1. SkipSpaces[t] = <<>>
      BY <2>4, SkipSpacesUnfolds, SpacesApart
    <3> QED
      BY <3>1, EmptySuffix, DelimiterStarts
  <2>5. CASE ~(t # <<>> /\ Head(t) \in Space) /\ ~Starts(t, Dashes) /\ Starts(t, Opening)
    <3>1. SkipSpaces[t] = SkipSpaces[SkipMultiComment[From(t, 3)]]
      BY <2>5, SkipSpacesUnfolds, SpacesApart
    <3> QED
      BY <2>1, <2>5, <3>1, SpaceAhead
  <2>6. CASE Stops(t)
    <3>1. SkipSpaces[t] = t
      BY <2>6, SkipSpacesUnfolds
    <3> QED
      BY <2>6, <3>1, SuffixItself
  <2> QED
    BY <2>2, <2>3, <2>4, <2>5, <2>6
<1>2. size \in [Text -> Nat]
  BY LenIs
<1>3. s \in P
  <2> HIDE DEF P, size
  <2> QED
    BY <1>1, <1>2, Sizes
<1> QED
  BY <1>3, SuffixIs


-----------------------------------------------------------------------------
(* Strings and numbers. *)

\* What a reader of them answers.
Answers(kinds) == [token : {Token(kind, <<>>) : kind \in kinds}, rest : Text]

StringAnswers == Answers({"string", "error"})

NumberAnswers == Answers({"number", "error"})

LEMMA AnswerIs ==
  /\ \A kind, r : Return(Token(kind, <<>>), r).rest = r /\ Return(Token(kind, <<>>), r).token.kind = kind
  /\ \A r : Error(r) = Return(Token("error", <<>>), r)
  /\ \A kinds, a : a \in Answers(kinds) => a.token.kind \in kinds /\ a.rest \in Text
  /\ \A kinds, kind : \A r \in Text : kind \in kinds => Return(Token(kind, <<>>), r) \in Answers(kinds)
BY DEF Return, Token, Error, Answers

\* Where a string goes on: behind the quote that ends it or a part of it.
LEMMA StringAhead ==
  ASSUME NEW s \in Text, Has(s, Quote), NEW after, NEW next, after = Behind(s, Quote), next = SkipSpaces[after]
  PROVE  /\ after \in Text /\ after \in RestsOf(s) /\ Len(after) < Len(s)
         /\ next \in Text /\ next \in RestsOf(s) /\ Len(next) < Len(s)
         /\ Starts(after, Quote) => after # <<>> /\ Tail(after) \in RestsOf(s) /\ Tail(after) \in Text /\ Len(Tail(after)) < Len(s)
         /\ Starts(next, Quote) => next # <<>> /\ Tail(next) \in RestsOf(s) /\ Tail(next) \in Text /\ Len(Tail(next)) < Len(s)
<1>1. after \in Text /\ after \in RestsOf(s) /\ Len(after) < Len(s)
  BY BehindSuffix, Delimiters
<1>2. next \in Text /\ next \in RestsOf(s) /\ Len(next) < Len(s)
  BY <1>1, SkipSpacesLeaves, SuffixOfSuffix, LenIs
<1>3. ASSUME NEW t \in RestsOf(s), t \in Text, Len(t) < Len(s), Starts(t, Quote)
      PROVE  t # <<>> /\ Tail(t) \in RestsOf(s) /\ Tail(t) \in Text /\ Len(Tail(t)) < Len(s)
  <2>1. t # <<>>
    BY <1>3, DelimiterStarts, EmptySuffix
  <2> QED
    BY <1>3, <2>1, TailSuffix, SuffixOfSuffix, LenIs
<1> QED
  BY <1>1, <1>2, <1>3


LEMMA ReadSingleQuotedStringUnfolds ==
  ASSUME NEW s \in Text
  PROVE  ReadSingleQuotedString[s] =
           IF ~Has(s, Quote) THEN Error(s)
           ELSE LET after == Behind(s, Quote)
                    next  == SkipSpaces[after]
                    Continued(r) == IF r.token.kind = "error" THEN Error(s) ELSE r
                IN CASE Starts(after, Quote)                          -> Continued(ReadSingleQuotedString[Tail(after)])
                     [] ~Starts(after, Quote) /\ Starts(next, Quote) -> Continued(ReadSingleQuotedString[Tail(next)])
                     [] OTHER                                         -> Return(Token("string", <<>>), next)
<1> DEFINE Body(f, t) ==
             IF ~Has(t, Quote) THEN Error(t)
             ELSE LET after == Behind(t, Quote)
                      next  == SkipSpaces[after]
                      Continued(r) == IF r.token.kind = "error" THEN Error(t) ELSE r
                  IN CASE Starts(after, Quote)                          -> Continued(f[Tail(after)])
                       [] ~Starts(after, Quote) /\ Starts(next, Quote) -> Continued(f[Tail(next)])
                       [] OTHER                                         -> Return(Token("string", <<>>), next)
           size == [t \in Text |-> Len(t)]
           step == [t \in Text |-> [f \in [Text -> StringAnswers] |-> Body(f, t)]]
<1>1. ASSUME NEW t \in Text, NEW f \in [Text -> StringAnswers]
      PROVE  Body(f, t) \in StringAnswers
  <2>1. Error(t) \in StringAnswers
    BY AnswerIs DEF StringAnswers
  <2>2. CASE ~Has(t, Quote)
    BY <2>1, <2>2
  <2>3. CASE Has(t, Quote)
    <3> DEFINE after == Behind(t, Quote)
               next  == SkipSpaces[after]
    <3>1. /\ next \in Text
          /\ Starts(after, Quote) => f[Tail(after)] \in StringAnswers
          /\ Starts(next, Quote) => f[Tail(next)] \in StringAnswers
      BY <1>1, <2>3, StringAhead
    <3>2. Return(Token("string", <<>>), next) \in StringAnswers
      BY <3>1, AnswerIs DEF StringAnswers
    <3> QED
      BY <2>1, <2>3, <3>1, <3>2
  <2> QED
    BY <2>2, <2>3
<1>2. ASSUME NEW t \in Text, NEW f \in [Text -> StringAnswers], NEW g \in [Text -> StringAnswers],
             \A y \in Text : Len(y) < Len(t) => f[y] = g[y]
      PROVE  Body(f, t) = Body(g, t)
  <2>2. CASE ~Has(t, Quote)
    BY <2>2
  <2>3. CASE Has(t, Quote)
    <3> DEFINE after == Behind(t, Quote)
               next  == SkipSpaces[after]
    <3>1. /\ Starts(after, Quote) => f[Tail(after)] = g[Tail(after)]
          /\ Starts(next, Quote) => f[Tail(next)] = g[Tail(next)]
      BY <1>2, <2>3, StringAhead
    <3> QED
      BY <2>3, <3>1
  <2> QED
    BY <2>2, <2>3
<1> HIDE DEF Body
<1>3. Descends(Text, StringAnswers, size, step)
  <2>1. size \in [Text -> Nat] /\ step \in [Text -> [[Text -> StringAnswers] -> StringAnswers]]
    BY <1>1, LenIs
  <2>2. ASSUME NEW t \in Text, NEW f \in [Text -> StringAnswers], NEW g \in [Text -> StringAnswers],
               \A y \in Text : size[y] < size[t] => f[y] = g[y]
        PROVE  step[t][f] = step[t][g]
    <3>1. \A y \in Text : Len(y) < Len(t) => f[y] = g[y]
      BY <2>2
    <3> QED
      BY <1>2, <3>1
  <2>3. StringAnswers # {}
    BY AnswerIs, EmptySuffix DEF StringAnswers
  <2> HIDE DEF size, step
  <2> QED
    BY <2>1, <2>2, <2>3 DEF Descends
<1>4. \E g \in [Text -> StringAnswers] : \A t \in Text : g[t] = step[t][g]
  <2> HIDE DEF size, step
  <2> QED
    BY <1>3, Recursion
<1>5. \E g : g = [t \in Text |-> Body(g, t)]
  BY <1>4
<1>6. ReadSingleQuotedString = CHOOSE f : f = [t \in Text |-> Body(f, t)]
  BY DEF ReadSingleQuotedString, Body
<1>7. ReadSingleQuotedString = [t \in Text |-> Body(ReadSingleQuotedString, t)]
  BY <1>5, <1>6
<1>8. ReadSingleQuotedString[s] = Body(ReadSingleQuotedString, s)
  BY <1>7
<1> QED
  BY <1>8 DEF Body


\* The reader that a number goes on with, behind a character.
LEMMA NextReader ==
  ASSUME NEW t \in Text, NEW state \in Reader, NEW next,
         next = IF t # <<>> THEN NumberStep(state, Head(t))
                ELSE IF state \in {"expstart", "expsign"} THEN "error" ELSE "end",
         next \notin {"end", "error"}
  PROVE  t # <<>> /\ next \in Reader /\ Tail(t) \in Text
BY TailSuffix DEF NumberStep, Reader

LEMMA ReadNumberUnfolds ==
  ASSUME NEW s \in Text
  PROVE  ReadNumber[s] =
           [state \in Reader |->
              LET next == IF s # <<>> THEN NumberStep(state, Head(s))
                          ELSE IF state \in {"expstart", "expsign"} THEN "error" ELSE "end"
              IN CASE next = "end"   -> Return(Token("number", <<>>), s)
                   [] next = "error" -> Error(s)
                   [] OTHER          -> ReadNumber[Tail(s)][next]]
<1> DEFINE Body(f, t) ==
             [state \in Reader |->
                LET next == IF t # <<>> THEN NumberStep(state, Head(t))
                            ELSE IF state \in {"expstart", "expsign"} THEN "error" ELSE "end"
                IN CASE next = "end"   -> Return(Token("number", <<>>), t)
                     [] next = "error" -> Error(t)
                     [] OTHER          -> f[Tail(t)][next]]
           size == [t \in Text |-> Len(t)]
           step == [t \in Text |-> [f \in [Text -> [Reader -> NumberAnswers]] |-> Body(f, t)]]
<1>1. ASSUME NEW t \in Text, NEW f \in [Text -> [Reader -> NumberAnswers]]
      PROVE  Body(f, t) \in [Reader -> NumberAnswers]
  <2> DEFINE Next1(state) == IF t # <<>> THEN NumberStep(state, Head(t))
                             ELSE IF state \in {"expstart", "expsign"} THEN "error" ELSE "end"
  <2>1. Return(Token("number", <<>>), t) \in NumberAnswers /\ Error(t) \in NumberAnswers
    BY AnswerIs DEF NumberAnswers
  <2>2. \A state \in Reader : Next1(state) \notin {"end", "error"} => f[Tail(t)][Next1(state)] \in NumberAnswers
    BY <1>1, NextReader
  <2> QED
    BY <2>1, <2>2
<1>2. ASSUME NEW t \in Text, NEW f \in [Text -> [Reader -> NumberAnswers]], NEW g \in [Text -> [Reader -> NumberAnswers]],
             \A y \in Text : Len(y) < Len(t) => f[y] = g[y]
      PROVE  Body(f, t) = Body(g, t)
  <2>1. \A state \in Reader : t # <<>> => f[Tail(t)] = g[Tail(t)]
    BY <1>2, TailSuffix
  <2> QED
    BY <2>1
<1> HIDE DEF Body
<1>3. Descends(Text, [Reader -> NumberAnswers], size, step)
  <2>1. size \in [Text -> Nat] /\ step \in [Text -> [[Text -> [Reader -> NumberAnswers]] -> [Reader -> NumberAnswers]]]
    BY <1>1, LenIs
  <2>2. ASSUME NEW t \in Text, NEW f \in [Text -> [Reader -> NumberAnswers]], NEW g \in [Text -> [Reader -> NumberAnswers]],
               \A y \in Text : size[y] < size[t] => f[y] = g[y]
        PROVE  step[t][f] = step[t][g]
    <3>1. \A y \in Text : Len(y) < Len(t) => f[y] = g[y]
      BY <2>2
    <3> QED
      BY <1>2, <3>1
  <2>3. [Reader -> NumberAnswers] # {}
    <3>1. Return(Token("number", <<>>), <<>>) \in NumberAnswers
      BY AnswerIs, EmptySuffix DEF NumberAnswers
    <3>2. [state \in Reader |-> Return(Token("number", <<>>), <<>>)] \in [Reader -> NumberAnswers]
      BY <3>1
    <3> QED
      BY <3>2
  <2> HIDE DEF size, step
  <2> QED
    BY <2>1, <2>2, <2>3 DEF Descends
<1>4. \E g \in [Text -> [Reader -> NumberAnswers]] : \A t \in Text : g[t] = step[t][g]
  <2> HIDE DEF size, step
  <2> QED
    BY <1>3, Recursion
<1>5. \E g : g = [t \in Text |-> Body(g, t)]
  BY <1>4
<1>6. ReadNumber = CHOOSE f : f = [t \in Text |-> Body(f, t)]
  BY DEF ReadNumber, Body
<1>7. ReadNumber = [t \in Text |-> Body(ReadNumber, t)]
  BY <1>5, <1>6
<1>8. ReadNumber[s] = Body(ReadNumber, s)
  BY <1>7
<1> QED
  BY <1>8 DEF Body

\* A string ends behind its quotes; what is no string leaves a suffix too.
LEMMA StringLeaves ==
  ASSUME NEW s \in Text
  PROVE  /\ ReadSingleQuotedString[s].token.kind \in {"string", "error"}
         /\ ReadSingleQuotedString[s].rest \in RestsOf(s)
         /\ ReadSingleQuotedString[s].token.kind = "string" => Len(ReadSingleQuotedString[s].rest) < Len(s)
<1> DEFINE Good(t, a) == /\ a.token.kind \in {"string", "error"} /\ a.rest \in RestsOf(t)
                         /\ a.token.kind = "string" => Len(a.rest) < Len(t)
           P == {t \in Text : Good(t, ReadSingleQuotedString[t])}
           size == [t \in Text |-> Len(t)]
<1>1. ASSUME NEW t \in Text, \A y \in Text : size[y] < size[t] => y \in P
      PROVE  t \in P
  <2> DEFINE after == Behind(t, Quote)
             next  == SkipSpaces[after]
             Continued(r) == IF r.token.kind = "error" THEN Error(t) ELSE r
  <2>1. Good(t, Error(t))
    BY AnswerIs, SuffixItself
  <2>2. ASSUME NEW u \in RestsOf(t), u \in Text, Len(u) < Len(t)
        PROVE  Good(t, Continued(ReadSingleQuotedString[u]))
    <3>1. Good(u, ReadSingleQuotedString[u])
      BY <1>1, <2>2
    <3>2. ReadSingleQuotedString[u].rest \in RestsOf(t)
      BY <2>2, <3>1, SuffixOfSuffix
    <3>3. Len(ReadSingleQuotedString[u].rest) <= Len(u)
      BY <2>2, <3>1, SuffixIs
    <3>4. Len(ReadSingleQuotedString[u].rest) < Len(t)
      BY <2>2, <3>2, <3>3, SuffixIs, LenIs
    <3> QED
      BY <2>1, <3>1, <3>2, <3>4
  <2>3. CASE ~Has(t, Quote)
    BY <2>1, <2>3, ReadSingleQuotedStringUnfolds
  <2>4. CASE Has(t, Quote) /\ Starts(after, Quote)
    <3>1. ReadSingleQuotedString[t] = Continued(ReadSingleQuotedString[Tail(after)])
      BY <2>4, ReadSingleQuotedStringUnfolds
    <3>2. Good(t, Continued(ReadSingleQuotedString[Tail(after)]))
      <4> HIDE DEF Good, Continued
      <4> QED
        BY <2>2, <2>4, StringAhead
    <3> HIDE DEF Good, Continued
    <3> QED
      BY <3>1, <3>2
  <2>5. CASE Has(t, Quote) /\ ~Starts(after, Quote) /\ Starts(next, Quote)
    <3>1. ReadSingleQuotedString[t] = Continued(ReadSingleQuotedString[Tail(next)])
      BY <2>5, ReadSingleQuotedStringUnfolds
    <3>2. Good(t, Continued(ReadSingleQuotedString[Tail(next)]))
      <4> HIDE DEF Good, Continued
      <4> QED
        BY <2>2, <2>5, StringAhead
    <3> HIDE DEF Good, Continued
    <3> QED
      BY <3>1, <3>2
  <2>6. CASE Has(t, Quote) /\ ~Starts(after, Quote) /\ ~Starts(next, Quote)
    <3>1. ReadSingleQuotedString[t] = Return(Token("string", <<>>), next)
      BY <2>6, ReadSingleQuotedStringUnfolds
    <3> QED
      BY <2>6, <3>1, StringAhead, AnswerIs
  <2> QED
    BY <2>3, <2>4, <2>5, <2>6
<1>2. size \in [Text -> Nat]
  BY LenIs
<1>3. s \in P
  <2> HIDE DEF P, size
  <2> QED
    BY <1>1, <1>2, Sizes
<1> QED
  BY <1>3

\* So does a number, in each state of its reader.
LEMMA NumberLeaves ==
  ASSUME NEW s \in Text, NEW state \in Reader
  PROVE  /\ ReadNumber[s][state].token.kind \in {"number", "error"}
         /\ ReadNumber[s][state].rest \in RestsOf(s)
<1> DEFINE Good(t, a) == a.token.kind \in {"number", "error"} /\ a.rest \in RestsOf(t)
           P == {t \in Text : \A st \in Reader : Good(t, ReadNumber[t][st])}
           size == [t \in Text |-> Len(t)]
<1>1. ASSUME NEW t \in Text, \A y \in Text : size[y] < size[t] => y \in P
      PROVE  t \in P
  <2> SUFFICES ASSUME NEW st \in Reader PROVE Good(t, ReadNumber[t][st])
    OBVIOUS
  <2> DEFINE Next1(r) == IF t # <<>> THEN NumberStep(r, Head(t))
                         ELSE IF r \in {"expstart", "expsign"} THEN "error" ELSE "end"
             Value(r) == CASE Next1(r) = "end"   -> Return(Token("number", <<>>), t)
                           [] Next1(r) = "error" -> Error(t)
                           [] OTHER              -> ReadNumber[Tail(t)][Next1(r)]
             next == Next1(st)
  <2>1. ReadNumber[t][st] = Value(st)
    <3>1. ReadNumber[t] = [r \in Reader |-> Value(r)]
      BY ReadNumberUnfolds
    <3> HIDE DEF Value
    <3> QED
      BY <3>1
  <2>2. CASE next = "end"
    BY <2>1, <2>2, AnswerIs, SuffixItself
  <2>3. CASE next = "error"
    BY <2>1, <2>3, AnswerIs, SuffixItself
  <2>4. CASE next \notin {"end", "error"}
    <3>1. t # <<>> /\ next \in Reader /\ Tail(t) \in Text
      BY <2>4, NextReader
    <3>2. ReadNumber[t][st] = ReadNumber[Tail(t)][next]
      BY <2>1, <2>4
    <3> HIDE DEF next
    <3>3. Good(Tail(t), ReadNumber[Tail(t)][next])
      BY <1>1, <3>1, TailSuffix
    <3> QED
      BY <3>1, <3>2, <3>3, TailSuffix, SuffixOfSuffix
  <2> QED
    BY <2>2, <2>3, <2>4
<1>2. size \in [Text -> Nat]
  BY LenIs
<1>3. s \in P
  <2> HIDE DEF P, size
  <2> QED
    BY <1>1, <1>2, Sizes
<1> QED
  BY <1>3

-----------------------------------------------------------------------------
(* Tokens. *)

Kinds == {"word", "string", "number", "key", "param", "indexed_param", "eot", "error"}

\* A good answer for a text leaves a suffix of it, a smaller one when a token
\* was read, and nothing at the end.
Good(s, r) ==
  /\ r.rest \in RestsOf(s)
  /\ r.token.kind \in Kinds
  /\ r.token.kind \notin {"eot", "error"} => Len(r.rest) < Len(s)
  /\ r.token.kind = "param" => r.token.text \in Seq(TokenChar)
  /\ r.token.kind = "eot" => r.rest = <<>>

LEMMA GoodError ==
  ASSUME NEW s \in Text, NEW t \in RestsOf(s)
  PROVE  Good(s, Error(t))
BY DEF Good, Error, Return, Token, Kinds

LEMMA GoodReturn ==
  ASSUME NEW s \in Text, NEW t \in RestsOf(s), Len(t) < Len(s), NEW kind \in Kinds \ {"param", "eot"}, NEW text
  PROVE  Good(s, Return(Token(kind, text), t))
BY DEF Good, Return, Token

LEMMA GoodFrom ==
  ASSUME NEW s \in Text, NEW i \in 2 .. Len(s) + 1, NEW kind \in Kinds \ {"param", "eot"}, NEW text
  PROVE  Good(s, Return(Token(kind, text), From(s, i)))
<1>1. i \in 1 .. Len(s) + 1
  BY LenIs
<1>2. From(s, i) \in RestsOf(s) /\ Len(From(s, i)) < Len(s)
  BY <1>1, FromSuffix, LenIs
<1> QED
  BY <1>2, GoodReturn

\* A suffix of a smaller suffix.
LEMMA Smaller ==
  ASSUME NEW s \in Text, NEW t \in RestsOf(s), Len(t) < Len(s), NEW u \in RestsOf(t)
  PROVE  u \in RestsOf(s) /\ Len(u) < Len(s) /\ u \in Text
BY SuffixIs, SuffixOfSuffix, LenIs

\* An operator has at least a character, and all of them are operator ones.
LEMMA OperatorIs ==
  ASSUME NEW s \in Text, s # <<>>, Head(s) \in OperatorChars
  PROVE  /\ OperatorLength(s) \in 1 .. Len(s)
         /\ \A i \in 1 .. OperatorLength(s) : s[i] \in OperatorChars
<1> DEFINE n    == RunOf(s, OperatorChars)
           core == {i \in 1 .. n : s[i] \in Narrow}
<1>1. /\ n \in 0 .. Len(s) /\ (\A i \in 1 .. n : s[i] \in OperatorChars)
      /\ n < Len(s) => s[n + 1] \notin OperatorChars
  BY RunIs
<1>2. s[1] \in OperatorChars /\ Len(s) \in Nat \ {0}
  BY TailIsFrom
<1>3. n \in 1 .. Len(s)
  BY <1>1, <1>2
<1>4. core # {} => (CHOOSE i \in core : \A j \in core : j <= i) \in 1 .. n
  <2> SUFFICES ASSUME core # {} PROVE (CHOOSE i \in core : \A j \in core : j <= i) \in 1 .. n
    OBVIOUS
  <2> DEFINE T == {m \in 0 .. n : n - m \in core}
  <2>1. T \in SUBSET Nat /\ T # {}
    <3>1. PICK i \in core : TRUE
      OBVIOUS
    <3>2. n - i \in 0 .. n /\ n - (n - i) = i
      BY <1>3
    <3> QED
      BY <3>1, <3>2
  <2>2. PICK m \in T : \A k \in T : m <= k
    BY <2>1, Least
  <2>3. n - m \in core /\ \A j \in core : j <= n - m
    <3>1. \A j \in core : n - j \in 0 .. n /\ n - (n - j) = j
      BY <1>3
    <3>2. \A j \in core : n - j \in T
      BY <3>1
    <3> HIDE DEF core
    <3> QED
      BY <1>3, <2>2, <3>1, <3>2
  <2>4. \E i \in core : \A j \in core : j <= i
    BY <2>3
  <2> QED
    BY <2>4
<1>5. OperatorLength(s) \in 1 .. n
  <2>1. OperatorLength(s) = IF \E i \in 1 .. n : s[i] \in Wide THEN n
                            ELSE IF core # {} THEN CHOOSE i \in core : \A j \in core : j <= i
                            ELSE 1
    BY DEF OperatorLength
  <2> HIDE DEF n, core
  <2>2. CASE \E i \in 1 .. n : s[i] \in Wide
    BY <2>1, <2>2, <1>3
  <2>3. CASE ~(\E i \in 1 .. n : s[i] \in Wide) /\ core # {}
    BY <2>1, <2>3, <1>4
  <2>4. CASE ~(\E i \in 1 .. n : s[i] \in Wide) /\ core = {}
    BY <2>1, <2>4, <1>3
  <2> QED
    BY <2>2, <2>3, <2>4
<1> QED
  BY <1>1, <1>3, <1>5

LEMMA UptoIs ==
  ASSUME NEW s \in Text, NEW n \in 0 .. Len(s)
  PROVE  Upto(s, n) \in Text /\ Len(Upto(s, n)) = n /\ \A k \in 1 .. n : Upto(s, n)[k] = s[k]
BY LenIs DEF Upto, Text

LEMMA LeftIsGood ==
  ASSUME NEW s \in Text, NEW n \in 1 .. Len(s), NEW kind \in Kinds \ {"param", "eot"}, NEW text
  PROVE  Good(s, Return(Token(kind, text), Left(s, n)))
<1>1. PICK i \in {n + 1, n + 2} : i \in 1 .. Len(s) + 1 /\ Left(s, n) = From(s, i)
  BY LeftIs, LenIs
<1>2. i \in 2 .. Len(s) + 1
  BY <1>1, LenIs
<1> QED
  BY <1>1, <1>2, GoodFrom

LEMMA OperatorIsGood ==
  ASSUME NEW s \in Text, s # <<>>, Head(s) \in OperatorChars, ~Starts(s, Dashes), ~Starts(s, Opening)
  PROVE  Good(s, ReadOperator(s))
<1> DEFINE n == OperatorLength(s)
           word == Upto(s, n)
<1>1. n \in 1 .. Len(s) /\ Len(s) \in Nat
  BY OperatorIs, LenIs
<1>2. word \in Text /\ Len(word) = n /\ \A k \in 1 .. n : word[k] = s[k]
  BY <1>1, UptoIs
<1>3. "key" \in Kinds \ {"param", "eot"}
  BY DEF Kinds
<1>4. ASSUME NEW p \in {Dashes, Opening}, Has(word, p)
      PROVE  Good(s, Return(Key(Before(word, p)), From(s, First(word, p))))
  <2>1. p \in Text /\ p # <<>> /\ Len(p) = 2
    BY Delimiters
  <2>2. First(word, p) \in Places(word, p) /\ First(word, p) \in 1 .. n - 1
    <3> HIDE DEF word
    <3>1. First(word, p) \in Places(word, p) /\ First(word, p) \in 1 .. Len(word) - Len(p) + 1
      BY <1>2, <1>4, <2>1, FirstIs
    <3> QED
      BY <1>1, <1>2, <2>1, <3>1
  <2>3. First(word, p) # 1
    <3> HIDE DEF word, n
    <3>1. SUFFICES ASSUME 1 \in Places(word, p), 1 \in 1 .. n - 1 PROVE FALSE
      BY <2>2
    <3>2. n > 1 /\ word[1] = s[1] /\ word[2] = s[2] /\ Len(s) > 1
      BY <1>1, <1>2, <3>1
    <3>3. CASE p = Dashes
      <4>1. word[1] = "-" /\ word[1 + 1] = "-"
        BY <1>2, <3>1, <3>3, DelimiterPlaces
      <4>2. Len(s) > 1 /\ s[1] = "-" /\ s[2] = "-"
        BY <3>2, <4>1
      <4>3. Starts(s, Dashes)
        BY <4>2, DelimiterStarts
      <4> QED
        BY <4>3
    <3>4. CASE p = Opening
      <4>1. word[1] = "/" /\ word[1 + 1] = "*"
        BY <1>2, <3>1, <3>4, DelimiterPlaces
      <4>2. Len(s) > 1 /\ s[1] = "/" /\ s[2] = "*"
        BY <3>2, <4>1
      <4>3. Starts(s, Opening)
        BY <4>2, DelimiterStarts
      <4> QED
        BY <4>3
    <3> QED
      BY <3>3, <3>4
  <2>4. First(word, p) \in 2 .. Len(s) + 1
    BY <1>1, <2>2, <2>3
  <2> QED
    BY <1>3, <2>4, GoodFrom DEF Key
<1>5. Good(s, Return(Key(word), Left(s, Len(word))))
  BY <1>1, <1>2, <1>3, LeftIsGood DEF Key
<1>6. ReadOperator(s) = CASE Has(word, Dashes) -> Return(Key(Before(word, Dashes)), From(s, First(word, Dashes)))
                          [] ~Has(word, Dashes) /\ Has(word, Opening) ->
                               Return(Key(Before(word, Opening)), From(s, First(word, Opening)))
                          [] OTHER -> Return(Key(word), Left(s, Len(word)))
  BY DEF ReadOperator
<1> QED
  BY <1>4, <1>5, <1>6

LEMMA DollarStringIsGood ==
  ASSUME NEW s \in Text, Len(s) > 1, NEW t, t = Tail(s)
  PROVE  Good(s, ReadDollarString(t))
<1>0. s # <<>>
  BY EmptySuffix
<1>1. t \in RestsOf(s) /\ t \in Text /\ Len(t) < Len(s) /\ t # <<>> /\ Len(s) \in Nat
  <2>1. t \in RestsOf(s) /\ t \in Text /\ Len(t) < Len(s) /\ Len(s) \in Nat /\ Len(t) = Len(s) - 1
    BY <1>0, TailSuffix, TailIsFrom, LenIs
  <2>2. Len(t) > 0
    BY <2>1
  <2>3. t # <<>>
    BY <2>2
  <2> QED
    BY <2>1, <2>3
<1>2. "string" \in Kinds \ {"param", "eot"} /\ "$" \in Char
  BY Chars DEF Kinds
<1>3. Tail(t) \in RestsOf(s) /\ Tail(t) \in Text /\ Len(Tail(t)) < Len(s)
  BY <1>1, TailSuffix, Smaller
<1>4. ASSUME NEW u \in RestsOf(s), u \in Text, Len(u) < Len(s), NEW tag \in Text, tag # <<>>
      PROVE  Good(s, IF Has(u, tag) THEN Return(Token("string", <<>>), Behind(u, tag)) ELSE Error(t))
  <2>1. CASE Has(u, tag)
    <3>1. Behind(u, tag) \in RestsOf(u) /\ Len(Behind(u, tag)) < Len(s)
      BY <1>4, <2>1, BehindSuffix, Smaller
    <3>2. Behind(u, tag) \in RestsOf(s)
      BY <1>4, <3>1, SuffixOfSuffix
    <3> QED
      BY <1>2, <2>1, <3>1, <3>2, GoodReturn
  <2>2. CASE ~Has(u, tag)
    BY <1>1, <2>2, GoodError
  <2> QED
    BY <2>1, <2>2
<1>5. CASE Head(t) = "$"
  <2>1. <<"$", "$">> \in Text /\ <<"$", "$">> # <<>>
    BY <1>2 DEF Text
  <2>2. ReadDollarString(t) = IF Has(Tail(t), <<"$", "$">>) THEN Return(Token("string", <<>>), Behind(Tail(t), <<"$", "$">>)) ELSE Error(t)
    BY <1>5 DEF ReadDollarString
  <2> QED
    BY <1>3, <1>4, <2>1, <2>2
<1>6. CASE Head(t) # "$" /\ ~Has(Tail(t), <<"$">>)
  <2>1. ReadDollarString(t) = Error(t)
    BY <1>6 DEF ReadDollarString
  <2> QED
    BY <1>1, <2>1, GoodError
<1>7. CASE Head(t) # "$" /\ Has(Tail(t), <<"$">>)
  <2> DEFINE tag == Before(t, <<"$">>)
             whole == <<"$">> \o tag \o <<"$">>
  <2>1. <<"$">> \in Text /\ <<"$">> # <<>> /\ Len(<<"$">>) = 1
    BY <1>2 DEF Text
  <2>2. Has(t, <<"$">>)
    <3>0. /\ Places(Tail(t), <<"$">>) = {i \in 1 .. Len(Tail(t)) : Tail(t)[i] = "$"}
          /\ Places(t, <<"$">>) = {i \in 1 .. Len(t) : t[i] = "$"}
      BY <1>1, <1>2, <1>3, PlacesOne
    <3>1. PICK i \in 1 .. Len(Tail(t)) : Tail(t)[i] = "$"
      BY <1>7, <3>0 DEF Has
    <3>2. i + 1 \in 1 .. Len(t) /\ t[i + 1] = "$"
      BY <1>1, <3>1, HeadTailProperties DEF Text
    <3> QED
      BY <3>0, <3>2 DEF Has
  <2>3. tag \in Text /\ Behind(t, <<"$">>) \in RestsOf(t)
    BY <1>1, <2>1, <2>2, BehindIs, BehindSuffix
  <2>4. Behind(t, <<"$">>) \in RestsOf(s) /\ Behind(t, <<"$">>) \in Text /\ Len(Behind(t, <<"$">>)) < Len(s)
    BY <1>1, <2>3, Smaller
  <2>5. whole \in Text /\ whole # <<>>
    <3> HIDE DEF tag
    <3> QED
      BY <2>1, <2>3, ConcatProperties, EmptySeq DEF Text
  <2>6. Good(s, IF Has(Behind(t, <<"$">>), whole) THEN Return(Token("string", <<>>), Behind(Behind(t, <<"$">>), whole)) ELSE Error(t))
    <3> HIDE DEF whole
    <3> QED
      BY <1>4, <2>4, <2>5
  <2>7. \/ ReadDollarString(t) = Error(t)
        \/ ReadDollarString(t) = IF Has(Behind(t, <<"$">>), whole) THEN Return(Token("string", <<>>), Behind(Behind(t, <<"$">>), whole)) ELSE Error(t)
    BY <1>7 DEF ReadDollarString
  <2> QED
    BY <1>1, <2>6, <2>7, GoodError
<1> QED
  BY <1>5, <1>6, <1>7

LEMMA IndexedParamIsGood ==
  ASSUME NEW s \in Text, Len(s) > 1, NEW t, t = Tail(s)
  PROVE  Good(s, ReadIndexedParam(t))
<1> DEFINE r == ReadNumber[Tail(t)]["int"]
           index == Upto(t, Len(t) - Len(r.rest))
<1>1. s # <<>> /\ t \in RestsOf(s) /\ t \in Text /\ Len(t) < Len(s) /\ Len(s) \in Nat /\ Len(t) = Len(s) - 1
  BY EmptySuffix, TailSuffix, TailIsFrom, LenIs
<1>2. t # <<>>
  <2>1. Len(t) > 0
    BY <1>1
  <2> QED
    BY <2>1
<1>3. Tail(t) \in RestsOf(s) /\ Tail(t) \in Text /\ Len(Tail(t)) < Len(s)
  BY <1>1, <1>2, TailSuffix, Smaller
<1>4. r.rest \in RestsOf(Tail(t))
  BY <1>3, NumberLeaves DEF Reader
<1>5. r.rest \in RestsOf(s) /\ Len(r.rest) < Len(s)
  <2> HIDE DEF r
  <2> QED
    BY <1>3, <1>4, Smaller
<1>6. Good(s, Return(Token("indexed_param", index), r.rest))
  <2>1. "indexed_param" \in Kinds \ {"param", "eot"}
    BY DEF Kinds
  <2> HIDE DEF index, r
  <2> QED
    BY <1>5, <2>1, GoodReturn
<1>7. Good(s, Error(Tail(t)))
  BY <1>3, GoodError
<1>8. \/ ReadIndexedParam(t) = Return(Token("indexed_param", index), r.rest)
      \/ ReadIndexedParam(t) = Error(Tail(t))
  BY DEF ReadIndexedParam
<1> QED
  BY <1>6, <1>7, <1>8

LEMMA DollarIsGood ==
  ASSUME NEW s \in Text
  PROVE  Good(s, ReadDollar(s))
<1>1. \/ Len(s) > 1 /\ ReadDollar(s) = ReadDollarString(Tail(s))
      \/ Len(s) > 1 /\ ReadDollar(s) = ReadIndexedParam(Tail(s))
      \/ ReadDollar(s) = Error(s)
  <2> DEFINE Tagged == Len(s) > 1 /\ s[2] \in StartTokenChar \cup {"$"} /\ "dollar-strings" \in Syntax
             Indexed == Len(s) > 1 /\ s[2] \in Digit \ {"0"} /\ "indexed-params" \in Syntax
  <2>1. ReadDollar(s) = CASE Tagged -> ReadDollarString(Tail(s))
                          [] Indexed -> ReadIndexedParam(Tail(s))
                          [] OTHER -> Error(s)
    BY DEF ReadDollar
  <2>2. ~ (Tagged /\ Indexed)
    BY DEF StartTokenChar, Letter, Digit
  <2>3. (Tagged => Len(s) > 1) /\ (Indexed => Len(s) > 1)
    OBVIOUS
  <2> HIDE DEF Tagged, Indexed
  <2> QED
    BY <2>1, <2>2, <2>3
<1>2. Len(s) > 1 => Good(s, ReadDollarString(Tail(s))) /\ Good(s, ReadIndexedParam(Tail(s)))
  BY DollarStringIsGood, IndexedParamIsGood
<1>3. Good(s, Error(s))
  BY GoodError, SuffixItself
<1> QED
  BY <1>1, <1>2, <1>3

\* The name of a parameter is what is behind its colon.
LEMMA ParamText ==
  ASSUME NEW s \in Text, s # <<>>, NEW n, n = RunOf(Tail(s), TokenChar)
  PROVE  /\ n \in 0 .. Len(s) - 1 /\ n \in 0 .. Len(Tail(s)) /\ \A k \in 1 .. n : s[k + 1] \in TokenChar
         /\ SubSeq(s, 2, n + 1) \in Seq(TokenChar) /\ Len(SubSeq(s, 2, n + 1)) = n
         /\ \A k \in 1 .. n : SubSeq(s, 2, n + 1)[k] = s[k + 1]
<1>1. Tail(s) \in Text /\ Len(Tail(s)) = Len(s) - 1 /\ Len(s) \in Nat \ {0}
  BY TailIsFrom
<1>2. n \in 0 .. Len(Tail(s)) /\ \A k \in 1 .. n : Tail(s)[k] \in TokenChar
  BY <1>1, RunIs
<1>3. \A k \in 1 .. n : s[k + 1] \in TokenChar
  <2> TAKE k \in 1 .. n
  <2>1. k \in 1 .. Len(s) - 1 /\ Tail(s)[k] \in TokenChar
    BY <1>1, <1>2
  <2>2. Tail(s)[k] = s[k + 1]
    BY <2>1, HeadTailProperties DEF Text
  <2> QED
    BY <2>1, <2>2
<1>4. /\ Len(SubSeq(s, 2, n + 1)) = n
      /\ \A k \in 1 .. n : SubSeq(s, 2, n + 1)[k] = s[k + 1]
      /\ SubSeq(s, 2, n + 1) \in Text
  BY <1>1, <1>2 DEF Text
<1>5. SubSeq(s, 2, n + 1) \in Seq(TokenChar)
  <2>1. \A i \in 2 .. n + 1 : s[i] \in TokenChar
    <3> TAKE i \in 2 .. n + 1
    <3>1. i - 1 \in 1 .. n /\ i - 1 + 1 = i
      BY <1>1, <1>2
    <3> QED
      BY <1>3, <3>1
  <2>2. 2 \in Int /\ n + 1 \in Int
    BY <1>1, <1>2
  <2> QED
    BY <2>1, <2>2, SubSeqProperties
<1> QED
  BY <1>1, <1>2, <1>3, <1>4, <1>5

LEMMA ColonIsGood ==
  ASSUME NEW s \in Text, s # <<>>
  PROVE  Good(s, ReadColon(s))
<1> DEFINE n == RunOf(Tail(s), TokenChar)
           name == SubSeq(s, 2, n + 1)
<1>1. n \in 0 .. Len(Tail(s)) /\ name \in Seq(TokenChar)
  BY ParamText
<1>2. "key" \in Kinds \ {"param", "eot"} /\ "param" \in Kinds
  BY DEF Kinds
<1>3. Tail(s) \in RestsOf(s) /\ Tail(s) \in Text /\ Len(Tail(s)) < Len(s)
  BY TailSuffix
<1>4. Good(s, Return(Key(<<":">>), Tail(s)))
  BY <1>2, <1>3, GoodReturn DEF Key
<1>5. Starts(s, <<":", ":">>) => Good(s, Return(Key(<<":", ":">>), From(s, 3)))
  <2> SUFFICES ASSUME Starts(s, <<":", ":">>) PROVE Good(s, Return(Key(<<":", ":">>), From(s, 3)))
    OBVIOUS
  <2>1. 3 \in 2 .. Len(s) + 1
    <3>1. DOMAIN <<":", ":">> = {1, 2} /\ Len(<<":", ":">>) = 2
      OBVIOUS
    <3>2. Len(s) > 1
      BY <3>1, StartsTwo
    <3> QED
      BY <3>2, LenIs
  <2> QED
    BY <1>2, <2>1, GoodFrom DEF Key
<1>6. Good(s, Return(Token("param", name), Left(Tail(s), n)))
  <2>1. Left(Tail(s), n) \in RestsOf(Tail(s))
    BY <1>1, <1>3, LeftIs, FromSuffix
  <2>2. Left(Tail(s), n) \in RestsOf(s) /\ Len(Left(Tail(s), n)) < Len(s)
    BY <1>3, <2>1, Smaller
  <2> HIDE DEF n, name
  <2> QED
    BY <1>1, <1>2, <2>2 DEF Good, Return, Token
<1>7. \/ Starts(s, <<":", ":">>) /\ ReadColon(s) = Return(Key(<<":", ":">>), From(s, 3))
      \/ ReadColon(s) = Return(Token("param", name), Left(Tail(s), n))
      \/ ReadColon(s) = Return(Key(<<":">>), Tail(s))
  <2> DEFINE C == Starts(s, <<":", ":">>)
             N == n > 0 /\ "named-params" \in Syntax
  <2>1. ReadColon(s) = CASE C -> Return(Key(<<":", ":">>), From(s, 3))
                         [] N -> Return(Token("param", name), Left(Tail(s), n))
                         [] OTHER -> Return(Key(<<":">>), Tail(s))
    BY DEF ReadColon
  <2>2. ~ (C /\ N)
    <3> SUFFICES ASSUME C, N PROVE FALSE
      OBVIOUS
    <3>1. DOMAIN <<":", ":">> = {1, 2} /\ Len(<<":", ":">>) = 2 /\ <<":", ":">>[2] = ":"
      OBVIOUS
    <3>2. Len(s) > 1 /\ s[2] = ":"
      BY <3>1, StartsTwo
    <3>3. \A k \in 1 .. n : s[k + 1] \in TokenChar
      BY ParamText
    <3>4. 1 \in 1 .. n /\ 1 + 1 = 2
      BY <1>1, <1>3, LenIs
    <3>5. s[2] \in TokenChar
      BY <3>3, <3>4
    <3> QED
      BY <3>2, <3>5 DEF TokenChar, StartTokenChar, Letter, Digit
  <2> HIDE DEF C, N, n, name
  <2>3. CASE C
    BY <2>1, <2>2, <2>3 DEF C
  <2>4. CASE ~C /\ N
    BY <2>1, <2>4
  <2>5. CASE ~C /\ ~N
    BY <2>1, <2>5
  <2> QED
    BY <2>3, <2>4, <2>5
<1> HIDE DEF n, name
<1> QED
  BY <1>4, <1>5, <1>6, <1>7

LEMMA StringIsGood ==
  ASSUME NEW s \in Text, s # <<>>
  PROVE  Good(s, ReadSingleQuotedString[Tail(s)])
<1> DEFINE r == ReadSingleQuotedString[Tail(s)]
<1>1. Tail(s) \in RestsOf(s) /\ Tail(s) \in Text /\ Len(Tail(s)) < Len(s)
  BY TailSuffix
<1>2. r.token.kind \in {"string", "error"} /\ r.rest \in RestsOf(Tail(s))
  BY <1>1, StringLeaves
<1> HIDE DEF r
<1>3. r.rest \in RestsOf(s) /\ Len(r.rest) < Len(s)
  BY <1>1, <1>2, Smaller
<1> QED
  BY <1>2, <1>3 DEF r, Good, Kinds

LEMMA NumberIsGood ==
  ASSUME NEW s \in Text, NEW t \in RestsOf(s), Len(t) < Len(s), NEW state \in Reader
  PROVE  Good(s, ReadNumber[t][state])
<1> DEFINE r == ReadNumber[t][state]
<1>1. t \in Text
  BY SuffixIs
<1>2. r.token.kind \in {"number", "error"} /\ r.rest \in RestsOf(t)
  BY <1>1, NumberLeaves
<1> HIDE DEF r
<1>3. r.rest \in RestsOf(s) /\ Len(r.rest) < Len(s)
  BY <1>2, Smaller
<1> QED
  BY <1>2, <1>3 DEF r, Good, Kinds

\* What the classes of ReadToken have in common: nothing.
LEMMA ClassesApart ==
  /\ StartTokenChar \cap OperatorChars = {} /\ StartTokenChar \cap Digit = {} /\ OperatorChars \cap Digit = {}
  /\ {".", "dq", "'", ":", "$"} \cap (StartTokenChar \cup OperatorChars \cup Digit) = {}
  /\ StartTokenChar \subseteq TokenChar /\ Char \ Space = TokenChar \cup OperatorChars \cup {"'", "dq", ":", "$", ".", ","}
BY DEF StartTokenChar, Letter, Digit, OperatorChars, PlusMinus, Narrow, Wide, TokenChar, Char, Space

\* A token, by the character it begins with.
LEMMA TokenCases ==
  ASSUME NEW s \in Text, s # <<>>, NEW c, c = Head(s)
  PROVE  /\ c \in StartTokenChar => ReadToken(s) = Return(Token("word", <<>>), Left(s, RunOf(s, TokenChar)))
         /\ c \in OperatorChars => ReadToken(s) = ReadOperator(s)
         /\ c \in Digit => ReadToken(s) = ReadNumber[Tail(s)]["int"]
         /\ c = "." => ReadToken(s) = IF Len(s) > 1 /\ s[2] \in Digit THEN ReadNumber[From(s, 3)]["frac"]
                                      ELSE Return(Key(<<c>>), Tail(s))
         /\ c = "dq" => ReadToken(s) = IF Has(Tail(s), <<"dq">>)
                                       THEN Return(Token("word", <<>>), Behind(Tail(s), <<"dq">>))
                                       ELSE Error(s)
         /\ c = "'" => ReadToken(s) = ReadSingleQuotedString[Tail(s)]
         /\ c = ":" => ReadToken(s) = ReadColon(s)
         /\ c = "$" => ReadToken(s) = ReadDollar(s)
         /\ c \notin StartTokenChar \cup OperatorChars \cup Digit \cup {".", "dq", "'", ":", "$"} =>
              ReadToken(s) = Return(Key(<<c>>), Tail(s))
BY ClassesApart DEF ReadToken

LEMMA TokenIsGood ==
  ASSUME NEW s \in Text, ~Starts(s, Dashes), ~Starts(s, Opening)
  PROVE  Good(s, ReadToken(s))
<1>1. CASE s = <<>>
  <2>1. ReadToken(s) = Return(Token("eot", <<>>), s)
    BY <1>1 DEF ReadToken
  <2>2. ReadToken(s).rest = s /\ ReadToken(s).token.kind = "eot"
    BY <2>1 DEF Return, Token
  <2>3. s \in RestsOf(s)
    BY SuffixItself
  <2> HIDE DEF ReadToken
  <2> QED
    BY <1>1, <2>2, <2>3 DEF Good, Kinds
<1>2. CASE s # <<>>
  <2> DEFINE c == Head(s)
  <2>1. /\ Tail(s) \in RestsOf(s) /\ Tail(s) \in Text /\ Len(Tail(s)) < Len(s)
        /\ c = s[1] /\ Len(s) \in Nat \ {0} /\ Len(Tail(s)) = Len(s) - 1
    BY <1>2, TailSuffix, TailIsFrom
  <2>2. "key" \in Kinds \ {"param", "eot"} /\ "word" \in Kinds \ {"param", "eot"} /\ "int" \in Reader /\ "frac" \in Reader
    BY DEF Kinds, Reader
  <2>3. Good(s, Return(Key(<<c>>), Tail(s)))
    BY <2>1, <2>2, GoodReturn DEF Key
  <2>4. CASE c \in StartTokenChar
    <3>1. RunOf(s, TokenChar) \in 1 .. Len(s)
      <4>1. s[1] \in TokenChar
        BY <2>1, <2>4, ClassesApart
      <4>2. RunOf(s, TokenChar) \in 0 .. Len(s) /\ (RunOf(s, TokenChar) < Len(s) => s[RunOf(s, TokenChar) + 1] \notin TokenChar)
        BY RunIs
      <4> QED
        BY <2>1, <4>1, <4>2
    <3>2. Good(s, Return(Token("word", <<>>), Left(s, RunOf(s, TokenChar))))
      BY <2>2, <3>1, LeftIsGood
    <3> QED
      BY <1>2, <2>4, <3>2, TokenCases
  <2>5. CASE c \in OperatorChars
    BY <1>2, <2>5, TokenCases, OperatorIsGood
  <2>6. CASE c \in Digit
    BY <1>2, <2>1, <2>2, <2>6, TokenCases, NumberIsGood
  <2>7. CASE c = "."
    <3>1. Len(s) > 1 => From(s, 3) \in RestsOf(s) /\ Len(From(s, 3)) < Len(s)
      <4>1. Len(s) > 1 => 3 \in 1 .. Len(s) + 1
        BY <2>1
      <4> QED
        BY <2>1, <4>1, FromSuffix
    <3>2. Len(s) > 1 => Good(s, ReadNumber[From(s, 3)]["frac"])
      BY <2>2, <3>1, NumberIsGood
    <3> QED
      BY <1>2, <2>3, <2>7, <3>2, TokenCases
  <2>8. CASE c = "dq"
    <3>1. ASSUME Has(Tail(s), <<"dq">>)
          PROVE  Good(s, Return(Token("word", <<>>), Behind(Tail(s), <<"dq">>)))
      <4>1. Behind(Tail(s), <<"dq">>) \in RestsOf(Tail(s))
        BY <2>1, <3>1, BehindSuffix, Marks, Chars
      <4>2. Behind(Tail(s), <<"dq">>) \in RestsOf(s) /\ Len(Behind(Tail(s), <<"dq">>)) < Len(s)
        BY <2>1, <4>1, Smaller
      <4> QED
        BY <2>2, <4>2, GoodReturn
    <3>2. Good(s, Error(s))
      BY GoodError, SuffixItself
    <3> QED
      BY <1>2, <2>8, <3>1, <3>2, TokenCases
  <2>9. CASE c = "'"
    BY <1>2, <2>9, TokenCases, StringIsGood
  <2>10. CASE c = ":"
    BY <1>2, <2>10, TokenCases, ColonIsGood
  <2>11. CASE c = "$"
    BY <1>2, <2>11, TokenCases, DollarIsGood
  <2>12. CASE c \notin StartTokenChar \cup OperatorChars \cup Digit \cup {".", "dq", "'", ":", "$"}
    BY <1>2, <2>3, <2>12, TokenCases
  <2> QED
    BY <2>4, <2>5, <2>6, <2>7, <2>8, <2>9, <2>10, <2>11, <2>12
<1> QED
  BY <1>1, <1>2

\* Every token leaves a suffix of the text, and each but the last something
\* less than all of it.
LEMMA LexerIsGood ==
  ASSUME NEW s \in Text
  PROVE  Good(s, ReadTokenFromString(s))
<1> DEFINE t == SkipSpaces[s]
           r == ReadToken(t)
<1>1. t \in RestsOf(s) /\ t \in Text /\ Len(t) <= Len(s) /\ ~Starts(t, Dashes) /\ ~Starts(t, Opening)
  BY SkipSpacesLeaves
<1>2. Good(t, r)
  <2> HIDE DEF t
  <2> QED
    BY <1>1, TokenIsGood
<1>3. ReadTokenFromString(s) = r
  BY DEF ReadTokenFromString
<1> HIDE DEF t, r
<1>4. r.rest \in RestsOf(s)
  BY <1>1, <1>2, SuffixOfSuffix DEF Good
<1>5. r.token.kind \notin {"eot", "error"} => Len(r.rest) < Len(s)
  <2>1. r.rest \in Text /\ Len(r.rest) \in Nat /\ Len(t) \in Nat /\ Len(s) \in Nat
    BY <1>1, <1>4, SuffixIs, LenIs
  <2> QED
    BY <1>1, <1>2, <2>1 DEF Good
<1> QED
  BY <1>2, <1>3, <1>4, <1>5 DEF Good

-----------------------------------------------------------------------------
(* The lexer. *)

\* TypeOK for every source: what is left is a suffix of the source, a name is
\* made of the characters of one, and the counters are numbers.
THEOREM TypeCorrect == Spec => []TypeOK
<1>1. Init => TypeOK
  <2> SUFFICES ASSUME Init PROVE TypeOK
    OBVIOUS
  <2>1. source \in Sources /\ source \in Text /\ rest = source
    BY SourcesAssumption DEF Init
  <2>2. 1 \in 1 .. Len(source) + 1 /\ rest = From(source, 1)
    BY <2>1, FromOne, LenIs
  <2>3. token.kind = "start"
    BY DEF Init, Token
  <2>4. \E i \in 1 .. Len(source) + 1 : rest = From(source, i)
    BY <2>2
  <2>5. named \in Seq(Seq(TokenChar)) /\ marks \in Nat /\ wide \in BOOLEAN
    BY EmptySeq DEF Init
  <2> QED
    BY <2>1, <2>3, <2>4, <2>5 DEF TypeOK
<1>2. TypeOK /\ [Next]_vars => TypeOK'
  <2> SUFFICES ASSUME TypeOK, [Next]_vars PROVE TypeOK'
    OBVIOUS
  <2>1. source \in Text /\ rest \in RestsOf(source) /\ rest \in Text
    BY SourcesAssumption, FromSuffix DEF TypeOK
  <2>2. CASE Next
    <3> DEFINE r == ReadTokenFromString(rest)
    <3>1. Good(rest, r)
      BY <2>1, LexerIsGood
    <3>2. token' = r.token /\ rest' = r.rest /\ Record(r.token) /\ source' = source
      BY <2>2 DEF Next, SkipToken
    <3> HIDE DEF r
    <3>3. \E i \in 1 .. Len(source) + 1 : rest' = From(source, i)
      <4>1. rest' \in RestsOf(source)
        BY <2>1, <3>1, <3>2, SuffixOfSuffix DEF Good
      <4> QED
        BY <4>1 DEF RestsOf
    <3>4. token'.kind \in {"start", "word", "string", "number", "key", "param", "indexed_param", "eot", "error"}
      BY <3>1, <3>2 DEF Good, Kinds
    <3>5. named' \in Seq(Seq(TokenChar))
      BY <3>1, <3>2 DEF Good, Record, TypeOK
    <3>6. marks' \in Nat /\ wide' \in BOOLEAN
      BY <3>2 DEF Record, TypeOK
    <3> QED
      BY <3>2, <3>3, <3>4, <3>5, <3>6 DEF TypeOK
  <2>3. CASE UNCHANGED vars
    BY <2>3 DEF vars, TypeOK
  <2> QED
    BY <2>2, <2>3
<1> QED
  BY <1>1, <1>2, PTL DEF Spec

\* ReadsOn for every source: no step but the last leaves as much as there was,
\* so that the recursions on SkipToken end.
THEOREM LexerReadsOn == Spec => ReadsOn
<1>1. TypeOK /\ [Next]_vars => [Len(rest') < Len(rest) \/ token'.kind \in {"eot", "error"}]_vars
  <2> SUFFICES ASSUME TypeOK, Next
               PROVE  Len(rest') < Len(rest) \/ token'.kind \in {"eot", "error"}
    OBVIOUS
  <2>1. rest \in Text
    BY SourcesAssumption, FromSuffix DEF TypeOK
  <2>2. Good(rest, ReadTokenFromString(rest))
    BY <2>1, LexerIsGood
  <2> QED
    BY <2>2 DEF Good, Next, SkipToken
<1> QED
  BY <1>1, TypeCorrect, PTL DEF Spec, ReadsOn
==============================================================================
