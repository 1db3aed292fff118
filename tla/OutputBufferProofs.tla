------------------------- MODULE OutputBufferProofs -------------------------
(***************************************************************************)
(* Proofs about OutputBuffer, for both limits, every range of a usize that *)
(* the output does not exceed and every way the output comes in chunks: it *)
(* holds the end of the output, its account of the size lacks exactly the  *)
(* bytes that completed a line, and get_recent answers with an end of it.  *)
(*                                                                         *)
(* FlattenSeq and SplitLines are recursive functions: the lemmas show      *)
(* first that iterating a step defines such a function, and then what the  *)
(* concatenation of lines and the splitting keep.                          *)
(***************************************************************************)
EXTENDS OutputBuffer, SequenceTheorems, WellFoundedInduction, TLAPS

Byte == Nat \X Kinds
---------------------------------------------------------------------------
(* Recursion over the first numbers                                        *)

\* Induction, over a set of numbers.
LEMMA NatByStep ==
  ASSUME NEW Q, 0 \in Q, \A n \in Nat : n \in Q => n + 1 \in Q
  PROVE  \A n \in Nat : n \in Q
<1> DEFINE B == Nat \ Q
<1> SUFFICES ASSUME B # {} PROVE FALSE
  OBVIOUS
<1>1. PICK i \in B : \A k \in B : ~(<<k, i>> \in OpToRel(<, Nat))
  BY WFMin, NatLessThanWellFounded, Zenon
<1>2. i \in Nat /\ i # 0
  OBVIOUS
<1>3. i - 1 \in Nat /\ i - 1 + 1 = i /\ i - 1 < i
  BY <1>2
<1>4. i - 1 \in B
  BY <1>3
<1>5. <<i - 1, i>> \in OpToRel(<, Nat)
  BY <1>2, <1>3 DEF OpToRel
<1> QED
  BY <1>1, <1>4, <1>5, ZenonT(30)

\* A nonempty set of numbers has a least one.
LEMMA Least ==
  ASSUME NEW B \in SUBSET Nat, B # {}
  PROVE  \E i \in B : \A k \in B : i <= k
<1>1. PICK i \in B : \A k \in B : ~(<<k, i>> \in OpToRel(<, Nat))
  BY WFMin, NatLessThanWellFounded, Zenon
<1>2. \A k \in B : i <= k
  <2> SUFFICES ASSUME NEW k \in B, ~(i <= k) PROVE FALSE
    OBVIOUS
  <2>1. k \in Nat /\ i \in Nat /\ k < i
    OBVIOUS
  <2>2. <<k, i>> \in OpToRel(<, Nat)
    BY <2>1 DEF OpToRel
  <2> QED
    BY <1>1, <2>2, ZenonT(30)
<1> QED
  BY <1>2

\* A nonempty set of numbers up to n has a greatest one.
LEMMA Greatest ==
  ASSUME NEW n \in Nat, NEW B \in SUBSET (0 .. n), B # {}
  PROVE  \E i \in B : \A k \in B : k <= i
<1> DEFINE C == {m \in Nat : \E k \in B : m = n - k}
<1>1. PICK m \in C : \A k \in C : m <= k
  <2>1. PICK k \in B : TRUE
    BY ZenonT(30)
  <2>2. n - k \in C
    BY <2>1
  <2> QED
    BY <2>2, Least, ZenonT(30)
<1>2. PICK i \in B : m = n - i
  OBVIOUS
<1>3. \A k \in B : k <= i
  <2> TAKE k \in B
  <2>1. n - k \in C
    OBVIOUS
  <2> QED
    BY <1>1, <1>2, <2>1, SMTT(30)
<1> QED
  BY <1>3

\* g is what the steps make of the value a, one after the other.
Iterates(g, a, step, n) == g[0] = a /\ \A i \in 1 .. n : g[i] = step[<<g[i - 1], i>>]

\* A step that stays in X can be taken N times.
LEMMA IterationExists ==
  ASSUME NEW X, NEW a \in X, NEW step, NEW N \in Nat,
         \A x \in X, i \in 1 .. N : step[<<x, i>>] \in X
  PROVE  \E g \in [0 .. N -> X] : Iterates(g, a, step, N)
<1> DEFINE Q == {n \in Nat : n <= N => \E g \in [0 .. n -> X] : Iterates(g, a, step, n)}
<1>1. 0 \in Q
  <2> DEFINE g == [i \in 0 .. 0 |-> a]
  <2>1. g \in [0 .. 0 -> X] /\ g[0] = a
    OBVIOUS
  <2> HIDE DEF g
  <2>2. Iterates(g, a, step, 0)
    BY <2>1 DEF Iterates
  <2> QED
    BY <2>1, <2>2
<1>2. \A n \in Nat : n \in Q => n + 1 \in Q
  <2> SUFFICES ASSUME NEW n \in Nat, n \in Q, n + 1 <= N
               PROVE  \E g \in [0 .. n + 1 -> X] : Iterates(g, a, step, n + 1)
    OBVIOUS
  <2>1. PICK g \in [0 .. n -> X] : Iterates(g, a, step, n)
    OBVIOUS
  <2> DEFINE next == step[<<g[n], n + 1>>]
             h == [i \in 0 .. n + 1 |-> IF i = n + 1 THEN next ELSE g[i]]
  <2>2. next \in X
    OBVIOUS
  <2>3. h \in [0 .. n + 1 -> X]
    BY <2>2
  <2>4. h[0] = a
    BY <2>1 DEF Iterates
  <2>5. \A i \in 1 .. n + 1 : h[i] = step[<<h[i - 1], i>>]
    <3> TAKE i \in 1 .. n + 1
    <3>1. CASE i = n + 1
      BY <3>1, SMTT(30)
    <3>2. CASE i # n + 1
      <4>1. i \in 1 .. n /\ h[i] = g[i] /\ h[i - 1] = g[i - 1]
        BY <3>2
      <4> QED
        BY <4>1, <2>1 DEF Iterates
    <3> QED
      BY <3>1, <3>2
  <2> HIDE DEF h
  <2> QED
    BY <2>3, <2>4, <2>5, ZenonT(30) DEF Iterates
<1> HIDE DEF Q
<1>3. N \in Q
  BY <1>1, <1>2, NatByStep
<1> QED
  BY <1>3 DEF Q
---------------------------------------------------------------------------
(* The concatenation of lines                                              *)

\* g[i] is the concatenation of the first i lines of q.
Builds(g, q) == g[0] = <<>> /\ \A i \in 1 .. Len(q) : g[i] = g[i - 1] \o q[i]

Goes(h, q) == \A i \in 2 .. Len(q) : h[i] = h[i - 1] \o q[i]

\* There is such a g.
LEMMA BuildsExists ==
  ASSUME NEW S, NEW q \in Seq(Seq(S))
  PROVE  \E g \in [0 .. Len(q) -> Seq(S)] : Builds(g, q)
<1> DEFINE N == Len(q)
           X == Seq(S)
           step == [p \in X \X (1 .. N) |-> p[1] \o q[p[2]]]
<1>1. \A x \in X, i \in 1 .. N : <<x, i>> \in X \X (1 .. N) /\ x \o q[i] \in X
  <2> TAKE x \in X, i \in 1 .. N
  <2>1. q[i] \in Seq(S)
    OBVIOUS
  <2> QED
    BY <2>1, ConcatProperties
<1>2. \A x \in X, i \in 1 .. N : step[<<x, i>>] = x \o q[i]
  BY <1>1, ZenonT(30)
<1>3. N \in Nat /\ <<>> \in X
  OBVIOUS
<1> HIDE DEF step, X, N
<1>4. \A x \in X, i \in 1 .. N : step[<<x, i>>] \in X
  BY <1>1, <1>2, ZenonT(30)
<1>5. PICK g \in [0 .. N -> X] : Iterates(g, <<>>, step, N)
  BY <1>3, <1>4, IterationExists, ZenonT(30)
<1>6. \A i \in 1 .. N : g[i] = g[i - 1] \o q[i]
  <2> TAKE i \in 1 .. N
  <2>1. g[i - 1] \in X
    BY <1>3
  <2>2. g[i] = step[<<g[i - 1], i>>]
    BY <1>5 DEF Iterates
  <2> QED
    BY <2>1, <2>2, <1>2, ZenonT(30)
<1>7. g[0] = <<>>
  BY <1>5 DEF Iterates
<1> QED
  BY <1>6, <1>7, ZenonT(30) DEF Builds, N, X

\* Two that go on alike agree.
LEMMA BuildsUnique ==
  ASSUME NEW q, Len(q) \in Nat, NEW g, NEW h, Builds(g, q), Goes(h, q),
         Len(q) > 0 => h[1] = g[1]
  PROVE  \A n \in 1 .. Len(q) : g[n] = h[n]
<1> DEFINE Q == {n \in Nat : n + 1 <= Len(q) => g[n + 1] = h[n + 1]}
<1>1. 0 \in Q
  OBVIOUS
<1>2. \A n \in Nat : n \in Q => n + 1 \in Q
  <2> SUFFICES ASSUME NEW n \in Nat, n \in Q, n + 1 + 1 <= Len(q)
               PROVE  g[n + 1 + 1] = h[n + 1 + 1]
    OBVIOUS
  <2>1. PICK m \in 2 .. Len(q) : m = n + 1 + 1
    OBVIOUS
  <2>2. m \in 1 .. Len(q) /\ g[m - 1] = h[m - 1]
    BY <2>1
  <2>3. g[m] = g[m - 1] \o q[m]
    BY <2>2, Zenon DEF Builds
  <2>4. h[m] = h[m - 1] \o q[m]
    BY Zenon DEF Goes
  <2>5. g[m] = h[m]
    BY <2>2, <2>3, <2>4
  <2> QED
    BY <2>1, <2>5
<1>3. \A n \in Nat : n \in Q
  <2> HIDE DEF Q
  <2> QED
    BY <1>1, <1>2, NatByStep
<1>4. ASSUME NEW n \in 1 .. Len(q) PROVE g[n] = h[n]
  <2>1. n - 1 \in Q /\ n - 1 + 1 = n
    BY <1>3
  <2> QED
    BY <2>1
<1> QED
  BY <1>4

\* FlattenSeq is what such a g builds.
LEMMA FlattenDef ==
  ASSUME NEW S, NEW q \in Seq(Seq(S)), NEW g, Builds(g, q)
  PROVE  FlattenSeq(q) = g[Len(q)]
<1>1. CASE Len(q) = 0
  <2>1. q = <<>>
    BY <1>1
  <2> QED
    BY <1>1, <2>1 DEF FlattenSeq, Builds
<1>2. CASE Len(q) # 0
  <2> DEFINE F(c) == [i \in 1 .. Len(q) |-> IF i = 1 THEN q[i] ELSE c[i - 1] \o q[i]]
             flatten == CHOOSE c : c = F(c)
  <2>1. FlattenSeq(q) = flatten[Len(q)]
    BY <1>2 DEF FlattenSeq
  <2>2. PICK a \in [0 .. Len(q) -> Seq(S)] : Builds(a, q)
    BY BuildsExists
  <2> DEFINE b == [i \in 1 .. Len(q) |-> a[i]]
  <2>3. \A i \in 1 .. Len(q) : b[i] = F(b)[i]
    <3> TAKE i \in 1 .. Len(q)
    <3>0. q[i] \in Seq(S)
      OBVIOUS
    <3>1. a[i] = a[i - 1] \o q[i] /\ a[0] = <<>>
      BY <2>2, Zenon DEF Builds
    <3>2. CASE i = 1
      <4>1. <<>> \o q[i] = q[i] /\ i - 1 = 0
        BY <3>0, <3>2
      <4>2. b[i] = q[i]
        BY <3>1, <4>1, ZenonT(30)
      <4> QED
        BY <3>2, <4>2
    <3>3. CASE i # 1
      <4>1. i - 1 \in 1 .. Len(q) /\ b[i - 1] = a[i - 1]
        BY <3>3
      <4> QED
        BY <3>1, <3>3, <4>1, ZenonT(30)
    <3> QED
      BY <3>2, <3>3
  <2>4. b = F(b)
    BY <2>3, ZenonT(30)
  <2> HIDE DEF b
  <2>5. flatten = F(flatten)
    BY <2>4, ZenonT(30)
  <2> HIDE DEF flatten
  <2>6. \A i \in 1 .. Len(q) : flatten[i] = IF i = 1 THEN q[i] ELSE flatten[i - 1] \o q[i]
    <3> DEFINE c == F(flatten)
    <3>1. \A i \in 1 .. Len(q) : c[i] = IF i = 1 THEN q[i] ELSE flatten[i - 1] \o q[i]
      OBVIOUS
    <3>2. flatten = c
      BY <2>5, ZenonT(30)
    <3> HIDE DEF c
    <3> QED
      BY <3>1, <3>2
  <2>7. g[1] = flatten[1]
    <3>1. 1 \in 1 .. Len(q) /\ Len(q) \in Nat
      BY <1>2
    <3>2. g[1] = g[1 - 1] \o q[1] /\ g[0] = <<>>
      BY <3>1, Zenon DEF Builds
    <3>3. q[1] \in Seq(S)
      BY <3>1
    <3>4. <<>> \o q[1] = q[1] /\ 1 - 1 = 0
      BY <3>3
    <3>5. flatten[1] = q[1]
      BY <2>6, <3>1
    <3> QED
      BY <3>2, <3>4, <3>5, ZenonT(30)
  <2>8. Goes(flatten, q)
    <3> SUFFICES ASSUME NEW i \in 2 .. Len(q)
                 PROVE  flatten[i] = flatten[i - 1] \o q[i]
      BY ZenonT(30) DEF Goes
    <3>1. i \in 1 .. Len(q) /\ i # 1
      OBVIOUS
    <3> QED
      BY <2>6, <3>1, ZenonT(30)
  <2>9. \A n \in 1 .. Len(q) : g[n] = flatten[n]
    <3>1. Len(q) \in Nat /\ (Len(q) > 0 => flatten[1] = g[1])
      BY <2>7
    <3> QED
      BY <2>8, <3>1, BuildsUnique
  <2> QED
    BY <1>2, <2>1, <2>9
<1> QED
  BY <1>1, <1>2

\* The bytes of lines of bytes are bytes.
LEMMA FlattenType ==
  ASSUME NEW S, NEW q \in Seq(Seq(S))
  PROVE  FlattenSeq(q) \in Seq(S)
<1>1. PICK g \in [0 .. Len(q) -> Seq(S)] : Builds(g, q)
  BY BuildsExists
<1>2. FlattenSeq(q) = g[Len(q)]
  BY <1>1, FlattenDef
<1>3. Len(q) \in 0 .. Len(q)
  OBVIOUS
<1> QED
  BY <1>2, <1>3

\* No lines hold no bytes.
LEMMA FlattenEmpty == FlattenSeq(<<>>) = <<>>
BY DEF FlattenSeq

\* A line more is added at the end.
LEMMA FlattenAppend ==
  ASSUME NEW S, NEW q \in Seq(Seq(S)), NEW s \in Seq(S)
  PROVE  FlattenSeq(Append(q, s)) = FlattenSeq(q) \o s
<1>1. PICK g \in [0 .. Len(q) -> Seq(S)] : Builds(g, q)
  BY BuildsExists
<1> DEFINE p == Append(q, s)
           N == Len(q)
           next == g[N] \o s
           h == [i \in 0 .. N + 1 |-> IF i = N + 1 THEN next ELSE g[i]]
<1>2. /\ p \in Seq(Seq(S)) /\ N \in Nat /\ Len(p) = N + 1 /\ p[N + 1] = s
      /\ \A i \in 1 .. N : p[i] = q[i]
  BY AppendProperties
<1> HIDE DEF p, N
<1>3. h[0] = <<>>
  BY <1>1, <1>2, SMTT(30) DEF Builds
<1>4. \A i \in 1 .. N + 1 : h[i] = h[i - 1] \o p[i]
  <2> TAKE i \in 1 .. N + 1
  <2>1. CASE i = N + 1
    <3>1. h[i] = next /\ h[i - 1] = g[N] /\ p[i] = s
      BY <1>2, <2>1, SMTT(30)
    <3> HIDE DEF h
    <3> QED
      BY <3>1, Zenon DEF next
  <2>2. CASE i # N + 1
    <3>1. i \in 1 .. N /\ h[i] = g[i] /\ h[i - 1] = g[i - 1]
      BY <1>2, <2>2, SMTT(30)
    <3>2. g[i] = g[i - 1] \o q[i]
      BY <1>1, <3>1, Zenon DEF Builds, N
    <3>3. p[i] = q[i]
      BY <1>2, <3>1, ZenonT(30)
    <3> HIDE DEF h
    <3> QED
      BY <3>1, <3>2, <3>3, Zenon
  <2> QED
    BY <2>1, <2>2, ZenonT(30)
<1>5. h[N + 1] = next
  BY <1>2, SMTT(30)
<1> HIDE DEF h, next
<1>6. Builds(h, p)
  BY <1>2, <1>3, <1>4, ZenonT(30) DEF Builds
<1>7. FlattenSeq(p) = h[N + 1]
  BY <1>2, <1>6, FlattenDef
<1>8. FlattenSeq(q) = g[N]
  BY <1>1, FlattenDef DEF N
<1> QED
  BY <1>5, <1>7, <1>8, Zenon DEF next, p

\* Appending after a concatenation is appending to its second part.
LEMMA ConcatAppends ==
  ASSUME NEW T, NEW p \in Seq(T), NEW b \in Seq(T), NEW x \in T
  PROVE  p \o Append(b, x) = Append(p \o b, x) /\ p \o b \in Seq(T)
<1> DEFINE u == <<x>>
<1>1. u \in Seq(T) /\ Append(b, x) = b \o u
  BY AppendIsConcat
<1>2. p \o b \in Seq(T)
  BY ConcatProperties
<1>3. Append(p \o b, x) = (p \o b) \o u
  BY <1>2, AppendIsConcat
<1> HIDE DEF u
<1>4. (p \o b) \o u = p \o (b \o u)
  <2>1. p \in Seq(T) /\ b \in Seq(T) /\ u \in Seq(T)
    BY <1>1
  <2> QED
    BY ONLY <2>1, ConcatAssociative, SMTT(30)
<1> QED
  BY <1>1, <1>2, <1>3, <1>4

\* The lines of p and then those of q hold the bytes of p and then those of q.
LEMMA FlattenConcat ==
  ASSUME NEW S, NEW p \in Seq(Seq(S)), NEW q \in Seq(Seq(S))
  PROVE  FlattenSeq(p \o q) = FlattenSeq(p) \o FlattenSeq(q)
<1> DEFINE P == FlattenSeq(p)
           Join(n) == FlattenSeq(p \o SubSeq(q, 1, n)) = P \o FlattenSeq(SubSeq(q, 1, n))
           Q == {n \in Nat : n <= Len(q) => Join(n)}
<1>1. P \in Seq(S) /\ Len(q) \in Nat
  BY FlattenType
<1> HIDE DEF P
<1>2. 0 \in Q
  <2>1. SubSeq(q, 1, 0) = <<>> /\ p \o <<>> = p /\ P \o <<>> = P
    BY <1>1
  <2>2. Join(0)
    BY <2>1, FlattenEmpty, Zenon DEF P
  <2> HIDE DEF Join
  <2> QED
    BY <2>2
<1>3. \A n \in Nat : n \in Q => n + 1 \in Q
  <2> SUFFICES ASSUME NEW n \in Nat, n + 1 <= Len(q), Join(n) PROVE Join(n + 1)
    <3> HIDE DEF Join
    <3> QED
      BY <1>1
  <2> DEFINE b == SubSeq(q, 1, n)
             x == q[n + 1]
             c == p \o b
  <2>1. FlattenSeq(c) = P \o FlattenSeq(b)
    OBVIOUS
  <2>2. x \in Seq(S) /\ b \in Seq(Seq(S))
    OBVIOUS
  <2>3. SubSeq(q, 1, n + 1) = Append(b, x)
    OBVIOUS
  <2> HIDE DEF b, x
  <2>4. p \o Append(b, x) = Append(c, x) /\ c \in Seq(Seq(S))
    BY <2>2, ConcatAppends, Zenon
  <2> HIDE DEF c
  <2>5. FlattenSeq(b) \in Seq(S)
    BY <2>2, FlattenType
  <2>6. FlattenSeq(Append(b, x)) = FlattenSeq(b) \o x
    BY <2>2, FlattenAppend, ZenonT(30)
  <2>7. FlattenSeq(Append(c, x)) = FlattenSeq(c) \o x
    BY <2>2, <2>4, FlattenAppend, ZenonT(30)
  <2>8. (P \o FlattenSeq(b)) \o x = P \o (FlattenSeq(b) \o x)
    <3> DEFINE f == FlattenSeq(b)
    <3>0. f \in Seq(S) /\ x \in Seq(S) /\ P \in Seq(S)
      BY <1>1, <2>2, <2>5
    <3> HIDE DEF f
    <3>1. (P \o f) \o x = P \o (f \o x)
      BY ONLY <3>0, ConcatAssociative, SMTT(30)
    <3> QED
      BY <3>1 DEF f
  <2> QED
    BY <2>1, <2>3, <2>4, <2>6, <2>7, <2>8, Zenon
<1>4. SubSeq(q, 1, Len(q)) = q
  OBVIOUS
<1> HIDE DEF Q, Join
<1>5. Len(q) \in Q
  BY <1>1, <1>2, <1>3, NatByStep, ZenonT(30)
<1>6. Join(Len(q))
  BY <1>1, <1>5 DEF Q
<1>7. FlattenSeq(p \o SubSeq(q, 1, Len(q))) = P \o FlattenSeq(SubSeq(q, 1, Len(q)))
  BY <1>6 DEF Join
<1> QED
  BY <1>4, <1>7, Zenon DEF P

\* Lines taken from the front.
LEMMA FlattenParts ==
  ASSUME NEW S, NEW q \in Seq(Seq(S)), NEW k \in 0 .. Len(q)
  PROVE  /\ SubSeq(q, 1, k) \in Seq(Seq(S)) /\ SubSeq(q, k + 1, Len(q)) \in Seq(Seq(S))
         /\ Len(SubSeq(q, 1, k)) = k /\ Len(SubSeq(q, k + 1, Len(q))) = Len(q) - k
         /\ \A i \in 1 .. k : SubSeq(q, 1, k)[i] = q[i]
         /\ \A i \in 1 .. Len(q) - k : SubSeq(q, k + 1, Len(q))[i] = q[k + i]
         /\ FlattenSeq(q) = FlattenSeq(SubSeq(q, 1, k)) \o FlattenSeq(SubSeq(q, k + 1, Len(q)))
<1> DEFINE a == SubSeq(q, 1, k)
           b == SubSeq(q, k + 1, Len(q))
<1>1. /\ a \in Seq(Seq(S)) /\ b \in Seq(Seq(S)) /\ Len(b) = Len(q) - k /\ Len(a) = k
      /\ \A i \in 1 .. Len(q) - k : b[i] = q[k + i]
      /\ \A i \in 1 .. k : a[i] = q[i]
  BY SMTT(30)
<1>2. q = a \o b
  <2>1. /\ 1 \in 1 .. Len(q) + 1 /\ k \in 1 - 1 .. Len(q) /\ Len(q) \in k .. Len(q)
        /\ SubSeq(q, 1, Len(q)) = q
    OBVIOUS
  <2>2. SubSeq(q, 1, k) \o SubSeq(q, k + 1, Len(q)) = SubSeq(q, 1, Len(q))
    BY <2>1, ConcatAdjacentSubSeq, Zenon
  <2> QED
    BY <2>1, <2>2, Zenon
<1> HIDE DEF a, b
<1>3. FlattenSeq(a \o b) = FlattenSeq(a) \o FlattenSeq(b)
  BY <1>1, FlattenConcat, ZenonT(30)
<1>4. FlattenSeq(q) = FlattenSeq(a) \o FlattenSeq(b)
  BY <1>2, <1>3, Zenon
<1> QED
  BY <1>1, <1>4, Zenon DEF a, b

\* The last line goes on.
LEMMA FlattenExtend ==
  ASSUME NEW S, NEW q \in Seq(Seq(S)), q # <<>>, NEW s \in Seq(S)
  PROVE  /\ [q EXCEPT ![Len(q)] = @ \o s] \in Seq(Seq(S))
         /\ Len([q EXCEPT ![Len(q)] = @ \o s]) = Len(q)
         /\ \A i \in 1 .. Len(q) : Len([q EXCEPT ![Len(q)] = @ \o s][i]) >= Len(q[i])
         /\ FlattenSeq([q EXCEPT ![Len(q)] = @ \o s]) = FlattenSeq(q) \o s
<1> DEFINE N == Len(q)
           a == SubSeq(q, 1, N - 1)
           x == q[N]
           y == x \o s
           p == [q EXCEPT ![Len(q)] = @ \o s]
<1>0. N \in Nat \ {0} /\ x \in Seq(S)
  OBVIOUS
<1>1. /\ N \in Nat \ {0} /\ x \in Seq(S) /\ a \in Seq(Seq(S)) /\ Len(a) = N - 1
      /\ \A i \in 1 .. N - 1 : a[i] = q[i]
  <2> DEFINE n == N - 1
  <2>1. n \in 0 .. Len(q)
    BY <1>0
  <2> HIDE DEF n
  <2>2. /\ SubSeq(q, 1, n) \in Seq(Seq(S)) /\ Len(SubSeq(q, 1, n)) = n
        /\ \A i \in 1 .. n : SubSeq(q, 1, n)[i] = q[i]
    BY <2>1, FlattenParts, ZenonT(30)
  <2> QED
    BY <1>0, <2>2, Zenon DEF n
<1>2. y \in Seq(S) /\ Len(y) = Len(x) + Len(s)
  BY <1>1, ConcatProperties
<1>3. /\ p \in Seq(Seq(S)) /\ Len(p) = N
      /\ \A i \in 1 .. N : p[i] = IF i = N THEN y ELSE q[i]
  BY <1>1, <1>2, SMTT(30)
<1>4. q = Append(a, x)
  BY <1>1, SMTT(30)
<1>5. p = Append(a, y)
  <2>1. Append(a, y) \in Seq(Seq(S)) /\ Len(Append(a, y)) = N
    BY <1>1, <1>2, AppendProperties
  <2>2. \A i \in 1 .. N : p[i] = Append(a, y)[i]
    <3> TAKE i \in 1 .. N
    <3>1. Append(a, y)[i] = IF i <= N - 1 THEN a[i] ELSE y
      BY <1>1, <1>2, AppendProperties
    <3> HIDE DEF p, y, a
    <3> QED
      BY <1>1, <1>3, <3>1, SMTT(30)
  <2> HIDE DEF p, y, a
  <2> QED
    BY <1>3, <2>1, <2>2, SeqEqual, ZenonT(30)
<1>6. FlattenSeq(Append(a, x)) = FlattenSeq(a) \o x
  BY <1>1, FlattenAppend, ZenonT(30)
<1>7. FlattenSeq(Append(a, y)) = FlattenSeq(a) \o y
  BY <1>1, <1>2, FlattenAppend, ZenonT(30)
<1>8. (FlattenSeq(a) \o x) \o s = FlattenSeq(a) \o (x \o s)
  <2> DEFINE f == FlattenSeq(a)
  <2>1. f \in Seq(S)
    BY <1>1, FlattenType, ZenonT(30)
  <2> HIDE DEF f, x
  <2>2. (f \o x) \o s = f \o (x \o s)
    <3>1. f \in Seq(S) /\ x \in Seq(S) /\ s \in Seq(S)
      BY <1>1, <2>1
    <3> QED
      BY ONLY <3>1, ConcatAssociative, SMTT(30)
  <2> QED
    BY <2>2, ZenonT(30) DEF f
<1>9. FlattenSeq(p) = FlattenSeq(q) \o s
  <2> HIDE DEF p, a, x
  <2> QED
    BY <1>4, <1>5, <1>6, <1>7, <1>8, Zenon
<1>10. \A i \in 1 .. N : Len(p[i]) >= Len(q[i])
  <2> TAKE i \in 1 .. N
  <2>1. q[i] \in Seq(S) /\ Len(q[i]) \in Nat /\ Len(s) \in Nat
    OBVIOUS
  <2> HIDE DEF p, y
  <2> QED
    BY <1>1, <1>2, <1>3, <2>1, SMTT(30)
<1> QED
  BY <1>3, <1>9, <1>10, Zenon
---------------------------------------------------------------------------
(* Splitting                                                               *)

\* The lines x with the n-th byte of data added.
Line(data, x, n) ==
    IF n = 1 \/ Kind(data[n - 1]) = "newline"
    THEN Append(x, <<data[n]>>)
    ELSE [x EXCEPT ![Len(x)] = Append(@, data[n])]

\* q holds whole lines only, and their bytes are those of s.
LinesOf(S, q, s) ==
    q \in Seq(Seq(S)) /\ (\A i \in 1 .. Len(q) : q[i] # <<>>) /\ FlattenSeq(q) = s

\* Adding a byte leaves lines.
LEMMA LineType ==
  ASSUME NEW S, NEW data \in Seq(S), NEW x \in Seq(Seq(S)), NEW n \in 1 .. Len(data)
  PROVE  Line(data, x, n) \in Seq(Seq(S))
<1>1. data[n] \in S
  OBVIOUS
<1>2. <<data[n]>> \in Seq(S)
  BY <1>1
<1>3. Append(x, <<data[n]>>) \in Seq(Seq(S))
  BY <1>2, AppendProperties
<1>4. [x EXCEPT ![Len(x)] = Append(@, data[n])] \in Seq(Seq(S))
  <2>1. CASE x = <<>>
    <3>1. DOMAIN x = {}
      BY <2>1
    <3>2. [x EXCEPT ![Len(x)] = Append(@, data[n])] = x
      BY <3>1
    <3> QED
      BY <3>2, Zenon
  <2>2. CASE x # <<>>
    <3>1. Len(x) \in 1 .. Len(x)
      BY <2>2
    <3>2. x[Len(x)] \in Seq(S)
      BY <3>1
    <3>3. Append(x[Len(x)], data[n]) \in Seq(S)
      BY <1>1, <3>2, AppendProperties
    <3> QED
      BY <3>1, <3>3, ExceptSeq
  <2> QED
    BY <2>1, <2>2
<1> QED
  BY <1>3, <1>4, Zenon DEF Line

\* One byte more.
LEMMA LineAdds ==
  ASSUME NEW S, NEW data \in Seq(S), NEW x, NEW n \in 1 .. Len(data),
         LinesOf(S, x, SubSeq(data, 1, n - 1)), n > 1 => x # <<>>
  PROVE  LinesOf(S, Line(data, x, n), SubSeq(data, 1, n)) /\ Line(data, x, n) # <<>>
<1> DEFINE d == data[n]
           u == <<d>>
           y == Line(data, x, n)
<1>1. x \in Seq(Seq(S)) /\ (\A i \in 1 .. Len(x) : x[i] # <<>>) /\ Len(x) \in Nat
      /\ FlattenSeq(x) = SubSeq(data, 1, n - 1)
  BY DEF LinesOf
<1>2. d \in S
  OBVIOUS
<1>3. u \in Seq(S) /\ u # <<>>
  BY <1>2
<1>4. SubSeq(data, 1, n) = SubSeq(data, 1, n - 1) \o u
  <2>1. 1 \in 1 .. Len(data) /\ n \in 1 .. Len(data)
    OBVIOUS
  <2> QED
    BY <2>1, SubSeqRecursiveSecond
<1>5. CASE n = 1 \/ Kind(data[n - 1]) = "newline"
  <2>1. y = Append(x, u)
    BY <1>5, Zenon DEF Line
  <2> HIDE DEF u
  <2>2. /\ Append(x, u) \in Seq(Seq(S)) /\ Append(x, u) # <<>>
        /\ Len(Append(x, u)) = Len(x) + 1
        /\ \A i \in 1 .. Len(x) : Append(x, u)[i] = x[i]
        /\ Append(x, u)[Len(x) + 1] = u
    BY <1>1, <1>3, AppendProperties, SMTT(30)
  <2> DEFINE z == Append(x, u)
  <2> HIDE DEF z
  <2>3. \A i \in 1 .. Len(z) : z[i] # <<>>
    BY <1>1, <1>3, <2>2 DEF z
  <2>4. FlattenSeq(z) = FlattenSeq(x) \o u
    BY <1>1, <1>3, FlattenAppend, ZenonT(30) DEF z
  <2>5. FlattenSeq(z) = SubSeq(data, 1, n)
    BY <1>1, <1>4, <2>4, Zenon
  <2>6. LinesOf(S, z, SubSeq(data, 1, n)) /\ z # <<>>
    BY <2>2, <2>3, <2>5, ZenonT(30) DEF LinesOf, z
  <2>7. y = z
    BY <2>1 DEF z
  <2> HIDE DEF y
  <2> QED
    BY <2>6, <2>7 DEF y
<1>6. CASE ~(n = 1 \/ Kind(data[n - 1]) = "newline")
  <2>1. x # <<>>
    BY <1>6
  <2> DEFINE z == [x EXCEPT ![Len(x)] = @ \o u]
  <2>2. y = z
    <3>1. Len(x) \in 1 .. Len(x)
      BY <1>1, <2>1
    <3>2. x[Len(x)] \in Seq(S)
      BY <1>1, <3>1
    <3>3. Append(x[Len(x)], d) = x[Len(x)] \o u
      BY <1>2, <3>2, AppendIsConcat
    <3>4. y = [x EXCEPT ![Len(x)] = Append(@, d)]
      BY <1>6, Zenon DEF Line
    <3> QED
      BY <3>3, <3>4, Zenon
  <2> HIDE DEF y, u
  <2>3. /\ z \in Seq(Seq(S)) /\ Len(z) = Len(x)
        /\ \A i \in 1 .. Len(x) : Len(z[i]) >= Len(x[i])
        /\ FlattenSeq(z) = FlattenSeq(x) \o u
    BY <1>1, <1>3, <2>1, FlattenExtend, Zenon
  <2> HIDE DEF z
  <2>4. \A i \in 1 .. Len(z) : z[i] # <<>>
    <3> TAKE i \in 1 .. Len(z)
    <3>1. x[i] \in Seq(S) /\ x[i] # <<>> /\ z[i] \in Seq(S) /\ Len(z[i]) >= Len(x[i])
      BY <1>1, <2>3
    <3>2. Len(x[i]) > 0
      BY <3>1
    <3> QED
      BY <3>1, <3>2
  <2>5. z # <<>>
    BY <1>1, <2>1, <2>3
  <2>6. FlattenSeq(z) = SubSeq(data, 1, n)
    BY <1>1, <1>4, <2>3, Zenon
  <2> QED
    BY <2>2, <2>3, <2>4, <2>5, <2>6, ZenonT(30) DEF LinesOf, y
<1> QED
  BY <1>5, <1>6

\* g[n] are the lines of the first n bytes.
Splits(g, data) == g[0] = <<>> /\ \A n \in 1 .. Len(data) : g[n] = Line(data, g[n - 1], n)

\* SplitLines is what such a g builds.
LEMMA SplitDef ==
  ASSUME NEW S, NEW data \in Seq(S)
  PROVE  \E g : Splits(g, data) /\ SplitLines(data) = g[Len(data)]
<1> DEFINE N == Len(data)
           X == Seq(Seq(S))
           step == [p \in X \X (1 .. N) |-> Line(data, p[1], p[2])]
           F(c) == [n \in 0 .. N |->
                      IF n = 0 THEN <<>>
                      ELSE IF n = 1 \/ Kind(data[n - 1]) = "newline"
                      THEN Append(c[n - 1], <<data[n]>>)
                      ELSE [c[n - 1] EXCEPT ![Len(c[n - 1])] = Append(@, data[n])]]
           lines == CHOOSE c : c = F(c)
<1>1. SplitLines(data) = lines[N]
  BY DEF SplitLines
<1>2. \A x \in X, i \in 1 .. N : <<x, i>> \in X \X (1 .. N) /\ Line(data, x, i) \in X
  BY LineType
<1>3. \A x \in X, i \in 1 .. N : step[<<x, i>>] = Line(data, x, i)
  BY <1>2, ZenonT(30)
<1>4. N \in Nat /\ <<>> \in X
  OBVIOUS
<1>5. PICK a \in [0 .. N -> X] : Iterates(a, <<>>, step, N)
  <2> HIDE DEF step, X, N
  <2>1. \A x \in X, i \in 1 .. N : step[<<x, i>>] \in X
    BY <1>2, <1>3, ZenonT(30)
  <2> QED
    BY <1>4, <2>1, IterationExists, ZenonT(30)
<1>6. a[0] = <<>> /\ \A i \in 1 .. N : a[i] = Line(data, a[i - 1], i)
  <2> HIDE DEF step, X, N
  <2>1. ASSUME NEW i \in 1 .. N PROVE a[i] = Line(data, a[i - 1], i)
    <3>1. a[i - 1] \in X
      BY <1>4
    <3>2. a[i] = step[<<a[i - 1], i>>]
      BY <1>5 DEF Iterates
    <3> QED
      BY <3>1, <3>2, <1>3
  <2> QED
    BY <1>5, <2>1 DEF Iterates
<1>7. a = F(a)
  <2>1. ASSUME NEW n \in 0 .. N PROVE a[n] = F(a)[n]
    <3>1. CASE n = 0
      BY <1>6, <3>1
    <3>2. CASE n # 0
      <4>1. n \in 1 .. N
        BY <3>2
      <4>2. a[n] = Line(data, a[n - 1], n)
        BY <1>6, <4>1, Zenon
      <4> QED
        BY <3>2, <4>2, Zenon DEF Line
    <3> QED
      BY <3>1, <3>2
  <2> HIDE DEF X
  <2> QED
    BY <2>1, SMTT(30)
<1>8. lines = F(lines)
  BY <1>7, ZenonT(30)
<1> HIDE DEF lines
<1>9. ASSUME NEW n \in 0 .. N PROVE lines[n] = IF n = 0 THEN <<>> ELSE Line(data, lines[n - 1], n)
  <2> DEFINE c == F(lines)
  <2>1. c[n] = IF n = 0 THEN <<>> ELSE Line(data, lines[n - 1], n)
    BY Zenon DEF Line
  <2>2. lines = c
    BY <1>8, ZenonT(30)
  <2> HIDE DEF c
  <2> QED
    BY <2>1, <2>2
<1>10. lines[0] = <<>>
  BY <1>4, <1>9
<1>11. ASSUME NEW n \in 1 .. N PROVE lines[n] = Line(data, lines[n - 1], n)
  <2>1. n \in 0 .. N /\ n # 0
    OBVIOUS
  <2> QED
    BY <1>9, <2>1, Zenon
<1>12. Splits(lines, data)
  BY <1>10, <1>11 DEF Splits
<1> QED
  BY <1>1, <1>12

\* Splitting loses no byte, and makes no empty line.
LEMMA SplitKeeps ==
  ASSUME NEW S, NEW data \in Seq(S)
  PROVE  LinesOf(S, SplitLines(data), data)
<1>1. PICK g : Splits(g, data) /\ SplitLines(data) = g[Len(data)]
  BY SplitDef
<1> DEFINE Part(n) == LinesOf(S, g[n], SubSeq(data, 1, n)) /\ (n > 0 => g[n] # <<>>)
           Q == {n \in Nat : n <= Len(data) => Part(n)}
<1>0. Len(data) \in Nat /\ SubSeq(data, 1, Len(data)) = data /\ SubSeq(data, 1, 0) = <<>>
  OBVIOUS
<1>2. 0 \in Q
  <2>1. g[0] = <<>> /\ <<>> \in Seq(Seq(S)) /\ Len(<<>>) = 0
    BY <1>1 DEF Splits
  <2>2. LinesOf(S, <<>>, <<>>)
    BY <2>1, FlattenEmpty DEF LinesOf
  <2>3. Part(0)
    <3>1. LinesOf(S, g[0], SubSeq(data, 1, 0))
      BY <1>0, <2>1, <2>2, Zenon
    <3> QED
      BY <3>1
  <2> HIDE DEF Part
  <2> QED
    BY <2>3
<1>3. \A n \in Nat : n \in Q => n + 1 \in Q
  <2> SUFFICES ASSUME NEW n \in Nat, n + 1 <= Len(data), Part(n) PROVE Part(n + 1)
    <3> HIDE DEF Part
    <3> QED
      BY <1>0
  <2>1. PICK m \in 1 .. Len(data) : m = n + 1
    BY <1>0
  <2>2. LinesOf(S, g[m - 1], SubSeq(data, 1, m - 1)) /\ (m > 1 => g[m - 1] # <<>>)
    BY <2>1
  <2>3. g[m] = Line(data, g[m - 1], m)
    BY <1>1, Zenon DEF Splits
  <2>4. LinesOf(S, Line(data, g[m - 1], m), SubSeq(data, 1, m)) /\ Line(data, g[m - 1], m) # <<>>
    BY <2>2, LineAdds
  <2> QED
    BY <2>1, <2>3, <2>4
<1> HIDE DEF Q, Part
<1>4. Len(data) \in Q
  BY <1>0, <1>2, <1>3, NatByStep
<1>5. Part(Len(data))
  BY <1>0, <1>4 DEF Q
<1> QED
  BY <1>0, <1>1, <1>5, Zenon DEF Part
---------------------------------------------------------------------------
(* Numbers and ends                                                        *)

\* What a number just outside the range of a usize becomes.
LEMMA Wraps ==
  ASSUME NEW U \in Nat, NEW x \in Int, -U < x, x < U + U
  PROVE  x % U = IF x < 0 THEN x + U ELSE IF x < U THEN x ELSE x - U
<1>1. CASE x < 0
  BY <1>1
<1>2. CASE 0 <= x /\ x < U
  BY <1>2
<1>3. CASE U <= x
  BY <1>3
<1> QED
  BY <1>1, <1>2, <1>3

\* The account t of s bytes, u of which were not counted, is right again after
\* n bytes more, or r bytes less.
LEMMA AccountAdds ==
  ASSUME NEW U \in Nat, NEW t, NEW s \in Nat, NEW u \in Nat, NEW n \in Nat, NEW m \in Nat,
         t = (s - u) % U, s + n + m < U, u + m < U
  PROVE  /\ t \in 0 .. U - 1
         /\ (t + n) % U = (s + (n + m) - (u + m)) % U
<1>1. PICK x \in Int : x = s - u
  OBVIOUS
<1>2. -U < x /\ x < U + U /\ x < U
  BY <1>1
<1>3. t = IF x < 0 THEN x + U ELSE x
  <2>1. x % U = IF x < 0 THEN x + U ELSE IF x < U THEN x ELSE x - U
    BY <1>2, Wraps, ZenonT(30)
  <2> QED
    BY <1>1, <1>2, <2>1
<1>4. PICK y \in Int : y = t + n
  BY <1>3
<1>5. PICK z \in Int : z = s + (n + m) - (u + m)
  OBVIOUS
<1>6. z = x + n /\ -U < z /\ z < U + U /\ z < U
  BY <1>1, <1>5
<1>7. z % U = IF z < 0 THEN z + U ELSE IF z < U THEN z ELSE z - U
  BY <1>6, Wraps, ZenonT(30)
<1>8. -U < y /\ y < U + U
  BY <1>1, <1>3, <1>4
<1>9. y % U = IF y < 0 THEN y + U ELSE IF y < U THEN y ELSE y - U
  BY <1>8, Wraps, ZenonT(30)
<1>10. y % U = z % U
  BY <1>2, <1>3, <1>4, <1>6, <1>7, <1>8, <1>9
<1>11. t \in 0 .. U - 1
  BY <1>2, <1>3
<1> QED
  BY <1>4, <1>5, <1>10, <1>11, Zenon

\* The same when r bytes are removed.
LEMMA AccountRemoves ==
  ASSUME NEW U \in Nat, NEW t, NEW s \in Nat, NEW u \in Nat, NEW r \in Nat,
         t = (s - u) % U, s < U, u < U, r <= s
  PROVE  (t - r) % U = ((s - r) - u) % U
<1>1. PICK x \in Int : x = s - u
  OBVIOUS
<1>2. -U < x /\ x < U + U /\ x < U
  BY <1>1
<1>3. t = IF x < 0 THEN x + U ELSE x
  <2>1. x % U = IF x < 0 THEN x + U ELSE IF x < U THEN x ELSE x - U
    BY <1>2, Wraps, ZenonT(30)
  <2> QED
    BY <1>1, <1>2, <2>1
<1>4. PICK y \in Int : y = t - r
  BY <1>3
<1>5. PICK z \in Int : z = (s - r) - u
  OBVIOUS
<1>6. z = x - r /\ -U < z /\ z < U + U /\ z < U
  BY <1>1, <1>5
<1>7. z % U = IF z < 0 THEN z + U ELSE IF z < U THEN z ELSE z - U
  BY <1>6, Wraps, ZenonT(30)
<1>8. -U < y /\ y < U + U /\ y < U
  BY <1>1, <1>3, <1>4
<1>9. y % U = IF y < 0 THEN y + U ELSE IF y < U THEN y ELSE y - U
  BY <1>8, Wraps, ZenonT(30)
<1>10. y % U = z % U
  BY <1>2, <1>3, <1>4, <1>6, <1>7, <1>8, <1>9
<1> QED
  BY <1>4, <1>5, <1>10, Zenon

\* What comes last is a suffix.
LEMMA SuffixOf ==
  ASSUME NEW S, NEW p \in Seq(S), NEW s \in Seq(S)
  PROVE  IsSuffix(s, p \o s)
<1> DEFINE t == p \o s
           a == Reverse(s)
           b == Reverse(t)
<1>1. /\ t \in Seq(S) /\ Len(t) = Len(p) + Len(s) /\ Len(p) \in Nat /\ Len(s) \in Nat
      /\ \A i \in 1 .. Len(s) : t[Len(p) + i] = s[i]
  <2>1. /\ t \in Seq(S) /\ Len(t) = Len(p) + Len(s)
        /\ \A i \in 1 .. Len(p) + Len(s) : t[i] = IF i <= Len(p) THEN p[i] ELSE s[i - Len(p)]
    BY ConcatProperties
  <2>2. Len(p) \in Nat /\ Len(s) \in Nat
    OBVIOUS
  <2> HIDE DEF t
  <2> QED
    BY <2>1, <2>2, SMTT(30)
<1> HIDE DEF t
<1>2. \A i \in 1 .. Len(s) : s[(Len(s) - i) + 1] \in S
  OBVIOUS
<1>3. \A i \in 1 .. Len(t) : t[(Len(t) - i) + 1] \in S
  BY <1>1
<1>4. a \in Seq(S) /\ Len(a) = Len(s) /\ \A i \in 1 .. Len(s) : a[i] = s[(Len(s) - i) + 1]
  BY <1>1, <1>2 DEF Reverse
<1>5. b \in Seq(S) /\ Len(b) = Len(t) /\ \A i \in 1 .. Len(t) : b[i] = t[(Len(t) - i) + 1]
  BY <1>1, <1>3 DEF Reverse
<1> HIDE DEF a, b
<1>6. \A i \in 1 .. Len(s) : b[i] = a[i]
  <2> TAKE i \in 1 .. Len(s)
  <2>1. b[i] = t[(Len(t) - i) + 1] /\ a[i] = s[(Len(s) - i) + 1]
    BY <1>1, <1>4, <1>5
  <2>2. (Len(t) - i) + 1 = Len(p) + ((Len(s) - i) + 1) /\ (Len(s) - i) + 1 \in 1 .. Len(s)
    BY <1>1
  <2> QED
    BY <1>1, <2>1, <2>2, ZenonT(30)
<1>7. SubSeq(b, 1, Len(s)) = SubSeq(a, 1, Len(s))
  <2>1. /\ SubSeq(b, 1, Len(s)) \in Seq(S) /\ Len(SubSeq(b, 1, Len(s))) = Len(s)
        /\ \A i \in 1 .. Len(s) : SubSeq(b, 1, Len(s))[i] = b[i]
    BY <1>1, <1>5, SMTT(30)
  <2>2. /\ SubSeq(a, 1, Len(s)) \in Seq(S) /\ Len(SubSeq(a, 1, Len(s))) = Len(s)
        /\ \A i \in 1 .. Len(s) : SubSeq(a, 1, Len(s))[i] = a[i]
    BY <1>1, <1>4, SMTT(30)
  <2> QED
    BY <1>6, <2>1, <2>2, SeqEqual
<1>8. IsPrefix(a, b)
  BY <1>1, <1>4, <1>5, <1>7 DEF IsPrefix
<1> QED
  BY <1>8 DEF IsSuffix, a, b, t
---------------------------------------------------------------------------
(* The buffer                                                              *)

Buffers == [lines : Seq(Seq(Byte)), total_size : Nat, last_line_incomplete : BOOLEAN]

Whole(lines) == \A i \in 1 .. Len(lines) : lines[i] # <<>>

\* b holds the end of the output o, in lines that are not empty, and its account
\* of the size lacks u bytes.
Holds(b, o, u) ==
    /\ b \in Buffers
    /\ Whole(b.lines)
    /\ \E p \in Seq(Byte) : o = p \o FlattenSeq(b.lines)
    /\ b.total_size = (Size(b.lines) - u) % UsizeValues

\* What is held is no longer than the output.
LEMMA HeldLength ==
  ASSUME NEW q \in Seq(Seq(Byte)), NEW p \in Seq(Byte), NEW o, o = p \o FlattenSeq(q)
  PROVE  /\ FlattenSeq(q) \in Seq(Byte) /\ Size(q) \in Nat /\ o \in Seq(Byte)
         /\ Len(o) = Len(p) + Size(q) /\ Size(q) <= Len(o)
<1>1. FlattenSeq(q) \in Seq(Byte)
  BY FlattenType
<1> DEFINE f == FlattenSeq(q)
<1> HIDE DEF f
<1>2. f \in Seq(Byte)
  BY <1>1 DEF f
<1>3. p \o f \in Seq(Byte) /\ Len(p \o f) = Len(p) + Len(f) /\ Len(p) \in Nat /\ Len(f) \in Nat
  BY <1>2, ConcatProperties
<1>4. Size(q) = Len(f) /\ o = p \o f
  BY DEF Size, f
<1>5. o \in Seq(Byte) /\ Len(o) = Len(p) + Len(f) /\ Len(f) <= Len(o)
  BY <1>3, <1>4
<1> QED
  BY <1>1, <1>3, <1>4, <1>5

\* A buffer with other lines and another account.
LEMMA BufferExcept ==
  ASSUME NEW b \in Buffers, NEW l, NEW n
  PROVE  [b EXCEPT !.lines = l, !.total_size = n]
         = [lines |-> l, total_size |-> n, last_line_incomplete |-> b.last_line_incomplete]
<1>1. PICK y : y = b.total_size
  OBVIOUS
<1>2. PICK z : z = b.last_line_incomplete
  OBVIOUS
<1>3. PICK c : c = [lines |-> l, total_size |-> y, last_line_incomplete |-> z]
  BY ZenonT(30)
<1>4. [b EXCEPT !.lines = l] = [lines |-> l, total_size |-> b.total_size,
                                last_line_incomplete |-> b.last_line_incomplete]
  BY SMTT(30) DEF Buffers
<1>5. [c EXCEPT !.total_size = n] = [lines |-> l, total_size |-> n, last_line_incomplete |-> z]
  BY ONLY <1>3
<1>6. [[b EXCEPT !.lines = l] EXCEPT !.total_size = n] = [c EXCEPT !.total_size = n]
  BY <1>1, <1>2, <1>3, <1>4, ZenonT(30)
<1> QED
  BY <1>2, <1>5, <1>6

\* Removing the oldest lines leaves the end of the output.
LEMMA Removed ==
  ASSUME NEW b, NEW o \in Seq(Byte), NEW u \in Nat, Holds(b, o, u),
         Len(o) <= MaxOutput, u <= Len(o), NEW k \in 0 .. Len(b.lines)
  PROVE  /\ Holds(RemoveOldest(b, k), o, u)
         /\ Len(RemoveOldest(b, k).lines) = Len(b.lines) - k
<1> DEFINE q == b.lines
           x == SubSeq(q, 1, k)
           y == SubSeq(q, k + 1, Len(q))
           fx == FlattenSeq(x)
           fy == FlattenSeq(y)
           c == RemoveOldest(b, k)
<1>1. b \in Buffers /\ q \in Seq(Seq(Byte)) /\ Whole(q) /\ Len(q) \in Nat
      /\ b.total_size = (Size(q) - u) % UsizeValues
  BY DEF Holds, Buffers
<1>2. /\ x \in Seq(Seq(Byte)) /\ y \in Seq(Seq(Byte)) /\ Len(y) = Len(q) - k
      /\ \A i \in 1 .. Len(q) - k : y[i] = q[k + i]
      /\ FlattenSeq(q) = fx \o fy
  <2>1. k \in 0 .. Len(q)
    OBVIOUS
  <2> HIDE DEF q
  <2> QED
    BY <1>1, <2>1, FlattenParts, ZenonT(30)
<1>3. PICK p \in Seq(Byte) : o = p \o FlattenSeq(q)
  BY DEF Holds
<1>4. /\ c.lines = y /\ c.total_size = (b.total_size - Size(x)) % UsizeValues
      /\ c.last_line_incomplete = b.last_line_incomplete
      /\ c = [lines |-> y, total_size |-> (b.total_size - Size(x)) % UsizeValues,
              last_line_incomplete |-> b.last_line_incomplete]
  <2> DEFINE n == (b.total_size - Size(x)) % UsizeValues
  <2>1. c = [b EXCEPT !.lines = y, !.total_size = n]
    BY DEF RemoveOldest
  <2> HIDE DEF c, y, n
  <2>2. c = [lines |-> y, total_size |-> n, last_line_incomplete |-> b.last_line_incomplete]
    BY <1>1, <2>1, BufferExcept, ZenonT(30)
  <2> QED
    BY <2>2 DEF n
<1> HIDE DEF c, x, y, fx, fy
<1>5. fx \in Seq(Byte) /\ fy \in Seq(Byte) /\ Size(x) = Len(fx) /\ Size(y) = Len(fy)
  BY <1>2, FlattenType DEF fx, fy, Size
<1>6. /\ Len(fx) \in Nat /\ Len(fy) \in Nat /\ p \o fx \in Seq(Byte)
      /\ (p \o fx) \o fy = p \o (fx \o fy) /\ Len(fx \o fy) = Len(fx) + Len(fy)
  <2>1. Len(fx) \in Nat /\ Len(fy) \in Nat /\ p \o fx \in Seq(Byte)
        /\ Len(fx \o fy) = Len(fx) + Len(fy)
    BY <1>5, ConcatProperties
  <2>2. (p \o fx) \o fy = p \o (fx \o fy)
    <3>1. p \in Seq(Byte) /\ fx \in Seq(Byte) /\ fy \in Seq(Byte)
      BY <1>5
    <3> QED
      BY ONLY <3>1, ConcatAssociative, SMTT(30)
  <2> QED
    BY <2>1, <2>2, Zenon
<1>7. \E r \in Seq(Byte) : o = r \o fy
  <2>1. o = (p \o fx) \o fy
    BY <1>2, <1>3, <1>6, Zenon
  <2> QED
    BY <1>6, <2>1, Zenon
<1>8. Size(q) \in Nat /\ Size(q) <= Len(o) /\ Size(q) = Len(fx) + Len(fy)
  <2>1. Size(q) \in Nat /\ Size(q) <= Len(o)
    BY <1>1, <1>3, HeldLength, ZenonT(30)
  <2>2. Size(q) = Len(fx \o fy)
    BY <1>2, Zenon DEF Size
  <2> QED
    BY <1>6, <2>1, <2>2
<1>9. UsizeValues \in Nat /\ UsizeValues > 0 /\ Len(o) < UsizeValues /\ Len(o) \in Nat
  BY OutputBufferAssumption
<1>10. c.total_size = (Len(fy) - u) % UsizeValues
  <2> DEFINE s == Size(q)
             r == Size(x)
             t == b.total_size
  <2>1. s \in Nat /\ r \in Nat /\ t = (s - u) % UsizeValues /\ s < UsizeValues
        /\ u < UsizeValues /\ r <= s /\ s - r = Len(fy)
    BY <1>1, <1>5, <1>6, <1>8, <1>9, SMTT(30)
  <2> HIDE DEF s, r, t
  <2>2. (t - r) % UsizeValues = ((s - r) - u) % UsizeValues
    <3>1. UsizeValues \in Nat /\ s \in Nat /\ u \in Nat /\ r \in Nat
      BY <1>9, <2>1
    <3>2. t = (s - u) % UsizeValues /\ s < UsizeValues /\ u < UsizeValues /\ r <= s
      BY <2>1
    <3> QED
      BY ONLY <3>1, <3>2, AccountRemoves, SMTT(30)
  <2>3. c.total_size = (t - r) % UsizeValues
    BY <1>4, Zenon DEF t, r
  <2> QED
    BY <2>1, <2>2, <2>3, Zenon
<1>11. (Len(fy) - u) % UsizeValues \in Nat
  BY <1>6, <1>9
<1>12. c \in Buffers
  <2>1. b.last_line_incomplete \in BOOLEAN
    BY <1>1 DEF Buffers
  <2> QED
    BY <1>2, <1>4, <1>10, <1>11, <2>1 DEF Buffers
<1>13. Whole(y)
  <2> SUFFICES ASSUME NEW i \in 1 .. Len(y) PROVE y[i] # <<>>
    BY DEF Whole
  <2>1. i \in 1 .. Len(q) - k /\ k + i \in 1 .. Len(q)
    <3>1. PICK l \in Nat : l = Len(q)
      BY <1>1
    <3>2. k \in 0 .. l /\ i \in 1 .. l - k
      BY <1>2, <3>1
    <3>3. i \in 1 .. l - k /\ k + i \in 1 .. l
      BY ONLY <3>2, l \in Nat
    <3> QED
      BY <3>1, <3>3
  <2> QED
    BY <1>1, <1>2, <2>1, ZenonT(30) DEF Whole
<1>14. c.total_size = (Size(c.lines) - u) % UsizeValues
  BY <1>4, <1>5, <1>10, Zenon
<1>15. Len(c.lines) = Len(q) - k
  BY <1>2, <1>4
<1>16. Whole(c.lines) /\ \E r \in Seq(Byte) : o = r \o FlattenSeq(c.lines)
  BY <1>4, <1>7, <1>13, Zenon DEF fy
<1> QED
  BY <1>12, <1>14, <1>15, <1>16, Zenon DEF Holds, c

\* A buffer whose lines hold data more.
LEMMA HoldsMore ==
  ASSUME NEW b, NEW o \in Seq(Byte), NEW u \in Nat, Holds(b, o, u), u <= Len(o),
         NEW data \in Seq(Byte), Len(o) + Len(data) <= MaxOutput,
         NEW q, LinesOf(Byte, q, FlattenSeq(b.lines) \o data),
         NEW n \in Nat, NEW m \in Nat, n + m = Len(data), NEW open \in BOOLEAN
  PROVE  Holds([lines |-> q, total_size |-> (b.total_size + n) % UsizeValues,
                last_line_incomplete |-> open], o \o data, u + m)
<1> DEFINE f == FlattenSeq(b.lines)
           t == b.total_size
           w == (t + n) % UsizeValues
           c == [lines |-> q, total_size |-> w, last_line_incomplete |-> open]
<1>1. b.lines \in Seq(Seq(Byte)) /\ t = (Size(b.lines) - u) % UsizeValues
  BY DEF Holds, Buffers
<1>2. PICK p \in Seq(Byte) : o = p \o f
  BY ZenonT(30) DEF Holds
<1>3. f \in Seq(Byte) /\ Size(b.lines) = Len(f) /\ Len(f) \in Nat /\ Len(f) <= Len(o)
  BY <1>1, <1>2, HeldLength DEF Size
<1>4. q \in Seq(Seq(Byte)) /\ Whole(q) /\ FlattenSeq(q) = f \o data
  BY DEF LinesOf, Whole
<1> HIDE DEF f, t
<1>5. o \o data = p \o FlattenSeq(q)
  <2>1. (p \o f) \o data = p \o (f \o data)
    <3>1. p \in Seq(Byte) /\ f \in Seq(Byte) /\ data \in Seq(Byte)
      BY <1>3
    <3> QED
      BY ONLY <3>1, ConcatAssociative, SMTT(30)
  <2> QED
    BY <1>2, <1>4, <2>1, Zenon
<1>6. Len(data) \in Nat /\ Len(o) \in Nat /\ Len(f \o data) = Len(f) + Len(data)
  BY <1>3, ConcatProperties
<1>7. Size(q) = Len(f) + (n + m)
  BY <1>4, <1>6, ZenonT(30) DEF Size
<1>8. w = ((Len(f) + (n + m)) - (u + m)) % UsizeValues /\ w \in Nat
  <2>1. Len(f) + n + m <= MaxOutput /\ u + m <= MaxOutput
    BY <1>3, <1>6, OutputBufferAssumption
  <2>2. t = (Len(f) - u) % UsizeValues
    BY <1>1, <1>3, Zenon
  <2>3. Len(f) \in Nat /\ n \in Nat /\ m \in Nat /\ u \in Nat
    BY <1>3
  <2>4. PICK l \in Nat : l = Len(f)
    BY <2>3
  <2>5. t = (l - u) % UsizeValues /\ l + n + m <= MaxOutput
    BY <2>1, <2>2, <2>4
  <2>6. PICK v : v = t
    OBVIOUS
  <2>7. /\ (v + n) % UsizeValues = (l + (n + m) - (u + m)) % UsizeValues
        /\ v \in 0 .. UsizeValues - 1
    <3>1. v = (l - u) % UsizeValues /\ l \in Nat
      BY <2>1, <2>4, <2>5, <2>6
    <3>2. UsizeValues \in Nat /\ UsizeValues > 0 /\ n \in Nat /\ m \in Nat /\ u \in Nat
      BY OutputBufferAssumption
    <3>3. l + n + m < UsizeValues /\ u + m < UsizeValues
      BY <2>1, <2>5, OutputBufferAssumption
    <3> QED
      BY ONLY <3>1, <3>2, <3>3, AccountAdds, SMTT(30)
  <2>8. (v + n) % UsizeValues \in Nat
    <3>1. UsizeValues \in Nat /\ UsizeValues > 0 /\ v + n \in Nat
      BY <2>7, OutputBufferAssumption
    <3> QED
      BY ONLY <3>1
  <2> QED
    BY <2>4, <2>6, <2>7, <2>8
<1> HIDE DEF w
<1>9. c \in Buffers /\ c.lines = q /\ c.total_size = w
  BY <1>4, <1>8 DEF Buffers
<1>10. c.total_size = (Size(c.lines) - (u + m)) % UsizeValues
  BY <1>7, <1>8, <1>9, Zenon
<1> HIDE DEF c
<1>11. Holds(c, o \o data, u + m)
  BY <1>4, <1>5, <1>9, <1>10, Zenon DEF Holds
<1> QED
  BY <1>11 DEF c, w, t

\* The lines of q and then those of r.
LEMMA LinesConcat ==
  ASSUME NEW S, NEW q, NEW r, NEW x \in Seq(S), NEW y \in Seq(S),
         LinesOf(S, q, x), LinesOf(S, r, y)
  PROVE  LinesOf(S, q \o r, x \o y)
<1> DEFINE z == q \o r
<1>1. q \in Seq(Seq(S)) /\ r \in Seq(Seq(S)) /\ FlattenSeq(q) = x /\ FlattenSeq(r) = y
      /\ (\A i \in 1 .. Len(q) : q[i] # <<>>) /\ \A i \in 1 .. Len(r) : r[i] # <<>>
  BY DEF LinesOf
<1>2. FlattenSeq(z) = x \o y
  <2>1. FlattenSeq(q \o r) = FlattenSeq(q) \o FlattenSeq(r)
    BY <1>1, FlattenConcat, ZenonT(30)
  <2> QED
    BY <1>1, <2>1, Zenon
<1>3. /\ z \in Seq(Seq(S)) /\ Len(z) = Len(q) + Len(r) /\ Len(q) \in Nat /\ Len(r) \in Nat
      /\ \A i \in 1 .. Len(q) + Len(r) : z[i] = IF i <= Len(q) THEN q[i] ELSE r[i - Len(q)]
  BY <1>1, ConcatProperties
<1> HIDE DEF z
<1>4. \A i \in 1 .. Len(z) : z[i] # <<>>
  <2> TAKE i \in 1 .. Len(z)
  <2>1. CASE i <= Len(q)
    <3>1. i \in 1 .. Len(q) /\ z[i] = q[i]
      BY <1>3, <2>1, SMTT(30)
    <3> QED
      BY <1>1, <3>1
  <2>2. CASE ~(i <= Len(q))
    <3>1. i - Len(q) \in 1 .. Len(r) /\ z[i] = r[i - Len(q)]
      BY <1>3, <2>2, SMTT(30)
    <3> QED
      BY <1>1, <3>1
  <2> QED
    BY <2>1, <2>2
<1>5. LinesOf(S, z, x \o y)
  BY <1>2, <1>3, <1>4 DEF LinesOf
<1> QED
  BY <1>5 DEF z

\* Bytes added to the last line.
LEMMA LinesExtend ==
  ASSUME NEW S, NEW q, NEW x, LinesOf(S, q, x), q # <<>>, NEW s \in Seq(S)
  PROVE  LinesOf(S, [q EXCEPT ![Len(q)] = @ \o s], x \o s)
<1> DEFINE z == [q EXCEPT ![Len(q)] = @ \o s]
<1>1. q \in Seq(Seq(S)) /\ FlattenSeq(q) = x /\ \A i \in 1 .. Len(q) : q[i] # <<>>
  BY DEF LinesOf
<1>2. /\ z \in Seq(Seq(S)) /\ Len(z) = Len(q)
      /\ \A i \in 1 .. Len(q) : Len(z[i]) >= Len(q[i])
      /\ FlattenSeq(z) = FlattenSeq(q) \o s
  BY <1>1, FlattenExtend, Zenon
<1> HIDE DEF z
<1>3. \A i \in 1 .. Len(z) : z[i] # <<>>
  <2> TAKE i \in 1 .. Len(z)
  <2>1. q[i] \in Seq(S) /\ q[i] # <<>> /\ z[i] \in Seq(S) /\ Len(z[i]) >= Len(q[i])
    BY <1>1, <1>2
  <2>2. Len(q[i]) > 0
    BY <2>1
  <2> QED
    BY <2>1, <2>2
<1>4. FlattenSeq(z) = x \o s
  BY <1>1, <1>2, Zenon
<1>5. LinesOf(S, z, x \o s)
  BY <1>2, <1>3, <1>4 DEF LinesOf
<1> QED
  BY <1>5 DEF z

\* A chunk that goes on with the last line.
LEMMA Continued ==
  ASSUME NEW b, NEW o \in Seq(Byte), NEW u \in Nat, Holds(b, o, u), u <= Len(o),
         NEW data \in Seq(Byte), Len(o) + Len(data) <= MaxOutput, ContinuesLine(b, data)
  PROVE  Holds([b EXCEPT !.lines = ExtendLast(b, data),
                         !.total_size = (@ + Len(data)) % UsizeValues], o \o data, u)
<1> DEFINE q == ExtendLast(b, data)
           w == (b.total_size + Len(data)) % UsizeValues
           open == b.last_line_incomplete
<1>1. b \in Buffers /\ open \in BOOLEAN /\ LinesOf(Byte, b.lines, FlattenSeq(b.lines))
  BY DEF Holds, Buffers, LinesOf, Whole
<1>2. b.lines # <<>>
  BY DEF ContinuesLine
<1>3. LinesOf(Byte, q, FlattenSeq(b.lines) \o data)
  <2> DEFINE l == b.lines
  <2> HIDE DEF l
  <2>1. LinesOf(Byte, [l EXCEPT ![Len(l)] = @ \o data], FlattenSeq(l) \o data)
    BY <1>1, <1>2, LinesExtend, ZenonT(30) DEF l
  <2> QED
    BY <2>1, Zenon DEF l, ExtendLast
<1>4. Len(data) \in Nat /\ 0 \in Nat /\ Len(data) + 0 = Len(data) /\ u + 0 = u
  OBVIOUS
<1> DEFINE n == Len(data)
           c == [lines |-> q, total_size |-> w, last_line_incomplete |-> open]
<1>5. Holds(c, o \o data, u + 0)
  <2> HIDE DEF q, open
  <2>1. Holds([lines |-> q, total_size |-> (b.total_size + n) % UsizeValues,
               last_line_incomplete |-> open], o \o data, u + 0)
    BY <1>1, <1>3, <1>4, HoldsMore, ZenonT(30)
  <2> QED
    BY <2>1
<1>6. [b EXCEPT !.lines = q, !.total_size = w] = c
  <2> HIDE DEF q, w
  <2> QED
    BY <1>1, BufferExcept, ZenonT(30)
<1> HIDE DEF c
<1> QED
  BY <1>4, <1>5, <1>6

\* The bytes that complete the last line.
LEMMA Completing ==
  ASSUME NEW b, NEW data \in Seq(Byte), ~ContinuesLine(b, data)
  PROVE  /\ CompletingBytes(b, data) \in 0 .. Len(data)
         /\ CompletingBytes(b, data) # 0 => b.lines # <<>>
<1> DEFINE P == NewlinePositions(data)
<1>1. P \subseteq 1 .. Len(data) /\ P \subseteq Nat /\ Len(data) \in Nat
  BY DEF NewlinePositions
<1>2. CASE b.last_line_incomplete /\ b.lines /= <<>>
  <2>1. P # {}
    BY <1>2 DEF ContinuesLine
  <2> HIDE DEF P
  <2>2. \E i \in P : \A j \in P : i <= j
    BY <1>1, <2>1, Least
  <2>3. CompletingBytes(b, data) = CHOOSE i \in P : \A j \in P : i <= j
    BY <1>2 DEF CompletingBytes, P
  <2>4. CompletingBytes(b, data) \in P
    BY <2>2, <2>3, Zenon
  <2>5. PICK k \in P : k = CompletingBytes(b, data)
    BY <2>4
  <2>6. k \in 0 .. Len(data)
    BY <1>1
  <2> QED
    BY <1>2, <2>5, <2>6, Zenon
<1>3. CASE ~(b.last_line_incomplete /\ b.lines /= <<>>)
  BY <1>1, <1>3 DEF CompletingBytes
<1> QED
  BY <1>2, <1>3

\* A chunk split into lines, before the trimming.
LEMMA Appended ==
  ASSUME NEW b, NEW o \in Seq(Byte), NEW u \in Nat, Holds(b, o, u), u <= Len(o),
         NEW data \in Seq(Byte), Len(o) + Len(data) <= MaxOutput, ~ContinuesLine(b, data)
  PROVE  Holds(AppendLines(b, data), o \o data, u + CompletingBytes(b, data))
<1> DEFINE m == CompletingBytes(b, data)
           head == SubSeq(data, 1, m)
           rest == SubSeq(data, m + 1, Len(data))
           f == FlattenSeq(b.lines)
           first == IF m = 0 THEN b.lines ELSE ExtendLast(b, head)
           q == first \o SplitLines(rest)
           n == Len(rest)
           open == (rest /= <<>> /\ Kind(Last(rest)) /= "newline")
                   \/ (m = 0 /\ b.last_line_incomplete)
<1>1. m \in 0 .. Len(data) /\ (m # 0 => b.lines # <<>>) /\ Len(data) \in Nat
  BY Completing
<1>2. b \in Buffers /\ LinesOf(Byte, b.lines, f) /\ f \in Seq(Byte)
  BY FlattenType DEF Holds, Buffers, LinesOf, Whole
<1>3. AppendLines(b, data) = [lines |-> q, total_size |-> (b.total_size + n) % UsizeValues,
                              last_line_incomplete |-> open]
  BY Zenon DEF AppendLines
<1> HIDE DEF m
<1>4. /\ head \in Seq(Byte) /\ rest \in Seq(Byte) /\ Len(head) = m /\ n = Len(data) - m
      /\ head \o rest = data
  <2>1. head \in Seq(Byte) /\ rest \in Seq(Byte) /\ Len(head) = m /\ n = Len(data) - m
    BY <1>1, SubSeqProperties
  <2>2. head \o rest = data
    <3>1. 1 \in 1 .. Len(data) + 1 /\ m \in 1 - 1 .. Len(data) /\ Len(data) \in m .. Len(data)
      BY <1>1
    <3>2. SubSeq(data, 1, m) \o SubSeq(data, m + 1, Len(data)) = SubSeq(data, 1, Len(data))
      BY <3>1, ConcatAdjacentSubSeq, Zenon
    <3> QED
      BY <3>2, SubSeqFull, Zenon
  <2> QED
    BY <2>1, <2>2, ZenonT(30)
<1>5. LinesOf(Byte, SplitLines(rest), rest)
  BY <1>4, SplitKeeps, ZenonT(30)
<1> HIDE DEF head, rest, f
<1>6. LinesOf(Byte, first, f \o head)
  <2>1. CASE m = 0
    <3>1. head = <<>>
      BY <1>4, <2>1
    <3>2. f \o head = f
      BY <1>2, <3>1
    <3> QED
      BY <1>2, <2>1, <3>2
  <2>2. CASE m # 0
    <3> DEFINE l == b.lines
    <3> HIDE DEF l
    <3>1. LinesOf(Byte, [l EXCEPT ![Len(l)] = @ \o head], f \o head)
      BY <1>1, <1>2, <1>4, <2>2, LinesExtend, ZenonT(30) DEF l
    <3> QED
      BY <2>2, <3>1, Zenon DEF l, ExtendLast
  <2> QED
    BY <2>1, <2>2
<1> HIDE DEF first
<1>7. f \o head \in Seq(Byte) /\ (f \o head) \o rest = f \o data
  <2>1. f \o head \in Seq(Byte)
    BY <1>2, <1>4, ConcatProperties
  <2>2. (f \o head) \o rest = f \o (head \o rest)
    <3>1. f \in Seq(Byte) /\ head \in Seq(Byte) /\ rest \in Seq(Byte)
      BY <1>2, <1>4
    <3> QED
      BY ONLY <3>1, ConcatAssociative, SMTT(30)
  <2> QED
    BY <1>4, <2>1, <2>2, Zenon
<1>8. LinesOf(Byte, q, f \o data)
  <2>1. LinesOf(Byte, first \o SplitLines(rest), (f \o head) \o rest)
    BY <1>4, <1>5, <1>6, <1>7, LinesConcat, ZenonT(30)
  <2> QED
    BY <1>7, <2>1, Zenon
<1>9. n \in Nat /\ m \in Nat /\ n + m = Len(data) /\ open \in BOOLEAN
  <2>1. open \in BOOLEAN
    BY Zenon
  <2> HIDE DEF open
  <2> QED
    BY <1>1, <1>4, <2>1
<1> HIDE DEF q, n, open
<1>10. Holds([lines |-> q, total_size |-> (b.total_size + n) % UsizeValues,
              last_line_incomplete |-> open], o \o data, u + m)
  BY <1>8, <1>9, HoldsMore, ZenonT(30) DEF f
<1> QED
  BY <1>3, <1>10 DEF m
---------------------------------------------------------------------------
(* The invariant                                                           *)

\* A byte knows its place in the output.
Numbered == \A i \in 1 .. Len(output) : output[i][1] = i

\* The inductive invariant.
IInv ==
    /\ output \in Seq(Byte) /\ Len(output) <= MaxOutput /\ Numbered
    /\ uncounted \in Nat /\ uncounted <= Len(output)
    /\ spinning \in BOOLEAN
    /\ Holds(buffer, output, uncounted)

\* It holds of the new buffer.
LEMMA InitIInv == Init => IInv
<1> SUFFICES ASSUME Init PROVE IInv
  OBVIOUS
<1>1. output = <<>> /\ uncounted = 0 /\ spinning = FALSE
  BY DEF Init
<1>2. /\ buffer.lines = <<>> /\ buffer.total_size = 0 /\ buffer.last_line_incomplete = FALSE
      /\ buffer \in Buffers
  BY DEF Init, Buffers
<1>3. output \in Seq(Byte) /\ Len(output) = 0 /\ MaxOutput \in Nat /\ <<>> \in Seq(Byte)
  BY <1>1, OutputBufferAssumption
<1>4. FlattenSeq(buffer.lines) = <<>> /\ Len(<<>>) = 0 /\ Size(buffer.lines) = 0
  BY <1>2, FlattenEmpty DEF Size
<1>5. Holds(buffer, output, uncounted)
  <2>1. Whole(buffer.lines)
    BY <1>2 DEF Whole
  <2>2. output = <<>> \o FlattenSeq(buffer.lines)
    BY <1>1, <1>4
  <2>3. buffer.total_size = (Size(buffer.lines) - uncounted) % UsizeValues
    <3>1. UsizeValues \in Nat /\ UsizeValues > 0
      BY OutputBufferAssumption
    <3>2. (0 - 0) % UsizeValues = 0
      BY <3>1
    <3> QED
      BY <1>1, <1>2, <1>4, <3>2
  <2> QED
    BY <1>2, <1>3, <2>1, <2>2, <2>3, Zenon DEF Holds
<1>6. Len(output) <= MaxOutput /\ uncounted \in Nat /\ uncounted <= Len(output)
  BY <1>1, <1>3
<1>7. Numbered
  BY <1>3 DEF Numbered
<1>8. spinning \in BOOLEAN
  BY <1>1, Zenon
<1> QED
  BY <1>3, <1>5, <1>6, <1>7, <1>8, Zenon DEF IInv

\* What a read of the shell's output appends.
Chunk(data) ==
    /\ data \in Seq(Byte) /\ Len(output) + Len(data) <= MaxOutput
    /\ \A i \in 1 .. Len(data) : data[i][1] = Len(output) + i

\* A chunk continues the numbering.
LEMMA ChunkOutput ==
  ASSUME output \in Seq(Byte), Numbered, NEW data, Chunk(data), output' = output \o data
  PROVE  /\ output' \in Seq(Byte) /\ Len(output') = Len(output) + Len(data) /\ Numbered'
         /\ Len(output) \in Nat /\ Len(data) \in Nat
<1>1. /\ output' \in Seq(Byte) /\ Len(output') = Len(output) + Len(data)
      /\ \A i \in 1 .. Len(output) + Len(data) :
            output'[i] = IF i <= Len(output) THEN output[i] ELSE data[i - Len(output)]
  BY ConcatProperties DEF Chunk
<1>2. Len(output) \in Nat /\ Len(data) \in Nat
  BY DEF Chunk
<1>3. Numbered'
  <2> SUFFICES ASSUME NEW i \in 1 .. Len(output') PROVE output'[i][1] = i
    BY DEF Numbered
  <2>1. CASE i <= Len(output)
    <3>1. i \in 1 .. Len(output) /\ output'[i] = output[i]
      BY <1>1, <1>2, <2>1
    <3> QED
      BY <3>1 DEF Numbered
  <2>2. CASE ~(i <= Len(output))
    <3>1. PICK j \in 1 .. Len(data) : j = i - Len(output) /\ output'[i] = data[j]
      BY <1>1, <1>2, <2>2
    <3>2. data[j][1] = Len(output) + j
      BY DEF Chunk
    <3> QED
      BY <1>2, <3>1, <3>2
  <2> QED
    BY <2>1, <2>2
<1> QED
  BY <1>1, <1>2, <1>3

\* append keeps it, whether the chunk goes on with a line or is split.
LEMMA AppendIInv ==
  ASSUME IInv, NEW data, Chunk(data), AppendData(data)
  PROVE  IInv'
<1> DEFINE m == CompletingBytes(buffer, data)
<1>1. output' = output \o data /\ spinning = FALSE
  BY Zenon DEF AppendData, IInv
<1>2. /\ output \in Seq(Byte) /\ Numbered /\ uncounted \in Nat /\ uncounted <= Len(output)
      /\ Holds(buffer, output, uncounted)
  BY DEF IInv
<1>3. /\ output' \in Seq(Byte) /\ Len(output') = Len(output) + Len(data) /\ Numbered'
      /\ Len(output) \in Nat /\ Len(data) \in Nat
  BY <1>1, <1>2, ChunkOutput, ZenonT(30)
<1>4. data \in Seq(Byte) /\ Len(output) + Len(data) <= MaxOutput
  BY DEF Chunk
<1>5. CASE ContinuesLine(buffer, data)
  <2>1. /\ buffer' = [buffer EXCEPT !.lines = ExtendLast(buffer, data),
                                    !.total_size = (@ + Len(data)) % UsizeValues]
        /\ uncounted' = uncounted /\ spinning' = spinning
    BY <1>5, Zenon DEF AppendData
  <2>2. Holds([buffer EXCEPT !.lines = ExtendLast(buffer, data),
                             !.total_size = (@ + Len(data)) % UsizeValues],
              output \o data, uncounted)
    BY <1>2, <1>4, <1>5, Continued, ZenonT(30)
  <2>3. Holds(buffer', output', uncounted')
    BY <1>1, <2>1, <2>2
  <2>4. uncounted' \in Nat /\ uncounted' <= Len(output') /\ Len(output') <= MaxOutput
    BY <1>2, <1>3, <1>4, <2>1
  <2>5. spinning' \in BOOLEAN
    BY <1>1, <2>1, Zenon
  <2> QED
    BY <1>3, <2>3, <2>4, <2>5 DEF IInv
<1>6. CASE ~ContinuesLine(buffer, data)
  <2> DEFINE b == AppendLines(buffer, data)
  <2>1. /\ uncounted' = uncounted + m
        /\ \/ \E k \in Trim(b) : buffer' = RemoveOldest(b, k) /\ spinning' = FALSE
           \/ Trim(b) = {} /\ buffer' = RemoveOldest(b, Len(b.lines)) /\ spinning' = TRUE
    BY <1>6, Zenon DEF AppendData
  <2>2. m \in 0 .. Len(data)
    BY <1>4, <1>6, Completing
  <2>3. Holds(b, output \o data, uncounted + m)
    BY <1>2, <1>4, <1>6, Appended
  <2> HIDE DEF m, b
  <2>4. uncounted' \in Nat /\ uncounted' <= Len(output') /\ Len(output') <= MaxOutput
    BY <1>2, <1>3, <1>4, <2>1, <2>2
  <2>5. Holds(b, output', uncounted')
    BY <1>1, <2>1, <2>3
  <2>6. b.lines \in Seq(Seq(Byte)) /\ Len(b.lines) \in 0 .. Len(b.lines)
    <3>1. b.lines \in Seq(Seq(Byte))
      BY <2>5 DEF Holds, Buffers
    <3> QED
      BY <3>1
  <2>7. spinning' \in BOOLEAN
    BY <2>1, Zenon
  <2>8. CASE \E k \in Trim(b) : buffer' = RemoveOldest(b, k) /\ spinning' = FALSE
    <3>1. PICK k \in Trim(b) : buffer' = RemoveOldest(b, k) /\ spinning' = FALSE
      BY <2>8
    <3>2. k \in 0 .. Len(b.lines)
      BY <3>1 DEF Trim
    <3>3. Holds(buffer', output', uncounted')
      BY <1>3, <2>4, <2>5, <3>1, <3>2, Removed, ZenonT(30)
    <3> QED
      BY <1>3, <2>4, <2>7, <3>3 DEF IInv
  <2>9. CASE Trim(b) = {} /\ buffer' = RemoveOldest(b, Len(b.lines)) /\ spinning' = TRUE
    <3>1. Holds(buffer', output', uncounted')
      <4>1. PICK k \in 0 .. Len(b.lines) : k = Len(b.lines)
        BY <2>6
      <4>2. Holds(RemoveOldest(b, k), output', uncounted')
        BY <1>3, <2>4, <2>5, Removed, ZenonT(30)
      <4> QED
        BY <2>9, <4>1, <4>2
    <3> QED
      BY <1>3, <2>4, <2>7, <3>1 DEF IInv
  <2> QED
    BY <2>1, <2>8, <2>9, Zenon
<1> QED
  BY <1>5, <1>6

\* So does every step.
LEMMA NextIInv == IInv /\ [Next]_vars => IInv'
<1> SUFFICES ASSUME IInv, [Next]_vars PROVE IInv'
  OBVIOUS
<1>1. CASE Next
  <2>0. PICK n \in 1 .. MaxChunk : \E kinds \in [1 .. n -> Kinds] :
          /\ Len(output) + n <= MaxOutput
          /\ AppendData([i \in 1 .. n |-> <<Len(output) + i, kinds[i]>>])
    BY <1>1, Zenon DEF Next
  <2>1. PICK kinds \in [1 .. n -> Kinds] :
          /\ Len(output) + n <= MaxOutput
          /\ AppendData([i \in 1 .. n |-> <<Len(output) + i, kinds[i]>>])
    BY <2>0, Zenon
  <2> DEFINE data == [i \in 1 .. n |-> <<Len(output) + i, kinds[i]>>]
  <2>2. n \in Nat /\ Len(output) \in Nat
    BY OutputBufferAssumption DEF IInv
  <2>3. \A i \in 1 .. n : <<Len(output) + i, kinds[i]>> \in Byte
    BY <2>2 DEF Byte
  <2>4. data \in Seq(Byte) /\ Len(data) = n
    BY <2>2, <2>3
  <2>5. \A i \in 1 .. n : data[i][1] = Len(output) + i
    OBVIOUS
  <2>6. AppendData(data)
    BY <2>1
  <2> HIDE DEF data
  <2>7. Chunk(data)
    BY <2>1, <2>4, <2>5 DEF Chunk
  <2> QED
    BY <2>6, <2>7, AppendIInv
<1>2. CASE UNCHANGED vars
  <2>1. /\ buffer' = buffer /\ output' = output /\ uncounted' = uncounted
        /\ spinning' = spinning
    BY <1>2 DEF vars
  <2> QED
    BY <2>1, Zenon DEF IInv, Numbered, Holds, Size
<1> QED
  BY <1>1, <1>2

\* The invariant holds throughout.
THEOREM BufferInvariant == Spec => []IInv
<1> QED
  BY InitIInv, NextIInv, PTL DEF Spec

\* After any output, in any chunks, what the buffer holds is the end of it.
THEOREM BufferKeepsTail == Spec => []TailKept
<1>1. IInv => TailKept
  <2> SUFFICES ASSUME IInv PROVE TailKept
    OBVIOUS
  <2>1. buffer.lines \in Seq(Seq(Byte))
        /\ buffer.total_size = (Size(buffer.lines) - uncounted) % UsizeValues
    BY DEF IInv, Holds, Buffers
  <2>2. PICK p \in Seq(Byte) : output = p \o FlattenSeq(buffer.lines)
    BY ZenonT(30) DEF IInv, Holds
  <2>3. FlattenSeq(buffer.lines) \in Seq(Byte)
    BY <2>1, FlattenType
  <2>4. IsSuffix(FlattenSeq(buffer.lines), output)
    <3>1. IsSuffix(FlattenSeq(buffer.lines), p \o FlattenSeq(buffer.lines))
      BY <2>3, SuffixOf
    <3> QED
      BY <2>2, <3>1
  <2> QED
    BY <2>1, <2>4, Zenon DEF TailKept
<1> QED
  BY <1>1, BufferInvariant, PTL

---------------------------------------------------------------------------
(* get_recent                                                              *)

\* The lines from the (k+1)-th on are the end of what is held.
LEMMA LastLines ==
  ASSUME NEW S, NEW q \in Seq(Seq(S)), NEW k \in 0 .. Len(q)
  PROVE  /\ FlattenSeq(SubSeq(q, k + 1, Len(q))) \in Seq(S)
         /\ \E x \in Seq(S) : FlattenSeq(q) = x \o FlattenSeq(SubSeq(q, k + 1, Len(q)))
<1> DEFINE x == SubSeq(q, 1, k)
           y == SubSeq(q, k + 1, Len(q))
<1>1. x \in Seq(Seq(S)) /\ y \in Seq(Seq(S)) /\ FlattenSeq(q) = FlattenSeq(x) \o FlattenSeq(y)
  BY FlattenParts, Zenon
<1> HIDE DEF x, y
<1>2. FlattenSeq(x) \in Seq(S) /\ FlattenSeq(y) \in Seq(S)
  BY <1>1, FlattenType
<1> QED
  BY <1>1, <1>2, Zenon DEF y

\* The first byte held is the first of the first line.
LEMMA FirstByte ==
  ASSUME NEW S, NEW q \in Seq(Seq(S)), Len(q) > 0, q[1] # <<>>
  PROVE  FlattenSeq(q) # <<>> /\ FlattenSeq(q)[1] = q[1][1] /\ (Len(q) = 1 => FlattenSeq(q) = q[1])
<1> DEFINE x == SubSeq(q, 1, 1)
           y == SubSeq(q, 1 + 1, Len(q))
           a == q[1]
<1>0. Len(q) \in Nat /\ 1 \in 0 .. Len(q) /\ 1 \in 1 .. Len(q) /\ a \in Seq(S) /\ a # <<>>
  OBVIOUS
<1>1. /\ x \in Seq(Seq(S)) /\ y \in Seq(Seq(S)) /\ Len(x) = 1 /\ Len(y) = Len(q) - 1
      /\ \A i \in 1 .. 1 : x[i] = q[i]
      /\ FlattenSeq(q) = FlattenSeq(x) \o FlattenSeq(y)
  <2>1. PICK k \in 0 .. Len(q) : k = 1
    BY <1>0
  <2>2. /\ SubSeq(q, 1, k) \in Seq(Seq(S)) /\ SubSeq(q, k + 1, Len(q)) \in Seq(Seq(S))
        /\ Len(SubSeq(q, 1, k)) = k /\ Len(SubSeq(q, k + 1, Len(q))) = Len(q) - k
        /\ \A i \in 1 .. k : SubSeq(q, 1, k)[i] = q[i]
        /\ FlattenSeq(q) = FlattenSeq(SubSeq(q, 1, k)) \o FlattenSeq(SubSeq(q, k + 1, Len(q)))
    BY FlattenParts, ZenonT(30)
  <2> QED
    BY <2>1, <2>2, Zenon
<1> HIDE DEF x, y, a
<1>2. x = Append(<<>>, a)
  BY <1>0, <1>1 DEF a
<1>3. FlattenSeq(x) = a
  <2>1. <<>> \in Seq(Seq(S)) /\ <<>> \o a = a
    BY <1>0
  <2>2. FlattenSeq(Append(<<>>, a)) = FlattenSeq(<<>>) \o a
    BY <1>0, <2>1, FlattenAppend, ZenonT(30)
  <2> QED
    BY <1>2, <2>1, <2>2, FlattenEmpty, ZenonT(30)
<1>4. PICK f \in Seq(S) : f = FlattenSeq(y)
  BY <1>1, FlattenType
<1>5. FlattenSeq(q) = a \o f
  BY <1>1, <1>3, <1>4
<1>6. Len(a) > 0 /\ Len(a) \in Nat /\ Len(f) \in Nat
  BY <1>0
<1>7. /\ a \o f \in Seq(S) /\ Len(a \o f) = Len(a) + Len(f)
      /\ \A i \in 1 .. Len(a) + Len(f) : (a \o f)[i] = IF i <= Len(a) THEN a[i] ELSE f[i - Len(a)]
  BY <1>0, ConcatProperties
<1>8. (a \o f)[1] = a[1] /\ a \o f # <<>>
  <2> DEFINE g == a \o f
  <2> HIDE DEF g
  <2>1. 1 \in 1 .. Len(a) + Len(f) /\ 1 <= Len(a)
    BY <1>6
  <2>2. g[1] = a[1] /\ Len(g) > 0
    BY <1>6, <1>7, <2>1 DEF g
  <2> QED
    BY <2>2 DEF g
<1>9. ASSUME Len(q) = 1 PROVE FlattenSeq(q) = a
  <2>1. y = <<>>
    BY <1>1, <1>9
  <2>2. f = <<>>
    BY <1>4, <2>1, FlattenEmpty
  <2> QED
    BY <1>0, <1>5, <2>2
<1> QED
  BY <1>5, <1>8, <1>9 DEF a

\* The end of a line is the end of what ends with it.
LEMMA EndOfEnd ==
  ASSUME NEW S, NEW x \in Seq(S), NEW y \in Seq(S), NEW i \in 1 .. Len(y) + 1
  PROVE  IsSuffix(SubSeq(y, i, Len(y)), x \o y)
<1> DEFINE a == SubSeq(y, 1, i - 1)
           z == SubSeq(y, i, Len(y))
<1>1. /\ 1 \in 1 .. Len(y) + 1 /\ i - 1 \in 1 - 1 .. Len(y) /\ Len(y) \in i - 1 .. Len(y)
      /\ i - 1 + 1 = i /\ Len(y) \in Nat
  OBVIOUS
<1>2. a \o z = y
  <2>1. SubSeq(y, 1, i - 1) \o SubSeq(y, i - 1 + 1, Len(y)) = SubSeq(y, 1, Len(y))
    BY <1>1, ConcatAdjacentSubSeq, Zenon
  <2>2. SubSeq(y, 1, Len(y)) = y
    BY SubSeqFull
  <2> QED
    BY <1>1, <2>1, <2>2, ZenonT(30)
<1>3. a \in Seq(S) /\ z \in Seq(S)
  BY <1>1, SubSeqProperties
<1> HIDE DEF a, z
<1>4. x \o a \in Seq(S) /\ (x \o a) \o z = x \o (a \o z)
  <2>1. x \o a \in Seq(S)
    BY <1>3, ConcatProperties
  <2>2. (x \o a) \o z = x \o (a \o z)
    BY ONLY <1>3, ConcatAssociative, SMTT(30)
  <2> QED
    BY <2>1, <2>2
<1>5. IsSuffix(z, (x \o a) \o z)
  BY <1>3, <1>4, SuffixOf, ZenonT(30)
<1>6. IsSuffix(z, x \o y)
  BY <1>2, <1>4, <1>5
<1> QED
  BY <1>6 DEF z
\* A byte of the line y begins a character, or there is none there.
BeginsIn(y, i) == i > Len(y) \/ Kind(y[i]) /= "rest"

\* s bytes are left out before the cut line begins with a character.
SkipsTo(y, cut, s) ==
    /\ s = 3 \/ BeginsIn(y, cut + s + 1)
    /\ \A t \in 0 .. s - 1 : ~BeginsIn(y, cut + t + 1)

\* There is such an s, at most 3.
LEMMA SkipExists ==
  ASSUME NEW y, NEW cut \in Nat
  PROVE  \E s \in 0 .. 3 : SkipsTo(y, cut, s)
<1> DEFINE Q == {s \in Nat : s = 3 \/ BeginsIn(y, cut + s + 1)}
<1>1. Q \in SUBSET Nat /\ 3 \in Q
  OBVIOUS
<1>2. PICK s \in Q : \A t \in Q : s <= t
  <2> HIDE DEF Q
  <2> QED
    BY <1>1, Least
<1>3. s \in 0 .. 3
  BY <1>1, <1>2
<1>4. \A t \in 0 .. s - 1 : ~BeginsIn(y, cut + t + 1)
  <2> SUFFICES ASSUME NEW t \in 0 .. s - 1, BeginsIn(y, cut + t + 1) PROVE FALSE
    OBVIOUS
  <2>1. t \in Nat /\ ~(s <= t)
    BY <1>3
  <2>2. t \in Q
    BY <2>1
  <2> QED
    BY <1>2, <2>1, <2>2
<1> QED
  BY <1>3, <1>4 DEF SkipsTo

\* The end of the newest line, when it alone is longer than max.
LEMMA CutLine ==
  ASSUME output \in Seq(Byte), Numbered,
         NEW p \in Seq(Byte), NEW y \in Seq(Byte), output = p \o y,
         NEW max \in Nat, Len(y) > max, NEW s \in 0 .. 3, SkipsTo(y, Len(y) - max, s)
  PROVE  LET cut == Len(y) - max
             recent == SubSeq(y, cut + s + 1, Len(y)) IN
         /\ cut + s + 1 \in 1 .. Len(y) + 1
         /\ Len(recent) <= max
         /\ \/ recent = <<>>
            \/ Kind(recent[1]) /= "rest"
            \/ \A d \in 1 .. 3 :
                  LET at == recent[1][1] - d IN at > 0 /\ Kind(output[at]) = "rest"
<1> DEFINE cut == Len(y) - max
           i == cut + s + 1
           recent == SubSeq(y, i, Len(y))
<1>1. Len(y) \in Nat /\ Len(p) \in Nat /\ cut \in Nat /\ cut > 0 /\ cut + max = Len(y)
  OBVIOUS
<1>2. /\ Len(output) = Len(p) + Len(y)
      /\ \A j \in 1 .. Len(p) + Len(y) : output[j] = IF j <= Len(p) THEN p[j] ELSE y[j - Len(p)]
  BY ConcatProperties
<1>3. \A j \in 1 .. Len(y) : y[j][1] = Len(p) + j /\ output[Len(p) + j] = y[j]
  <2> TAKE j \in 1 .. Len(y)
  <2>1. Len(p) + j \in 1 .. Len(output) /\ ~(Len(p) + j <= Len(p)) /\ (Len(p) + j) - Len(p) = j
    BY <1>1, <1>2
  <2>2. output[Len(p) + j] = y[j]
    BY <1>2, <2>1
  <2>3. output[Len(p) + j][1] = Len(p) + j
    BY <2>1, ZenonT(30) DEF Numbered
  <2> QED
    BY <2>2, <2>3
<1>4. s <= max
  <2> SUFFICES ASSUME ~(s <= max) PROVE FALSE
    OBVIOUS
  <2>1. max \in 0 .. s - 1 /\ cut + max + 1 > Len(y)
    BY <1>1
  <2>2. ~BeginsIn(y, cut + max + 1)
    BY <2>1, ZenonT(30) DEF SkipsTo
  <2> QED
    BY <2>1, <2>2 DEF BeginsIn
<1> HIDE DEF cut
<1>5. i \in 1 .. Len(y) + 1 /\ i \in Nat
  BY <1>1, <1>4
<1>6. Len(recent) = IF i <= Len(y) THEN Len(y) - i + 1 ELSE 0
  BY <1>1, <1>5, SubSeqProperties
<1>7. Len(recent) <= max
  BY <1>1, <1>5, <1>6
<1>8. ASSUME recent # <<>>, ~(Kind(recent[1]) /= "rest"), NEW d \in 1 .. 3
      PROVE  recent[1][1] - d > 0 /\ Kind(output[recent[1][1] - d]) = "rest"
  <2>1. recent \in Seq(Byte)
    BY <1>1, <1>5, SubSeqProperties
  <2>2. i <= Len(y) /\ recent[1] = y[i]
    <3>1. i <= Len(y)
      <4> SUFFICES ASSUME ~(i <= Len(y)) PROVE FALSE
        OBVIOUS
      <4> HIDE DEF recent
      <4>1. Len(recent) = 0
        BY <1>6
      <4> QED
        BY <1>8, <2>1, <4>1
    <3> HIDE DEF i
    <3> QED
      BY <1>1, <1>5, <3>1, SubSeqProperties, SMTT(30)
  <2> HIDE DEF recent
  <2>3. ~BeginsIn(y, i)
    <3> HIDE DEF i
    <3>1. ~(i > Len(y))
      BY <1>1, <1>5, <2>2
    <3>2. Kind(y[i]) = "rest"
      BY <1>8, <2>2
    <3> QED
      BY <3>1, <3>2 DEF BeginsIn
  <2>4. s = 3
    BY <2>3 DEF SkipsTo, cut
  <2>5. PICK t \in 0 .. s - 1 : t = 3 - d
    BY <2>4
  <2>6. ~BeginsIn(y, cut + t + 1)
    BY Zenon DEF SkipsTo, cut
  <2>7. PICK j \in 1 .. Len(y) : j = cut + t + 1 /\ j = i - d
    BY <1>1, <1>5, <2>2, <2>4, <2>5
  <2>8. Kind(y[j]) = "rest"
    BY <2>6, <2>7 DEF BeginsIn
  <2>9. recent[1][1] = Len(p) + i
    <3>1. i \in 1 .. Len(y)
      BY <1>5, <2>2
    <3> QED
      BY <1>3, <2>2, <3>1, ZenonT(30)
  <2>10. recent[1][1] - d = Len(p) + j /\ Len(p) + j > 0
    <3> DEFINE r == recent[1][1]
    <3> HIDE DEF i, r
    <3>1. r = Len(p) + i
      BY <2>9 DEF r
    <3>2. Len(p) \in Nat /\ i \in Nat /\ j \in Nat /\ j > 0 /\ d \in Nat /\ j = i - d
      BY <1>1, <1>5, <2>7
    <3>3. PICK l \in Nat : l = Len(p)
      BY <3>2
    <3>4. r = l + i
      BY <3>1, <3>3
    <3>5. r - d = l + j /\ l + j > 0
      BY ONLY <3>2, <3>3, <3>4
    <3> QED
      BY <3>3, <3>5 DEF r
  <2>11. output[Len(p) + j] = y[j]
    BY <1>3
  <2> QED
    BY <2>8, <2>10, <2>11, ZenonT(30)
<1> QED
  BY <1>5, <1>7, <1>8, Zenon DEF cut
\* What get_recent promises of its answer.
Recent(recent, max) ==
    /\ Len(recent) <= max
    /\ IsSuffix(recent, FlattenSeq(buffer.lines))
    /\ recent = <<>> \/ Kind(recent[1]) /= "rest"
       \/ \/ \E k \in DOMAIN buffer.lines : buffer.lines[k][1] = recent[1]
          \/ \A d \in 1 .. 3 :
                LET at == recent[1][1] - d IN
                at > 0 /\ Kind(output[at]) = "rest"

\* It is so in every state.
LEMMA RecentHolds ==
  ASSUME IInv, NEW max \in 0 .. MaxOutput
  PROVE  Recent(GetRecent(buffer, max), max)
<1> DEFINE lines == buffer.lines
           L == Len(lines)
           Newest(k) == FlattenSeq(SubSeq(lines, Len(lines) - k + 1, Len(lines)))
           fit == {k \in 0 .. Len(lines) : Len(Newest(k)) <= max}
           line == Last(lines)
           cut == Len(line) - max
           held == FlattenSeq(lines)
<1>1. /\ output \in Seq(Byte) /\ Numbered /\ lines \in Seq(Seq(Byte)) /\ Whole(lines)
      /\ L \in Nat /\ max \in Nat
  BY OutputBufferAssumption DEF IInv, Holds, Buffers
<1>2. PICK p \in Seq(Byte) : output = p \o held
  BY ZenonT(30) DEF IInv, Holds
<1>3. held \in Seq(Byte)
  BY <1>1, FlattenType
<1>4. GetRecent(buffer, max) =
        IF max = 0 \/ lines = <<>> THEN <<>>
        ELSE IF fit = {0}
        THEN SubSeq(line, cut + (CHOOSE s \in 0 .. 3 : SkipsTo(line, cut, s)) + 1, Len(line))
        ELSE Newest(CHOOSE k \in fit : \A j \in fit : j <= k)
  BY Zenon DEF GetRecent, SkipsTo, BeginsIn
<1>5. CASE max = 0 \/ lines = <<>>
  <2>1. GetRecent(buffer, max) = <<>>
    BY <1>4, <1>5, Zenon
  <2>2. <<>> \in Seq(Byte) /\ held \o <<>> = held /\ Len(<<>>) <= max
    BY <1>1, <1>3
  <2>3. IsSuffix(<<>>, held \o <<>>)
    BY <1>3, <2>2, SuffixOf, ZenonT(30)
  <2>4. IsSuffix(<<>>, held)
    BY <2>2, <2>3
  <2> QED
    BY <2>1, <2>2, <2>4, Zenon DEF Recent
<1>6. ASSUME NEW k \in 1 .. L
      PROVE  /\ Newest(k) \in Seq(Byte) /\ (\E x \in Seq(Byte) : held = x \o Newest(k))
             /\ Newest(k) # <<>> /\ Newest(k)[1] = lines[L - k + 1][1]
             /\ (k = 1 => Newest(k) = lines[L])
  <2> DEFINE y == SubSeq(lines, (L - k) + 1, L)
  <2> HIDE DEF lines
  <2>0. PICK j \in 0 .. Len(lines) : j = L - k
    <3>1. L - k \in 0 .. Len(lines)
      BY <1>1
    <3> QED
      BY <3>1, Zenon
  <2>1. Newest(k) \in Seq(Byte) /\ \E x \in Seq(Byte) : held = x \o Newest(k)
    <3>1. /\ FlattenSeq(SubSeq(lines, j + 1, Len(lines))) \in Seq(Byte)
          /\ \E x \in Seq(Byte) : held = x \o FlattenSeq(SubSeq(lines, j + 1, Len(lines)))
      BY <1>1, LastLines, Zenon
    <3> QED
      BY <2>0, <3>1, ZenonT(30)
  <2>2. y \in Seq(Seq(Byte)) /\ Len(y) = k /\ y[1] = lines[L - k + 1]
    <3>1. /\ SubSeq(lines, j + 1, Len(lines)) \in Seq(Seq(Byte))
          /\ Len(SubSeq(lines, j + 1, Len(lines))) = Len(lines) - j
          /\ \A i \in 1 .. Len(lines) - j : SubSeq(lines, j + 1, Len(lines))[i] = lines[j + i]
      BY <1>1, FlattenParts, ZenonT(30)
    <3>2. 1 \in 1 .. Len(lines) - j /\ Len(lines) - j = k
      BY <1>1, <2>0
    <3> DEFINE z == SubSeq(lines, j + 1, Len(lines))
    <3>3. z \in Seq(Seq(Byte)) /\ Len(z) = k /\ z[1] = lines[j + 1]
      BY <3>1, <3>2, Zenon
    <3>4. z = y /\ j + 1 = L - k + 1
      BY <2>0
    <3> HIDE DEF z, y
    <3> QED
      BY <3>3, <3>4, ZenonT(30)
  <2>3. y[1] # <<>>
    <3>1. L - k + 1 \in 1 .. Len(lines)
      BY <1>1
    <3> HIDE DEF y
    <3> QED
      BY <1>1, <2>2, <3>1 DEF Whole
  <2>4. Newest(k) = FlattenSeq(y)
    OBVIOUS
  <2> HIDE DEF y, Newest
  <2>5. FlattenSeq(y) # <<>> /\ FlattenSeq(y)[1] = y[1][1] /\ (Len(y) = 1 => FlattenSeq(y) = y[1])
    <3>1. Len(y) > 0
      BY <2>2
    <3> QED
      BY <2>2, <2>3, <3>1, FirstByte, ZenonT(30)
  <2>6. k = 1 => L - k + 1 = L
    BY <1>1
  <2> QED
    BY <2>1, <2>2, <2>4, <2>5, <2>6, ZenonT(30)
<1>7. 0 \in fit
  <2>1. SubSeq(lines, L - 0 + 1, L) = <<>>
    BY <1>1
  <2>2. Newest(0) = <<>>
    BY <2>1, FlattenEmpty, ZenonT(30)
  <2> HIDE DEF Newest
  <2> QED
    BY <1>1, <2>2
<1>8. CASE ~(max = 0 \/ lines = <<>>) /\ fit = {0}
  <2> DEFINE s == CHOOSE z \in 0 .. 3 : SkipsTo(line, cut, z)
             recent == SubSeq(line, cut + s + 1, Len(line))
  <2>1. GetRecent(buffer, max) = recent
    BY <1>4, <1>8, Zenon
  <2>2. 1 \in 1 .. L /\ line = lines[L] /\ line \in Seq(Byte)
    <3>1. L > 0
      BY <1>1, <1>8
    <3> QED
      BY <1>1, <3>1 DEF Last
  <2>3. Newest(1) = line
    BY <1>6, <2>2
  <2>4. PICK x \in Seq(Byte) : held = x \o line
    BY <1>6, <2>2, <2>3, ZenonT(30)
  <2> HIDE DEF lines, line, Newest, held
  <2>5. Len(line) > max
    <3>1. 1 \notin fit
      BY <1>8
    <3>2. 1 \in 0 .. Len(lines) /\ Len(line) \in Nat
      BY <2>2
    <3> QED
      BY <1>1, <2>3, <3>1, <3>2
  <2>6. cut \in Nat
    BY <1>1, <2>2, <2>5
  <2>7. s \in 0 .. 3 /\ SkipsTo(line, cut, s)
    <3>1. \E z \in 0 .. 3 : SkipsTo(line, cut, z)
      BY <2>6, SkipExists
    <3> QED
      BY <3>1, Zenon
  <2> HIDE DEF s
  <2>8. p \o x \in Seq(Byte) /\ output = (p \o x) \o line
    <3>1. p \o x \in Seq(Byte)
      BY ConcatProperties
    <3>2. (p \o x) \o line = p \o (x \o line)
      <4>1. p \in Seq(Byte) /\ x \in Seq(Byte) /\ line \in Seq(Byte)
        BY <2>2
      <4> QED
        BY ONLY <4>1, ConcatAssociative, SMTT(30)
    <3> QED
      BY <1>2, <2>4, <3>1, <3>2
  <2>9. /\ cut + s + 1 \in 1 .. Len(line) + 1 /\ Len(recent) <= max
        /\ \/ recent = <<>>
           \/ Kind(recent[1]) /= "rest"
           \/ \A d \in 1 .. 3 :
                 LET at == recent[1][1] - d IN at > 0 /\ Kind(output[at]) = "rest"
    <3> DEFINE a == p \o x
    <3> HIDE DEF a
    <3>1. a \in Seq(Byte) /\ output = a \o line
      BY <2>8 DEF a
    <3> QED
      BY <1>1, <2>2, <2>5, <2>7, <3>1, CutLine, ZenonT(30)
  <2>10. IsSuffix(recent, held)
    <3>1. PICK i \in 1 .. Len(line) + 1 : i = cut + s + 1
      BY <2>9
    <3>2. IsSuffix(SubSeq(line, i, Len(line)), x \o line)
      BY <2>2, EndOfEnd
    <3> QED
      BY <2>4, <3>1, <3>2
  <2> HIDE DEF recent
  <2> QED
    BY <2>1, <2>9, <2>10, Zenon DEF Recent, held, lines
<1>9. CASE ~(max = 0 \/ lines = <<>>) /\ fit # {0}
  <2> DEFINE n == CHOOSE k \in fit : \A j \in fit : j <= k
  <2>1. GetRecent(buffer, max) = Newest(n)
    BY <1>4, <1>9, Zenon
  <2>2. n \in fit /\ \A j \in fit : j <= n
    <3>1. fit \in SUBSET (0 .. L) /\ fit # {}
      BY <1>7
    <3> HIDE DEF fit
    <3>2. \E k \in fit : \A j \in fit : j <= k
      BY <1>1, <3>1, Greatest, ZenonT(30)
    <3> QED
      BY <3>2, Zenon
  <2> HIDE DEF n, Newest
  <2>3. PICK j \in fit : j # 0
    BY <1>7, <1>9
  <2>4. n \in 1 .. L
    <3>1. j \in 0 .. L /\ n \in 0 .. L /\ j <= n
      BY <2>2
    <3> QED
      BY <1>1, <2>3, <3>1
  <2>5. Len(Newest(n)) <= max
    BY <2>2
  <2>6. PICK x \in Seq(Byte) : held = x \o Newest(n)
    BY <1>6, <2>4, ZenonT(30)
  <2>7. Newest(n) \in Seq(Byte) /\ Newest(n)[1] = lines[L - n + 1][1]
    BY <1>6, <2>4
  <2>8. IsSuffix(Newest(n), held)
    BY <2>6, <2>7, SuffixOf
  <2>9. L - n + 1 \in DOMAIN lines
    BY <1>1, <2>4
  <2> QED
    BY <2>1, <2>5, <2>7, <2>8, <2>9, Zenon DEF Recent
<1> QED
  BY <1>5, <1>8, <1>9, Zenon

\* Every answer of get_recent is the end of the output, within the limit and
\* aligned with a character as far as the code aligns it.
THEOREM RecentAlwaysTail == Spec => []RecentIsTail
<1>1. IInv => RecentIsTail
  <2> SUFFICES ASSUME IInv, NEW max \in 0 .. MaxOutput
               PROVE  Recent(GetRecent(buffer, max), max)
    BY Zenon DEF RecentIsTail, Recent
  <2> QED
    BY RecentHolds
<1> QED
  BY <1>1, BufferInvariant, PTL
============================================================================
