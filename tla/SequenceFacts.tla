--------------------------- MODULE SequenceFacts ---------------------------
(***************************************************************************)
(* Induction over numbers and sequences, and what it shows about Without,  *)
(* UpTo and SumSeq.  The induction principles of the library take an       *)
(* operator; the ones here take the set of what has been shown.            *)
(***************************************************************************)
EXTENDS SequenceUtil, SequenceTheorems, NaturalsInduction,
        WellFoundedInduction, TLAPS

-----------------------------------------------------------------------------
(* Induction                                                               *)

\* A non-empty set of natural numbers has a least element.
LEMMA LeastNumber ==
  ASSUME NEW S \in SUBSET Nat, S # {}
  PROVE  \E x \in S : \A y \in S : x <= y
<1>1. PICK t \in S : \A u \in S : ~(<<u, t>> \in OpToRel(<, Nat))
  BY WFMin, NatLessThanWellFounded
<1>2. \A u \in S : ~(u < t)
  <2> TAKE u \in S
  <2>1. <<u, t>> \in Nat \X Nat
    OBVIOUS
  <2> QED
    BY <1>1, <2>1 DEF OpToRel
<1>3. \A u \in S : t <= u
  BY <1>2
<1> QED
  BY <1>1, <1>3

\* Induction over the natural numbers up to a bound.
LEMMA NumberInduction ==
  ASSUME NEW N \in Nat, NEW T, 0 \in T,
         \A i \in 1..N : i - 1 \in T => i \in T
  PROVE  0..N \subseteq T
<1> DEFINE S == (0..N) \ T
<1> SUFFICES ASSUME S # {} PROVE FALSE
  OBVIOUS
<1>1. S \in SUBSET Nat
  OBVIOUS
<1>2. PICK x \in S : \A y \in S : x <= y
  <2> HIDE DEF S
  <2> QED
    BY <1>1, LeastNumber
<1>3. x \in 1..N /\ x \notin T
  OBVIOUS
<1>4. x - 1 \in 0..N /\ ~(x <= x - 1)
  BY <1>3
<1>5. x - 1 \in T
  BY <1>2, <1>4
<1> QED
  BY <1>3, <1>5

\* Induction over sequences that grow at their end.
LEMMA SequenceInduction ==
  ASSUME NEW A, NEW T, <<>> \in T,
         \A s \in Seq(A), x \in A : s \in T => Append(s, x) \in T
  PROVE  Seq(A) \subseteq T
<1> SUFFICES ASSUME NEW s \in Seq(A) PROVE s \in T
  OBVIOUS
<1> DEFINE Prefix(i) == SubSeq(s, 1, i)
           U == {i \in 0..Len(s) : Prefix(i) \in T}
<1>1. Len(s) \in Nat
  BY LenProperties
<1>2. 0 \in U
  <2>1. SubSeq(s, 1, 0) = <<>>
    BY SubSeqProperties, EmptySeq
  <2>2. Prefix(0) \in T
    BY <2>1, Zenon
  <2>3. 0 \in 0..Len(s)
    BY <1>1
  <2> HIDE DEF Prefix
  <2> QED
    BY <2>2, <2>3
<1>3. ASSUME NEW i \in 1..Len(s), i - 1 \in U
      PROVE  i \in U
  <2>1. SubSeq(s, 1, i - 1) \in Seq(A) /\ s[i] \in A
    BY <1>1, SubSeqProperties, ElementOfSeq
  <2>2. SubSeq(s, 1, i) = Append(SubSeq(s, 1, i - 1), s[i])
    BY <1>1, <2>1, SubSeqProperties, AppendProperties, SeqEqual, SMTT(30)
  <2>3. SubSeq(s, 1, i - 1) \in T
    BY <1>3
  <2>4. Prefix(i) \in T
    BY <2>1, <2>2, <2>3, Zenon
  <2>5. i \in 0..Len(s)
    BY <1>1
  <2> HIDE DEF Prefix
  <2> QED
    BY <2>4, <2>5
<1>4. 0..Len(s) \subseteq U
  <2> HIDE DEF U
  <2> QED
    BY <1>1, <1>2, <1>3, NumberInduction
<1>5. SubSeq(s, 1, Len(s)) \in T
  BY <1>1, <1>4
<1>6. SubSeq(s, 1, Len(s)) = s
  OBVIOUS
<1> QED
  BY <1>5, <1>6

\* f is built from b by the steps G up to position n.
BuiltFrom(f, n, b, G) == f[0] = b /\ \A i \in 1..n : f[i] = G[i][f[i - 1]]

\* A function can be defined step by step up to any bound.
LEMMA RecursionExists ==
  ASSUME NEW N \in Nat, NEW S, NEW b \in S, NEW G \in [1..N -> [S -> S]]
  PROVE  \E f \in [0..N -> S] : BuiltFrom(f, N, b, G)
<1> DEFINE P(n, f) == BuiltFrom(f, n, b, G)
           T == {n \in 0..N : \E f \in [0..n -> S] : P(n, f)}
<1>1. 0 \in T
  <2>1. [i \in 0..0 |-> b] \in [0..0 -> S] /\ P(0, [i \in 0..0 |-> b])
    BY DEF BuiltFrom
  <2>2. \E f \in [0..0 -> S] : P(0, f)
    <3> HIDE DEF P
    <3> QED
      BY <2>1
  <2> QED
    BY <2>2
<1>2. ASSUME NEW n \in 1..N, n - 1 \in T
      PROVE  n \in T
  <2>1. PICK f \in [0..(n - 1) -> S] : P(n - 1, f)
    BY <1>2
  <2> DEFINE g == [i \in 0..n |-> IF i = n THEN G[n][f[n - 1]] ELSE f[i]]
  <2>2. f[n - 1] \in S /\ G[n][f[n - 1]] \in S
    OBVIOUS
  <2>3. g \in [0..n -> S]
    BY <2>2
  <2>4. g[0] = b
    BY <2>1 DEF BuiltFrom
  <2>5. ASSUME NEW i \in 1..n PROVE g[i] = G[i][g[i - 1]]
    <3>1. CASE i = n
      BY <3>1
    <3>2. CASE i # n
      <4>1. i \in 1..(n - 1) /\ i - 1 \in 0..n /\ i - 1 # n
        BY <3>2
      <4> QED
        BY <2>1, <3>2, <4>1 DEF BuiltFrom
    <3> QED
      BY <3>1, <3>2
  <2>6. P(n, g)
    <3> HIDE DEF g
    <3> QED
      BY <2>4, <2>5 DEF BuiltFrom
  <2>7. \E h \in [0..n -> S] : P(n, h)
    <3> HIDE DEF P, g
    <3> QED
      BY <2>3, <2>6
  <2>8. n \in 0..N
    OBVIOUS
  <2> QED
    BY <2>7, <2>8
<1>3. 0..N \subseteq T
  <2> HIDE DEF T
  <2> QED
    BY <1>1, <1>2, NumberInduction
<1> QED
  BY <1>3

\* What the steps build is determined by them.
LEMMA RecursionUnique ==
  ASSUME NEW N \in Nat, NEW S, NEW b \in S, NEW G \in [1..N -> [S -> S]],
         NEW f, NEW g, BuiltFrom(f, N, b, G), BuiltFrom(g, N, b, G)
  PROVE  \A i \in 0..N : f[i] = g[i] /\ f[i] \in S
<1> DEFINE T == {i \in 0..N : f[i] = g[i] /\ f[i] \in S}
<1>1. 0 \in T
  BY DEF BuiltFrom
<1>2. ASSUME NEW i \in 1..N, i - 1 \in T
      PROVE  i \in T
  <2>1. f[i] = G[i][f[i - 1]] /\ g[i] = G[i][g[i - 1]]
    BY DEF BuiltFrom
  <2>2. f[i - 1] = g[i - 1] /\ f[i - 1] \in S
    BY <1>2
  <2>3. G[i] \in [S -> S]
    OBVIOUS
  <2>4. f[i] = g[i] /\ f[i] \in S
    BY <2>1, <2>2, <2>3
  <2> QED
    BY <2>4
<1>3. 0..N \subseteq T
  <2> HIDE DEF T
  <2> QED
    BY <1>1, <1>2, NumberInduction
<1> QED
  BY <1>3

-----------------------------------------------------------------------------
(* Without                                                                 *)

LeftStep(A, s, D) ==
    [i \in 1..Len(s) |-> [u \in Seq(A) |->
        IF s[i] \in D THEN u ELSE Append(u, s[i])]]

\* The function that Without is the last value of.
LEMMA WithoutFunction ==
  ASSUME NEW A, NEW s \in Seq(A), NEW D
  PROVE  \E f : /\ BuiltFrom(f, Len(s), <<>>, LeftStep(A, s, D))
                /\ Without(s, D) = f[Len(s)]
<1> DEFINE N == Len(s)
           G == LeftStep(A, s, D)
           E(F) == [i \in 0..N |->
                      IF i = 0 THEN <<>>
                      ELSE IF s[i] \in D THEN F[i - 1]
                      ELSE Append(F[i - 1], s[i])]
<1>1. N \in Nat /\ <<>> \in Seq(A)
  BY LenProperties
<1>2. \A i \in 1..N : s[i] \in A
  BY ElementOfSeq
<1>3. G \in [1..N -> [Seq(A) -> Seq(A)]]
  <2>1. \A i \in 1..N : \A u \in Seq(A) : Append(u, s[i]) \in Seq(A)
    BY <1>2, AppendProperties
  <2> QED
    BY <2>1 DEF LeftStep
<1>4. PICK h \in [0..N -> Seq(A)] : BuiltFrom(h, N, <<>>, G)
  <2> HIDE DEF N, G
  <2> QED
    BY <1>1, <1>3, RecursionExists
<1>5. h = E(h)
  <2>1. \A i \in 1..N : h[i - 1] \in Seq(A)
    BY <1>1
  <2>2. \A i \in 1..N : h[i] = IF s[i] \in D THEN h[i - 1]
                               ELSE Append(h[i - 1], s[i])
    BY <1>4, <2>1 DEF LeftStep, BuiltFrom
  <2>3. ASSUME NEW i \in 0..N PROVE h[i] = E(h)[i]
    <3>1. CASE i = 0
      BY <1>4, <3>1 DEF BuiltFrom
    <3>2. CASE i # 0
      <4>1. i \in 1..N
        BY <1>1, <3>2
      <4> QED
        BY <2>2, <4>1, <3>2
    <3> QED
      BY <3>1, <3>2
  <2> QED
    BY <2>3
<1> DEFINE F == CHOOSE F : F = E(F)
<1>6. F = E(F)
  <2> HIDE DEF E
  <2> QED
    BY <1>5
<1>7. Without(s, D) = F[N]
  BY DEF Without
<1>8. F[0] = <<>> /\ \A i \in 1..N : F[i] = IF s[i] \in D THEN F[i - 1]
                                            ELSE Append(F[i - 1], s[i])
  <2> HIDE DEF F
  <2>1. \A i \in 0..N : F[i] = E(F)[i]
    BY <1>6, Zenon
  <2> QED
    BY <2>1, <1>1
<1> DEFINE T == {i \in 0..N : F[i] \in Seq(A)}
<1>9. 0..N \subseteq T
  <2> HIDE DEF F
  <2>1. 0 \in T
    <3>1. F[0] \in Seq(A)
      BY <1>8, <1>1, Zenon
    <3>2. 0 \in 0..N
      BY <1>1
    <3> QED
      BY <3>1, <3>2
  <2>2. ASSUME NEW i \in 1..N, i - 1 \in T PROVE i \in T
    <3>1. F[i - 1] \in Seq(A) /\ s[i] \in A
      BY <2>2, <1>2
    <3>2. F[i] \in Seq(A)
      <4>1. Append(F[i - 1], s[i]) \in Seq(A)
        BY <3>1, AppendProperties
      <4>2. F[i] = F[i - 1] \/ F[i] = Append(F[i - 1], s[i])
        BY <1>8
      <4> QED
        BY <3>1, <4>1, <4>2, Zenon
    <3> QED
      BY <3>2
  <2> HIDE DEF T, N
  <2> QED
    BY <1>1, <2>1, <2>2, NumberInduction
<1>10. BuiltFrom(F, N, <<>>, G)
  <2> HIDE DEF F
  <2>1. ASSUME NEW i \in 1..N PROVE F[i] = G[i][F[i - 1]]
    <3>1. F[i - 1] \in Seq(A)
      BY <1>9, <1>1, SMTT(30)
    <3> QED
      BY <1>8, <3>1 DEF LeftStep
  <2> QED
    BY <1>8, <2>1 DEF BuiltFrom
<1> QED
  BY <1>7, <1>10

\* Nothing is left of nothing.
LEMMA WithoutEmpty ==
  ASSUME NEW D PROVE Without(<<>>, D) = <<>>
<1>1. <<>> \in Seq({}) /\ Len(<<>>) = 0
  OBVIOUS
<1>2. PICK f : /\ BuiltFrom(f, Len(<<>>), <<>>, LeftStep({}, <<>>, D))
               /\ Without(<<>>, D) = f[Len(<<>>)]
  BY <1>1, WithoutFunction, Zenon
<1>3. f[0] = <<>>
  BY <1>2, Zenon DEF BuiltFrom
<1> QED
  BY <1>1, <1>2, <1>3, Zenon

\* One more element is left, or taken out.
LEMMA WithoutAppend ==
  ASSUME NEW A, NEW s \in Seq(A), NEW x \in A, NEW D
  PROVE  /\ Without(s, D) \in Seq(A)
         /\ x \in D => Without(Append(s, x), D) = Without(s, D)
         /\ x \notin D =>
               Without(Append(s, x), D) = Append(Without(s, D), x)
<1> DEFINE t == Append(s, x)
           N == Len(s)
           G == LeftStep(A, s, D)
           H == LeftStep(A, t, D)
<1>1. /\ t \in Seq(A) /\ N \in Nat /\ Len(t) = N + 1
      /\ t[N + 1] = x /\ \A i \in 1..N : t[i] = s[i]
  BY AppendProperties, LenProperties
<1>2. <<>> \in Seq(A)
  OBVIOUS
<1>3. PICK f : BuiltFrom(f, N, <<>>, G) /\ Without(s, D) = f[N]
  BY WithoutFunction
<1>4. PICK g : BuiltFrom(g, N + 1, <<>>, H) /\ Without(t, D) = g[N + 1]
  <2> HIDE DEF t, N, H
  <2>1. PICK g : BuiltFrom(g, Len(t), <<>>, LeftStep(A, t, D))
                 /\ Without(t, D) = g[Len(t)]
    BY <1>1, WithoutFunction
  <2> QED
    BY <1>1, <2>1, Zenon DEF H
<1>5. \A i \in 1..N : i \in 1..(N + 1) /\ H[i] = G[i]
  <2> TAKE i \in 1..N
  <2>1. i \in 1..Len(t) /\ t[i] = s[i]
    BY <1>1
  <2>2. H[i] = [u \in Seq(A) |-> IF t[i] \in D THEN u ELSE Append(u, t[i])]
    BY <2>1 DEF LeftStep
  <2>3. G[i] = [u \in Seq(A) |-> IF s[i] \in D THEN u ELSE Append(u, s[i])]
    BY DEF LeftStep
  <2> QED
    BY <1>1, <2>1, <2>2, <2>3
<1>6. BuiltFrom(g, N, <<>>, G)
  <2> HIDE DEF t, N, G, H
  <2> QED
    BY <1>4, <1>5 DEF BuiltFrom
<1>7. G \in [1..N -> [Seq(A) -> Seq(A)]]
  <2>1. \A i \in 1..N : \A u \in Seq(A) : Append(u, s[i]) \in Seq(A)
    BY ElementOfSeq, AppendProperties
  <2> QED
    BY <2>1 DEF LeftStep
<1>8. f[N] = g[N] /\ f[N] \in Seq(A)
  <2>1. N \in 0..N
    BY <1>1
  <2> HIDE DEF t, N, G, H
  <2>2. \A i \in 0..N : f[i] = g[i] /\ f[i] \in Seq(A)
    BY <1>1, <1>2, <1>3, <1>6, <1>7, RecursionUnique, Zenon
  <2> QED
    BY <2>1, <2>2
<1>9. g[N + 1] = IF x \in D THEN g[N] ELSE Append(g[N], x)
  <2>1. N + 1 \in 1..(N + 1) /\ (N + 1) - 1 = N
    BY <1>1
  <2>2. g[N + 1] = H[N + 1][g[N]]
    BY <1>4, <2>1 DEF BuiltFrom
  <2>3. H[N + 1] = [u \in Seq(A) |-> IF x \in D THEN u ELSE Append(u, x)]
    BY <1>1, <2>1 DEF LeftStep
  <2> QED
    BY <1>8, <2>2, <2>3
<1> HIDE DEF t, N, G, H
<1> QED
  BY <1>3, <1>4, <1>8, <1>9 DEF t

\* What is left is a sequence of the same elements.
LEMMA WithoutType ==
  ASSUME NEW A, NEW s \in Seq(A), NEW D
  PROVE  Without(s, D) \in Seq(A)
<1>1. CASE A = {}
  <2>1. s = <<>>
    BY <1>1, EmptySeq, ElementOfSeq, LenProperties
  <2> QED
    BY <2>1, WithoutEmpty
<1>2. CASE A # {}
  BY <1>2, WithoutAppend
<1> QED
  BY <1>1, <1>2

\* An element of the set is taken out.
LEMMA WithoutTaken ==
  ASSUME NEW A, NEW s \in Seq(A), NEW D, NEW x \in A, x \in D
  PROVE  Without(Append(s, x), D) = Without(s, D)
  BY WithoutAppend

\* Any other element is left.
LEMMA WithoutLeft ==
  ASSUME NEW A, NEW s \in Seq(A), NEW D, NEW x \in A, x \notin D
  PROVE  Without(Append(s, x), D) = Append(Without(s, D), x)
  BY WithoutAppend

\* Without goes through a concatenation part by part.
LEMMA WithoutConcat ==
  ASSUME NEW A, NEW s \in Seq(A), NEW t \in Seq(A), NEW D
  PROVE  Without(s \o t, D) = Without(s, D) \o Without(t, D)
<1> DEFINE Holds(u) == Without(s \o u, D) = Without(s, D) \o Without(u, D)
           T == {u \in Seq(A) : Holds(u)}
<1>1. Without(s, D) \in Seq(A)
  BY WithoutType
<1>2. <<>> \in T
  <2>1. s \o <<>> = s /\ Without(s, D) \o <<>> = Without(s, D)
    BY <1>1
  <2>2. Holds(<<>>)
    BY <2>1, WithoutEmpty, Zenon
  <2>3. <<>> \in Seq(A)
    OBVIOUS
  <2> HIDE DEF Holds
  <2> QED
    BY <2>2, <2>3, Zenon
<1>3. ASSUME NEW u \in Seq(A), NEW x \in A, u \in T
      PROVE  Append(u, x) \in T
  <2>1. s \o u \in Seq(A) /\ Append(u, x) \in Seq(A)
    BY ConcatProperties, AppendProperties
  <2>2. s \o Append(u, x) = Append(s \o u, x)
    OBVIOUS
  <2>3. Holds(u)
    BY <1>3
  <2>4. Without(u, D) \in Seq(A)
    BY WithoutType
  <2>5. Without(s, D) \o Append(Without(u, D), x)
          = Append(Without(s, D) \o Without(u, D), x)
    BY <1>1, <2>4
  <2>6. CASE x \in D
    <3>1. Without(Append(s \o u, x), D) = Without(s \o u, D)
          /\ Without(Append(u, x), D) = Without(u, D)
      BY <2>1, <2>6, WithoutTaken
    <3>2. Holds(Append(u, x))
      BY <2>2, <2>3, <3>1, Zenon
    <3> HIDE DEF Holds
    <3> QED
      BY <2>1, <3>2, Zenon
  <2>7. CASE x \notin D
    <3>0. \A w \in Seq(A) : Without(Append(w, x), D) = Append(Without(w, D), x)
      BY <2>7, WithoutLeft
    <3>1. Without(Append(s \o u, x), D) = Append(Without(s \o u, D), x)
      BY <2>1, <3>0, Zenon
    <3>2. Without(Append(u, x), D) = Append(Without(u, D), x)
      BY <2>7, WithoutLeft
    <3>3. Holds(Append(u, x))
      BY <2>2, <2>3, <2>5, <3>1, <3>2, Zenon
    <3> HIDE DEF Holds
    <3> QED
      BY <2>1, <3>3, Zenon
  <2> QED
    BY <2>6, <2>7
<1>4. Seq(A) \subseteq T
  <2> HIDE DEF T
  <2> QED
    BY <1>2, <1>3, SequenceInduction
<1> QED
  BY <1>4

\* A sequence that has none of the elements is left as it is.
LEMMA WithoutNone ==
  ASSUME NEW A, NEW s \in Seq(A), NEW D, \A x \in A : x \notin D
  PROVE  Without(s, D) = s
<1> DEFINE T == {u \in Seq(A) : Without(u, D) = u}
<1>1. <<>> \in T
  <2>1. <<>> \in Seq(A)
    OBVIOUS
  <2> QED
    BY <2>1, WithoutEmpty, Zenon
<1>2. ASSUME NEW u \in Seq(A), NEW x \in A, u \in T
      PROVE  Append(u, x) \in T
  <2>1. Append(u, x) \in Seq(A)
    BY AppendProperties
  <2>2. Without(Append(u, x), D) = Append(Without(u, D), x)
    BY WithoutAppend
  <2> QED
    BY <1>2, <2>1, <2>2, Zenon
<1>3. Seq(A) \subseteq T
  <2> HIDE DEF T
  <2> QED
    BY <1>1, <1>2, SequenceInduction
<1> QED
  BY <1>3

\* Of a sequence that has nothing else, nothing is left.
LEMMA WithoutAll ==
  ASSUME NEW A, NEW s \in Seq(A), NEW D, \A x \in A : x \in D
  PROVE  Without(s, D) = <<>>
<1> DEFINE T == {u \in Seq(A) : Without(u, D) = <<>>}
<1>1. <<>> \in T
  <2>1. <<>> \in Seq(A)
    OBVIOUS
  <2> QED
    BY <2>1, WithoutEmpty, Zenon
<1>2. ASSUME NEW u \in Seq(A), NEW x \in A, u \in T
      PROVE  Append(u, x) \in T
  <2>1. Append(u, x) \in Seq(A)
    BY AppendProperties
  <2>2. Without(Append(u, x), D) = Without(u, D)
    BY WithoutAppend
  <2> QED
    BY <1>2, <2>1, <2>2, Zenon
<1>3. Seq(A) \subseteq T
  <2> HIDE DEF T
  <2> QED
    BY <1>1, <1>2, SequenceInduction
<1> QED
  BY <1>3

\* Taking out two sets one after the other takes out both.
LEMMA WithoutTwice ==
  ASSUME NEW A, NEW s \in Seq(A), NEW D, NEW E
  PROVE  Without(Without(s, D), E) = Without(s, D \union E)
<1> DEFINE Holds(u) == Without(Without(u, D), E) = Without(u, D \union E)
           T == {u \in Seq(A) : Holds(u)}
<1>1. <<>> \in T
  <2>1. <<>> \in Seq(A)
    OBVIOUS
  <2>2. Holds(<<>>)
    BY WithoutEmpty, Zenon
  <2> HIDE DEF Holds
  <2> QED
    BY <2>1, <2>2, Zenon
<1>2. ASSUME NEW u \in Seq(A), NEW x \in A, u \in T
      PROVE  Append(u, x) \in T
  <2>1. Append(u, x) \in Seq(A) /\ Without(u, D) \in Seq(A)
    BY AppendProperties, WithoutType
  <2>2. Holds(u)
    BY <1>2
  <2>3. /\ x \in D => Without(Append(u, x), D) = Without(u, D)
        /\ x \notin D => Without(Append(u, x), D) = Append(Without(u, D), x)
    BY WithoutTaken, WithoutLeft
  <2>4. LET w == Without(u, D)
        IN  /\ x \in E => Without(Append(w, x), E) = Without(w, E)
            /\ x \notin E => Without(Append(w, x), E) = Append(Without(w, E), x)
    BY <2>1, WithoutTaken, WithoutLeft
  <2>5. LET F == D \union E
        IN  /\ x \in F => Without(Append(u, x), F) = Without(u, F)
            /\ x \notin F => Without(Append(u, x), F) = Append(Without(u, F), x)
    BY WithoutTaken, WithoutLeft, SMTT(30)
  <2>6. Holds(Append(u, x))
    BY <2>2, <2>3, <2>4, <2>5, Zenon
  <2> HIDE DEF Holds
  <2> QED
    BY <2>1, <2>6, Zenon
<1>3. Seq(A) \subseteq T
  <2> HIDE DEF T
  <2> QED
    BY <1>1, <1>2, SequenceInduction
<1> QED
  BY <1>3

-----------------------------------------------------------------------------
(* Rules for Without and UpTo                                              *)

\* UpTo grows by one number at its end.
LEMMA UpToNext ==
  ASSUME NEW n \in Nat
  PROVE  /\ UpTo(n) \in Seq(1..n) /\ UpTo(n) \in Seq(Nat)
         /\ UpTo(n + 1) = Append(UpTo(n), n + 1)
         /\ UpTo(0) = <<>>
<1>1. /\ UpTo(n) \in [1..n -> 1..n] /\ UpTo(n) \in [1..n -> Nat]
      /\ DOMAIN UpTo(n) = 1..n
  BY DEF UpTo
<1>2. UpTo(n) \in Seq(1..n) /\ UpTo(n) \in Seq(Nat) /\ Len(UpTo(n)) = n
  BY <1>1, SeqDef, LenProperties DEF UpTo
<1>3. UpTo(n + 1) \in Seq(Nat) /\ Len(UpTo(n + 1)) = n + 1
  <2>1. UpTo(n + 1) \in [1..(n + 1) -> Nat] /\ n + 1 \in Nat
    BY DEF UpTo
  <2> QED
    BY <2>1, SeqDef, LenProperties DEF UpTo
<1>4. UpTo(n + 1) = Append(UpTo(n), n + 1)
  <2>1. /\ Append(UpTo(n), n + 1) \in Seq(Nat)
        /\ Len(Append(UpTo(n), n + 1)) = n + 1
        /\ Append(UpTo(n), n + 1)[n + 1] = n + 1
        /\ \A i \in 1..n : Append(UpTo(n), n + 1)[i] = UpTo(n)[i]
    BY <1>2, AppendProperties
  <2>2. ASSUME NEW i \in 1..(n + 1)
        PROVE  UpTo(n + 1)[i] = Append(UpTo(n), n + 1)[i]
    <3>1. CASE i = n + 1
      BY <2>1, <3>1 DEF UpTo
    <3>2. CASE i # n + 1
      <4>1. i \in 1..n
        BY <3>2
      <4> QED
        BY <2>1, <4>1 DEF UpTo
    <3> QED
      BY <3>1, <3>2
  <2> QED
    BY <1>3, <2>1, <2>2, SeqEqual
<1>5. UpTo(0) = <<>>
  <2>1. UpTo(0) \in Seq(Nat) /\ Len(UpTo(0)) = 0
    <3>1. UpTo(0) \in [1..0 -> Nat]
      BY DEF UpTo
    <3> QED
      BY <3>1, SeqDef, LenProperties DEF UpTo
  <2> QED
    BY <2>1, EmptySeq
<1> QED
  BY <1>2, <1>4, <1>5

\* Concatenation is associative.
LEMMA ConcatAssoc ==
  ASSUME NEW A, NEW p \in Seq(A), NEW q \in Seq(A), NEW r \in Seq(A)
  PROVE  (p \o q) \o r = p \o (q \o r)
  BY SMTT(30)

\* WithoutConcat, for all sequences of a type.
LEMMA WithoutParts ==
  ASSUME NEW A, NEW X
  PROVE  \A s, t \in Seq(A) :
            Without(s \o t, X) = Without(s, X) \o Without(t, X)
  BY WithoutConcat

-----------------------------------------------------------------------------
(* SumSeq                                                                  *)

SumStep(s) == [i \in 1..Len(s) |-> [u \in Int |-> u + s[i]]]

\* The function that SumSeq is the last value of.
LEMMA SumSeqFunction ==
  ASSUME NEW s \in Seq(Int)
  PROVE  \E f : BuiltFrom(f, Len(s), 0, SumStep(s)) /\ SumSeq(s) = f[Len(s)]
<1> DEFINE N == Len(s)
           G == SumStep(s)
           E(F) == [i \in 0..N |-> IF i = 0 THEN 0 ELSE F[i - 1] + s[i]]
<1>1. N \in Nat /\ \A i \in 1..N : s[i] \in Int
  BY LenProperties, ElementOfSeq
<1>2. G \in [1..N -> [Int -> Int]]
  BY <1>1 DEF SumStep
<1>3. PICK h \in [0..N -> Int] : BuiltFrom(h, N, 0, G)
  <2>1. 0 \in Int
    OBVIOUS
  <2> HIDE DEF N, G
  <2> QED
    BY <1>1, <1>2, <2>1, RecursionExists
<1>4. h = E(h)
  <2>1. \A i \in 1..N : h[i - 1] \in Int
    BY <1>1
  <2>2. \A i \in 1..N : h[i] = h[i - 1] + s[i]
    BY <1>3, <2>1 DEF SumStep, BuiltFrom
  <2>3. ASSUME NEW i \in 0..N PROVE h[i] = E(h)[i]
    BY <1>1, <1>3, <2>2 DEF BuiltFrom
  <2> QED
    BY <2>3
<1> DEFINE F == CHOOSE F : F = E(F)
<1>5. F = E(F)
  <2> HIDE DEF E
  <2> QED
    BY <1>4
<1>6. SumSeq(s) = F[N]
  BY DEF SumSeq
<1>7. F[0] = 0 /\ \A i \in 1..N : F[i] = F[i - 1] + s[i]
  <2> HIDE DEF F
  <2>1. \A i \in 0..N : F[i] = E(F)[i]
    BY <1>5, Zenon
  <2> QED
    BY <2>1, <1>1
<1> DEFINE T == {i \in 0..N : F[i] \in Int}
<1>8. 0..N \subseteq T
  <2> HIDE DEF F
  <2>1. 0 \in T
    BY <1>7, <1>1
  <2>2. ASSUME NEW i \in 1..N, i - 1 \in T PROVE i \in T
    BY <1>1, <1>7, <2>2
  <2> HIDE DEF T, N
  <2> QED
    BY <1>1, <2>1, <2>2, NumberInduction
<1>9. BuiltFrom(F, N, 0, G)
  <2> HIDE DEF F
  <2>1. ASSUME NEW i \in 1..N PROVE F[i] = G[i][F[i - 1]]
    <3>1. F[i - 1] \in Int
      BY <1>8, <1>1
    <3> QED
      BY <1>7, <3>1 DEF SumStep
  <2> QED
    BY <1>7, <2>1 DEF BuiltFrom
<1> QED
  BY <1>6, <1>9

\* The sum of nothing is nothing.
LEMMA SumEmpty == SumSeq(<<>>) = 0
<1>1. <<>> \in Seq(Int) /\ Len(<<>>) = 0
  OBVIOUS
<1>2. PICK f : /\ BuiltFrom(f, Len(<<>>), 0, SumStep(<<>>))
               /\ SumSeq(<<>>) = f[Len(<<>>)]
  BY <1>1, SumSeqFunction, Zenon
<1>3. f[0] = 0
  BY <1>2, Zenon DEF BuiltFrom
<1> QED
  BY <1>1, <1>2, <1>3, Zenon

\* One more number is added.
LEMMA SumAppend ==
  ASSUME NEW s \in Seq(Int), NEW x \in Int
  PROVE  SumSeq(s) \in Int /\ SumSeq(Append(s, x)) = SumSeq(s) + x
<1> DEFINE t == Append(s, x)
           N == Len(s)
           G == SumStep(s)
           H == SumStep(t)
<1>1. /\ t \in Seq(Int) /\ N \in Nat /\ Len(t) = N + 1
      /\ t[N + 1] = x /\ \A i \in 1..N : t[i] = s[i] /\ s[i] \in Int
  BY AppendProperties, LenProperties, ElementOfSeq
<1>2. PICK f : BuiltFrom(f, N, 0, G) /\ SumSeq(s) = f[N]
  BY SumSeqFunction
<1>3. PICK g : BuiltFrom(g, N + 1, 0, H) /\ SumSeq(t) = g[N + 1]
  <2> HIDE DEF t, N, H
  <2>1. PICK g : BuiltFrom(g, Len(t), 0, SumStep(t)) /\ SumSeq(t) = g[Len(t)]
    BY <1>1, SumSeqFunction
  <2> QED
    BY <1>1, <2>1, Zenon DEF H
<1>4. \A i \in 1..N : i \in 1..(N + 1) /\ H[i] = G[i]
  <2> TAKE i \in 1..N
  <2>1. i \in 1..Len(t) /\ t[i] = s[i]
    BY <1>1
  <2> QED
    BY <1>1, <2>1 DEF SumStep
<1>5. BuiltFrom(g, N, 0, G)
  <2> HIDE DEF t, N, G, H
  <2> QED
    BY <1>3, <1>4 DEF BuiltFrom
<1>6. G \in [1..N -> [Int -> Int]]
  BY <1>1 DEF SumStep
<1>7. f[N] = g[N] /\ f[N] \in Int
  <2>1. N \in 0..N /\ 0 \in Int
    BY <1>1
  <2> HIDE DEF t, N, G, H
  <2>2. \A i \in 0..N : f[i] = g[i] /\ f[i] \in Int
    BY <1>1, <1>2, <1>5, <1>6, <2>1, RecursionUnique
  <2> QED
    BY <2>1, <2>2
<1>8. g[N + 1] = g[N] + x
  <2>1. N + 1 \in 1..(N + 1) /\ (N + 1) - 1 = N
    BY <1>1
  <2>2. g[N + 1] = H[N + 1][g[N]]
    BY <1>3, <2>1 DEF BuiltFrom
  <2>3. H[N + 1] = [u \in Int |-> u + x]
    BY <1>1, <2>1 DEF SumStep
  <2> QED
    BY <1>7, <2>2, <2>3
<1> HIDE DEF t, N, G, H
<1> QED
  BY <1>2, <1>3, <1>7, <1>8 DEF t

\* The sum of natural numbers is one.
LEMMA SumNat ==
  ASSUME NEW s \in Seq(Nat)
  PROVE  SumSeq(s) \in Nat
<1> DEFINE T == {u \in Seq(Nat) : SumSeq(u) \in Nat}
<1>1. <<>> \in T
  <2>1. <<>> \in Seq(Nat)
    OBVIOUS
  <2>2. SumSeq(<<>>) \in Nat
    BY SumEmpty
  <2> QED
    BY <2>1, <2>2
<1>2. ASSUME NEW u \in Seq(Nat), NEW x \in Nat, u \in T
      PROVE  Append(u, x) \in T
  <2>1. Append(u, x) \in Seq(Nat) /\ u \in Seq(Int) /\ x \in Int
    BY AppendProperties
  <2>2. SumSeq(Append(u, x)) = SumSeq(u) + x
    BY <2>1, SumAppend
  <2>3. SumSeq(Append(u, x)) \in Nat
    BY <1>2, <2>2
  <2> QED
    BY <2>1, <2>3
<1>3. Seq(Nat) \subseteq T
  <2> HIDE DEF T
  <2> QED
    BY <1>1, <1>2, SequenceInduction
<1> QED
  BY <1>3

-----------------------------------------------------------------------------
(* Parts of a sequence                                                     *)

\* How to recognise a concatenation.
LEMMA IsConcat ==
  ASSUME NEW A, NEW p \in Seq(A), NEW q \in Seq(A), NEW s \in Seq(A),
         Len(s) = Len(p) + Len(q),
         \A i \in 1..Len(p) : s[i] = p[i],
         \A i \in 1..Len(q) : s[Len(p) + i] = q[i]
  PROVE  s = p \o q
<1>1. PICK t : t = p \o q
  OBVIOUS
<1>2. PICK m \in Nat : m = Len(p)
  BY LenProperties
<1>3. PICK n \in Nat : n = Len(q)
  BY LenProperties
<1>4. /\ t \in Seq(A) /\ Len(t) = m + n
      /\ \A i \in 1..m : t[i] = p[i]
      /\ \A i \in (m + 1)..(m + n) : t[i] = q[i - m]
  BY <1>1, <1>2, <1>3, ConcatProperties
<1>5. ASSUME NEW i \in 1..(m + n) PROVE s[i] = t[i]
  <2>1. CASE i <= m
    BY <1>2, <1>4, <2>1
  <2>2. CASE ~(i <= m)
    <3>1. i \in (m + 1)..(m + n) /\ i - m \in 1..n /\ m + (i - m) = i
      BY <2>2
    <3> QED
      BY <1>2, <1>3, <1>4, <3>1
  <2> QED
    BY <2>1, <2>2
<1>6. Len(s) = m + n
  BY <1>2, <1>3
<1>7. s = t
  BY <1>4, <1>5, <1>6, SeqEqual
<1> QED
  BY <1>1, <1>7

\* A sequence from one place on.
LEMMA FromHere ==
  ASSUME NEW A, NEW s \in Seq(A), NEW k \in 1..Len(s)
  PROVE  /\ SubSeq(s, k, Len(s)) = <<s[k]>> \o SubSeq(s, k + 1, Len(s))
         /\ s[k] \in A
         /\ SubSeq(s, k + 1, Len(s)) \in Seq(A)
<1>1. Len(s) \in Nat /\ s[k] \in A /\ k \in Nat /\ k <= Len(s)
  BY LenProperties, ElementOfSeq
<1>2. PICK t : t = SubSeq(s, k, Len(s))
  OBVIOUS
<1>3. /\ t \in Seq(A) /\ Len(t) = Len(s) - k + 1
      /\ \A i \in 1..(Len(s) - k + 1) : t[i] = s[k + i - 1]
  BY <1>1, <1>2, SubSeqProperties
<1>4. PICK u : u = SubSeq(s, k + 1, Len(s))
  OBVIOUS
<1>5. /\ u \in Seq(A) /\ Len(u) = Len(s) - k
      /\ \A i \in 1..(Len(s) - k) : u[i] = s[k + i]
  BY <1>1, <1>4, SubSeqProperties
<1>6. PICK v : v = <<s[k]>> \o u
  OBVIOUS
<1>7. /\ v \in Seq(A) /\ Len(v) = Len(s) - k + 1
      /\ v[1] = s[k] /\ \A i \in 2..(Len(s) - k + 1) : v[i] = u[i - 1]
  BY <1>1, <1>5, <1>6
<1>8. ASSUME NEW i \in 1..(Len(s) - k + 1) PROVE t[i] = v[i]
  <2>1. CASE i = 1
    BY <1>1, <1>3, <1>7, <2>1
  <2>2. CASE i # 1
    <3>1. /\ i \in 2..(Len(s) - k + 1) /\ i - 1 \in 1..(Len(s) - k)
          /\ k + i - 1 = k + (i - 1)
      BY <1>1, <2>2
    <3> QED
      BY <1>3, <1>5, <1>7, <3>1
  <2> QED
    BY <2>1, <2>2
<1>9. t = v
  BY <1>3, <1>7, <1>8, SeqEqual
<1> QED
  BY <1>1, <1>2, <1>4, <1>5, <1>6, <1>9

\* A sequence is its first k elements and the others.
LEMMA InTwoParts ==
  ASSUME NEW A, NEW s \in Seq(A), NEW k \in 0..Len(s)
  PROVE  /\ s = SubSeq(s, 1, k) \o SubSeq(s, k + 1, Len(s))
         /\ SubSeq(s, 1, k) \in Seq(A)
         /\ SubSeq(s, k + 1, Len(s)) \in Seq(A)
<1>1. Len(s) \in Nat /\ k \in Nat /\ k <= Len(s)
  BY LenProperties
<1>2. PICK t : t = SubSeq(s, 1, k)
  OBVIOUS
<1>3. /\ t \in Seq(A) /\ Len(t) = k
      /\ \A i \in 1..k : t[i] = s[i]
  BY <1>1, <1>2, SubSeqProperties
<1>4. PICK u : u = SubSeq(s, k + 1, Len(s))
  OBVIOUS
<1>5. /\ u \in Seq(A) /\ Len(u) = Len(s) - k
      /\ \A i \in 1..(Len(s) - k) : u[i] = s[k + i]
  BY <1>1, <1>4, SubSeqProperties
<1>6. /\ Len(s) = Len(t) + Len(u)
      /\ \A i \in 1..Len(t) : s[i] = t[i]
      /\ \A i \in 1..Len(u) : s[Len(t) + i] = u[i]
  BY <1>1, <1>3, <1>5
<1>7. s = t \o u
  BY <1>3, <1>5, <1>6, IsConcat, Zenon
<1> QED
  BY <1>2, <1>3, <1>4, <1>5, <1>7

-----------------------------------------------------------------------------
(* Long concatenations                                                     *)

\* Concatenation as an operator of which only CatRules is used.
Cat(p, q) == p \o q

\* Cat is associative on the sequences over a set.
LEMMA CatAssoc ==
  ASSUME NEW A, NEW p \in Seq(A), NEW q \in Seq(A), NEW s \in Seq(A)
  PROVE  Cat(p, q) \in Seq(A) /\ Cat(Cat(p, q), s) = Cat(p, Cat(q, s))
<1>1. p \o q \in Seq(A)
  BY ConcatProperties
<1>2. (p \o q) \o s = p \o (q \o s)
  BY ConcatAssoc
<1> QED
  BY <1>1, <1>2, Zenon DEF Cat

\* What a regrouping of sequences of numbers rests on.
LEMMA CatRules ==
  /\ \A p, q \in Seq(Nat) : Cat(p, q) \in Seq(Nat)
  /\ \A p, q, s \in Seq(Nat) : Cat(Cat(p, q), s) = Cat(p, Cat(q, s))
  /\ \A p \in Seq(Nat) : Cat(p, <<>>) = p /\ Cat(<<>>, p) = p
<1>1. \A p, q \in Seq(Nat) : Cat(p, q) \in Seq(Nat)
  BY ConcatProperties DEF Cat
<1>2. ASSUME NEW p \in Seq(Nat), NEW q \in Seq(Nat), NEW s \in Seq(Nat)
      PROVE  Cat(Cat(p, q), s) = Cat(p, Cat(q, s))
  BY CatAssoc
<1>3. \A p \in Seq(Nat) : Cat(p, <<>>) = p /\ Cat(<<>>, p) = p
  BY DEF Cat
<1> QED
  BY <1>1, <1>2, <1>3, Zenon
=============================================================================
