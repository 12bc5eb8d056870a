------------------------- MODULE AsyncLoggingProofs -------------------------
(***************************************************************************)
(* Proofs about AsyncLogging and LogStream, for streams, buffers and files *)
(* of any size, any logging statements, any backlog limit of at least two  *)
(* buffers and any number of lines.                                        *)
(*                                                                         *)
(* First the lines: numbers are legible and a stream never writes beyond   *)
(* its buffer.  Then the buffers of a round, the types, and the way of the *)
(* lines from append() to the file.                                        *)
(***************************************************************************)
EXTENDS AsyncLogging, SequenceFacts

-----------------------------------------------------------------------------
(* The elements of sequences                                               *)

\* The elements of a concatenation.
LEMMA ToSetConcat ==
  ASSUME NEW A, NEW s \in Seq(A), NEW t \in Seq(A)
  PROVE  ToSet(s \o t) = ToSet(s) \union ToSet(t)
<1>1. /\ Len(s) \in Nat /\ Len(t) \in Nat /\ Len(s \o t) = Len(s) + Len(t)
      /\ DOMAIN s = 1..Len(s) /\ DOMAIN t = 1..Len(t)
      /\ DOMAIN (s \o t) = 1..(Len(s) + Len(t))
      /\ \A i \in 1..Len(s) : (s \o t)[i] = s[i]
      /\ \A i \in 1..Len(t) : (s \o t)[Len(s) + i] = t[i]
  BY ConcatProperties, LenProperties
<1>2. ASSUME NEW x \in ToSet(s \o t) PROVE x \in ToSet(s) \union ToSet(t)
  <2>1. PICK i \in 1..(Len(s) + Len(t)) : x = (s \o t)[i]
    BY <1>1, <1>2 DEF ToSet
  <2>2. CASE i <= Len(s)
    <3>1. i \in 1..Len(s)
      BY <1>1, <2>2
    <3> QED
      BY <1>1, <2>1, <3>1 DEF ToSet
  <2>3. CASE ~(i <= Len(s))
    <3>1. i - Len(s) \in 1..Len(t) /\ Len(s) + (i - Len(s)) = i
      BY <1>1, <2>3
    <3>2. t[i - Len(s)] = x
      BY <1>1, <2>1, <3>1
    <3> QED
      BY <1>1, <3>1, <3>2 DEF ToSet
  <2> QED
    BY <2>2, <2>3
<1>3. ASSUME NEW x \in ToSet(s) PROVE x \in ToSet(s \o t)
  <2>1. PICK i \in 1..Len(s) : x = s[i]
    BY <1>1, <1>3 DEF ToSet
  <2>2. i \in 1..(Len(s) + Len(t))
    BY <1>1
  <2> QED
    BY <1>1, <2>1, <2>2 DEF ToSet
<1>4. ASSUME NEW x \in ToSet(t) PROVE x \in ToSet(s \o t)
  <2>1. PICK i \in 1..Len(t) : x = t[i]
    BY <1>1, <1>4 DEF ToSet
  <2>2. Len(s) + i \in 1..(Len(s) + Len(t))
    BY <1>1
  <2> QED
    BY <1>1, <2>1, <2>2 DEF ToSet
<1> QED
  BY <1>2, <1>3, <1>4

\* The elements of a sequence are of its type, and it is a sequence of them.
LEMMA ToSetType ==
  ASSUME NEW A, NEW s \in Seq(A)
  PROVE  ToSet(s) \subseteq A /\ s \in Seq(ToSet(s))
<1>1. Len(s) \in Nat /\ s \in [1..Len(s) -> A] /\ DOMAIN s = 1..Len(s)
  BY LenProperties
<1>2. s \in [1..Len(s) -> ToSet(s)]
  BY <1>1 DEF ToSet
<1>3. s \in Seq(ToSet(s))
  BY <1>1, <1>2, SeqDef
<1> QED
  BY <1>1, <1>3 DEF ToSet

\* A sequence without any of the elements is left as it is, whatever type.
LEMMA WithoutDisjoint ==
  ASSUME NEW A, NEW s \in Seq(A), NEW D, ToSet(s) \intersect D = {}
  PROVE  Without(s, D) = s
<1>1. s \in Seq(ToSet(s)) /\ \A x \in ToSet(s) : x \notin D
  BY ToSetType
<1> HIDE DEF ToSet
<1> QED
  BY <1>1, WithoutNone

\* Of a sequence of elements of the set nothing is left, whatever type.
LEMMA WithoutSubset ==
  ASSUME NEW A, NEW s \in Seq(A), NEW D, ToSet(s) \subseteq D
  PROVE  Without(s, D) = <<>>
<1>1. s \in Seq(ToSet(s)) /\ \A x \in ToSet(s) : x \in D
  BY ToSetType
<1> HIDE DEF ToSet
<1> QED
  BY <1>1, WithoutAll

\* The elements of an extended sequence.
LEMMA ToSetAppend ==
  ASSUME NEW A, NEW s \in Seq(A), NEW x \in A
  PROVE  ToSet(Append(s, x)) = ToSet(s) \union {x}
<1>1. Append(s, x) = s \o <<x>> /\ <<x>> \in Seq(A)
  OBVIOUS
<1>2. ToSet(<<x>>) = {x}
  <2>1. DOMAIN <<x>> = {1} /\ <<x>>[1] = x
    OBVIOUS
  <2> QED
    BY <2>1 DEF ToSet
<1> HIDE DEF ToSet
<1>3. ToSet(s \o <<x>>) = ToSet(s) \union ToSet(<<x>>)
  BY <1>1, ToSetConcat, ZenonT(40)
<1> QED
  BY <1>1, <1>2, <1>3, Zenon

\* The elements that are left.
LEMMA ToSetWithout ==
  ASSUME NEW A, NEW s \in Seq(A), NEW D
  PROVE  ToSet(Without(s, D)) = ToSet(s) \ D
<1> DEFINE Holds(u) == ToSet(Without(u, D)) = ToSet(u) \ D
           T == {u \in Seq(A) : Holds(u)}
<1>1. <<>> \in T
  <2>1. <<>> \in Seq(A) /\ ToSet(<<>>) = {}
    BY DEF ToSet
  <2>2. Holds(<<>>)
    BY <2>1, WithoutEmpty, Zenon
  <2> HIDE DEF Holds
  <2> QED
    BY <2>1, <2>2, Zenon
<1>2. ASSUME NEW u \in Seq(A), NEW x \in A, u \in T
      PROVE  Append(u, x) \in T
  <2>1. Append(u, x) \in Seq(A) /\ Without(u, D) \in Seq(A)
    BY AppendProperties, WithoutType
  <2>2. Holds(u)
    BY <1>2
  <2>3. ToSet(Append(u, x)) = ToSet(u) \union {x}
    BY ToSetAppend
  <2>4. Holds(Append(u, x))
    <3>1. CASE x \in D
      <4>1. Without(Append(u, x), D) = Without(u, D)
        BY <3>1, WithoutTaken
      <4> QED
        BY <2>2, <2>3, <3>1, <4>1, Zenon
    <3>2. CASE x \notin D
      <4>1. Without(Append(u, x), D) = Append(Without(u, D), x)
        BY <3>2, WithoutLeft
      <4>2. ToSet(Append(Without(u, D), x)) = ToSet(Without(u, D)) \union {x}
        BY <2>1, ToSetAppend
      <4>3. ToSet(Without(Append(u, x), D)) = (ToSet(u) \ D) \union {x}
        BY <2>2, <4>1, <4>2, Zenon
      <4> QED
        BY <2>3, <3>2, <4>3, Zenon
    <3> QED
      BY <3>1, <3>2
  <2> HIDE DEF Holds
  <2> QED
    BY <2>1, <2>4, Zenon
<1>3. Seq(A) \subseteq T
  <2> HIDE DEF T
  <2> QED
    BY <1>1, <1>2, SequenceInduction
<1> QED
  BY <1>3

-----------------------------------------------------------------------------
(* What is left of 1, 2, ..., n                                            *)

\* Each element is less than the later ones.
Increasing(s) == \A i, j \in 1..Len(s) : i < j => s[i] < s[j]

\* The elements of 1, 2, ..., n.
LEMMA ToSetUpTo ==
  ASSUME NEW n \in Nat
  PROVE  ToSet(UpTo(n)) = 1..n
<1>1. DOMAIN UpTo(n) = 1..n
  BY DEF UpTo
<1> QED
  BY <1>1 DEF ToSet, UpTo

\* What is left of 1, 2, ..., n is in ascending order.
LEMMA LeftIncreasing ==
  ASSUME NEW n \in Nat, NEW D
  PROVE  Increasing(Without(UpTo(n), D))
<1> DEFINE W(k) == Without(UpTo(k), D)
           T == {k \in 0..n : Increasing(W(k))}
<1>1. 0 \in T
  <2>1. W(0) = <<>>
    BY UpToNext, WithoutEmpty, Zenon
  <2>2. Increasing(W(0))
    BY <2>1 DEF Increasing
  <2> HIDE DEF W
  <2> QED
    BY <2>2
<1>2. ASSUME NEW k \in 1..n, k - 1 \in T
      PROVE  k \in T
  <2>1. PICK m \in Nat : m = k - 1 /\ m + 1 = k
    OBVIOUS
  <2>2. Increasing(W(m))
    BY <1>2, <2>1
  <2>3. UpTo(m) \in Seq(Nat) /\ UpTo(m + 1) = Append(UpTo(m), m + 1)
    BY UpToNext
  <2>4. W(m) \in Seq(Nat) /\ ToSet(W(m)) \subseteq 1..m
    <3>1. W(m) \in Seq(Nat)
      BY <2>3, WithoutType
    <3>2. ToSet(W(m)) = ToSet(UpTo(m)) \ D
      BY <2>3, ToSetWithout
    <3>3. ToSet(UpTo(m)) = 1..m
      BY ToSetUpTo
    <3> QED
      BY <3>1, <3>2, <3>3
  <2>5. W(m + 1) = W(m) \/ W(m + 1) = Append(W(m), m + 1)
    <3>1. m + 1 \in Nat
      OBVIOUS
    <3>2. m + 1 \in D => Without(Append(UpTo(m), m + 1), D) = W(m)
      BY <2>3, <3>1, WithoutTaken
    <3>3. m + 1 \notin D =>
            Without(Append(UpTo(m), m + 1), D) = Append(W(m), m + 1)
      BY <2>3, <3>1, WithoutLeft
    <3> QED
      BY <2>3, <3>2, <3>3, Zenon
  <2>6. Increasing(Append(W(m), m + 1))
    <3> HIDE DEF W
    <3>1. /\ Len(W(m)) \in Nat /\ DOMAIN W(m) = 1..Len(W(m))
          /\ Len(Append(W(m), m + 1)) = Len(W(m)) + 1
          /\ Append(W(m), m + 1)[Len(W(m)) + 1] = m + 1
          /\ \A i \in 1..Len(W(m)) : Append(W(m), m + 1)[i] = W(m)[i]
      BY <2>4, AppendProperties, LenProperties
    <3>2. \A i \in 1..Len(W(m)) : W(m)[i] \in 1..m
      BY <2>4, <3>1 DEF ToSet
    <3> SUFFICES ASSUME NEW i \in 1..(Len(W(m)) + 1),
                        NEW j \in 1..(Len(W(m)) + 1), i < j
                 PROVE  Append(W(m), m + 1)[i] < Append(W(m), m + 1)[j]
      BY <3>1 DEF Increasing
    <3>3. i \in 1..Len(W(m))
      BY <3>1
    <3>4. CASE j = Len(W(m)) + 1
      BY <3>1, <3>2, <3>3, <3>4
    <3>5. CASE j # Len(W(m)) + 1
      <4>1. j \in 1..Len(W(m))
        BY <3>1, <3>5
      <4> QED
        BY <2>2, <3>1, <3>3, <4>1 DEF Increasing
    <3> QED
      BY <3>4, <3>5
  <2>7. Increasing(W(k))
    <3> HIDE DEF W
    <3> QED
      BY <2>1, <2>2, <2>5, <2>6, Zenon
  <2> HIDE DEF W
  <2> QED
    BY <2>7
<1>3. 0..n \subseteq T
  <2> HIDE DEF T
  <2> QED
    BY <1>1, <1>2, NumberInduction
<1>4. n \in T
  BY <1>3
<1> QED
  BY <1>4

\* The parts of an ascending sequence have nothing in common.
LEMMA IncreasingParts ==
  ASSUME NEW s \in Seq(Nat), NEW t \in Seq(Nat), Increasing(s \o t)
  PROVE  ToSet(s) \intersect ToSet(t) = {}
<1> SUFFICES ASSUME NEW x \in ToSet(s), x \in ToSet(t) PROVE FALSE
  OBVIOUS
<1>1. /\ Len(s) \in Nat /\ Len(t) \in Nat /\ Len(s \o t) = Len(s) + Len(t)
      /\ DOMAIN s = 1..Len(s) /\ DOMAIN t = 1..Len(t)
      /\ \A i \in 1..Len(s) : (s \o t)[i] = s[i]
      /\ \A i \in 1..Len(t) : (s \o t)[Len(s) + i] = t[i]
      /\ \A i \in 1..Len(s) : s[i] \in Nat
  BY ConcatProperties, LenProperties, ElementOfSeq
<1>2. PICK i \in 1..Len(s) : x = s[i]
  BY <1>1 DEF ToSet
<1>3. PICK j \in 1..Len(t) : x = t[j]
  BY <1>1 DEF ToSet
<1>4. i \in 1..Len(s \o t) /\ Len(s) + j \in 1..Len(s \o t) /\ i < Len(s) + j
  BY <1>1
<1>5. (s \o t)[i] < (s \o t)[Len(s) + j]
  BY <1>4 DEF Increasing
<1>6. s[i] \in Nat /\ s[i] < t[j] /\ s[i] = t[j]
  <2>1. (s \o t)[i] = s[i] /\ (s \o t)[Len(s) + j] = t[j] /\ s[i] \in Nat
    BY <1>1
  <2> QED
    BY <1>2, <1>3, <1>5, <2>1
<1> QED
  BY <1>6

\* A part in the middle is taken out by naming its elements.
LEMMA CutOut ==
  ASSUME NEW n \in Nat, NEW D,
         NEW p \in Seq(Nat), NEW q \in Seq(Nat), NEW r \in Seq(Nat)
  PROVE  (p \o q) \o r = Without(UpTo(n), D) =>
            /\ p \o r = Without(UpTo(n), D \union ToSet(q))
            /\ ToSet(p) \intersect ToSet(q) = {}
            /\ ToSet(q) \subseteq 1..n
<1>0. PICK X : X = ToSet(q)
  OBVIOUS
<1>1. p \o q \in Seq(Nat) /\ q \o r \in Seq(Nat)
  BY ConcatProperties
<1>2. (p \o q) \o r = p \o (q \o r)
  BY ConcatAssoc, SMTT(30)
<1>3. \A s, t \in Seq(Nat) : ToSet(s \o t) = ToSet(s) \union ToSet(t)
  BY ToSetConcat
<1>4. \A s, t \in Seq(Nat) :
         Without(s \o t, X) = Without(s, X) \o Without(t, X)
  BY WithoutParts
<1>5. \A s, t \in Seq(Nat) :
         Increasing(s \o t) => ToSet(s) \intersect ToSet(t) = {}
  BY IncreasingParts
<1>6. UpTo(n) \in Seq(Nat) /\ ToSet(UpTo(n)) = 1..n
  BY UpToNext, ToSetUpTo
<1>7. Without(Without(UpTo(n), D), X) = Without(UpTo(n), D \union X)
  BY <1>6, WithoutTwice
<1>8. ToSet(Without(UpTo(n), D)) = 1..n \ D
  BY <1>6, ToSetWithout
<1>9. Increasing(Without(UpTo(n), D))
  BY LeftIncreasing
<1>10. \A s \in Seq(Nat) : ToSet(s) \intersect X = {} => Without(s, X) = s
  BY WithoutDisjoint
<1>11. Without(q, X) = <<>>
  BY <1>0, WithoutSubset
<1>12. p \o <<>> = p
  OBVIOUS
<1> HAVE (p \o q) \o r = Without(UpTo(n), D)
<1>13. ToSet(p) \intersect ToSet(q \o r) = {}
  BY <1>1, <1>2, <1>5, <1>9, Zenon
<1>14. ToSet(p \o q) \intersect ToSet(r) = {}
  BY <1>1, <1>5, <1>9, Zenon
<1>15. /\ ToSet(q \o r) = X \union ToSet(r)
       /\ ToSet(p \o q) = ToSet(p) \union X
       /\ ToSet((p \o q) \o r) = ToSet(p \o q) \union ToSet(r)
  BY <1>0, <1>1, <1>3, Zenon
<1>16. ToSet(p) \intersect X = {} /\ ToSet(r) \intersect X = {}
  BY <1>13, <1>14, <1>15, Zenon
<1>17. Without(p, X) = p /\ Without(r, X) = r
  BY <1>10, <1>16, Zenon
<1>18. Without((p \o q) \o r, X) = Without(p \o q, X) \o Without(r, X)
  BY <1>1, <1>4, Zenon
<1>19. Without(p \o q, X) = Without(p, X) \o Without(q, X)
  BY <1>4, Zenon
<1>20. Without((p \o q) \o r, X) = p \o r
  BY <1>11, <1>12, <1>17, <1>18, <1>19, Zenon
<1>21. X \subseteq 1..n
  BY <1>8, <1>15, Zenon
<1> QED
  BY <1>0, <1>7, <1>16, <1>20, <1>21, Zenon

-----------------------------------------------------------------------------
(* FlattenSeq                                                              *)

FlatStep(A, ss) ==
    [i \in 1..Len(ss) |-> [u \in Seq(A) |-> u \o ss[i]]]

\* The function that FlattenSeq is the last value of.
LEMMA FlattenFunction ==
  ASSUME NEW A, NEW ss \in Seq(Seq(A))
  PROVE  \E f : /\ BuiltFrom(f, Len(ss), <<>>, FlatStep(A, ss))
                /\ FlattenSeq(ss) = f[Len(ss)]
<1> DEFINE N == Len(ss)
           G == FlatStep(A, ss)
           E(F) == [i \in 1..N |-> IF i = 1 THEN ss[i] ELSE F[i - 1] \o ss[i]]
<1>1. N \in Nat /\ <<>> \in Seq(A)
  BY LenProperties
<1>2. \A i \in 1..N : ss[i] \in Seq(A)
  BY ElementOfSeq
<1>3. G \in [1..N -> [Seq(A) -> Seq(A)]]
  <2>1. \A i \in 1..N : \A u \in Seq(A) : u \o ss[i] \in Seq(A)
    BY <1>2, ConcatProperties
  <2> QED
    BY <2>1 DEF FlatStep
<1>4. PICK h \in [0..N -> Seq(A)] : BuiltFrom(h, N, <<>>, G)
  <2> HIDE DEF N, G
  <2> QED
    BY <1>1, <1>3, RecursionExists
<1>5. \A i \in 1..N : h[i - 1] \in Seq(A)
  <2> HIDE DEF N
  <2> TAKE i \in 1..N
  <2>1. i - 1 \in 0..N
    BY <1>1
  <2> QED
    BY <2>1, Zenon
<1>6. h[0] = <<>> /\ \A i \in 1..N : h[i] = h[i - 1] \o ss[i]
  BY <1>4, <1>5 DEF FlatStep, BuiltFrom
<1>7. CASE N = 0
  <2>1. ss = <<>>
    BY <1>7, EmptySeq
  <2>2. FlattenSeq(ss) = ss
    BY <1>7 DEF FlattenSeq
  <2>3. FlattenSeq(ss) = h[N]
    BY <1>6, <1>7, <2>1, <2>2, Zenon
  <2> QED
    BY <1>4, <2>3
<1>8. CASE N # 0
  <2> DEFINE h1 == [i \in 1..N |-> h[i]]
  <2>1. h1 = E(h1)
    <3>1. ASSUME NEW i \in 1..N PROVE h1[i] = E(h1)[i]
      <4>1. CASE i = 1
        <5>1. <<>> \o ss[1] = ss[1]
          BY <1>2, <4>1
        <5>2. h[i] = h[i - 1] \o ss[i]
          BY <1>6, Zenon
        <5>3. i - 1 = 0
          BY <4>1
        <5>4. h[1] = ss[1]
          BY <1>6, <4>1, <5>1, <5>2, <5>3, Zenon
        <5> QED
          BY <4>1, <5>4
      <4>2. CASE i # 1
        <5>1. i - 1 \in 1..N /\ h1[i - 1] = h[i - 1]
          BY <1>1, <4>2
        <5> QED
          BY <1>6, <4>2, <5>1
      <4> QED
        BY <4>1, <4>2
    <3> QED
      BY <3>1
  <2> DEFINE F == CHOOSE F : F = E(F)
  <2>2. F = E(F)
    <3> HIDE DEF E, h1
    <3> QED
      BY <2>1
  <2>3. FlattenSeq(ss) = F[N]
    BY <1>8 DEF FlattenSeq
  <2>4. F[1] = ss[1] /\ \A i \in 2..N : F[i] = F[i - 1] \o ss[i]
    <3> HIDE DEF F
    <3>1. \A i \in 1..N : F[i] = E(F)[i]
      BY <2>2, Zenon
    <3>2. 1 \in 1..N /\ \A i \in 2..N : i \in 1..N /\ i # 1
      BY <1>1, <1>8
    <3> QED
      BY <3>1, <3>2
  <2> HIDE DEF F
  <2> DEFINE T == {i \in 0..N : i = 0 \/ F[i] \in Seq(A)}
  <2>5. 0..N \subseteq T
    <3>1. 0 \in T
      BY <1>1
    <3>2. ASSUME NEW i \in 1..N, i - 1 \in T PROVE i \in T
      <4>1. CASE i = 1
        BY <1>2, <2>4, <4>1
      <4>2. CASE i # 1
        <5>1. i \in 2..N /\ F[i - 1] \in Seq(A)
          BY <3>2, <4>2
        <5>2. F[i] \in Seq(A)
          <6>1. F[i - 1] \o ss[i] \in Seq(A)
            BY <1>2, <5>1, ConcatProperties
          <6> QED
            BY <2>4, <5>1, <6>1, Zenon
        <5> QED
          BY <5>2
      <4> QED
        BY <4>1, <4>2
    <3> HIDE DEF T, N
    <3> QED
      BY <1>1, <3>1, <3>2, NumberInduction
  <2> DEFINE f == [i \in 0..N |-> IF i = 0 THEN <<>> ELSE F[i]]
  <2>6. f[0] = <<>> /\ \A i \in 1..N : f[i] = F[i]
    BY <1>1
  <2> HIDE DEF f
  <2>7. ASSUME NEW i \in 1..N PROVE f[i] = G[i][f[i - 1]]
    <3>1. CASE i = 1
      <4>1. G[1] = [u \in Seq(A) |-> u \o ss[1]]
        BY <3>1 DEF FlatStep
      <4>2. G[1][<<>>] = <<>> \o ss[1] /\ <<>> \o ss[1] = ss[1]
        BY <1>1, <1>2, <3>1, <4>1
      <4>3. f[1] = ss[1] /\ i - 1 = 0
        BY <2>4, <2>6, <3>1
      <4> QED
        BY <2>6, <3>1, <4>2, <4>3, Zenon
    <3>2. CASE i # 1
      <4>1. i \in 2..N /\ i - 1 \in 1..N /\ i - 1 # 0
        BY <1>1, <3>2
      <4>2. F[i - 1] \in Seq(A)
        <5>1. i - 1 \in T
          <6>1. i - 1 \in 0..N
            BY <1>1, <4>1
          <6> HIDE DEF T, N
          <6> QED
            BY <2>5, <6>1
        <5> QED
          BY <4>1, <5>1
      <4>3. G[i][F[i - 1]] = F[i - 1] \o ss[i]
        BY <4>2 DEF FlatStep
      <4> QED
        BY <2>4, <2>6, <4>1, <4>3, Zenon
    <3> QED
      BY <3>1, <3>2
  <2>8. BuiltFrom(f, N, <<>>, G)
    BY <2>6, <2>7, Zenon DEF BuiltFrom
  <2>9. f[N] = F[N]
    BY <1>1, <1>8, <2>6
  <2> QED
    BY <2>3, <2>8, <2>9, Zenon
<1> QED
  BY <1>7, <1>8

\* No sequences, no elements.
LEMMA FlattenEmpty == FlattenSeq(<<>>) = <<>>
  BY DEF FlattenSeq

\* One more sequence comes behind.
LEMMA FlattenAppend ==
  ASSUME NEW A, NEW ss \in Seq(Seq(A)), NEW b \in Seq(A)
  PROVE  /\ FlattenSeq(ss) \in Seq(A)
         /\ FlattenSeq(Append(ss, b)) = FlattenSeq(ss) \o b
<1> DEFINE t == Append(ss, b)
           N == Len(ss)
           G == FlatStep(A, ss)
           H == FlatStep(A, t)
<1>1. /\ t \in Seq(Seq(A)) /\ N \in Nat /\ Len(t) = N + 1
      /\ t[N + 1] = b /\ \A i \in 1..N : t[i] = ss[i] /\ ss[i] \in Seq(A)
  BY AppendProperties, LenProperties, ElementOfSeq
<1>2. <<>> \in Seq(A)
  OBVIOUS
<1>3. PICK f : BuiltFrom(f, N, <<>>, G) /\ FlattenSeq(ss) = f[N]
  BY FlattenFunction
<1>4. PICK g : BuiltFrom(g, N + 1, <<>>, H) /\ FlattenSeq(t) = g[N + 1]
  <2> HIDE DEF t, N, H
  <2>1. PICK g : BuiltFrom(g, Len(t), <<>>, FlatStep(A, t))
                 /\ FlattenSeq(t) = g[Len(t)]
    BY <1>1, FlattenFunction
  <2> QED
    BY <1>1, <2>1, Zenon DEF H
<1>5. \A i \in 1..N : i \in 1..(N + 1) /\ H[i] = G[i]
  <2> TAKE i \in 1..N
  <2>1. i \in 1..Len(t) /\ t[i] = ss[i]
    BY <1>1
  <2>2. H[i] = [u \in Seq(A) |-> u \o t[i]]
    BY <2>1 DEF FlatStep
  <2>3. G[i] = [u \in Seq(A) |-> u \o ss[i]]
    BY DEF FlatStep
  <2> QED
    BY <1>1, <2>1, <2>2, <2>3
<1>6. BuiltFrom(g, N, <<>>, G)
  <2> HIDE DEF t, N, G, H
  <2> QED
    BY <1>4, <1>5 DEF BuiltFrom
<1>7. G \in [1..N -> [Seq(A) -> Seq(A)]]
  <2>1. \A i \in 1..N : \A u \in Seq(A) : u \o ss[i] \in Seq(A)
    BY <1>1, ConcatProperties
  <2> QED
    BY <2>1 DEF FlatStep
<1>8. f[N] = g[N] /\ f[N] \in Seq(A)
  <2>1. N \in 0..N
    BY <1>1
  <2> HIDE DEF t, N, G, H
  <2>2. \A i \in 0..N : f[i] = g[i] /\ f[i] \in Seq(A)
    BY <1>1, <1>2, <1>3, <1>6, <1>7, RecursionUnique, Zenon
  <2> QED
    BY <2>1, <2>2
<1>9. g[N + 1] = g[N] \o b
  <2>1. N + 1 \in 1..(N + 1) /\ (N + 1) - 1 = N
    BY <1>1
  <2>2. g[N + 1] = H[N + 1][g[N]]
    BY <1>4, <2>1 DEF BuiltFrom
  <2>3. H[N + 1] = [u \in Seq(A) |-> u \o b]
    BY <1>1, <2>1 DEF FlatStep
  <2> QED
    BY <1>8, <2>2, <2>3
<1> HIDE DEF t, N, G, H
<1> QED
  BY <1>3, <1>4, <1>8, <1>9 DEF t

\* What is flattened is a sequence of the elements.
LEMMA FlattenType ==
  ASSUME NEW A, NEW ss \in Seq(Seq(A))
  PROVE  FlattenSeq(ss) \in Seq(A)
<1>1. <<>> \in Seq(A)
  OBVIOUS
<1> QED
  BY <1>1, FlattenAppend

\* A single sequence.
LEMMA FlattenOne ==
  ASSUME NEW A, NEW b \in Seq(A)
  PROVE  FlattenSeq(<<b>>) = b
<1>1. <<>> \in Seq(Seq(A)) /\ Append(<<>>, b) = <<b>> /\ <<>> \o b = b
  OBVIOUS
<1>2. FlattenSeq(Append(<<>>, b)) = FlattenSeq(<<>>) \o b
  BY <1>1, FlattenAppend
<1> QED
  BY <1>1, <1>2, FlattenEmpty, Zenon

\* FlattenSeq goes through a concatenation part by part.
LEMMA FlattenConcat ==
  ASSUME NEW A, NEW ss \in Seq(Seq(A)), NEW tt \in Seq(Seq(A))
  PROVE  FlattenSeq(ss \o tt) = FlattenSeq(ss) \o FlattenSeq(tt)
<1> DEFINE Holds(u) == FlattenSeq(ss \o u) = FlattenSeq(ss) \o FlattenSeq(u)
           T == {u \in Seq(Seq(A)) : Holds(u)}
<1>1. FlattenSeq(ss) \in Seq(A)
  BY FlattenType
<1>2. <<>> \in T
  <2>1. ss \o <<>> = ss /\ FlattenSeq(ss) \o <<>> = FlattenSeq(ss)
    BY <1>1
  <2>2. Holds(<<>>)
    BY <2>1, FlattenEmpty, Zenon
  <2>3. <<>> \in Seq(Seq(A))
    OBVIOUS
  <2> HIDE DEF Holds
  <2> QED
    BY <2>2, <2>3, Zenon
<1>3. ASSUME NEW u \in Seq(Seq(A)), NEW x \in Seq(A), u \in T
      PROVE  Append(u, x) \in T
  <2>1. ss \o u \in Seq(Seq(A)) /\ Append(u, x) \in Seq(Seq(A))
    BY ConcatProperties, AppendProperties
  <2>2. ss \o Append(u, x) = Append(ss \o u, x)
    OBVIOUS
  <2>3. Holds(u)
    BY <1>3
  <2>4. FlattenSeq(u) \in Seq(A)
    BY FlattenType
  <2>5. (FlattenSeq(ss) \o FlattenSeq(u)) \o x
          = FlattenSeq(ss) \o (FlattenSeq(u) \o x)
    BY <1>1, <2>4, ConcatAssoc, SMTT(30)
  <2>6. \A w \in Seq(Seq(A)) : FlattenSeq(Append(w, x)) = FlattenSeq(w) \o x
    BY FlattenAppend
  <2>7. Holds(Append(u, x))
    BY <2>1, <2>2, <2>3, <2>5, <2>6, Zenon
  <2> HIDE DEF Holds
  <2> QED
    BY <2>1, <2>7, Zenon
<1>4. Seq(Seq(A)) \subseteq T
  <2> HIDE DEF T
  <2> QED
    BY <1>2, <1>3, SequenceInduction
<1> QED
  BY <1>4

-----------------------------------------------------------------------------
(* Numbers in decimal and hexadecimal                                      *)

Bases == {10, 16}

\* Division in the two bases.
LEMMA DivMod ==
  ASSUME NEW base \in Bases, NEW n \in Nat
  PROVE  /\ n \div base \in Nat /\ n % base \in Nat
         /\ n \div base # 0 => n \div base < n
         /\ n = base * (n \div base) + (n % base)
<1>1. CASE base = 10
  BY <1>1
<1>2. CASE base = 16
  BY <1>2
<1> QED
  BY <1>1, <1>2 DEF Bases

\* The equation of digits, for the numbers up to N.
Digits(f, base, N) ==
    \A n \in 0..N :
        f[n] = IF n \div base = 0 THEN <<n % base>>
               ELSE <<n % base>> \o f[n \div base]

\* The digits of the numbers up to a bound exist.
LEMMA DigitsExist ==
  ASSUME NEW base \in Bases, NEW N \in Nat
  PROVE  \E f \in [0..N -> Seq(Nat)] : Digits(f, base, N)
<1>0. \A k \in Nat : /\ k \div base \in Nat /\ k % base \in Nat
                     /\ k \div base # 0 => k \div base < k
  BY DivMod
<1> DEFINE Ok(m) == \E f \in [0..m -> Seq(Nat)] : Digits(f, base, m)
           T == {m \in 0..N : Ok(m)}
<1>1. 0 \in T
  <2> DEFINE f == [i \in 0..0 |-> <<0>>]
  <2>1. 0 \div base = 0 /\ 0 % base = 0
    BY DEF Bases
  <2>2. <<0>> \in Seq(Nat)
    OBVIOUS
  <2>3. f \in [0..0 -> Seq(Nat)] /\ f[0] = <<0>>
    BY <2>2
  <2> HIDE DEF f
  <2>4. Digits(f, base, 0)
    <3>1. \A n \in 0..0 : n = 0
      OBVIOUS
    <3> QED
      BY <2>1, <2>3, <3>1 DEF Digits
  <2>5. Ok(0)
    BY <2>3, <2>4
  <2> HIDE DEF Ok
  <2> QED
    BY <2>5
<1>2. ASSUME NEW m \in 1..N, m - 1 \in T
      PROVE  m \in T
  <2>1. PICK f \in [0..(m - 1) -> Seq(Nat)] : Digits(f, base, m - 1)
    BY <1>2
  <2> DEFINE last == IF m \div base = 0 THEN <<m % base>>
                     ELSE <<m % base>> \o f[m \div base]
             g == [i \in 0..m |-> IF i = m THEN last ELSE f[i]]
  <2>2. m \in Nat /\ m % base \in Nat /\ m \div base \in 0..(m - 1)
    <3>1. m \in Nat
      OBVIOUS
    <3>2. PICK k : k = m \div base
      OBVIOUS
    <3>3. k \in Nat /\ m % base \in Nat /\ (k # 0 => k < m)
      BY <1>0, <3>1, <3>2
    <3>4. k \in 0..(m - 1)
      BY <3>1, <3>3
    <3> QED
      BY <3>1, <3>2, <3>3, <3>4
  <2>3. last \in Seq(Nat)
    <3>1. <<m % base>> \in Seq(Nat) /\ f[m \div base] \in Seq(Nat)
      BY <2>2
    <3>2. <<m % base>> \o f[m \div base] \in Seq(Nat)
      BY <3>1, ConcatProperties
    <3> QED
      BY <3>1, <3>2
  <2>4. g \in [0..m -> Seq(Nat)]
    <3> HIDE DEF last
    <3> QED
      BY <2>2, <2>3
  <2>5. g[m] = last /\ \A i \in 0..(m - 1) : g[i] = f[i]
    <3> HIDE DEF last
    <3> QED
      BY <2>2
  <2>6. g[m \div base] = f[m \div base]
    BY <2>2, <2>5
  <2> HIDE DEF g
  <2>7. ASSUME NEW n \in 0..m
        PROVE  g[n] = IF n \div base = 0 THEN <<n % base>>
                      ELSE <<n % base>> \o g[n \div base]
    <3>1. CASE n = m
      BY <2>5, <2>6, <3>1
    <3>2. CASE n # m
      <4>1. n \in 0..(m - 1) /\ n \in Nat
        BY <2>2, <3>2
      <4>2. n \div base \in 0..(m - 1)
        <5>1. PICK k : k = n \div base
          OBVIOUS
        <5>2. k \in Nat /\ (k # 0 => k < n)
          BY <1>0, <4>1, <5>1
        <5>3. k \in 0..(m - 1)
          BY <2>2, <4>1, <5>2
        <5> QED
          BY <5>1, <5>3
      <4>3. g[n] = f[n] /\ g[n \div base] = f[n \div base]
        BY <2>5, <4>1, <4>2
      <4>4. f[n] = IF n \div base = 0 THEN <<n % base>>
                   ELSE <<n % base>> \o f[n \div base]
        BY <2>1, <4>1 DEF Digits
      <4> QED
        BY <4>3, <4>4
    <3> QED
      BY <3>1, <3>2
  <2>8. Digits(g, base, m)
    BY <2>7 DEF Digits
  <2>9. Ok(m)
    BY <2>4, <2>8
  <2>10. m \in 0..N
    OBVIOUS
  <2> HIDE DEF Ok
  <2> QED
    BY <2>9, <2>10
<1>3. 0..N \subseteq T
  <2> HIDE DEF T
  <2> QED
    BY <1>1, <1>2, NumberInduction
<1>4. N \in T
  BY <1>3
<1> QED
  BY <1>4

\* The digits of a number do not depend on the bound.
LEMMA DigitsUnique ==
  ASSUME NEW base \in Bases, NEW N \in Nat, NEW M \in Nat, N <= M,
         NEW f, NEW g, Digits(f, base, N), Digits(g, base, M)
  PROVE  \A n \in 0..N : f[n] = g[n]
<1> DEFINE S == {n \in 0..N : f[n] # g[n]}
<1> SUFFICES ASSUME S # {} PROVE FALSE
  OBVIOUS
<1>1. S \in SUBSET Nat
  OBVIOUS
<1>2. PICK x \in S : \A y \in S : x <= y
  <2> HIDE DEF S
  <2> QED
    BY <1>1, LeastNumber
<1>3. x \in 0..N /\ x \in 0..M /\ x \in Nat /\ f[x] # g[x]
  OBVIOUS
<1>4. /\ f[x] = IF x \div base = 0 THEN <<x % base>>
                ELSE <<x % base>> \o f[x \div base]
      /\ g[x] = IF x \div base = 0 THEN <<x % base>>
                ELSE <<x % base>> \o g[x \div base]
  BY <1>3 DEF Digits
<1>5. x \div base # 0
  BY <1>3, <1>4
<1>6. x \div base \in 0..N /\ x \div base < x
  BY <1>3, <1>5, DivMod
<1>7. f[x \div base] = g[x \div base]
  BY <1>2, <1>6
<1> QED
  BY <1>3, <1>4, <1>7, Zenon

\* Lsd(base) satisfies its equation, and yields digits.
LEMMA LsdEquation ==
  ASSUME NEW base \in Bases, NEW n \in Nat
  PROVE  /\ Lsd(base)[n] \in Seq(Nat)
         /\ n \div base = 0 => Lsd(base)[n] = <<n % base>>
         /\ n \div base # 0 =>
               Lsd(base)[n] = <<n % base>> \o Lsd(base)[n \div base]
<1> DEFINE E(d) == [m \in Nat |->
                      IF m \div base = 0 THEN <<m % base>>
                      ELSE <<m % base>> \o d[m \div base]]
           F(m) == CHOOSE f \in [0..m -> Seq(Nat)] : Digits(f, base, m)
           h == [m \in Nat |-> F(m)[m]]
<1>1. \A m \in Nat : F(m) \in [0..m -> Seq(Nat)] /\ Digits(F(m), base, m)
  BY DigitsExist
<1> HIDE DEF F
<1>2. \A m \in Nat : h[m] \in Seq(Nat)
  BY <1>1
<1>3. ASSUME NEW m \in Nat PROVE h[m] = E(h)[m]
  <2>1. F(m)[m] = IF m \div base = 0 THEN <<m % base>>
                  ELSE <<m % base>> \o F(m)[m \div base]
    BY <1>1 DEF Digits
  <2>2. m \div base \in Nat /\ m \div base <= m
        /\ m \div base \in 0..(m \div base)
    BY DivMod
  <2>3. F(m \div base)[m \div base] = F(m)[m \div base]
    <3>1. PICK k \in Nat : k = m \div base
      BY <2>2
    <3>2. k <= m /\ k \in 0..k /\ Digits(F(k), base, k) /\ Digits(F(m), base, m)
      BY <1>1, <2>2, <3>1
    <3>3. \A i \in 0..k : F(k)[i] = F(m)[i]
      BY <3>2, DigitsUnique
    <3> QED
      BY <3>1, <3>2, <3>3
  <2>4. h[m \div base] = F(m)[m \div base] /\ h[m] = F(m)[m]
    BY <2>2, <2>3
  <2> QED
    BY <2>1, <2>4
<1>4. h = E(h)
  BY <1>3
<1>5. Lsd(base) = CHOOSE d : d = E(d)
  BY DEF Lsd
<1>6. Lsd(base) = E(Lsd(base))
  <2> HIDE DEF E, h
  <2> QED
    BY <1>4, <1>5
<1>7. \A m \in Nat : Lsd(base)[m] = E(Lsd(base))[m]
  BY <1>6, Zenon
<1>8. \A m \in Nat : Lsd(base)[m] = IF m \div base = 0 THEN <<m % base>>
                                    ELSE <<m % base>> \o Lsd(base)[m \div base]
  BY <1>7
<1>9. Digits(Lsd(base), base, n)
  BY <1>8 DEF Digits
<1>10. Lsd(base)[n] = F(n)[n]
  <2>1. n \in 0..n /\ n <= n
    OBVIOUS
  <2> QED
    BY <1>1, <1>9, <2>1, DigitsUnique
<1>11. Lsd(base)[n] \in Seq(Nat)
  BY <1>1, <1>10
<1> QED
  BY <1>8, <1>11

ReadStep(text, base) ==
    [i \in 1..Len(text) |-> [u \in Int |-> base * u + text[i]]]

\* The function that ReadBack is the last value of.
LEMMA ReadBackFunction ==
  ASSUME NEW base \in Bases, NEW s \in Seq(Int)
  PROVE  \E f : /\ BuiltFrom(f, Len(s), 0, ReadStep(s, base))
                /\ ReadBack(s, base) = f[Len(s)]
<1> DEFINE N == Len(s)
           G == ReadStep(s, base)
           E(F) == [i \in 0..N |-> IF i = 0 THEN 0 ELSE base * F[i - 1] + s[i]]
<1>1. N \in Nat /\ \A i \in 1..N : s[i] \in Int
  BY LenProperties, ElementOfSeq
<1>0. \A u, v \in Int : base * u + v \in Int
  BY DEF Bases
<1>2. G \in [1..N -> [Int -> Int]]
  BY <1>0, <1>1 DEF ReadStep
<1>3. PICK h \in [0..N -> Int] : BuiltFrom(h, N, 0, G)
  <2>1. 0 \in Int
    OBVIOUS
  <2> HIDE DEF N, G
  <2> QED
    BY <1>1, <1>2, <2>1, RecursionExists
<1>4. h = E(h)
  <2>1. \A i \in 1..N : h[i - 1] \in Int
    BY <1>1
  <2>2. \A i \in 1..N : h[i] = base * h[i - 1] + s[i]
    BY <1>3, <2>1 DEF ReadStep, BuiltFrom
  <2>3. ASSUME NEW i \in 0..N PROVE h[i] = E(h)[i]
    BY <1>1, <1>3, <2>2 DEF BuiltFrom
  <2> QED
    BY <2>3
<1> DEFINE F == CHOOSE F : F = E(F)
<1>5. F = E(F)
  <2> HIDE DEF E
  <2> QED
    BY <1>4
<1>6. ReadBack(s, base) = F[N]
  BY DEF ReadBack
<1>7. F[0] = 0 /\ \A i \in 1..N : F[i] = base * F[i - 1] + s[i]
  <2> HIDE DEF F
  <2>1. \A i \in 0..N : F[i] = E(F)[i]
    BY <1>5, Zenon
  <2> QED
    BY <2>1, <1>1
<1> DEFINE T == {i \in 0..N : F[i] \in Int}
<1>8. 0..N \subseteq T
  <2> HIDE DEF F
  <2>1. 0 \in T
    BY <1>7, <1>1
  <2>2. ASSUME NEW i \in 1..N, i - 1 \in T PROVE i \in T
    <3>1. F[i - 1] \in Int /\ s[i] \in Int
      BY <1>1, <2>2
    <3>2. base * F[i - 1] + s[i] \in Int
      BY <1>0, <3>1, Zenon
    <3>3. F[i] \in Int
      BY <1>7, <3>2, Zenon
    <3> QED
      BY <3>3
  <2> HIDE DEF T, N
  <2> QED
    BY <1>1, <2>1, <2>2, NumberInduction
<1>9. BuiltFrom(F, N, 0, G)
  <2> HIDE DEF F
  <2>1. ASSUME NEW i \in 1..N PROVE F[i] = G[i][F[i - 1]]
    <3>1. F[i - 1] \in Int
      BY <1>8, <1>1
    <3> QED
      BY <1>7, <3>1 DEF ReadStep
  <2> QED
    BY <1>7, <2>1 DEF BuiltFrom
<1> QED
  BY <1>6, <1>9

\* Nothing reads as 0.
LEMMA ReadBackEmpty ==
  ASSUME NEW base \in Bases PROVE ReadBack(<<>>, base) = 0
<1>1. <<>> \in Seq(Int) /\ Len(<<>>) = 0
  OBVIOUS
<1>2. PICK f : /\ BuiltFrom(f, Len(<<>>), 0, ReadStep(<<>>, base))
               /\ ReadBack(<<>>, base) = f[Len(<<>>)]
  BY <1>1, ReadBackFunction, Zenon
<1>3. f[0] = 0
  BY <1>2, Zenon DEF BuiltFrom
<1> QED
  BY <1>1, <1>2, <1>3, Zenon

\* One more digit at the end.
LEMMA ReadBackAppend ==
  ASSUME NEW base \in Bases, NEW s \in Seq(Int), NEW x \in Int
  PROVE  ReadBack(Append(s, x), base) = base * ReadBack(s, base) + x
<1> DEFINE t == Append(s, x)
           N == Len(s)
           G == ReadStep(s, base)
           H == ReadStep(t, base)
<1>0. \A u, v \in Int : base * u + v \in Int
  BY DEF Bases
<1>1. /\ t \in Seq(Int) /\ N \in Nat /\ Len(t) = N + 1
      /\ t[N + 1] = x /\ \A i \in 1..N : t[i] = s[i] /\ s[i] \in Int
  BY AppendProperties, LenProperties, ElementOfSeq
<1>2. PICK f : BuiltFrom(f, N, 0, G) /\ ReadBack(s, base) = f[N]
  BY ReadBackFunction
<1>3. PICK g : BuiltFrom(g, N + 1, 0, H) /\ ReadBack(t, base) = g[N + 1]
  <2> HIDE DEF t, N, H
  <2>1. PICK g : BuiltFrom(g, Len(t), 0, ReadStep(t, base))
                 /\ ReadBack(t, base) = g[Len(t)]
    BY <1>1, ReadBackFunction
  <2> QED
    BY <1>1, <2>1, Zenon DEF H
<1>4. \A i \in 1..N : i \in 1..(N + 1) /\ H[i] = G[i]
  <2> TAKE i \in 1..N
  <2>1. i \in 1..Len(t) /\ t[i] = s[i]
    BY <1>1
  <2> QED
    BY <1>1, <2>1 DEF ReadStep
<1>5. BuiltFrom(g, N, 0, G)
  <2> HIDE DEF t, N, G, H
  <2> QED
    BY <1>3, <1>4 DEF BuiltFrom
<1>6. G \in [1..N -> [Int -> Int]]
  BY <1>0, <1>1 DEF ReadStep
<1>7. f[N] = g[N] /\ f[N] \in Int
  <2>1. N \in 0..N /\ 0 \in Int
    BY <1>1
  <2> HIDE DEF t, N, G, H
  <2>2. \A i \in 0..N : f[i] = g[i] /\ f[i] \in Int
    BY <1>1, <1>2, <1>5, <1>6, <2>1, RecursionUnique
  <2> QED
    BY <2>1, <2>2
<1>8. g[N + 1] = base * g[N] + x
  <2>1. N + 1 \in 1..(N + 1) /\ (N + 1) - 1 = N
    BY <1>1
  <2>2. g[N + 1] = H[N + 1][g[N]]
    BY <1>3, <2>1 DEF BuiltFrom
  <2>3. H[N + 1] = [u \in Int |-> base * u + x]
    BY <1>1, <2>1 DEF ReadStep
  <2> QED
    BY <1>7, <2>2, <2>3
<1> HIDE DEF t, N, G, H
<1> QED
  BY <1>2, <1>3, <1>7, <1>8 DEF t

\* A first element becomes the last.
LEMMA ReverseCons ==
  ASSUME NEW d \in Nat, NEW t \in Seq(Nat)
  PROVE  /\ Reverse(t) \in Seq(Nat)
         /\ Reverse(<<d>> \o t) = Append(Reverse(t), d)
         /\ Reverse(<<d>>) = Append(<<>>, d)
<1>1. /\ Len(t) \in Nat /\ \A i \in 1..Len(t) : t[i] \in Nat
  BY LenProperties, ElementOfSeq
<1>2. Reverse(t) = [i \in 1..Len(t) |-> t[(Len(t) - i) + 1]]
  BY DEF Reverse
<1>3. Reverse(t) \in Seq(Nat) /\ Len(Reverse(t)) = Len(t)
  <2>1. \A i \in 1..Len(t) : (Len(t) - i) + 1 \in 1..Len(t)
    BY <1>1
  <2>2. Reverse(t) \in [1..Len(t) -> Nat]
    BY <1>1, <1>2, <2>1
  <2> QED
    BY <1>1, <1>2, <2>2, SeqDef, LenProperties
<1> DEFINE u == <<d>> \o t
<1>4. /\ u \in Seq(Nat) /\ Len(u) = Len(t) + 1 /\ u[1] = d
      /\ \A i \in 1..Len(t) : u[i + 1] = t[i]
  <2>1. <<d>> \in Seq(Nat) /\ Len(<<d>>) = 1 /\ <<d>>[1] = d
    OBVIOUS
  <2>2. /\ u \in Seq(Nat) /\ Len(u) = Len(t) + 1 /\ u[1] = d
        /\ \A i \in 1..Len(t) : u[1 + i] = t[i]
    BY <1>1, <2>1, ConcatProperties
  <2> QED
    BY <1>1, <2>2
<1> HIDE DEF u
<1>5. Reverse(u) = [i \in 1..(Len(t) + 1) |-> u[((Len(t) + 1) - i) + 1]]
  BY <1>4 DEF Reverse
<1>6. Reverse(u) \in Seq(Nat) /\ Len(Reverse(u)) = Len(t) + 1
  <2>1. \A i \in 1..(Len(t) + 1) : ((Len(t) + 1) - i) + 1 \in 1..(Len(t) + 1)
    BY <1>1
  <2>2. \A i \in 1..(Len(t) + 1) : u[i] \in Nat
    BY <1>4, ElementOfSeq
  <2>3. Reverse(u) \in [1..(Len(t) + 1) -> Nat] /\ Len(t) + 1 \in Nat
    BY <1>1, <1>5, <2>1, <2>2
  <2> QED
    BY <1>1, <1>5, <2>3, SeqDef, LenProperties
<1>7. Reverse(u) = Append(Reverse(t), d)
  <2>1. /\ Append(Reverse(t), d) \in Seq(Nat)
        /\ Len(Append(Reverse(t), d)) = Len(t) + 1
        /\ Append(Reverse(t), d)[Len(t) + 1] = d
        /\ \A i \in 1..Len(t) : Append(Reverse(t), d)[i] = Reverse(t)[i]
    BY <1>3, AppendProperties
  <2>2. ASSUME NEW i \in 1..(Len(t) + 1)
        PROVE  Reverse(u)[i] = Append(Reverse(t), d)[i]
    <3>1. CASE i = Len(t) + 1
      <4>1. Reverse(u)[i] = u[((Len(t) + 1) - i) + 1]
            /\ ((Len(t) + 1) - i) + 1 = 1
        BY <1>1, <1>5, <3>1
      <4> QED
        BY <1>4, <2>1, <3>1, <4>1
    <3>2. CASE i # Len(t) + 1
      <4>1. i \in 1..Len(t) /\ (Len(t) - i) + 1 \in 1..Len(t)
            /\ ((Len(t) + 1) - i) + 1 = ((Len(t) - i) + 1) + 1
        BY <1>1, <3>2
      <4>2. Reverse(u)[i] = u[((Len(t) - i) + 1) + 1]
        BY <1>5, <4>1
      <4>3. Reverse(t)[i] = t[(Len(t) - i) + 1]
        BY <1>2, <4>1
      <4> QED
        BY <1>4, <2>1, <4>1, <4>2, <4>3
    <3> QED
      BY <3>1, <3>2
  <2> QED
    BY <1>6, <2>1, <2>2, SeqEqual
<1>8. Reverse(<<d>>) = Append(<<>>, d)
  BY DEF Reverse
<1> QED
  BY <1>3, <1>7, <1>8 DEF u

\* The digits of a number, highest first, read as the number.
LEMMA DigitsReadBack ==
  ASSUME NEW base \in Bases, NEW n \in Nat
  PROVE  /\ Reverse(Lsd(base)[n]) \in Seq(Nat)
         /\ ReadBack(Reverse(Lsd(base)[n]), base) = n
<1> DEFINE R(m) == Reverse(Lsd(base)[m])
           S == {m \in Nat : ReadBack(R(m), base) # m}
<1>0. \A m \in Nat : R(m) \in Seq(Nat)
  BY LsdEquation, ReverseCons
<1> SUFFICES ASSUME S # {} PROVE FALSE
  BY <1>0
<1>1. S \in SUBSET Nat
  OBVIOUS
<1>2. PICK x \in S : \A y \in S : x <= y
  <2> HIDE DEF S
  <2> QED
    BY <1>1, LeastNumber
<1>3. x \in Nat /\ ReadBack(R(x), base) # x
  OBVIOUS
<1>4. /\ x \div base \in Nat /\ x % base \in Nat
      /\ x \div base # 0 => x \div base < x
      /\ x = base * (x \div base) + (x % base)
  BY <1>3, DivMod
<1>5. CASE x \div base = 0
  <2>1. Lsd(base)[x] = <<x % base>>
    BY <1>3, <1>5, LsdEquation
  <2>2. R(x) = Append(<<>>, x % base)
    BY <1>4, <2>1, ReverseCons, EmptySeq
  <2>3. <<>> \in Seq(Int) /\ x % base \in Int
    BY <1>4
  <2>4. ReadBack(Append(<<>>, x % base), base)
          = base * ReadBack(<<>>, base) + (x % base)
    <3>1. \A e \in Seq(Int) : \A y \in Int :
             ReadBack(Append(e, y), base) = base * ReadBack(e, base) + y
      BY ReadBackAppend
    <3> QED
      BY <2>3, <3>1, Zenon
  <2>5. base * 0 = 0
    BY DEF Bases
  <2>6. ReadBack(R(x), base) = 0 + (x % base)
    BY <2>2, <2>4, <2>5, ReadBackEmpty, Zenon
  <2> QED
    BY <1>3, <1>4, <1>5, <2>5, <2>6
<1>6. CASE x \div base # 0
  <2>1. PICK k \in Nat : k = x \div base
    BY <1>4
  <2>2. k < x /\ x = base * k + (x % base)
    BY <1>4, <1>6, <2>1
  <2>3. k \notin S
    BY <1>2, <2>2, <1>3
  <2>4. ReadBack(R(k), base) = k
    BY <2>3
  <2>5. Lsd(base)[x] = <<x % base>> \o Lsd(base)[k] /\ Lsd(base)[k] \in Seq(Nat)
    BY <1>3, <1>6, <2>1, LsdEquation
  <2>6. R(x) = Append(R(k), x % base)
    BY <1>4, <2>5, ReverseCons
  <2>7. R(k) \in Seq(Int) /\ x % base \in Int
    BY <1>0, <1>4
  <2> HIDE DEF R
  <2>8. ReadBack(Append(R(k), x % base), base)
          = base * ReadBack(R(k), base) + (x % base)
    BY <2>7, ReadBackAppend
  <2>9. ReadBack(R(x), base) = x
    BY <2>2, <2>4, <2>6, <2>8, Zenon
  <2> QED
    BY <1>3, <2>9
<1> QED
  BY <1>5, <1>6

-----------------------------------------------------------------------------
(* The stream                                                              *)

Streams == [len : Nat, top : Nat, cut : Nat]

PieceSet == {piece \in STRING \X Int : IsPiece(piece)}

\* A number's text has a length.
LEMMA ConvertLength ==
  ASSUME NEW v \in Int
  PROVE  /\ Len(Convert(v)) \in Nat
         /\ v >= 0 => Len(ConvertHex(v)) \in Nat
<1>0. 10 \in Bases /\ 16 \in Bases
  BY DEF Bases
<1>1. CASE v >= 0
  <2>1. v \in Nat
    BY <1>1
  <2>2. Reverse(Lsd(10)[v]) \in Seq(Nat) /\ Reverse(Lsd(16)[v]) \in Seq(Nat)
    BY <1>0, <2>1, DigitsReadBack
  <2>3. Convert(v) = Reverse(Lsd(10)[v]) /\ ConvertHex(v) = Reverse(Lsd(16)[v])
    BY <1>1 DEF Convert, ConvertHex
  <2>4. Len(Reverse(Lsd(10)[v])) \in Nat /\ Len(Reverse(Lsd(16)[v])) \in Nat
    BY <2>2, LenProperties
  <2> QED
    BY <2>3, <2>4, Zenon
<1>2. CASE ~(v >= 0)
  <2> DEFINE digit == <<(-v) % 10>>
  <2>1. Len(digit) = 1 /\ Len(<<"-">> \o digit) = 2
    OBVIOUS
  <2>2. Convert(v) = digit \/ Convert(v) = <<"-">> \o digit
    BY <1>2 DEF Convert
  <2> QED
    BY <1>2, <2>1, <2>2
<1> QED
  BY <1>1, <1>2

\* So has every piece, and the text of a number is short.
LEMMA PieceLengthNat ==
  ASSUME NEW piece \in PieceSet
  PROVE  /\ PieceLength(piece) \in Nat
         /\ piece[1] # "text" => PieceLength(piece) <= 21
<1>1. /\ piece \in STRING \X Int /\ piece[2] \in Int
      /\ piece[1] \in {"text", "int", "real", "pointer"}
      /\ piece[1] # "int" => piece[2] >= 0
      /\ piece[1] # "text" => PieceLength(piece) <= 21
  BY DEF PieceSet, IsPiece
<1>2. CASE piece[1] = "int"
  <2>1. PieceLength(piece) = Len(Convert(piece[2]))
    BY <1>2 DEF PieceLength
  <2> QED
    BY <1>1, <2>1, ConvertLength
<1>3. CASE piece[1] = "pointer"
  <2>1. PieceLength(piece) = 2 + Len(ConvertHex(piece[2]))
    BY <1>3 DEF PieceLength
  <2>2. Len(ConvertHex(piece[2])) \in Nat
    BY <1>1, <1>3, ConvertLength
  <2>3. PieceLength(piece) \in Nat
    BY <2>1, <2>2
  <2> QED
    BY <1>1, <2>3
<1>4. CASE piece[1] \in {"text", "real"}
  <2>1. PieceLength(piece) = piece[2]
    BY <1>4 DEF PieceLength
  <2> QED
    BY <1>1, <1>4, <2>1
<1> QED
  BY <1>1, <1>2, <1>3, <1>4

\* A stream whose pieces have the total length full.
Good(s, full) ==
    /\ s \in Streams
    /\ s.len < SmallBuffer /\ s.top <= SmallBuffer
    /\ s.len <= full
    /\ full + MaxNumericSize < SmallBuffer => s.len = full /\ s.cut = 0

\* What is written within the buffer leaves a good stream.
LEMMA WriteGood ==
  ASSUME NEW s, NEW full \in Nat, Good(s, full), NEW n \in Nat,
         NEW further \in {0, 1},
         s.len + n < SmallBuffer, s.len + n + further <= SmallBuffer
  PROVE  Good(Write(s, n, further), full + n)
<1>1. s \in Streams /\ s.len \in Nat /\ s.top \in Nat /\ s.cut \in Nat
  BY DEF Good, Streams
<1> DEFINE new == IF s.len + n + further > s.top
                  THEN s.len + n + further ELSE s.top
<1>2. Write(s, n, further) = [s EXCEPT !.len = s.len + n, !.top = new]
  BY <1>1 DEF Write, Streams
<1>2a. Write(s, n, further) = [len |-> s.len + n, top |-> new, cut |-> s.cut]
  <2> HIDE DEF new
  <2> QED
    BY <1>1, <1>2 DEF Streams
<1>2b. /\ Write(s, n, further).len = s.len + n
       /\ Write(s, n, further).top = new
       /\ Write(s, n, further).cut = s.cut
  <2> HIDE DEF new
  <2> QED
    BY <1>2a
<1>3. s.len + n \in Nat /\ s.len + n + further \in Nat
  BY <1>1
<1>4. Write(s, n, further) \in Streams
  <2>1. new \in Nat
    BY <1>1, <1>3
  <2> HIDE DEF new
  <2> QED
    BY <1>1, <1>2a, <1>3, <2>1 DEF Streams
<1>5. /\ s.len <= full /\ s.top <= SmallBuffer
      /\ full + MaxNumericSize < SmallBuffer => s.len = full /\ s.cut = 0
  BY DEF Good
<1>6. SmallBuffer \in Nat /\ MaxNumericSize \in Nat
  BY LogStreamAssumption
<1>7. Write(s, n, further).top <= SmallBuffer
  BY <1>1, <1>2b, <1>3, <1>5
<1> HIDE DEF Write, new
<1> QED
  BY <1>1, <1>2b, <1>4, <1>5, <1>6, <1>7 DEF Good

\* A piece is left out only when it or a number would not fit.
LEMMA SkipGood ==
  ASSUME NEW s, NEW full \in Nat, Good(s, full), NEW n \in Nat,
         ~(s.len + n + MaxNumericSize < SmallBuffer)
  PROVE  Good(Skip(s), full + n)
<1>1. s \in Streams /\ s.len \in Nat /\ s.top \in Nat /\ s.cut \in Nat
  BY DEF Good, Streams
<1>2. Skip(s) = [len |-> s.len, top |-> s.top, cut |-> s.cut + 1]
  BY <1>1 DEF Skip, Streams
<1>3. s.cut + 1 \in Nat
  BY <1>1
<1>4. Skip(s) \in Streams /\ Skip(s).len = s.len /\ Skip(s).top = s.top
  BY <1>1, <1>2, <1>3 DEF Streams
<1>5. SmallBuffer \in Nat /\ MaxNumericSize \in Nat
  BY LogStreamAssumption
<1>6. /\ s.len < SmallBuffer /\ s.len <= full /\ s.top <= SmallBuffer
  BY DEF Good
<1>7. ~(full + n + MaxNumericSize < SmallBuffer) /\ s.len <= full + n
  BY <1>1, <1>5, <1>6
<1> HIDE DEF Skip
<1> QED
  BY <1>4, <1>6, <1>7 DEF Good

\* Put keeps the stream good.
LEMMA PutGood ==
  ASSUME NEW s, NEW full \in Nat, Good(s, full), NEW piece \in PieceSet
  PROVE  Good(Put(s, piece), full + PieceLength(piece))
<1>0. PICK n : n = PieceLength(piece)
  OBVIOUS
<1>1. n \in Nat /\ (piece[1] # "text" => n <= 21)
  BY <1>0, PieceLengthNat
<1>2. /\ SmallBuffer \in Nat /\ MaxNumericSize \in Nat
      /\ MaxNumericSize >= 22
  BY LogStreamAssumption
<1>3. s.len \in Nat /\ s.len < SmallBuffer
  BY DEF Good, Streams
<1>4. piece[1] \in {"text", "int", "real", "pointer"}
  BY DEF PieceSet, IsPiece
<1>5. CASE piece[1] = "text"
  <2>1. n = piece[2]
    BY <1>0, <1>5 DEF PieceLength
  <2>2. Put(s, piece) = IF SmallBuffer - s.len > n THEN Write(s, n, 0) ELSE Skip(s)
    BY <1>5, <2>1 DEF Put, PutText, Avail
  <2>3. CASE SmallBuffer - s.len > n
    <3>1. s.len + n < SmallBuffer /\ s.len + n + 0 <= SmallBuffer
      BY <1>1, <1>2, <1>3, <2>3
    <3>2. Good(Write(s, n, 0), full + n)
      BY <1>1, <3>1, WriteGood
    <3> QED
      BY <1>0, <2>2, <2>3, <3>2
  <2>4. CASE ~(SmallBuffer - s.len > n)
    <3>1. ~(s.len + n + MaxNumericSize < SmallBuffer)
      BY <1>1, <1>2, <1>3, <2>4
    <3>2. Good(Skip(s), full + n)
      BY <1>1, <3>1, SkipGood
    <3> QED
      BY <1>0, <2>2, <2>4, <3>2
  <2> QED
    BY <2>3, <2>4
<1>6. CASE piece[1] \in {"int", "real"}
  <2>1. Put(s, piece) = IF SmallBuffer - s.len > MaxNumericSize
                        THEN Write(s, n, 1) ELSE Skip(s)
    BY <1>0, <1>6 DEF Put, PutInteger, PutReal, Avail, PieceLength
  <2>2. CASE SmallBuffer - s.len > MaxNumericSize
    <3>1. s.len + n < SmallBuffer /\ s.len + n + 1 <= SmallBuffer
      BY <1>1, <1>2, <1>3, <1>6, <2>2
    <3>2. Good(Write(s, n, 1), full + n)
      BY <1>1, <3>1, WriteGood
    <3> QED
      BY <1>0, <2>1, <2>2, <3>2
  <2>3. CASE ~(SmallBuffer - s.len > MaxNumericSize)
    <3>1. ~(s.len + n + MaxNumericSize < SmallBuffer)
      BY <1>1, <1>2, <1>3, <2>3
    <3>2. Good(Skip(s), full + n)
      BY <1>1, <3>1, SkipGood
    <3> QED
      BY <1>0, <2>1, <2>3, <3>2
  <2> QED
    BY <2>2, <2>3
<1>7. CASE piece[1] = "pointer"
  <2>1. Put(s, piece) = IF SmallBuffer - s.len >= MaxNumericSize
                        THEN Write(s, n, 1) ELSE Skip(s)
    BY <1>0, <1>7 DEF Put, PutPointer, Avail, PieceLength
  <2>2. CASE SmallBuffer - s.len >= MaxNumericSize
    <3>1. s.len + n < SmallBuffer /\ s.len + n + 1 <= SmallBuffer
      BY <1>1, <1>2, <1>3, <1>7, <2>2
    <3>2. Good(Write(s, n, 1), full + n)
      BY <1>1, <3>1, WriteGood
    <3> QED
      BY <1>0, <2>1, <2>2, <3>2
  <2>3. CASE ~(SmallBuffer - s.len >= MaxNumericSize)
    <3>1. ~(s.len + n + MaxNumericSize < SmallBuffer)
      BY <1>1, <1>2, <1>3, <2>3
    <3>2. Good(Skip(s), full + n)
      BY <1>1, <3>1, SkipGood
    <3> QED
      BY <1>0, <2>1, <2>3, <3>2
  <2> QED
    BY <2>2, <2>3
<1> QED
  BY <1>4, <1>5, <1>6, <1>7

GoodStreams == {s \in Streams : \E full \in Nat : Good(s, full)}

\* An empty stream is good, and Put leaves a good one.
LEMMA GoodStreamsClosed ==
  /\ EmptyStream \in GoodStreams /\ Good(EmptyStream, 0)
  /\ \A s \in GoodStreams : \A piece \in PieceSet : Put(s, piece) \in GoodStreams
<1>1. Good(EmptyStream, 0)
  BY LogStreamAssumption DEF Good, EmptyStream, Streams
<1>2. EmptyStream \in GoodStreams
  BY <1>1 DEF GoodStreams, Good
<1>3. ASSUME NEW s \in GoodStreams, NEW piece \in PieceSet
      PROVE  Put(s, piece) \in GoodStreams
  <2>1. PICK full \in Nat : Good(s, full)
    BY DEF GoodStreams
  <2>2. Good(Put(s, piece), full + PieceLength(piece))
    BY <2>1, PutGood
  <2>3. full + PieceLength(piece) \in Nat
    BY PieceLengthNat
  <2>4. Put(s, piece) \in Streams
    BY <2>2 DEF Good
  <2> QED
    BY <2>2, <2>3, <2>4 DEF GoodStreams
<1> QED
  BY <1>1, <1>2, <1>3

PutStep(ps) == [i \in 1..Len(ps) |-> [s \in GoodStreams |-> Put(s, ps[i])]]

\* The function that Stream is the last value of.
LEMMA StreamFunction ==
  ASSUME NEW ps \in Seq(PieceSet)
  PROVE  \E f : /\ BuiltFrom(f, Len(ps), EmptyStream, PutStep(ps))
                /\ Stream(ps) = f[Len(ps)]
<1> USE GoodStreamsClosed
<1> DEFINE N == Len(ps)
           G == PutStep(ps)
           E(F) == [i \in 0..N |-> IF i = 0 THEN EmptyStream
                                   ELSE Put(F[i - 1], ps[i])]
<1> HIDE DEF EmptyStream
<1>1. N \in Nat /\ \A i \in 1..N : ps[i] \in PieceSet
  BY LenProperties, ElementOfSeq
<1>2. G \in [1..N -> [GoodStreams -> GoodStreams]]
  BY <1>1 DEF PutStep
<1>3. PICK h \in [0..N -> GoodStreams] : BuiltFrom(h, N, EmptyStream, G)
  <2> HIDE DEF N, G
  <2> QED
    BY <1>1, <1>2, RecursionExists
<1>4. h = E(h)
  <2>1. \A i \in 1..N : h[i - 1] \in GoodStreams
    BY <1>1
  <2>2. \A i \in 1..N : h[i] = Put(h[i - 1], ps[i])
    BY <1>3, <2>1 DEF PutStep, BuiltFrom
  <2>3. ASSUME NEW i \in 0..N PROVE h[i] = E(h)[i]
    <3>1. i # 0 => i \in 1..N
      BY <1>1
    <3> QED
      BY <1>3, <2>2, <3>1 DEF BuiltFrom
  <2> QED
    BY <2>3
<1> DEFINE F == CHOOSE F : F = E(F)
<1>5. F = E(F)
  <2> HIDE DEF E
  <2> QED
    BY <1>4
<1>6. Stream(ps) = F[N]
  BY DEF Stream
<1>7. F[0] = EmptyStream /\ \A i \in 1..N : F[i] = Put(F[i - 1], ps[i])
  <2> HIDE DEF F
  <2>1. \A i \in 0..N : F[i] = E(F)[i]
    BY <1>5, Zenon
  <2>2. 0 \in 0..N /\ \A i \in 1..N : i \in 0..N /\ i # 0
    BY <1>1
  <2> QED
    BY <2>1, <2>2
<1> DEFINE T == {i \in 0..N : F[i] \in GoodStreams}
<1>8. 0..N \subseteq T
  <2> HIDE DEF F
  <2>1. 0 \in T
    BY <1>7, <1>1
  <2>2. ASSUME NEW i \in 1..N, i - 1 \in T PROVE i \in T
    <3>1. F[i - 1] \in GoodStreams /\ ps[i] \in PieceSet /\ i \in 0..N
      BY <1>1, <2>2
    <3>2. F[i] \in GoodStreams
      BY <1>7, <3>1
    <3> QED
      BY <3>1, <3>2
  <2> HIDE DEF T, N
  <2> QED
    BY <1>1, <2>1, <2>2, NumberInduction
<1>9. BuiltFrom(F, N, EmptyStream, G)
  <2> HIDE DEF F
  <2>1. ASSUME NEW i \in 1..N PROVE F[i] = G[i][F[i - 1]]
    <3>1. F[i - 1] \in GoodStreams
      BY <1>8, <1>1
    <3> QED
      BY <1>7, <3>1 DEF PutStep
  <2> QED
    BY <1>7, <2>1 DEF BuiltFrom
<1> QED
  BY <1>6, <1>9

\* A stream that was given nothing is empty.
LEMMA StreamEmpty == Stream(<<>>) = EmptyStream
<1>1. <<>> \in Seq(PieceSet) /\ Len(<<>>) = 0
  OBVIOUS
<1>2. PICK f : /\ BuiltFrom(f, Len(<<>>), EmptyStream, PutStep(<<>>))
               /\ Stream(<<>>) = f[Len(<<>>)]
  BY <1>1, StreamFunction, Zenon
<1>3. f[0] = EmptyStream
  BY <1>2, Zenon DEF BuiltFrom
<1> QED
  BY <1>1, <1>2, <1>3, Zenon

\* One more piece is put behind.
LEMMA StreamAppend ==
  ASSUME NEW s \in Seq(PieceSet), NEW x \in PieceSet
  PROVE  Stream(Append(s, x)) = Put(Stream(s), x)
<1> USE GoodStreamsClosed
<1> DEFINE t == Append(s, x)
           N == Len(s)
           G == PutStep(s)
           H == PutStep(t)
<1> HIDE DEF EmptyStream
<1>1. /\ t \in Seq(PieceSet) /\ N \in Nat /\ Len(t) = N + 1
      /\ t[N + 1] = x /\ \A i \in 1..N : t[i] = s[i] /\ s[i] \in PieceSet
  BY AppendProperties, LenProperties, ElementOfSeq
<1>2. PICK f : BuiltFrom(f, N, EmptyStream, G) /\ Stream(s) = f[N]
  BY StreamFunction
<1>3. PICK g : BuiltFrom(g, N + 1, EmptyStream, H) /\ Stream(t) = g[N + 1]
  <2> HIDE DEF t, N, H
  <2>1. PICK g : BuiltFrom(g, Len(t), EmptyStream, PutStep(t))
                 /\ Stream(t) = g[Len(t)]
    BY <1>1, StreamFunction
  <2> QED
    BY <1>1, <2>1, Zenon DEF H
<1>4. \A i \in 1..N : i \in 1..(N + 1) /\ H[i] = G[i]
  <2> TAKE i \in 1..N
  <2>1. i \in 1..Len(t) /\ t[i] = s[i]
    BY <1>1
  <2>2. H[i] = [u \in GoodStreams |-> Put(u, t[i])]
    BY <2>1 DEF PutStep
  <2>3. G[i] = [u \in GoodStreams |-> Put(u, s[i])]
    BY DEF PutStep
  <2> QED
    BY <1>1, <2>1, <2>2, <2>3
<1>5. BuiltFrom(g, N, EmptyStream, G)
  <2> HIDE DEF t, N, G, H
  <2> QED
    BY <1>3, <1>4 DEF BuiltFrom
<1>6. G \in [1..N -> [GoodStreams -> GoodStreams]]
  BY <1>1 DEF PutStep
<1>7. f[N] = g[N] /\ f[N] \in GoodStreams
  <2>1. N \in 0..N
    BY <1>1
  <2> HIDE DEF t, N, G, H
  <2>2. \A i \in 0..N : f[i] = g[i] /\ f[i] \in GoodStreams
    BY <1>1, <1>2, <1>5, <1>6, <2>1, RecursionUnique
  <2> QED
    BY <2>1, <2>2
<1>8. g[N + 1] = Put(g[N], x)
  <2>1. N + 1 \in 1..(N + 1) /\ (N + 1) - 1 = N
    BY <1>1
  <2>2. g[N + 1] = H[N + 1][g[N]]
    BY <1>3, <2>1 DEF BuiltFrom
  <2>3. H[N + 1] = [u \in GoodStreams |-> Put(u, x)]
    BY <1>1, <2>1 DEF PutStep
  <2> QED
    BY <1>7, <2>2, <2>3
<1> HIDE DEF t, N, G, H
<1> QED
  BY <1>2, <1>3, <1>7, <1>8 DEF t

\* Lengths goes along with a piece.
LEMMA LengthsAppend ==
  ASSUME NEW ps \in Seq(PieceSet), NEW x \in PieceSet
  PROVE  /\ Lengths(ps) \in Seq(Nat)
         /\ Lengths(Append(ps, x)) = Append(Lengths(ps), PieceLength(x))
<1>1. \A s \in Seq(PieceSet) :
         /\ Lengths(s) \in Seq(Nat) /\ Len(Lengths(s)) = Len(s)
         /\ \A i \in 1..Len(s) : Lengths(s)[i] = PieceLength(s[i])
  <2> TAKE s \in Seq(PieceSet)
  <2>1. /\ Len(s) \in Nat /\ DOMAIN s = 1..Len(s)
        /\ \A i \in 1..Len(s) : s[i] \in PieceSet
    BY LenProperties, ElementOfSeq
  <2>2. \A i \in 1..Len(s) : PieceLength(s[i]) \in Nat
    BY <2>1, PieceLengthNat
  <2>3. Lengths(s) = [i \in 1..Len(s) |-> PieceLength(s[i])]
    BY <2>1 DEF Lengths
  <2>4. Lengths(s) \in [1..Len(s) -> Nat]
    BY <2>2, <2>3
  <2>5. Lengths(s) \in Seq(Nat)
    BY <2>1, <2>4, SeqDef
  <2>6. Len(Lengths(s)) = Len(s)
    BY <2>1, <2>4, <2>5, LenProperties
  <2> QED
    BY <2>3, <2>5, <2>6
<1>2. PICK t : t = Append(ps, x)
  OBVIOUS
<1>3. /\ t \in Seq(PieceSet) /\ Len(ps) \in Nat /\ Len(t) = Len(ps) + 1
      /\ t[Len(ps) + 1] = x /\ \A i \in 1..Len(ps) : t[i] = ps[i]
  BY <1>2, AppendProperties, LenProperties
<1>4. PICK k \in Nat : k = PieceLength(x)
  BY PieceLengthNat
<1>5. /\ Append(Lengths(ps), k) \in Seq(Nat)
      /\ Len(Append(Lengths(ps), k)) = Len(ps) + 1
      /\ Append(Lengths(ps), k)[Len(ps) + 1] = k
      /\ \A i \in 1..Len(ps) : Append(Lengths(ps), k)[i] = Lengths(ps)[i]
  BY <1>1, AppendProperties
<1>6. ASSUME NEW i \in 1..(Len(ps) + 1)
      PROVE  Lengths(t)[i] = Append(Lengths(ps), k)[i]
  <2>1. Lengths(t)[i] = PieceLength(t[i])
    BY <1>1, <1>3
  <2>2. CASE i = Len(ps) + 1
    BY <1>3, <1>4, <1>5, <2>1, <2>2
  <2>3. CASE i # Len(ps) + 1
    <3>1. i \in 1..Len(ps)
      BY <1>3, <2>3
    <3>2. Lengths(ps)[i] = PieceLength(ps[i])
      BY <1>1, <3>1
    <3> QED
      BY <1>3, <1>5, <2>1, <3>1, <3>2
  <2> QED
    BY <2>2, <2>3
<1>7. Lengths(t) = Append(Lengths(ps), k)
  BY <1>1, <1>3, <1>5, <1>6, SeqEqual
<1> QED
  BY <1>1, <1>2, <1>4, <1>7

\* Whatever pieces a stream is given, it is good.
LEMMA StreamGood ==
  ASSUME NEW ps \in Seq(PieceSet)
  PROVE  SumSeq(Lengths(ps)) \in Nat /\ Good(Stream(ps), SumSeq(Lengths(ps)))
<1> DEFINE Holds(u) == SumSeq(Lengths(u)) \in Nat
                       /\ Good(Stream(u), SumSeq(Lengths(u)))
           T == {u \in Seq(PieceSet) : Holds(u)}
<1>1. <<>> \in T
  <2>1. Lengths(<<>>) = <<>>
    BY DEF Lengths
  <2>2. SumSeq(Lengths(<<>>)) = 0
    BY <2>1, SumEmpty, Zenon
  <2>3. Good(Stream(<<>>), SumSeq(Lengths(<<>>)))
    BY <2>2, StreamEmpty, GoodStreamsClosed, Zenon
  <2>4. <<>> \in Seq(PieceSet) /\ SumSeq(Lengths(<<>>)) \in Nat
    BY <2>2
  <2>5. Holds(<<>>)
    BY <2>3, <2>4, Zenon
  <2> HIDE DEF Holds
  <2> QED
    BY <2>4, <2>5, Zenon
<1>2. ASSUME NEW u \in Seq(PieceSet), NEW x \in PieceSet, u \in T
      PROVE  Append(u, x) \in T
  <2>1. PICK full \in Nat : full = SumSeq(Lengths(u)) /\ Good(Stream(u), full)
    BY <1>2
  <2>2. PICK k \in Nat : k = PieceLength(x)
    BY PieceLengthNat
  <2>3. Lengths(u) \in Seq(Nat) /\ Lengths(Append(u, x)) = Append(Lengths(u), k)
    BY <2>2, LengthsAppend
  <2>4. Lengths(u) \in Seq(Int) /\ k \in Int
    BY <2>3
  <2>5. SumSeq(Append(Lengths(u), k)) = SumSeq(Lengths(u)) + k
    BY <2>4, SumAppend
  <2>6. SumSeq(Lengths(Append(u, x))) = full + k /\ full + k \in Nat
    BY <2>1, <2>3, <2>5
  <2>7. Stream(Append(u, x)) = Put(Stream(u), x)
    BY StreamAppend
  <2>8. Good(Put(Stream(u), x), full + k)
    BY <2>1, <2>2, PutGood
  <2>9. Holds(Append(u, x))
    BY <2>6, <2>7, <2>8, Zenon
  <2>10. Append(u, x) \in Seq(PieceSet)
    BY AppendProperties
  <2> HIDE DEF Holds
  <2> QED
    BY <2>9, <2>10, Zenon
<1>3. Seq(PieceSet) \subseteq T
  <2> HIDE DEF T
  <2> QED
    BY <1>1, <1>2, SequenceInduction
<1> QED
  BY <1>3
-----------------------------------------------------------------------------
(* The lines that are logged                                               *)

\* The pieces of a statement are pieces that operator<< can be given.
LEMMA StatementPieces ==
  ASSUME NEW i \in DOMAIN Statements
  PROVE  Pieces(Statements[i]) \in Seq(PieceSet)
<1>1. PICK ps : ps = Pieces(Statements[i])
  OBVIOUS
<1>2. ps \in Seq(STRING \X Int) /\ \A j \in DOMAIN ps : IsPiece(ps[j])
  BY <1>1, StatementsAssumption
<1>3. Len(ps) \in Nat /\ ps \in [1..Len(ps) -> STRING \X Int]
  BY <1>2, LenProperties
<1>4. \A j \in 1..Len(ps) : ps[j] \in PieceSet
  BY <1>2, <1>3 DEF PieceSet
<1>5. ps \in [1..Len(ps) -> PieceSet]
  BY <1>3, <1>4
<1>6. ps \in Seq(PieceSet)
  BY <1>3, <1>5, SeqDef
<1> QED
  BY <1>1, <1>6

\* Every line is good.
LEMMA FormatGood ==
  ASSUME NEW i \in DOMAIN Statements
  PROVE  /\ FullLength(Statements[i]) \in Nat
         /\ Good(Format(Statements[i]), FullLength(Statements[i]))
  BY StatementPieces, StreamGood DEF FullLength, Format

\* The streams and the conversion of numbers do what a log needs.
LEMMA LinesAreLegible == Legible
<1>1. ASSUME NEW n \in Numbers
      PROVE  ReadBack(Convert(n), 10) = n /\ ReadBack(ConvertHex(n), 16) = n
  <2>1. n \in Nat
    BY LogStreamAssumption
  <2>2. Convert(n) = Reverse(Lsd(10)[n])
    BY <2>1 DEF Convert
  <2> QED
    BY <2>1, <2>2, DigitsReadBack DEF ConvertHex, Bases
<1>2. ASSUME NEW i \in DOMAIN Statements
      PROVE  LET line == Format(Statements[i])
                 full == FullLength(Statements[i])
             IN  /\ line.top <= SmallBuffer
                 /\ line.len <= full
                 /\ full + MaxNumericSize < SmallBuffer =>
                       line.len = full /\ line.cut = 0
  BY FormatGood DEF Good
<1> QED
  BY <1>1, <1>2 DEF Legible

\* A line is shorter than a stream's buffer.
LEMMA LineLength ==
  ASSUME NEW l \in Line
  PROVE  /\ Length[l] \in Nat
         /\ l # Message => Length[l] < SmallBuffer
<1>1. Length[l] = IF l = Message THEN 70
                  ELSE Format(Statements[1 + (l % Len(Statements))]).len
  BY DEF Length
<1>2. CASE l = Message
  BY <1>1, <1>2
<1>3. CASE l # Message
  <2>1. l \in Nat /\ Len(Statements) \in Nat /\ Len(Statements) > 0
    BY LogStreamAssumption, AsyncLoggingAssumption, LenProperties DEF Line
  <2>2. PICK k : k = 1 + (l % Len(Statements))
    OBVIOUS
  <2>3. k \in 1..Len(Statements)
    BY <2>1, <2>2
  <2>4. k \in DOMAIN Statements
    BY <2>3, LogStreamAssumption, LenProperties
  <2>5. Good(Format(Statements[k]), FullLength(Statements[k]))
    BY <2>4, FormatGood
  <2>6. /\ Format(Statements[k]).len \in Nat
        /\ Format(Statements[k]).len < SmallBuffer
    BY <2>5 DEF Good, Streams
  <2> QED
    BY <1>1, <1>3, <2>2, <2>6
<1> QED
  BY <1>2, <1>3

\* An empty buffer holds nothing, and a line adds its length.
LEMMA SizeOfEmpty == SizeOf(<<>>) = 0
<1>1. [i \in DOMAIN <<>> |-> Length[<<>>[i]]] = <<>>
  OBVIOUS
<1> QED
  BY <1>1, SumEmpty, Zenon DEF SizeOf

\* A line more in a buffer adds its length to the buffer's size.
LEMMA SizeOfAppend ==
  ASSUME NEW b \in Buffer, NEW l \in Line
  PROVE  SizeOf(b) \in Nat /\ SizeOf(Append(b, l)) = SizeOf(b) + Length[l]
<1> DEFINE Sizes(s) == [i \in DOMAIN s |-> Length[s[i]]]
<1>1. \A s \in Seq(Line) :
         /\ Sizes(s) \in Seq(Nat) /\ Len(Sizes(s)) = Len(s)
         /\ \A i \in 1..Len(s) : Sizes(s)[i] = Length[s[i]]
  <2> TAKE s \in Seq(Line)
  <2>1. /\ Len(s) \in Nat /\ DOMAIN s = 1..Len(s)
        /\ \A i \in 1..Len(s) : s[i] \in Line
    BY LenProperties, ElementOfSeq
  <2>2. \A i \in 1..Len(s) : Length[s[i]] \in Nat
    BY <2>1, LineLength
  <2>3. Sizes(s) = [i \in 1..Len(s) |-> Length[s[i]]]
    BY <2>1
  <2>4. Sizes(s) \in [1..Len(s) -> Nat]
    BY <2>2, <2>3
  <2>5. Sizes(s) \in Seq(Nat)
    BY <2>1, <2>4, SeqDef
  <2>6. Len(Sizes(s)) = Len(s)
    BY <2>1, <2>4, <2>5, LenProperties
  <2> QED
    BY <2>3, <2>5, <2>6
<1>2. PICK t : t = Append(b, l)
  OBVIOUS
<1>3. /\ b \in Seq(Line) /\ t \in Seq(Line)
      /\ Len(b) \in Nat /\ Len(t) = Len(b) + 1
      /\ t[Len(b) + 1] = l /\ \A i \in 1..Len(b) : t[i] = b[i]
  BY <1>2, AppendProperties, LenProperties DEF Buffer
<1>4. PICK k \in Nat : k = Length[l]
  BY LineLength
<1> HIDE DEF Sizes
<1>5. /\ Append(Sizes(b), k) \in Seq(Nat)
      /\ Len(Append(Sizes(b), k)) = Len(b) + 1
      /\ Append(Sizes(b), k)[Len(b) + 1] = k
      /\ \A i \in 1..Len(b) : Append(Sizes(b), k)[i] = Sizes(b)[i]
  BY <1>1, <1>3, AppendProperties
<1>6. ASSUME NEW i \in 1..(Len(b) + 1)
      PROVE  Sizes(t)[i] = Append(Sizes(b), k)[i]
  <2>1. Sizes(t)[i] = Length[t[i]]
    BY <1>1, <1>3
  <2>2. CASE i = Len(b) + 1
    BY <1>3, <1>4, <1>5, <2>1, <2>2
  <2>3. CASE i # Len(b) + 1
    <3>1. i \in 1..Len(b)
      BY <1>3, <2>3
    <3>2. Sizes(b)[i] = Length[b[i]]
      BY <1>1, <1>3, <3>1
    <3> QED
      BY <1>3, <1>5, <2>1, <3>1, <3>2
  <2> QED
    BY <2>2, <2>3
<1>7. Sizes(t) = Append(Sizes(b), k)
  BY <1>1, <1>3, <1>5, <1>6, SeqEqual, SMTT(30)
<1>8. Sizes(b) \in Seq(Nat) /\ Sizes(b) \in Seq(Int) /\ k \in Int
  BY <1>1, <1>3
<1>9. /\ SumSeq(Sizes(b)) \in Nat
      /\ SumSeq(Append(Sizes(b), k)) = SumSeq(Sizes(b)) + k
  BY <1>8, SumAppend, SumNat
<1>10. SizeOf(b) = SumSeq(Sizes(b)) /\ SizeOf(t) = SumSeq(Sizes(t))
  BY DEF SizeOf, Sizes
<1> QED
  BY <1>2, <1>4, <1>7, <1>9, <1>10

\* An empty buffer has room for every line.
LEMMA EmptyFits ==
  ASSUME NEW l \in Line, l # Message
  PROVE  Fits(<<>>, l)
<1>1. LargeBuffer \in Nat /\ SmallBuffer \in Nat /\ SmallBuffer <= LargeBuffer
  BY AsyncLoggingAssumption, LogStreamAssumption
<1>2. PICK z : z = SizeOf(<<>>)
  OBVIOUS
<1>3. z = 0
  BY <1>2, SizeOfEmpty, Zenon
<1>4. Length[l] \in Nat /\ Length[l] < SmallBuffer
  BY LineLength
<1>5. LargeBuffer - z > Length[l]
  BY <1>1, <1>3, <1>4
<1> QED
  BY <1>2, <1>5, Zenon DEF Fits

-----------------------------------------------------------------------------
(* The buffers                                                             *)

\* The types that the argument about the spare buffers needs.
BuffersOK ==
    /\ buffers \in Seq(Buffer)
    /\ buffersToWrite \in Seq(Buffer)
    /\ curBuffer \in Buffer
    /\ appended \in 0..MaxLines

\* The empty sequence is a sequence of anything.
LEMMA EmptySeqType == ASSUME NEW S PROVE <<>> \in Seq(S)
  OBVIOUS

\* Keep leaves the first two of at least two buffers.
LEMMA KeepTwo ==
  ASSUME NEW bs \in Seq(Buffer), Len(bs) >= 2
  PROVE  Keep(bs) \in Seq(Buffer) /\ Len(Keep(bs)) = 2
  BY SubSeqProperties DEF Keep

\* append() keeps the types of the buffers.
LEMMA PutLineType ==
  ASSUME BuffersOK, NEW line \in Line, PutLine(line)
  PROVE  buffers' \in Seq(Buffer) /\ curBuffer' \in Buffer
<1>1. CASE Fits(curBuffer, line)
  <2>1. Fill(curBuffer, line) \in Seq(Line)
    BY AppendProperties DEF BuffersOK, Buffer, Fill
  <2> QED
    BY <1>1, <2>1 DEF BuffersOK, PutLine, Buffer
<1>2. CASE ~(Fits(curBuffer, line))
  <2>1. Append(buffers, curBuffer) \in Seq(Buffer)
    BY AppendProperties DEF BuffersOK
  <2>2. Fill(<<>>, line) \in Seq(Line)
    BY EmptySeqType, AppendProperties DEF Fill
  <2> QED
    BY <1>2, <2>1, <2>2 DEF PutLine, Buffer
<1> QED
  BY <1>1, <1>2

\* The buffers and the queues keep their types.
LEMMA BuffersType == Spec => []BuffersOK
<1>1. Init => BuffersOK
  BY EmptySeqType, AsyncLoggingAssumption DEF Init, BuffersOK, Buffer
<1>2. BuffersOK /\ [Next]_vars => BuffersOK'
  <2> SUFFICES ASSUME BuffersOK, [Next]_vars PROVE BuffersOK'
    OBVIOUS
  <2> USE DEF front, back
  <2>1. CASE LogLine \/ LogFatal
    <3>1. appended' \in 0..MaxLines /\ appended' \in Line
      BY <2>1, AsyncLoggingAssumption DEF LogLine, LogFatal, BuffersOK, Line
    <3>2. PutLine(appended') /\ UNCHANGED buffersToWrite
      BY <2>1 DEF LogLine, LogFatal
    <3> QED
      BY <3>1, <3>2, PutLineType DEF BuffersOK
  <2>2. CASE Swap
    BY <2>2, EmptySeqType, AppendProperties DEF Swap, BuffersOK, Buffer
  <2>3. CASE CheckBacklog
    <3>1. buffersToWrite' \in Seq(Buffer)
      <4>1. CASE Len(buffersToWrite) > MaxBuffersToWriteSize
        BY <2>3, <4>1, KeepTwo, AsyncLoggingAssumption
        DEF CheckBacklog, BuffersOK
      <4>2. CASE ~(Len(buffersToWrite) > MaxBuffersToWriteSize)
        BY <2>3, <4>2 DEF CheckBacklog, BuffersOK
      <4> QED
        BY <4>1, <4>2
    <3> QED
      BY <2>3, <3>1 DEF CheckBacklog, BuffersOK
  <2>4. CASE Recycle
    BY <2>4, EmptySeqType DEF Recycle, BuffersOK
  <2>5. CASE Abort \/ Start \/ Stop \/ Joined \/ Open \/ TestRunning \/ Wait
             \/ WriteBuffer \/ Over \/ UNCHANGED vars
    BY <2>5 DEF Abort, Start, Stop, Joined, Open, TestRunning, Wait,
       WriteBuffer, Over, vars, BuffersOK
  <2> QED
    BY <2>1, <2>2, <2>3, <2>4, <2>5 DEF Next, BackStep
<1> QED
  BY <1>1, <1>2, PTL DEF Spec

-----------------------------------------------------------------------------
(* The spare buffers                                                       *)

\* Why a round always gets its two buffers back.  newBuffer2 is given away
\* only when nextBuffer_ is null, and nextBuffer_ is null only while a full
\* buffer is queued: then the swap takes at least two buffers, that one and
\* the current one.  Dropping a backlog leaves two as well.
SpareInv ==
    /\ ~nextBuffer => buffers # <<>>
    /\ pc \in {"none", "opening"} => buffersToWrite = <<>>
    /\ pc \in {"test", "lock", "waiting"} =>
          newBuffer1 /\ newBuffer2 /\ buffersToWrite = <<>>
    /\ pc \in {"check", "write"} =>
          /\ Len(buffersToWrite) >= 1
          /\ ~newBuffer1
          /\ ~newBuffer2 => Len(buffersToWrite) >= 2

\* SpareInv is an invariant of the backend.
THEOREM SpareInvariant == Spec => []SpareInv
<1>1. Init => SpareInv
  BY DEF Init, SpareInv
<1>2. BuffersOK /\ SpareInv /\ [Next]_vars => SpareInv'
  <2> SUFFICES ASSUME BuffersOK, SpareInv, [Next]_vars PROVE SpareInv'
    OBVIOUS
  <2> USE DEF front, back
  <2>1. CASE LogLine \/ LogFatal
    <3>1. PutLine(appended')
          /\ UNCHANGED <<pc, newBuffer1, newBuffer2, buffersToWrite>>
      BY <2>1 DEF LogLine, LogFatal
    <3>2. Append(buffers, curBuffer) # <<>>
      BY AppendProperties DEF BuffersOK
    <3>3. ~nextBuffer' => buffers' # <<>>
      BY <3>1, <3>2 DEF PutLine, SpareInv
    <3> QED
      BY <3>1, <3>3 DEF SpareInv
  <2>2. CASE Swap
    <3>1. /\ Len(buffersToWrite') = Len(buffers) + 1
          /\ Len(buffers) \in Nat
      BY <2>2, AppendProperties, LenProperties DEF Swap, BuffersOK
    <3>2. newBuffer2
      BY <2>2 DEF Swap, SpareInv
    <3>3. ~nextBuffer => Len(buffers) >= 1
      BY <3>1, EmptySeq DEF SpareInv, BuffersOK
    <3>4. Len(buffersToWrite') >= 1
          /\ (~nextBuffer => Len(buffersToWrite') >= 2)
      BY <3>1, <3>3
    <3>5. ~newBuffer2' => ~nextBuffer
      BY <2>2, <3>2 DEF Swap
    <3>6. pc' = "check" /\ nextBuffer' /\ ~newBuffer1'
      BY <2>2 DEF Swap
    <3> QED
      BY <3>4, <3>5, <3>6 DEF SpareInv
  <2>3. CASE CheckBacklog
    <3>1. Len(buffersToWrite') >= 1
          /\ (~newBuffer2 => Len(buffersToWrite') >= 2)
      <4>1. CASE Len(buffersToWrite) > MaxBuffersToWriteSize
        <5>1. Len(buffersToWrite) >= 2
          BY <4>1, LenProperties, AsyncLoggingAssumption DEF BuffersOK
        <5>2. Len(Keep(buffersToWrite)) = 2
          BY <5>1, KeepTwo DEF BuffersOK
        <5> QED
          BY <2>3, <4>1, <5>2 DEF CheckBacklog
      <4>2. CASE ~(Len(buffersToWrite) > MaxBuffersToWriteSize)
        BY <2>3, <4>2 DEF CheckBacklog, SpareInv
      <4> QED
        BY <4>1, <4>2
    <3> QED
      BY <2>3, <3>1 DEF CheckBacklog, SpareInv
  <2>4. CASE Recycle
    BY <2>4 DEF Recycle, SpareInv
  <2>5. CASE Start \/ Open \/ TestRunning \/ Wait \/ WriteBuffer
    BY <2>5 DEF Start, Open, TestRunning, Wait, WriteBuffer, SpareInv
  <2>6. CASE Abort \/ Stop \/ Joined \/ Over \/ UNCHANGED vars
    BY <2>6 DEF Abort, Stop, Joined, Over, vars, SpareInv
  <2> QED
    BY <2>1, <2>2, <2>3, <2>4, <2>5, <2>6 DEF Next, BackStep
<1> QED
  BY <1>1, <1>2, BuffersType, PTL DEF Spec

\* Every round of the backend begins with two buffers in hand (the
\* assertions of AsyncLogging.cpp:76-78), however the front ends fill theirs.
THEOREM RoundsHaveBuffers == Spec => []SpareBuffersReady
<1>1. SpareInv => SpareBuffersReady
  BY DEF SpareInv, SpareBuffersReady
<1> QED
  BY <1>1, SpareInvariant, PTL

-----------------------------------------------------------------------------
(* The file                                                                *)

Files == [lines : Buffer, flushed : Nat, written : Nat,
          count : 0..(CheckEveryN - 1)]

\* A file that has not been flushed beyond its end.
IsFile(lf) == lf \in Files /\ lf.flushed <= Len(lf.lines)

\* The length of a buffer's text.
LEMMA SizeOfNat == ASSUME NEW b \in Buffer PROVE SizeOf(b) \in Nat
<1>1. 0 \in Line
  BY AsyncLoggingAssumption DEF Line
<1> QED
  BY <1>1, SizeOfAppend

\* Flushing, rolling and a new day keep a file and its lines.
LEMMA FlushFile ==
  ASSUME NEW lf, IsFile(lf)
  PROVE  /\ IsFile(Flush(lf)) /\ Flush(lf).lines = lf.lines
         /\ Flush(lf).flushed = Len(lf.lines)
         /\ Flush(lf).written = lf.written /\ Flush(lf).count = lf.count
<1>1. lf \in Files /\ Len(lf.lines) \in Nat
  BY LenProperties DEF IsFile, Files, Buffer
<1>2. Flush(lf) = [lines |-> lf.lines, flushed |-> Len(lf.lines),
                   written |-> lf.written, count |-> lf.count]
  BY <1>1 DEF Flush, Files
<1> QED
  BY <1>1, <1>2 DEF IsFile, Files

\* The counter is set back.
LEMMA RestartCount ==
  ASSUME NEW lf, IsFile(lf), NEW c \in 0..(CheckEveryN - 1)
  PROVE  /\ IsFile([lf EXCEPT !.count = c])
         /\ [lf EXCEPT !.count = c].lines = lf.lines
         /\ [lf EXCEPT !.count = c].written = lf.written
<1>1. lf \in Files
  BY DEF IsFile
<1>2. [lf EXCEPT !.count = c] =
         [lines |-> lf.lines, flushed |-> lf.flushed,
          written |-> lf.written, count |-> c]
  BY <1>1 DEF Files
<1> QED
  BY <1>1, <1>2 DEF IsFile, Files

\* A rolled file is a new one.
LEMMA RolledFile ==
  ASSUME NEW lf, IsFile(lf)
  PROVE  /\ IsFile(RollFile(lf)) /\ RollFile(lf).lines = lf.lines
         /\ RollFile(lf).written = 0
<1>1. PICK f : f = Flush(lf)
  OBVIOUS
<1>2. IsFile(f) /\ f.lines = lf.lines
  BY <1>1, FlushFile
<1>3. f \in Files
  BY <1>2 DEF IsFile
<1>4. [f EXCEPT !.written = 0] =
         [lines |-> f.lines, flushed |-> f.flushed,
          written |-> 0, count |-> f.count]
  BY <1>3 DEF Files
<1>5. RollFile(lf) = [f EXCEPT !.written = 0]
  BY <1>1 DEF RollFile
<1> QED
  BY <1>2, <1>3, <1>4, <1>5 DEF IsFile, Files

\* What is written is added to the file.
LEMMA GrowFile ==
  ASSUME NEW lf, IsFile(lf), NEW b \in Buffer, NEW k \in Nat
  PROVE  LET new == [lf EXCEPT !.lines = @ \o b, !.written = @ + k]
         IN  IsFile(new) /\ new.lines = lf.lines \o b
<1> DEFINE new == [lf EXCEPT !.lines = @ \o b, !.written = @ + k]
<1>1. /\ lf \in Files /\ lf.lines \in Seq(Line) /\ lf.flushed \in Nat
      /\ lf.written \in Nat /\ b \in Seq(Line)
      /\ lf.flushed <= Len(lf.lines)
  BY DEF IsFile, Files, Buffer
<1>2. PICK t : t = lf.lines \o b
  OBVIOUS
<1>3. t \in Seq(Line) /\ Len(t) = Len(lf.lines) + Len(b)
  BY <1>1, <1>2, ConcatProperties
<1>4. lf.flushed <= Len(t)
  BY <1>1, <1>3, LenProperties
<1>5. PICK w : w = lf.written + k
  OBVIOUS
<1>6. w \in Nat
  BY <1>1, <1>5
<1>7. new = [lf EXCEPT !.lines = t, !.written = w]
  BY <1>1, <1>2, <1>5 DEF Files
<1>8. new = [lines |-> t, flushed |-> lf.flushed,
             written |-> w, count |-> lf.count]
  <2> HIDE DEF new
  <2> QED
    BY <1>1, <1>7 DEF Files
<1> HIDE DEF new
<1>9. IsFile(new) /\ new.lines = lf.lines \o b
  BY <1>1, <1>2, <1>3, <1>4, <1>6, <1>8 DEF IsFile, Files, Buffer
<1> QED
  BY <1>9 DEF new

\* After an append the open file is below its size again.
LEMMA CheckedFile ==
  ASSUME NEW lf, IsFile(lf)
  PROVE  /\ IsFile(CheckFile(lf)) /\ CheckFile(lf).lines = lf.lines
         /\ CheckFile(lf).written < RollSize
<1>0. /\ CheckEveryN \in Nat /\ CheckEveryN > 0
      /\ RollSize \in Nat /\ RollSize > 0 /\ lf \in Files
  BY AsyncLoggingAssumption DEF IsFile
<1>1. lf.count \in Nat /\ lf.written \in Nat /\ 0 \in 0..(CheckEveryN - 1)
  BY <1>0 DEF Files
<1>2. CASE lf.count + 1 < CheckEveryN /\ lf.written < RollSize
  <2>1. lf.count + 1 \in 0..(CheckEveryN - 1)
    BY <1>0, <1>1, <1>2
  <2>2. CheckFile(lf) = [lf EXCEPT !.count = lf.count + 1]
    BY <1>2 DEF CheckFile
  <2> QED
    BY <1>2, <2>1, <2>2, RestartCount
<1>3. CASE ~(lf.count + 1 < CheckEveryN /\ lf.written < RollSize)
  <2>1. PICK g : g = Flush(lf)
    OBVIOUS
  <2>2. IsFile(g) /\ g.lines = lf.lines
    BY <2>1, FlushFile
  <2>3. PICK f : f = [g EXCEPT !.count = 0]
    OBVIOUS
  <2>4. IsFile(f) /\ f.lines = lf.lines
    BY <1>1, <2>2, <2>3, RestartCount
  <2>5. CheckFile(lf) = IF f.written < RollSize THEN f ELSE RollFile(f)
    BY <1>3, <2>1, <2>3 DEF CheckFile
  <2>6. /\ IsFile(RollFile(f)) /\ RollFile(f).lines = lf.lines
        /\ RollFile(f).written = 0
    BY <2>4, RolledFile
  <2>7. CASE f.written < RollSize
    BY <2>4, <2>5, <2>7
  <2>8. CASE ~(f.written < RollSize)
    BY <1>0, <2>5, <2>6, <2>8
  <2> QED
    BY <2>7, <2>8
<1> QED
  BY <1>2, <1>3

\* The lines that a write adds to the file, and those that are lost by it.
Takes(b, n) ==
    /\ logFile'.lines = logFile.lines \o SubSeq(b, 1, n)
    /\ lost' = lost \union ToSet(SubSeq(b, n + 1, Len(b)))
    /\ n \in 0..Len(b)

\* LogFile::append writes a buffer, or the first lines of it.
LEMMA FileTakes ==
  ASSUME IsFile(logFile), NEW b \in Buffer, LogFileAppend(b),
         faults \in 0..MaxFaults
  PROVE  /\ IsFile(logFile') /\ logFile'.written < RollSize
         /\ faults' \in 0..MaxFaults
         /\ \E n \in 0..Len(b) : Takes(b, n)
<1>0. b \in Seq(Line) /\ Len(b) \in Nat /\ CheckEveryN \in Nat /\ CheckEveryN > 0
      /\ 0 \in 0..(CheckEveryN - 1) /\ MaxFaults \in Nat
  BY LenProperties, AsyncLoggingAssumption DEF Buffer
<1>1. \A n \in 0..Len(b) : SubSeq(b, 1, n) \in Buffer
  BY <1>0, SubSeqProperties DEF Buffer
<1>2. PICK lf : /\ \/ lf = [RollFile(logFile) EXCEPT !.count = 0]
                   \/ lf = logFile
                /\ \/ /\ logFile' = CheckFile(AppendFile(lf, b))
                      /\ UNCHANGED <<lost, faults>>
                   \/ \E n \in 0..(Len(b) - 1) :
                         /\ faults < MaxFaults
                         /\ faults' = faults + 1
                         /\ logFile' = CheckFile(AppendFileFails(lf, b, n))
                         /\ lost' = lost \union ToSet(SubSeq(b, n + 1, Len(b)))
  BY Zenon DEF LogFileAppend
<1>3. IsFile(lf) /\ lf.lines = logFile.lines
  <2>1. CASE lf = logFile
    BY <2>1
  <2>2. CASE lf = [RollFile(logFile) EXCEPT !.count = 0]
    <3>1. PICK f : f = RollFile(logFile)
      OBVIOUS
    <3>2. IsFile(f) /\ f.lines = logFile.lines
      BY <3>1, RolledFile
    <3> QED
      BY <1>0, <2>2, <3>1, <3>2, RestartCount
  <2> QED
    BY <1>2, <2>1, <2>2
<1>4. CASE logFile' = CheckFile(AppendFile(lf, b)) /\ UNCHANGED <<lost, faults>>
  <2>1. PICK g : g = AppendFile(lf, b)
    OBVIOUS
  <2>2. IsFile(g) /\ g.lines = logFile.lines \o b
    BY <1>3, <2>1, GrowFile, SizeOfNat, ZenonT(40) DEF AppendFile
  <2>3. /\ IsFile(logFile') /\ logFile'.lines = logFile.lines \o b
        /\ logFile'.written < RollSize
    BY <1>4, <2>1, <2>2, CheckedFile
  <2>4. SubSeq(b, 1, Len(b)) = b /\ SubSeq(b, Len(b) + 1, Len(b)) = <<>>
    BY <1>0
  <2>5. ToSet(SubSeq(b, Len(b) + 1, Len(b))) = {}
    <3>1. ToSet(<<>>) = {}
      BY DEF ToSet
    <3> QED
      BY <2>4, <3>1, Zenon
  <2>6. Len(b) \in 0..Len(b)
    BY <1>0
  <2>7. lost' = lost \union ToSet(SubSeq(b, Len(b) + 1, Len(b)))
    BY <1>4, <2>5
  <2>8. Takes(b, Len(b))
    BY <2>3, <2>4, <2>6, <2>7, Zenon DEF Takes
  <2> QED
    BY <1>4, <2>3, <2>6, <2>8
<1>5. ASSUME NEW n \in 0..(Len(b) - 1), faults < MaxFaults,
             faults' = faults + 1,
             logFile' = CheckFile(AppendFileFails(lf, b, n)),
             lost' = lost \union ToSet(SubSeq(b, n + 1, Len(b)))
      PROVE  /\ IsFile(logFile') /\ logFile'.written < RollSize
             /\ faults' \in 0..MaxFaults
             /\ \E m \in 0..Len(b) : Takes(b, m)
  <2>1. PICK g : g = AppendFileFails(lf, b, n)
    OBVIOUS
  <2>2. n \in 0..Len(b)
    BY <1>0
  <2>3. PICK c \in Buffer : c = SubSeq(b, 1, n)
    BY <1>1, <2>2
  <2>4. PICK k \in Nat : k = 2 * SizeOf(c)
    BY SizeOfNat
  <2>5. g = [lf EXCEPT !.lines = @ \o c, !.written = @ + k]
    BY <2>1, <2>3, <2>4 DEF AppendFileFails
  <2>6. IsFile(g) /\ g.lines = logFile.lines \o c
    <3>1. LET new == [lf EXCEPT !.lines = @ \o c, !.written = @ + k]
          IN  IsFile(new) /\ new.lines = lf.lines \o c
      BY <1>3, GrowFile
    <3> QED
      BY <1>3, <2>5, <3>1
  <2>7. /\ IsFile(logFile') /\ logFile'.lines = logFile.lines \o c
        /\ logFile'.written < RollSize
    BY <1>5, <2>1, <2>6, CheckedFile
  <2>8. Takes(b, n)
    BY <1>5, <2>2, <2>3, <2>7, Zenon DEF Takes
  <2>9. faults' \in 0..MaxFaults
    BY <1>0, <1>5
  <2> QED
    BY <2>2, <2>7, <2>8, <2>9
<1> QED
  BY <1>2, <1>4, <1>5
-----------------------------------------------------------------------------
(* The types                                                               *)

\* Type correctness, with the whole of the file: buffers are given to the
\* file only in the "write" part of a round.
LogTypes ==
    /\ TypeOK
    /\ IsFile(logFile)
    /\ pc # "write" => done = 0

\* append() leaves a current buffer that is not full.
LEMMA PutLineFill ==
  ASSUME TypeOK, NEW line \in Line, PutLine(line)
  PROVE  /\ buffers' \in Seq(Buffer) /\ curBuffer' \in Buffer
         /\ SizeOf(curBuffer') < LargeBuffer /\ nextBuffer' \in BOOLEAN
<1>1. /\ LargeBuffer \in Nat /\ LargeBuffer > 0
      /\ Length[line] \in Nat
  BY AsyncLoggingAssumption, LogStreamAssumption, LineLength
<1>2. BuffersOK
  BY DEF TypeOK, BuffersOK
<1>3. \A b \in Buffer :
         SizeOf(b) < LargeBuffer => SizeOf(Fill(b, line)) < LargeBuffer
  <2> SUFFICES ASSUME NEW b \in Buffer, SizeOf(b) < LargeBuffer
               PROVE  SizeOf(Fill(b, line)) < LargeBuffer
    OBVIOUS
  <2>1. /\ SizeOf(b) \in Nat
        /\ SizeOf(Append(b, line)) = SizeOf(b) + Length[line]
    BY SizeOfAppend
  <2>2. CASE Fits(b, line)
    <3>1. LargeBuffer - SizeOf(b) > Length[line] /\ Fill(b, line) = Append(b, line)
      BY <2>2 DEF Fits, Fill
    <3> QED
      BY <1>1, <2>1, <3>1
  <2>3. CASE ~Fits(b, line)
    BY <2>3 DEF Fill
  <2> QED
    BY <2>2, <2>3
<1>4. PICK e : e = <<>>
  OBVIOUS
<1>5. e \in Buffer
  BY <1>4, EmptySeqType, Zenon DEF Buffer
<1>6. SizeOf(e) = 0
  BY <1>4, SizeOfEmpty, Zenon
<1>7. SizeOf(e) < LargeBuffer
  BY <1>1, <1>6
<1>8. SizeOf(curBuffer') < LargeBuffer /\ nextBuffer' \in BOOLEAN
  <2>1. CASE Fits(curBuffer, line)
    BY <1>3, <2>1 DEF PutLine, TypeOK
  <2>2. CASE ~Fits(curBuffer, line)
    <3>1. curBuffer' = Fill(e, line) /\ nextBuffer' = FALSE
      BY <1>4, <2>2, Zenon DEF PutLine
    <3> QED
      BY <1>3, <1>5, <1>7, <3>1
  <2> QED
    BY <2>1, <2>2
<1> QED
  BY <1>2, <1>8, PutLineType

\* What the disk refuses of a buffer are lines of it.
LEMMA LostType ==
  ASSUME NEW b \in Buffer, NEW n \in 0..Len(b), lost \subseteq Line,
         Takes(b, n)
  PROVE  lost' \subseteq Line
<1>1. Len(b) \in Nat /\ b \in Seq(Line)
  BY LenProperties DEF Buffer
<1>2. SubSeq(b, n + 1, Len(b)) \in Seq(Line)
  BY <1>1, SubSeqProperties
<1>3. ToSet(SubSeq(b, n + 1, Len(b))) \subseteq Line
  BY <1>2, ToSetType
<1> QED
  BY <1>3 DEF Takes

\* The parts of TypeOK that a write concerns.
LEMMA FileTypes ==
  ASSUME TypeOK, IsFile(logFile), NEW b \in Buffer, LogFileAppend(b)
  PROVE  /\ IsFile(logFile')
         /\ logFile'.lines \in Buffer
         /\ logFile'.flushed \in 0..Len(logFile'.lines)
         /\ logFile'.written \in 0..(RollSize - 1)
         /\ logFile'.count \in 0..(CheckEveryN - 1)
         /\ lost' \subseteq Line
         /\ faults' \in 0..MaxFaults
<1>1. /\ IsFile(logFile') /\ logFile'.written < RollSize
      /\ faults' \in 0..MaxFaults
      /\ \E n \in 0..Len(b) : Takes(b, n)
  BY FileTakes DEF TypeOK
<1>2. lost' \subseteq Line
  BY <1>1, LostType DEF TypeOK
<1>3. logFile' \in Files /\ logFile'.flushed <= Len(logFile'.lines)
  BY <1>1 DEF IsFile
<1>4. Len(logFile'.lines) \in Nat
  BY <1>3, LenProperties DEF Files, Buffer
<1>5. logFile'.written \in Nat /\ logFile'.flushed \in Nat /\ RollSize \in Nat
  BY <1>3, AsyncLoggingAssumption DEF Files
<1>6. /\ logFile'.flushed \in 0..Len(logFile'.lines)
      /\ logFile'.written \in 0..(RollSize - 1)
  BY <1>1, <1>3, <1>4, <1>5
<1> QED
  BY <1>1, <1>2, <1>3, <1>6 DEF Files

\* A flush changes only what is known to be on disk.
LEMMA FlushTypes ==
  ASSUME TypeOK, IsFile(logFile), logFile' = Flush(logFile)
  PROVE  /\ IsFile(logFile')
         /\ logFile'.lines \in Buffer
         /\ logFile'.flushed \in 0..Len(logFile'.lines)
         /\ logFile'.written \in 0..(RollSize - 1)
         /\ logFile'.count \in 0..(CheckEveryN - 1)
<1>1. /\ IsFile(logFile') /\ logFile'.lines = logFile.lines
      /\ logFile'.flushed = Len(logFile.lines)
      /\ logFile'.written = logFile.written
      /\ logFile'.count = logFile.count
  BY FlushFile
<1>2. Len(logFile.lines) \in Nat
  BY LenProperties DEF TypeOK, Buffer
<1> QED
  BY <1>1, <1>2 DEF TypeOK
\* What a round's backlog gives up are lines.
LEMMA DroppedType ==
  ASSUME NEW bs \in Seq(Buffer), NEW rest
  PROVE  ToSet(FlattenSeq(bs)) \ rest \subseteq Line
<1>1. FlattenSeq(bs) \in Seq(Line)
  BY FlattenType DEF Buffer
<1> QED
  BY <1>1, ToSetType

\* Type correctness of the logging backend, for every size of the buffers and
\* of the file: a current buffer is never full, a file is never left beyond
\* its size, and no more is flushed than was written.
THEOREM LogTypesInvariant == Spec => []LogTypes
<1>1. Init => LogTypes
  <2> SUFFICES ASSUME Init PROVE LogTypes
    OBVIOUS
  <2>1. <<>> \in Buffer /\ <<>> \in Seq(Buffer)
    BY EmptySeqType, Zenon DEF Buffer
  <2>2. SizeOf(curBuffer) = 0 /\ Len(buffersToWrite) = 0 /\ done = 0
    BY SizeOfEmpty DEF Init
  <2>3. logFile = [lines |-> <<>>, flushed |-> 0, written |-> 0, count |-> 0]
    BY DEF Init
  <2>4. /\ logFile.lines = <<>> /\ logFile.flushed = 0 /\ logFile.written = 0
        /\ logFile.count = 0 /\ Len(logFile.lines) = 0
    BY <2>3
  <2>5. /\ RollSize \in Nat \ {0} /\ CheckEveryN \in Nat \ {0}
        /\ LargeBuffer \in Nat /\ LargeBuffer > 0
        /\ MaxLines \in Nat /\ MaxFaults \in Nat
    BY AsyncLoggingAssumption, LogStreamAssumption
  <2>6. IsFile(logFile)
    <3>1. logFile \in Files
      BY <2>1, <2>3, <2>5 DEF Files
    <3> QED
      BY <2>4, <3>1 DEF IsFile
  <2>7. SizeOf(curBuffer) < LargeBuffer
    BY <2>2, <2>5
  <2>8. curBuffer \in Buffer /\ buffers \in Seq(Buffer) /\ buffersToWrite \in Seq(Buffer)
        /\ logFile.lines \in Buffer
    BY <2>1, <2>4, Zenon DEF Init
  <2>9. TypeOK
    <3>1. running \in BOOLEAN /\ nextBuffer \in BOOLEAN /\ newBuffer1 \in BOOLEAN
          /\ newBuffer2 \in BOOLEAN
      BY DEF Init
    <3>2. done \in 0..Len(buffersToWrite) /\ logFile.flushed \in 0..Len(logFile.lines)
          /\ logFile.written \in 0..(RollSize - 1)
          /\ logFile.count \in 0..(CheckEveryN - 1)
          /\ appended \in 0..MaxLines /\ faults \in 0..MaxFaults
      BY <2>2, <2>4, <2>5 DEF Init
    <3>3. dropped \subseteq Line /\ lost \subseteq Line
      BY DEF Init
    <3> QED
      BY <2>7, <2>8, <3>1, <3>2, <3>3 DEF TypeOK, Init
  <2> QED
    BY <2>2, <2>6, <2>9 DEF LogTypes
<1>2. LogTypes /\ [Next]_vars => LogTypes'
  <2> SUFFICES ASSUME LogTypes, [Next]_vars PROVE LogTypes'
    OBVIOUS
  <2>0. TypeOK /\ IsFile(logFile) /\ (pc # "write" => done = 0)
    BY DEF LogTypes
  <2> USE DEF front, back, file
  <2>1. CASE LogLine \/ LogFatal
    <3>1. appended' \in 0..MaxLines /\ appended' \in Line
      BY <2>0, <2>1, AsyncLoggingAssumption DEF LogLine, LogFatal, TypeOK, Line
    <3>2. PutLine(appended') /\ UNCHANGED <<running, back>>
          /\ program' \in {"running", "fatal"}
      BY <2>1 DEF LogLine, LogFatal
    <3>3. /\ buffers' \in Seq(Buffer) /\ curBuffer' \in Buffer
          /\ SizeOf(curBuffer') < LargeBuffer /\ nextBuffer' \in BOOLEAN
      BY <2>0, <3>1, <3>2, PutLineFill
    <3> QED
      BY <2>0, <3>1, <3>2, <3>3 DEF LogTypes, TypeOK
  <2>2. CASE Swap
    <3>1. <<>> \in Buffer /\ <<>> \in Seq(Buffer)
      BY EmptySeqType, Zenon DEF Buffer
    <3>2. Append(buffers, curBuffer) \in Seq(Buffer)
      BY <2>0, AppendProperties DEF TypeOK
    <3>3. curBuffer' \in Buffer /\ buffers' \in Seq(Buffer) /\ buffersToWrite' \in Seq(Buffer)
      BY <2>2, <3>1, <3>2, Zenon DEF Swap
    <3>4. SizeOf(curBuffer') = 0
      BY <2>2, SizeOfEmpty DEF Swap
    <3>5. SizeOf(curBuffer') < LargeBuffer
      BY <3>4, AsyncLoggingAssumption, LogStreamAssumption
    <3>6. done' = 0 /\ done' \in 0..Len(buffersToWrite')
      BY <2>2, <3>3, LenProperties DEF Swap
    <3>7. /\ nextBuffer' \in BOOLEAN /\ newBuffer1' \in BOOLEAN
          /\ newBuffer2' \in BOOLEAN /\ pc' = "check"
      BY <2>2 DEF Swap
    <3>8. UNCHANGED <<running, appended, file, dropped, program>>
      BY <2>2 DEF Swap
    <3> QED
      BY <2>0, <3>3, <3>5, <3>6, <3>7, <3>8 DEF LogTypes, TypeOK
  <2>3. CASE CheckBacklog
    <3>1. pc = "check" /\ done = 0 /\ pc' = "write" /\ done' = 0
          /\ UNCHANGED <<running, front, newBuffer1, newBuffer2, program>>
      BY <2>0, <2>3 DEF CheckBacklog
    <3>2. CASE Len(buffersToWrite) > MaxBuffersToWriteSize
      <4>1. Len(buffersToWrite) >= 2 /\ buffersToWrite \in Seq(Buffer)
        BY <2>0, <3>2, LenProperties, AsyncLoggingAssumption DEF TypeOK
      <4>2. buffersToWrite' \in Seq(Buffer) /\ Len(buffersToWrite') = 2
        BY <2>3, <3>2, <4>1, KeepTwo DEF CheckBacklog
      <4>3. LogFileAppend(<<Message>>)
        BY <2>3, <3>2 DEF CheckBacklog
      <4>4. <<Message>> \in Buffer
        BY AsyncLoggingAssumption DEF Buffer, Message, Line
      <4>5. /\ IsFile(logFile')
            /\ logFile'.lines \in Buffer
            /\ logFile'.flushed \in 0..Len(logFile'.lines)
            /\ logFile'.written \in 0..(RollSize - 1)
            /\ logFile'.count \in 0..(CheckEveryN - 1)
            /\ lost' \subseteq Line
            /\ faults' \in 0..MaxFaults
        BY <2>0, <4>3, <4>4, FileTypes
      <4>6. dropped' \subseteq Line
        <5>1. dropped' = dropped \union (ToSet(FlattenSeq(buffersToWrite))
                            \ ToSet(FlattenSeq(Keep(buffersToWrite))))
          BY <2>3, <3>2 DEF CheckBacklog
        <5> QED
          BY <2>0, <4>1, <5>1, DroppedType DEF TypeOK
      <4>7. done' \in 0..Len(buffersToWrite')
        BY <3>1, <4>2
      <4> QED
        BY <2>0, <3>1, <4>2, <4>5, <4>6, <4>7 DEF LogTypes, TypeOK
    <3>3. CASE ~(Len(buffersToWrite) > MaxBuffersToWriteSize)
      BY <2>0, <2>3, <3>1, <3>3 DEF CheckBacklog, LogTypes, TypeOK
    <3> QED
      BY <3>2, <3>3
  <2>4. CASE WriteBuffer
    <3>1. /\ pc = "write" /\ done < Len(buffersToWrite) /\ done' = done + 1
          /\ LogFileAppend(buffersToWrite[done + 1])
          /\ UNCHANGED <<running, front, pc, newBuffer1, newBuffer2,
                         buffersToWrite, dropped, program>>
      BY <2>4 DEF WriteBuffer
    <3>2. Len(buffersToWrite) \in Nat /\ done \in Nat
      BY <2>0, LenProperties DEF TypeOK
    <3>3. done' \in 0..Len(buffersToWrite) /\ done + 1 \in 1..Len(buffersToWrite)
      BY <3>1, <3>2
    <3>4. buffersToWrite[done + 1] \in Buffer
      BY <2>0, <3>3, ElementOfSeq DEF TypeOK
    <3>5. /\ IsFile(logFile')
          /\ logFile'.lines \in Buffer
          /\ logFile'.flushed \in 0..Len(logFile'.lines)
          /\ logFile'.written \in 0..(RollSize - 1)
          /\ logFile'.count \in 0..(CheckEveryN - 1)
          /\ lost' \subseteq Line
          /\ faults' \in 0..MaxFaults
      BY <2>0, <3>1, <3>4, FileTypes
    <3> QED
      BY <2>0, <3>1, <3>3, <3>5 DEF LogTypes, TypeOK
  <2>5. CASE Recycle
    <3>1. <<>> \in Seq(Buffer)
      BY EmptySeqType
    <3>2. buffersToWrite' \in Seq(Buffer) /\ done' = 0
      BY <2>5, <3>1, Zenon DEF Recycle
    <3>3. done' \in 0..Len(buffersToWrite')
      BY <3>2, LenProperties
    <3>4. /\ IsFile(logFile')
          /\ logFile'.lines \in Buffer
          /\ logFile'.flushed \in 0..Len(logFile'.lines)
          /\ logFile'.written \in 0..(RollSize - 1)
          /\ logFile'.count \in 0..(CheckEveryN - 1)
      BY <2>0, <2>5, FlushTypes DEF Recycle
    <3>5. newBuffer1' \in BOOLEAN /\ newBuffer2' \in BOOLEAN /\ pc' = "test"
          /\ UNCHANGED <<running, front, dropped, lost, faults, program>>
      BY <2>5 DEF Recycle
    <3> QED
      BY <2>0, <3>2, <3>3, <3>4, <3>5 DEF LogTypes, TypeOK
  <2>6. CASE TestRunning
    <3>1. /\ IsFile(logFile')
          /\ logFile'.lines \in Buffer
          /\ logFile'.flushed \in 0..Len(logFile'.lines)
          /\ logFile'.written \in 0..(RollSize - 1)
          /\ logFile'.count \in 0..(CheckEveryN - 1)
      <4>1. CASE running
        BY <2>0, <2>6, <4>1 DEF TestRunning, TypeOK
      <4>2. CASE ~running
        BY <2>0, <2>6, <4>2, FlushTypes DEF TestRunning
      <4> QED
        BY <4>1, <4>2
    <3>2. pc = "test" /\ pc' \in {"lock", "ended"}
          /\ UNCHANGED <<running, front, newBuffer1, newBuffer2, buffersToWrite,
                         done, dropped, lost, faults, program>>
      BY <2>6 DEF TestRunning
    <3> QED
      BY <2>0, <3>1, <3>2 DEF LogTypes, TypeOK
  <2>7. CASE Start \/ Open \/ Wait
    BY <2>0, <2>7 DEF Start, Open, Wait, LogTypes, TypeOK
  <2>8. CASE Abort \/ Stop \/ Joined
    BY <2>0, <2>8 DEF Abort, Stop, Joined, LogTypes, TypeOK
  <2>9. CASE Over \/ UNCHANGED vars
    BY <2>0, <2>9 DEF Over, vars, LogTypes, TypeOK
  <2> QED
    BY <2>1, <2>2, <2>3, <2>4, <2>5, <2>6, <2>7, <2>8, <2>9 DEF Next, BackStep
<1> QED
  BY <1>1, <1>2, PTL DEF Spec

\* TypeOK holds in every state of the logging backend.
THEOREM LogTypeCorrect == Spec => []TypeOK
<1>1. LogTypes => TypeOK
  BY DEF LogTypes
<1> QED
  BY <1>1, LogTypesInvariant, PTL

\* Whatever is logged, its line is legible and append() can store it.
THEOREM LogLegible == Spec => []LinesLegible
<1>1. TypeOK => LinesLegible
  <2> SUFFICES ASSUME TypeOK, NEW l \in 1..appended PROVE Fits(<<>>, l)
    BY LinesAreLegible DEF LinesLegible
  <2>1. l \in Line /\ l # Message
    BY AsyncLoggingAssumption DEF TypeOK, Line, Message
  <2> QED
    BY <2>1, EmptyFits
<1> QED
  BY <1>1, LogTypeCorrect, PTL
-----------------------------------------------------------------------------
(* The way of the lines                                                    *)

\* The lines that the backend has in hand and those that wait for it.
InHand == FlattenSeq(SubSeq(buffersToWrite, done + 1, Len(buffersToWrite)))
Waiting == FlattenSeq(buffers) \o curBuffer
GivenUp == dropped \union lost

\* What is written, in hand and waiting are the lines appended, in their
\* order, less those given up, which are no lines of the future.
InFlight ==
    /\ (Written \o InHand) \o Waiting = Without(UpTo(appended), GivenUp)
    /\ GivenUp \subseteq 0..appended

\* The lines of a state are numbers.
LEMMA PartsType ==
  ASSUME LogTypes
  PROVE  /\ Written \in Seq(Nat) /\ InHand \in Seq(Nat)
         /\ FlattenSeq(buffers) \in Seq(Nat) /\ curBuffer \in Seq(Nat)
         /\ Waiting \in Seq(Nat) /\ appended \in Nat
<1>1. \A s \in Seq(Line) : s \in Seq(Nat)
  BY AsyncLoggingAssumption DEF Line
<1>2. /\ buffers \in Seq(Seq(Line)) /\ buffersToWrite \in Seq(Seq(Line))
      /\ curBuffer \in Seq(Line) /\ logFile.lines \in Seq(Line)
      /\ done \in 0..Len(buffersToWrite) /\ appended \in Nat
  BY AsyncLoggingAssumption DEF LogTypes, TypeOK, Buffer
<1>3. Written \in Seq(Nat)
  BY <1>1, <1>2, WithoutType DEF Written
<1>4. SubSeq(buffersToWrite, done + 1, Len(buffersToWrite)) \in Seq(Seq(Line))
  BY <1>2, LenProperties, SubSeqProperties
<1>5. InHand \in Seq(Nat)
  BY <1>1, <1>4, FlattenType DEF InHand
<1>6. FlattenSeq(buffers) \in Seq(Nat) /\ curBuffer \in Seq(Nat)
  BY <1>1, <1>2, FlattenType
<1>7. Waiting \in Seq(Nat)
  BY <1>6, ConcatProperties DEF Waiting
<1> QED
  BY <1>2, <1>3, <1>5, <1>6, <1>7

\* LinesConserved is the first part of InFlight.
LEMMA ConservedInFlight ==
  ASSUME LogTypes
  PROVE  (Written \o InHand) \o Waiting = Without(UpTo(appended), GivenUp)
            <=> LinesConserved
<1>1. \A p, q, r \in Seq(Nat) : p \o q \in Seq(Nat)
                                /\ (p \o q) \o r = p \o (q \o r)
  <2> TAKE p, q, r \in Seq(Nat)
  <2>1. p \o q \in Seq(Nat)
    BY ConcatProperties
  <2>2. (p \o q) \o r = p \o (q \o r)
    BY ConcatAssoc, SMTT(30)
  <2> QED
    BY <2>1, <2>2
<1>2. Written \o InHand \in Seq(Nat)
  BY <1>1, PartsType, Zenon
<1>3. ((Written \o InHand) \o FlattenSeq(buffers)) \o curBuffer
         = (Written \o InHand) \o Waiting
  BY <1>1, <1>2, PartsType, ZenonT(40) DEF Waiting
<1> QED
  BY <1>3, Zenon DEF LinesConserved, InHand, GivenUp

\* A line is appended behind all the others.
LEMMA OneMore ==
  ASSUME NEW n \in Nat, NEW D, D \subseteq 0..n,
         NEW p \in Seq(Nat), NEW r \in Seq(Nat)
  PROVE  p \o r = Without(UpTo(n), D) =>
            p \o Append(r, n + 1) = Without(UpTo(n + 1), D)
<1>1. p \o Append(r, n + 1) = Append(p \o r, n + 1)
  OBVIOUS
<1>2. n + 1 \notin D /\ n + 1 \in Nat
  OBVIOUS
<1>3. UpTo(n) \in Seq(Nat) /\ UpTo(n + 1) = Append(UpTo(n), n + 1)
  BY UpToNext
<1>4. Without(Append(UpTo(n), n + 1), D) = Append(Without(UpTo(n), D), n + 1)
  BY <1>2, <1>3, WithoutLeft
<1> QED
  BY <1>1, <1>3, <1>4, Zenon

\* append() adds a line to those that wait.
LEMMA PutLineWaits ==
  ASSUME LogTypes, NEW line \in Line, line # Message, PutLine(line)
  PROVE  Waiting' = Append(Waiting, line)
<1>1. /\ buffers \in Seq(Seq(Line)) /\ curBuffer \in Seq(Line)
  BY DEF LogTypes, TypeOK, Buffer
<1>2. PICK f \in Seq(Line) : f = FlattenSeq(buffers)
  BY <1>1, FlattenType
<1>3. CASE Fits(curBuffer, line)
  <2>1. buffers' = buffers /\ curBuffer' = Append(curBuffer, line)
    BY <1>3 DEF PutLine, Fill
  <2>2. \A s, t \in Seq(Line) : s \o Append(t, line) = Append(s \o t, line)
    OBVIOUS
  <2>3. f \o Append(curBuffer, line) = Append(f \o curBuffer, line)
    BY <1>1, <2>2, Zenon
  <2> QED
    BY <1>2, <2>1, <2>3, Zenon DEF Waiting
<1>4. CASE ~Fits(curBuffer, line)
  <2>1. Fits(<<>>, line)
    BY EmptyFits
  <2>2. buffers' = Append(buffers, curBuffer) /\ curBuffer' = Append(<<>>, line)
    BY <1>4, <2>1, Zenon DEF PutLine, Fill
  <2>3. FlattenSeq(Append(buffers, curBuffer)) = f \o curBuffer
    BY <1>1, <1>2, FlattenAppend
  <2>4. \A s \in Seq(Line) : s \o Append(<<>>, line) = Append(s, line)
    OBVIOUS
  <2>5. f \o curBuffer \in Seq(Line)
    BY <1>1, ConcatProperties
  <2>6. (f \o curBuffer) \o Append(<<>>, line) = Append(f \o curBuffer, line)
    BY <2>4, <2>5, Zenon
  <2> QED
    BY <1>2, <2>2, <2>3, <2>6, Zenon DEF Waiting
<1> QED
  BY <1>3, <1>4

\* The message is no line of the program, and what is not a line takes none
\* away.
LEMMA NoLine ==
  ASSUME NEW n \in Nat, NEW D
  PROVE  Without(UpTo(n), D \union {Message}) = Without(UpTo(n), D)
<1>1. UpTo(n) \in Seq(1..n) /\ UpTo(n) \in Seq(Nat)
  BY UpToNext
<1>2. Without(UpTo(n), {Message}) = UpTo(n)
  <2>1. \A x \in 1..n : x \notin {Message}
    BY DEF Message
  <2> QED
    BY <1>1, <2>1, WithoutNone
<1>3. Without(Without(UpTo(n), {Message}), D) = Without(UpTo(n), {Message} \union D)
  BY <1>1, WithoutTwice
<1>4. {Message} \union D = D \union {Message}
  OBVIOUS
<1> QED
  BY <1>2, <1>3, <1>4, Zenon
\* CutOut, in the form that is used here.
LEMMA LineCut ==
  ASSUME NEW n \in Nat, NEW D, NEW p \in Seq(Nat), NEW q \in Seq(Nat),
         NEW r \in Seq(Nat), NEW E
  PROVE  E = D \union ToSet(q) /\ Cat(Cat(p, q), r) = Without(UpTo(n), D)
            => Cat(p, r) = Without(UpTo(n), E)
<1>1. (p \o q) \o r = Without(UpTo(n), D) =>
         /\ p \o r = Without(UpTo(n), D \union ToSet(q))
         /\ ToSet(p) \intersect ToSet(q) = {}
         /\ ToSet(q) \subseteq 1..n
  BY CutOut
<1> QED
  BY <1>1, Zenon DEF Cat

\* What is cut out are lines, and different ones from those before it.
LEMMA CutLines ==
  ASSUME NEW n \in Nat, NEW D, NEW p \in Seq(Nat), NEW q \in Seq(Nat),
         NEW r \in Seq(Nat), Cat(Cat(p, q), r) = Without(UpTo(n), D)
  PROVE  ToSet(p) \intersect ToSet(q) = {} /\ ToSet(q) \subseteq 1..n
<1>1. (p \o q) \o r = Without(UpTo(n), D) =>
         /\ ToSet(p) \intersect ToSet(q) = {}
         /\ ToSet(q) \subseteq 1..n
  BY CutOut
<1> QED
  BY <1>1, Zenon DEF Cat

\* What is left of a buffer comes first among what is still to be written.
LEMMA CatRegroup ==
  ASSUME NEW w \in Seq(Nat), NEW b1 \in Seq(Nat), NEW b2 \in Seq(Nat),
         NEW h \in Seq(Nat), NEW r \in Seq(Nat)
  PROVE  Cat(Cat(w, Cat(Cat(b1, b2), h)), r)
            = Cat(Cat(Cat(w, b1), b2), Cat(h, r))
  BY CatRules

\* The file after a write, without the messages.
LEMMA WrittenNext ==
  ASSUME LogTypes, NEW b \in Buffer, NEW n \in 0..Len(b), Takes(b, n)
  PROVE  Written' = Written \o Without(SubSeq(b, 1, n), {Message})
<1>1. logFile.lines \in Seq(Line) /\ b \in Seq(Line)
  BY DEF LogTypes, TypeOK, Buffer
<1>2. SubSeq(b, 1, n) \in Seq(Line)
  BY <1>1, InTwoParts
<1>3. Without(logFile.lines \o SubSeq(b, 1, n), {Message})
        = Without(logFile.lines, {Message}) \o Without(SubSeq(b, 1, n), {Message})
  <2>1. \A s, t \in Seq(Line) : Without(s \o t, {Message})
                = Without(s, {Message}) \o Without(t, {Message})
    BY WithoutParts, Zenon
  <2> QED
    BY <1>1, <1>2, <2>1, Zenon
<1>4. logFile'.lines = logFile.lines \o SubSeq(b, 1, n)
  BY DEF Takes
<1> QED
  BY <1>3, <1>4, Zenon DEF Written
\* In terms of Cat.
LEMMA InFlightCat ==
  InFlight <=> /\ Cat(Cat(Written, InHand), Waiting)
                    = Without(UpTo(appended), GivenUp)
               /\ GivenUp \subseteq 0..appended
  BY Zenon DEF InFlight, Cat

\* What the backend has in hand, when there is something.
LEMMA HandFirst ==
  ASSUME LogTypes, done < Len(buffersToWrite)
  PROVE  /\ buffersToWrite[done + 1] \in Buffer
         /\ FlattenSeq(SubSeq(buffersToWrite, done + 2, Len(buffersToWrite)))
               \in Seq(Nat)
         /\ InHand = buffersToWrite[done + 1] \o
               FlattenSeq(SubSeq(buffersToWrite, done + 2, Len(buffersToWrite)))
<1>1. /\ buffersToWrite \in Seq(Seq(Line)) /\ Len(buffersToWrite) \in Nat
      /\ done \in Nat
  BY LenProperties DEF LogTypes, TypeOK, Buffer
<1>2. done + 1 \in 1..Len(buffersToWrite) /\ (done + 1) + 1 = done + 2
  BY <1>1
<1>3. PICK rest :
         rest = SubSeq(buffersToWrite, done + 2, Len(buffersToWrite))
  OBVIOUS
<1>4. PICK b : b = buffersToWrite[done + 1]
  OBVIOUS
<1>5. /\ SubSeq(buffersToWrite, done + 1, Len(buffersToWrite)) = <<b>> \o rest
      /\ b \in Seq(Line) /\ rest \in Seq(Seq(Line))
  BY <1>1, <1>2, <1>3, <1>4, FromHere
<1>6. <<b>> \in Seq(Seq(Line))
  BY <1>5
<1>7. FlattenSeq(<<b>> \o rest) = FlattenSeq(<<b>>) \o FlattenSeq(rest)
  BY <1>5, <1>6, FlattenConcat
<1>8. FlattenSeq(<<b>>) = b
  BY <1>5, FlattenOne
<1>9. FlattenSeq(rest) \in Seq(Line)
  BY <1>5, FlattenType
<1>10. \A s \in Seq(Line) : s \in Seq(Nat)
  BY AsyncLoggingAssumption DEF Line
<1>11. InHand = b \o FlattenSeq(rest)
  BY <1>5, <1>7, <1>8, Zenon DEF InHand
<1> QED
  BY <1>3, <1>4, <1>5, <1>9, <1>10, <1>11, Zenon DEF Buffer

\* When everything was given to the file there is nothing in hand.
LEMMA HandEmpty ==
  ASSUME LogTypes, done = Len(buffersToWrite)
  PROVE  InHand = <<>>
<1>1. buffersToWrite \in Seq(Buffer) /\ Len(buffersToWrite) \in Nat
  BY LenProperties DEF LogTypes, TypeOK
<1>2. SubSeq(buffersToWrite, Len(buffersToWrite) + 1, Len(buffersToWrite)) = <<>>
  BY <1>1
<1> QED
  BY <1>2, FlattenEmpty, Zenon DEF InHand

\* The swap takes over what waits.
LEMMA SwapTakes ==
  ASSUME LogTypes, LogTypes', Swap, buffersToWrite = <<>>
  PROVE  InHand = <<>> /\ InHand' = Waiting /\ Waiting' = <<>>
<1>1. done = 0 /\ done = Len(buffersToWrite)
  BY DEF LogTypes, Swap
<1>2. InHand = <<>>
  BY <1>1, HandEmpty
<1>3. /\ buffers \in Seq(Seq(Line)) /\ curBuffer \in Seq(Line)
  BY DEF LogTypes, TypeOK, Buffer
<1>4. PICK t : t = Append(buffers, curBuffer)
  OBVIOUS
<1>5. t \in Seq(Seq(Line)) /\ Len(t) \in Nat
  BY <1>3, <1>4, AppendProperties, LenProperties
<1>6. FlattenSeq(t) = FlattenSeq(buffers) \o curBuffer
  BY <1>3, <1>4, FlattenAppend
<1>7. SubSeq(t, 0 + 1, Len(t)) = t
  BY <1>5
<1>8. buffersToWrite' = t /\ done' = 0
  BY <1>4 DEF Swap
<1>9. InHand' = Waiting
  BY <1>6, <1>7, <1>8, Zenon DEF InHand, Waiting
<1>10. FlattenSeq(<<>>) \o <<>> = <<>>
  BY FlattenEmpty
<1>11. buffers' = <<>> /\ curBuffer' = <<>>
  BY DEF Swap
<1>12. Waiting' = <<>>
  BY <1>10, <1>11, Zenon DEF Waiting
<1> QED
  BY <1>2, <1>9, <1>12

\* Cutting a backlog leaves the first two buffers in hand.
LEMMA BacklogCut ==
  ASSUME LogTypes, pc = "check", Len(buffersToWrite) >= 2
  PROVE  \E k, c \in Seq(Nat) :
            /\ InHand = Cat(k, c)
            /\ FlattenSeq(buffersToWrite) = Cat(k, c)
            /\ FlattenSeq(Keep(buffersToWrite)) = k
            /\ FlattenSeq(SubSeq(Keep(buffersToWrite), 1, 2)) = k
<1>1. /\ buffersToWrite \in Seq(Seq(Line)) /\ Len(buffersToWrite) \in Nat
      /\ done = 0
  BY LenProperties DEF LogTypes, TypeOK, Buffer
<1>2. PICK B : B = buffersToWrite
  OBVIOUS
<1>3. PICK u : u = SubSeq(B, 1, 2)
  OBVIOUS
<1>4. PICK v : v = SubSeq(B, 2 + 1, Len(B))
  OBVIOUS
<1>5. 2 \in 0..Len(B)
  BY <1>1, <1>2
<1>6. B = u \o v /\ u \in Seq(Seq(Line)) /\ v \in Seq(Seq(Line))
  BY <1>1, <1>2, <1>3, <1>4, <1>5, InTwoParts
<1>7. Len(u) = 2 /\ SubSeq(u, 1, 2) = u
  BY <1>1, <1>2, <1>3, <1>5, <1>6, SubSeqProperties
<1>8. FlattenSeq(u \o v) = FlattenSeq(u) \o FlattenSeq(v)
  BY <1>6, FlattenConcat
<1>9. SubSeq(B, 0 + 1, Len(B)) = B
  BY <1>1, <1>2
<1>10. \A s \in Seq(Line) : s \in Seq(Nat)
  BY AsyncLoggingAssumption DEF Line
<1>11. FlattenSeq(u) \in Seq(Nat) /\ FlattenSeq(v) \in Seq(Nat)
  BY <1>6, <1>10, FlattenType
<1>12. InHand = FlattenSeq(B)
  BY <1>1, <1>2, <1>9, Zenon DEF InHand
<1>13. FlattenSeq(B) = Cat(FlattenSeq(u), FlattenSeq(v))
  BY <1>6, <1>8, Zenon DEF Cat
<1>14. Keep(buffersToWrite) = u
  BY <1>2, <1>3, Zenon DEF Keep
<1> QED
  BY <1>2, <1>7, <1>11, <1>12, <1>13, <1>14, Zenon
\* The steps that move lines keep them.
LEMMA AppendConserves ==
  ASSUME LogTypes, InFlight, LogLine \/ LogFatal
  PROVE  InFlight'
<1>1. PICK n : n = appended
  OBVIOUS
<1>2. n \in Nat /\ appended' = n + 1 /\ n + 1 \in Line /\ n + 1 # Message
  BY <1>1, AsyncLoggingAssumption
  DEF LogLine, LogFatal, LogTypes, TypeOK, Line, Message
<1>3. PutLine(appended') /\ UNCHANGED <<buffersToWrite, done, logFile, dropped, lost>>
  BY DEF LogLine, LogFatal, back, file
<1>4. Waiting' = Append(Waiting, n + 1)
  BY <1>2, <1>3, PutLineWaits
<1>5. Written' = Written /\ InHand' = InHand /\ GivenUp' = GivenUp
  BY <1>3 DEF Written, InHand, GivenUp
<1>6. PICK p \in Seq(Nat) : p = Written \o InHand
  BY PartsType, ConcatProperties
<1>7. PICK r \in Seq(Nat) : r = Waiting
  BY PartsType
<1>8. PICK D : D = GivenUp
  OBVIOUS
<1>9. D \subseteq 0..n
  BY <1>1, <1>8 DEF InFlight
<1>10. p \o r = Without(UpTo(n), D) =>
          p \o Append(r, n + 1) = Without(UpTo(n + 1), D)
  BY <1>2, <1>9, OneMore
<1>11. p \o r = Without(UpTo(n), D)
  BY <1>1, <1>6, <1>7, <1>8, Zenon DEF InFlight
<1>12. (Written' \o InHand') \o Waiting' = Without(UpTo(appended'), GivenUp')
  BY <1>2, <1>4, <1>5, <1>6, <1>7, <1>8, <1>10, <1>11, Zenon
<1>13. GivenUp' \subseteq 0..appended'
  BY <1>2, <1>5, <1>8, <1>9
<1> QED
  BY <1>12, <1>13, Zenon DEF InFlight

\* The swap moves the waiting lines to the back end, in their order.
LEMMA SwapConserves ==
  ASSUME LogTypes, LogTypes', SpareInv, InFlight, Swap
  PROVE  InFlight'
<1>1. InHand = <<>> /\ InHand' = Waiting /\ Waiting' = <<>>
  BY SwapTakes DEF SpareInv, Swap
<1>2. Written' = Written /\ GivenUp' = GivenUp /\ appended' = appended
  BY DEF Swap, Written, GivenUp, file
<1>3. PICK w \in Seq(Nat) : w = Written
  BY PartsType
<1>4. PICK r \in Seq(Nat) : r = Waiting
  BY PartsType
<1>5. Cat(Cat(w, <<>>), r) = Cat(w, r) /\ Cat(Cat(w, r), <<>>) = Cat(w, r)
  <2>1. Cat(w, <<>>) = w
    BY CatRules
  <2>2. Cat(w, r) \in Seq(Nat)
    BY CatRules
  <2>3. Cat(Cat(w, r), <<>>) = Cat(w, r)
    BY <2>2, CatRules
  <2> QED
    BY <2>1, <2>3, Zenon
<1>6. Cat(Cat(Written, InHand), Waiting) = Without(UpTo(appended), GivenUp)
      /\ GivenUp \subseteq 0..appended
  BY InFlightCat
<1>7. Cat(Cat(Written', InHand'), Waiting') = Without(UpTo(appended'), GivenUp')
      /\ GivenUp' \subseteq 0..appended'
  BY <1>1, <1>2, <1>3, <1>4, <1>5, <1>6, Zenon
<1> QED
  BY <1>7, Zenon DEF InFlight, Cat

\* CheckBacklog gives up the buffers from the third on, and counts their
\* lines as given up.
LEMMA BacklogConserves ==
  ASSUME LogTypes, InFlight, CheckBacklog
  PROVE  InFlight'
<1>1. CASE ~(Len(buffersToWrite) > MaxBuffersToWriteSize)
  BY <1>1 DEF CheckBacklog, InFlight, Written, InHand, Waiting, GivenUp,
     file, front
<1>2. CASE Len(buffersToWrite) > MaxBuffersToWriteSize
  <2>1. buffersToWrite \in Seq(Buffer) /\ Len(buffersToWrite) >= 2 /\ pc = "check"
    BY <1>2, LenProperties, AsyncLoggingAssumption
    DEF LogTypes, TypeOK, CheckBacklog
  <2>2. PICK k, c \in Seq(Nat) :
           /\ InHand = Cat(k, c)
           /\ FlattenSeq(buffersToWrite) = Cat(k, c)
           /\ FlattenSeq(Keep(buffersToWrite)) = k
           /\ FlattenSeq(SubSeq(Keep(buffersToWrite), 1, 2)) = k
    BY <2>1, BacklogCut
  <2>3. Len(Keep(buffersToWrite)) = 2
    BY <2>1, KeepTwo
  <2>4. buffersToWrite' = Keep(buffersToWrite) /\ done' = 0
        /\ UNCHANGED <<buffers, curBuffer, appended>>
    BY <1>2 DEF CheckBacklog, LogTypes, front
  <2>5. InHand' = k
    <3>1. 0 + 1 = 1
      OBVIOUS
    <3> QED
      BY <2>2, <2>3, <2>4, <3>1, Zenon DEF InHand
  <2>6. <<Message>> \in Buffer /\ Len(<<Message>>) = 1
    BY AsyncLoggingAssumption DEF Buffer, Message, Line
  <2>7. PICK m \in 0..Len(<<Message>>) : Takes(<<Message>>, m)
    BY <1>2, <2>6, FileTakes DEF CheckBacklog, LogTypes, TypeOK
  <2>8. Written' = Written
    <3>1. SubSeq(<<Message>>, 1, m) \in Seq({Message})
      BY <2>6, <2>7, InTwoParts
    <3>2. Without(SubSeq(<<Message>>, 1, m), {Message}) = <<>>
      BY <3>1, WithoutAll
    <3>3. Written' = Written \o Without(SubSeq(<<Message>>, 1, m), {Message})
      BY <2>6, <2>7, WrittenNext
    <3>4. Written \o <<>> = Written
      BY PartsType
    <3> QED
      BY <3>2, <3>3, <3>4, Zenon
  <2>9. PICK X : X = ToSet(SubSeq(<<Message>>, m + 1, Len(<<Message>>)))
    OBVIOUS
  <2>10. X \subseteq {Message} /\ lost' = lost \union X
    <3>1. SubSeq(<<Message>>, m + 1, Len(<<Message>>)) \in Seq({Message})
      BY <2>6, <2>7, InTwoParts
    <3>2. X \subseteq {Message}
      BY <2>9, <3>1, ToSetType
    <3> QED
      BY <2>7, <2>9, <3>2 DEF Takes
  <2>11. PICK w \in Seq(Nat) : w = Written
    BY PartsType
  <2>12. PICK r \in Seq(Nat) : r = Waiting
    BY PartsType
  <2>13. PICK n \in Nat : n = appended
    BY PartsType
  <2>14. PICK D : D = GivenUp
    OBVIOUS
  <2>15. PICK p \in Seq(Nat) : p = Cat(w, k)
    BY CatRules
  <2>16. Cat(Cat(w, Cat(k, c)), r) = Cat(Cat(p, c), r)
    BY <2>15, CatRules
  <2>17. Cat(Cat(p, c), r) = Without(UpTo(n), D) /\ D \subseteq 0..n
    BY <2>2, <2>11, <2>12, <2>13, <2>14, <2>16, InFlightCat, Zenon
  <2>18. PICK E : E = D \union ToSet(c)
    OBVIOUS
  <2>19. Cat(p, r) = Without(UpTo(n), E)
    BY <2>17, <2>18, LineCut
  <2>20. ToSet(p) \intersect ToSet(c) = {} /\ ToSet(c) \subseteq 1..n
    BY <2>17, CutLines
  <2>21. ToSet(p) = ToSet(w) \union ToSet(k)
    BY <2>15, ToSetConcat DEF Cat
  <2>22. ToSet(Cat(k, c)) = ToSet(k) \union ToSet(c)
    BY ToSetConcat DEF Cat
  <2>23. dropped' = dropped \union (ToSet(Cat(k, c)) \ ToSet(k))
    <3>1. dropped' = dropped \union
            (ToSet(FlattenSeq(buffersToWrite))
               \ ToSet(FlattenSeq(Keep(buffersToWrite))))
      BY <1>2 DEF CheckBacklog
    <3> QED
      BY <2>2, <3>1, Zenon
  <2>24. dropped' = dropped \union ToSet(c)
    BY <2>20, <2>21, <2>22, <2>23, Zenon
  <2>25. GivenUp' = E \/ GivenUp' = E \union {Message}
    <3>1. GivenUp' = E \union X
      BY <2>10, <2>14, <2>18, <2>24, Zenon DEF GivenUp
    <3>2. X = {} \/ X = {Message}
      BY <2>10
    <3> QED
      BY <3>1, <3>2
  <2>26. Without(UpTo(n), GivenUp') = Without(UpTo(n), E)
    <3>1. Without(UpTo(n), E \union {Message}) = Without(UpTo(n), E)
      BY NoLine
    <3> QED
      BY <2>25, <3>1, Zenon
  <2>27. GivenUp' \subseteq 0..n
    <3>1. E \subseteq 0..n
      <4>1. D \subseteq 0..n /\ ToSet(c) \subseteq 1..n
        BY <2>17, <2>20, Zenon
      <4>2. 1..n \subseteq 0..n
        OBVIOUS
      <4> QED
        BY <2>18, <4>1, <4>2, Zenon
    <3>2. Message \in 0..n
      BY DEF Message
    <3> QED
      BY <2>25, <3>1, <3>2
  <2>28. Waiting' = r /\ appended' = n
    BY <2>4, <2>12, <2>13 DEF Waiting
  <2>29. (Written' \o InHand') \o Waiting' = Without(UpTo(appended'), GivenUp')
    BY <2>5, <2>8, <2>11, <2>15, <2>19, <2>26, <2>28, Zenon DEF Cat
  <2> QED
    BY <2>27, <2>28, <2>29, Zenon DEF InFlight
<1> QED
  BY <1>1, <1>2

\* A buffer written moves its lines from the back end to the file; those of
\* a failed write are given up.
LEMMA WriteConserves ==
  ASSUME LogTypes, InFlight, WriteBuffer
  PROVE  InFlight'
<1>1. PICK b : b = buffersToWrite[done + 1]
  OBVIOUS
<1>2. PICK h \in Seq(Nat) :
         h = FlattenSeq(SubSeq(buffersToWrite, done + 2, Len(buffersToWrite)))
  BY HandFirst DEF WriteBuffer
<1>3. b \in Buffer /\ InHand = b \o h
  <2>1. /\ buffersToWrite[done + 1] \in Buffer
        /\ InHand = buffersToWrite[done + 1] \o
             FlattenSeq(SubSeq(buffersToWrite, done + 2, Len(buffersToWrite)))
    BY HandFirst DEF WriteBuffer
  <2> QED
    BY <1>1, <1>2, <2>1, Zenon
<1>4. InHand' = h
  <2>1. done' = done + 1 /\ buffersToWrite' = buffersToWrite
    BY DEF WriteBuffer
  <2>2. (done + 1) + 1 = done + 2
    BY DEF LogTypes, TypeOK
  <2> QED
    BY <1>2, <2>1, <2>2, Zenon DEF InHand
<1>5. PICK m \in 0..Len(b) : Takes(b, m)
  BY <1>1, <1>3, FileTakes DEF WriteBuffer, LogTypes, TypeOK
<1>6. PICK b1, b2 \in Seq(Nat) : b1 = SubSeq(b, 1, m) /\ b2 = SubSeq(b, m + 1, Len(b))
                                  /\ b = b1 \o b2
  <2>1. b \in Seq(Nat)
    BY <1>3, AsyncLoggingAssumption DEF Buffer, Line
  <2>2. /\ b = SubSeq(b, 1, m) \o SubSeq(b, m + 1, Len(b))
        /\ SubSeq(b, 1, m) \in Seq(Nat) /\ SubSeq(b, m + 1, Len(b)) \in Seq(Nat)
    BY <1>5, <2>1, InTwoParts
  <2> QED
    BY <2>2, Zenon
<1>7. Written' = Cat(Written, Without(b1, {Message}))
  <2>1. Written' = Written \o Without(SubSeq(b, 1, m), {Message})
    BY <1>3, <1>5, WrittenNext
  <2> QED
    BY <1>6, <2>1, Zenon DEF Cat
<1>8. GivenUp' = GivenUp \union ToSet(b2)
  <2>1. lost' = lost \union ToSet(SubSeq(b, m + 1, Len(b)))
    BY <1>5, Zenon DEF Takes
  <2>2. dropped' = dropped
    BY DEF WriteBuffer
  <2> QED
    BY <1>6, <2>1, <2>2, Zenon DEF GivenUp
<1>9. PICK w \in Seq(Nat) : w = Written
  BY PartsType
<1>10. PICK r \in Seq(Nat) : r = Waiting
  BY PartsType
<1>11. PICK n \in Nat : n = appended
  BY PartsType
<1>12. PICK D : D = GivenUp
  OBVIOUS
<1>13. Cat(Cat(w, Cat(Cat(b1, b2), h)), r) = Without(UpTo(n), D)
       /\ D \subseteq 0..n
  BY <1>3, <1>6, <1>9, <1>10, <1>11, <1>12, Zenon DEF InFlight, Cat
<1>14. /\ Cat(Cat(Cat(w, Without(b1, {Message})), h), r)
             = Without(UpTo(n), D \union ToSet(b2))
       /\ ToSet(b2) \subseteq 1..n
  <2>0. Cat(Cat(w, Cat(Cat(b1, b2), h)), r)
           = Cat(Cat(Cat(w, b1), b2), Cat(h, r))
    BY CatRegroup
  <2>1. PICK E : E = D \union ToSet(b2)
    OBVIOUS
  <2>2. PICK p \in Seq(Nat) : p = Cat(w, b1)
    BY CatRules
  <2>3. PICK x \in Seq(Nat) : x = Cat(h, r)
    BY CatRules
  <2>4. PICK y \in Seq(Nat) : y = Cat(b2, x)
    BY CatRules
  <2>5. /\ Cat(Cat(w, Cat(Cat(b1, b2), h)), r) = Cat(Cat(p, b2), x)
        /\ Cat(Cat(p, b2), x) = Cat(Cat(w, b1), y)
        /\ Cat(Cat(p, h), r) = Cat(p, x)
    <3>2. Cat(Cat(p, b2), x) = Cat(p, Cat(b2, x))
      BY CatRules
    <3>3. Cat(Cat(p, h), r) = Cat(p, Cat(h, r))
      BY CatRules
    <3> QED
      BY <2>0, <2>2, <2>3, <2>4, <3>2, <3>3, Zenon
  <2>6. Cat(Cat(p, b2), x) = Without(UpTo(n), D)
        /\ Cat(Cat(w, b1), y) = Without(UpTo(n), D)
    BY <1>13, <2>5, Zenon
  <2>7. Cat(p, x) = Without(UpTo(n), E)
    BY <2>1, <2>6, LineCut
  <2>8. ToSet(b2) \subseteq 1..n /\ ToSet(b1) \subseteq 1..n
    BY <2>6, CutLines
  <2>9. Without(b1, {Message}) = b1
    <3>1. ToSet(b1) \intersect {Message} = {}
      BY <2>8 DEF Message
    <3> QED
      BY <3>1, WithoutDisjoint
  <2> QED
    BY <2>1, <2>2, <2>5, <2>7, <2>8, <2>9, Zenon
<1>15. Waiting' = r /\ appended' = n
  BY <1>10, <1>11 DEF Waiting, WriteBuffer, front
<1>16. (Written' \o InHand') \o Waiting' = Without(UpTo(appended'), GivenUp')
  BY <1>4, <1>7, <1>8, <1>9, <1>12, <1>14, <1>15, Zenon DEF Cat
<1>17. GivenUp' \subseteq 0..appended'
  <2>1. D \subseteq 0..n /\ ToSet(b2) \subseteq 1..n
    BY <1>13, <1>14, Zenon
  <2>2. 1..n \subseteq 0..n
    OBVIOUS
  <2> QED
    BY <1>8, <1>12, <1>15, <2>1, <2>2, Zenon
<1> QED
  BY <1>16, <1>17, Zenon DEF InFlight

\* When the buffers are recycled, each of their lines has been written.
LEMMA RecycleConserves ==
  ASSUME LogTypes, LogTypes', InFlight, Recycle
  PROVE  InFlight'
<1>1. InHand = <<>>
  BY HandEmpty DEF Recycle
<1>2. done' = Len(buffersToWrite')
  BY DEF Recycle
<1>3. InHand' = <<>>
  <2>1. SubSeq(<<>>, 0 + 1, Len(<<>>)) = <<>>
    OBVIOUS
  <2>2. buffersToWrite' = <<>> /\ done' = 0
    BY DEF Recycle
  <2> QED
    BY <2>1, <2>2, FlattenEmpty, Zenon DEF InHand
<1>4. Written' = Written
  <2>1. logFile'.lines = logFile.lines
    BY FlushFile DEF Recycle, LogTypes
  <2> QED
    BY <2>1 DEF Written
<1>5. Waiting' = Waiting /\ GivenUp' = GivenUp /\ appended' = appended
  BY DEF Recycle, Waiting, GivenUp, front
<1> QED
  BY <1>1, <1>3, <1>4, <1>5, Zenon DEF InFlight

\* The last flush leaves the lines of the file alone.
LEMMA TestConserves ==
  ASSUME LogTypes, InFlight, TestRunning
  PROVE  InFlight'
<1>1. logFile'.lines = logFile.lines
  BY FlushFile DEF TestRunning, LogTypes
<1>2. Written' = Written
  BY <1>1 DEF Written
<1>3. Waiting' = Waiting /\ GivenUp' = GivenUp /\ appended' = appended
      /\ InHand' = InHand
  BY DEF TestRunning, Waiting, GivenUp, InHand, front
<1> QED
  BY <1>2, <1>3, Zenon DEF InFlight

\* A step that touches neither the buffers nor the file.
LEMMA StillInFlight ==
  ASSUME InFlight, UNCHANGED <<logFile, buffersToWrite, done, front, dropped, lost>>
  PROVE  InFlight'
<1>1. Written' = Written /\ InHand' = InHand
  BY DEF Written, InHand
<1>2. Waiting' = Waiting /\ GivenUp' = GivenUp /\ appended' = appended
  BY DEF Waiting, GivenUp, front
<1> QED
  BY <1>1, <1>2, Zenon DEF InFlight

\* The lines in the file, in the backend's hands, in the queue and in the
\* current buffer are at all times the lines appended, in their order, less
\* those given up.
THEOREM InFlightInvariant == Spec => []InFlight
<1>1. Init => InFlight
  <2> SUFFICES ASSUME Init PROVE InFlight
    OBVIOUS
  <2>1. Without(<<>>, {Message}) = <<>>
    BY WithoutEmpty
  <2>2. logFile.lines = <<>> /\ buffersToWrite = <<>> /\ done = 0
        /\ buffers = <<>> /\ curBuffer = <<>> /\ appended = 0
        /\ dropped = {} /\ lost = {}
    BY DEF Init
  <2>3. Written = <<>>
    BY <2>1, <2>2, Zenon DEF Written
  <2>4. SubSeq(<<>>, 0 + 1, Len(<<>>)) = <<>>
    OBVIOUS
  <2>5. InHand = <<>>
    BY <2>2, <2>4, FlattenEmpty, Zenon DEF InHand
  <2>6. <<>> \o <<>> = <<>>
    OBVIOUS
  <2>7. Waiting = <<>>
    BY <2>2, <2>6, FlattenEmpty, Zenon DEF Waiting
  <2>8. UpTo(0) = <<>>
    BY UpToNext
  <2>9. Without(<<>>, GivenUp) = <<>>
    BY WithoutEmpty
  <2>10. (Written \o InHand) \o Waiting = Without(UpTo(appended), GivenUp)
    BY <2>2, <2>3, <2>5, <2>6, <2>7, <2>8, <2>9, Zenon
  <2>11. GivenUp \subseteq 0..appended
    BY <2>2 DEF GivenUp
  <2> QED
    BY <2>10, <2>11, Zenon DEF InFlight
<1>2. LogTypes /\ LogTypes' /\ SpareInv /\ InFlight /\ [Next]_vars => InFlight'
  <2> SUFFICES ASSUME LogTypes, LogTypes', SpareInv, InFlight, [Next]_vars
               PROVE  InFlight'
    OBVIOUS
  <2>1. CASE LogLine \/ LogFatal
    BY <2>1, AppendConserves, Zenon
  <2>2. CASE Swap
    BY <2>2, SwapConserves, Zenon
  <2>3. CASE CheckBacklog
    BY <2>3, BacklogConserves, Zenon
  <2>4. CASE WriteBuffer
    BY <2>4, WriteConserves, Zenon
  <2>5. CASE Recycle
    BY <2>5, RecycleConserves, Zenon
  <2>6. CASE TestRunning
    BY <2>6, TestConserves, Zenon
  <2>7. CASE Abort \/ Start \/ Stop \/ Joined \/ Open \/ Wait \/ Over
             \/ UNCHANGED vars
    <3>1. UNCHANGED <<logFile, buffersToWrite, done, front, dropped, lost>>
      BY <2>7 DEF Abort, Start, Stop, Joined, Open, Wait, Over, vars, front,
         back, file
    <3> QED
      BY <3>1, StillInFlight, Zenon
  <2> QED
    BY <2>1, <2>2, <2>3, <2>4, <2>5, <2>6, <2>7 DEF Next, BackStep
<1> QED
  BY <1>1, <1>2, LogTypesInvariant, SpareInvariant, PTL DEF Spec

\* No line is lost, duplicated or overtaken between append() and the file.
THEOREM LogConserves == Spec => []LinesConserved
<1>1. LogTypes /\ InFlight => LinesConserved
  <2> SUFFICES ASSUME LogTypes, InFlight PROVE LinesConserved
    OBVIOUS
  <2>1. (Written \o InHand) \o Waiting = Without(UpTo(appended), GivenUp)
    BY Zenon DEF InFlight
  <2> QED
    BY <2>1, ConservedInFlight, Zenon
<1> QED
  BY <1>1, LogTypesInvariant, InFlightInvariant, PTL

-----------------------------------------------------------------------------
(* stop()                                                                  *)

\* When the backend thread has ended there is nothing in its hands, and all
\* that it wrote is on disk.
EndInv ==
    /\ pc = "ended" => /\ buffersToWrite = <<>>
                       /\ logFile.flushed = Len(logFile.lines)
    /\ program = "ended" => pc = "ended"

\* EndInv is an invariant.
LEMMA EndInvariant == Spec => []EndInv
<1>1. Init => EndInv
  BY DEF Init, EndInv
<1>2. LogTypes /\ SpareInv /\ EndInv /\ [Next]_vars => EndInv'
  <2> SUFFICES ASSUME LogTypes, SpareInv, EndInv, [Next]_vars PROVE EndInv'
    OBVIOUS
  <2>1. CASE TestRunning
    <3>1. buffersToWrite' = <<>>
      BY <2>1 DEF TestRunning, SpareInv
    <3>2. ~running => /\ logFile'.lines = logFile.lines
                      /\ logFile'.flushed = Len(logFile.lines)
      BY <2>1, FlushFile DEF TestRunning, LogTypes
    <3>3. pc' = "ended" => ~running
      BY <2>1 DEF TestRunning
    <3>4. program' # "ended"
      BY <2>1 DEF TestRunning, Alive
    <3> QED
      BY <3>1, <3>2, <3>3, <3>4 DEF EndInv
  <2>2. CASE Swap \/ CheckBacklog \/ WriteBuffer \/ Recycle \/ Open \/ Wait
    BY <2>2 DEF Swap, CheckBacklog, WriteBuffer, Recycle, Open, Wait, Alive,
       EndInv
  <2>3. CASE LogLine \/ LogFatal \/ Abort \/ Start \/ Stop \/ Joined \/ Over
             \/ UNCHANGED vars
    BY <2>3 DEF LogLine, LogFatal, Abort, Start, Stop, Joined, Over, vars,
       back, file, EndInv
  <2> QED
    BY <2>1, <2>2, <2>3 DEF Next, BackStep
<1> QED
  BY <1>1, <1>2, LogTypesInvariant, SpareInvariant, PTL DEF Spec

\* stop() returns only when every line that the backend took over, and was
\* not given up, is on disk.
THEOREM StopKeepsLines == Spec => []StopWritesSwapped
<1>1. LogTypes /\ InFlight /\ EndInv => StopWritesSwapped
  <2> SUFFICES ASSUME LogTypes, InFlight, EndInv, program = "ended"
               PROVE  1..appended \subseteq OnDisk \union dropped \union lost
                         \union ToSet(FlattenSeq(buffers) \o curBuffer)
    BY DEF StopWritesSwapped
  <2>1. /\ buffersToWrite = <<>> /\ done = 0
        /\ logFile.flushed = Len(logFile.lines)
    BY DEF EndInv, LogTypes
  <2>2. InHand = <<>>
    <3>1. done = Len(buffersToWrite)
      BY <2>1
    <3> QED
      BY <3>1, HandEmpty
  <2>3. logFile.lines \in Seq(Line) /\ Len(logFile.lines) \in Nat
    BY LenProperties DEF LogTypes, TypeOK, Buffer
  <2>4. SubSeq(logFile.lines, 1, Len(logFile.lines)) = logFile.lines
    BY <2>3
  <2>5. OnDisk = ToSet(logFile.lines)
    BY <2>1, <2>4, Zenon DEF OnDisk
  <2>6. ToSet(Written) \subseteq OnDisk
    <3>1. ToSet(Written) = ToSet(logFile.lines) \ {Message}
      BY <2>3, ToSetWithout DEF Written
    <3> QED
      BY <2>5, <3>1, Zenon
  <2>7. PICK w \in Seq(Nat) : w = Written
    BY PartsType
  <2>8. PICK r \in Seq(Nat) : r = Waiting
    BY PartsType
  <2>9. PICK n \in Nat : n = appended
    BY PartsType
  <2>10. (w \o <<>>) \o r = w \o r
    OBVIOUS
  <2>11. ToSet(w \o r) = ToSet(w) \union ToSet(r)
    BY ToSetConcat
  <2>12. UpTo(n) \in Seq(Nat) /\ ToSet(UpTo(n)) = 1..n
    BY UpToNext, ToSetUpTo
  <2>13. ToSet(Without(UpTo(n), GivenUp)) = ToSet(UpTo(n)) \ GivenUp
    BY <2>12, ToSetWithout
  <2>14. w \o r = Without(UpTo(n), GivenUp)
    BY <2>2, <2>7, <2>8, <2>9, <2>10, Zenon DEF InFlight
  <2>15. 1..n \subseteq ToSet(w) \union ToSet(r) \union GivenUp
    BY <2>11, <2>12, <2>13, <2>14, Zenon
  <2> QED
    BY <2>6, <2>7, <2>8, <2>9, <2>15, Zenon DEF GivenUp, Waiting
<1> QED
  BY <1>1, LogTypesInvariant, InFlightInvariant, EndInvariant, PTL
=============================================================================
