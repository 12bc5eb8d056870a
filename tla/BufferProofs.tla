---------------------------- MODULE BufferProofs ----------------------------
(***************************************************************************)
(* Proofs about Buffer, for any sizes and any number of bytes, as long as  *)
(* makeSpace need not move bytes (~Compaction) and no int64 is read: where *)
(* it must, or one is, the code does not do what is proved here.           *)
(***************************************************************************)
EXTENDS Buffer, SequenceTheorems, TLAPS

-----------------------------------------------------------------------------
(* Vectors                                                                 *)

\* The values of a byte.
ByteSet == 0..MaxBytes

\* A function on 1..n is a sequence of length n.
LEMMA FunctionIsSeq ==
  ASSUME NEW S, NEW n \in Nat, NEW f \in [1..n -> S]
  PROVE  f \in Seq(S) /\ Len(f) = n
<1>1. f \in Seq(S)
  BY SeqDef
<1>2. Len(f) \in Nat /\ 1..Len(f) = 1..n
  BY <1>1, LenProperties
<1>3. Len(f) = n
  <2>1. Len(f) > 0 => Len(f) \in 1..n
    BY <1>2
  <2>2. n > 0 => n \in 1..Len(f)
    BY <1>2
  <2> QED
    BY <1>2, <2>1, <2>2
<1> QED
  BY <1>1, <1>3

\* A copy that ends within the vector puts the bytes there and keeps the
\* others.
LEMMA CopyToBytes ==
  ASSUME NEW store \in Seq(ByteSet), NEW data \in Seq(ByteSet), NEW at \in Nat,
         at + Len(data) <= Len(store)
  PROVE  LET s == CopyTo(store, at, data)
         IN  /\ s \in Seq(ByteSet) /\ Len(s) = Len(store)
             /\ \A i \in 1..at : s[i] = store[i]
             /\ \A i \in 1..Len(data) : s[at + i] = data[i]
             /\ \A i \in (at + Len(data) + 1)..Len(store) : s[i] = store[i]
<1> DEFINE s == CopyTo(store, at, data)
<1>1. /\ DOMAIN store = 1..Len(store) /\ Len(store) \in Nat
      /\ DOMAIN data = 1..Len(data) /\ Len(data) \in Nat
      /\ \A i \in 1..Len(store) : store[i] \in ByteSet
      /\ \A i \in 1..Len(data) : data[i] \in ByteSet
  BY LenProperties, ElementOfSeq
<1>2. /\ s \in [1..Len(store) -> ByteSet]
      /\ \A i \in 1..Len(store) :
            s[i] = IF i - at \in 1..Len(data) THEN data[i - at] ELSE store[i]
  BY <1>1 DEF CopyTo
<1> HIDE DEF s
<1>3. s \in Seq(ByteSet) /\ Len(s) = Len(store)
  BY <1>1, <1>2, FunctionIsSeq
<1>4. \A i \in 1..at : s[i] = store[i]
  BY <1>1, <1>2
<1>5. \A i \in 1..Len(data) : s[at + i] = data[i]
  BY <1>1, <1>2
<1>6. \A i \in (at + Len(data) + 1)..Len(store) : s[i] = store[i]
  BY <1>1, <1>2
<1> QED
  BY <1>3, <1>4, <1>5, <1>6 DEF s

\* A vector that grows keeps its bytes.
LEMMA ResizeBytes ==
  ASSUME NEW store \in Seq(ByteSet), NEW size \in Nat, Len(store) <= size
  PROVE  LET s == Resize(store, size)
         IN  /\ s \in Seq(ByteSet) /\ Len(s) = size
             /\ \A i \in 1..Len(store) : s[i] = store[i]
<1> DEFINE s == Resize(store, size)
<1>1. /\ DOMAIN store = 1..Len(store) /\ Len(store) \in Nat
      /\ \A i \in 1..Len(store) : store[i] \in ByteSet
  BY LenProperties, ElementOfSeq
<1>2. 0 \in ByteSet
  BY BufferAssumption DEF ByteSet
<1>3. /\ s \in [1..size -> ByteSet]
      /\ \A i \in 1..Len(store) : s[i] = store[i]
  BY <1>1, <1>2 DEF Resize
<1> HIDE DEF s
<1> QED
  BY <1>3, FunctionIsSeq DEF s

-----------------------------------------------------------------------------
(* Buffers                                                                 *)

\* A Buffer whose indices are in order and within the vector; the vector has
\* room for the prependable part that retrieveAll() leaves.
Records == [buffer : Seq(ByteSet), readIndex : Nat, writeIndex : Nat]
Good(b) ==
    /\ b \in Records
    /\ b.readIndex <= b.writeIndex
    /\ b.writeIndex <= Len(b.buffer)
    /\ CheapPrepend <= Len(b.buffer)

\* The readable bytes, one by one.
LEMMA ContentBytes ==
  ASSUME NEW b, Good(b)
  PROVE  /\ Content(b) \in Seq(ByteSet)
         /\ Len(Content(b)) = Readable(b) /\ Readable(b) \in Nat
         /\ Len(b.buffer) \in Nat
         /\ \A i \in 1..Readable(b) : Content(b)[i] = b.buffer[b.readIndex + i]
<1>1. /\ b.buffer \in Seq(ByteSet) /\ b.readIndex \in Nat
      /\ b.writeIndex \in Nat /\ b.readIndex <= b.writeIndex
      /\ b.writeIndex <= Len(b.buffer)
  BY DEF Good, Records
<1>2. /\ Len(b.buffer) \in Nat
      /\ \A i \in 1..Len(b.buffer) : b.buffer[i] \in ByteSet
  BY <1>1, LenProperties, ElementOfSeq
<1>3. \A i \in (b.readIndex + 1)..b.writeIndex : b.buffer[i] \in ByteSet
  BY <1>1, <1>2
<1>4. /\ Content(b) \in Seq(ByteSet)
      /\ Len(Content(b)) = IF b.readIndex + 1 <= b.writeIndex
                           THEN b.writeIndex - (b.readIndex + 1) + 1 ELSE 0
      /\ \A i \in 1..(b.writeIndex - (b.readIndex + 1) + 1) :
            Content(b)[i] = b.buffer[(b.readIndex + 1) + i - 1]
  <2>1. b.readIndex + 1 \in Int /\ b.writeIndex \in Int
    BY <1>1
  <2> QED
    BY <1>3, <2>1, SubSeqProperties DEF Content
<1>5. Readable(b) \in Nat /\ Readable(b) = b.writeIndex - (b.readIndex + 1) + 1
  BY <1>1 DEF Readable
<1>6. Len(Content(b)) = Readable(b)
  BY <1>1, <1>4, <1>5
<1>7. \A i \in 1..Readable(b) : (b.readIndex + 1) + i - 1 = b.readIndex + i
  BY <1>1, <1>5
<1> QED
  BY <1>2, <1>4, <1>5, <1>6, <1>7

\* Bytes copied behind the readable ones join them.
LEMMA WriteBehindFields ==
  ASSUME NEW b, Good(b), NEW data \in Seq(ByteSet), Len(data) <= Writeable(b),
         NEW e \in Records, e.buffer = CopyTo(b.buffer, b.writeIndex, data),
         e.readIndex = b.readIndex, e.writeIndex = b.writeIndex + Len(data)
  PROVE  /\ Good(e)
         /\ Content(e) = Content(b) \o data
         /\ Readable(e) = Readable(b) + Len(data)
<1> DEFINE s == CopyTo(b.buffer, b.writeIndex, data)
<1>1. /\ b.buffer \in Seq(ByteSet) /\ b.readIndex \in Nat
      /\ b.writeIndex \in Nat /\ b.readIndex <= b.writeIndex
      /\ b.writeIndex <= Len(b.buffer) /\ CheapPrepend <= Len(b.buffer)
      /\ Len(b.buffer) \in Nat /\ Len(data) \in Nat
      /\ b.writeIndex + Len(data) <= Len(b.buffer)
  BY LenProperties DEF Good, Records, Writeable
<1>2. /\ s \in Seq(ByteSet) /\ Len(s) = Len(b.buffer)
      /\ \A i \in 1..b.writeIndex : s[i] = b.buffer[i]
      /\ \A i \in 1..Len(data) : s[b.writeIndex + i] = data[i]
  BY <1>1, CopyToBytes
<1>3. e.buffer = s
  OBVIOUS
<1> HIDE DEF s
<1>4. Good(e)
  BY <1>1, <1>2, <1>3 DEF Good
<1>5. Readable(e) = Readable(b) + Len(data) /\ Readable(b) \in Nat
  BY <1>1, <1>3 DEF Readable
<1>6. Content(e) = Content(b) \o data
  <2>1. /\ Content(e) \in Seq(ByteSet) /\ Len(Content(e)) = Readable(e)
        /\ \A i \in 1..Readable(e) : Content(e)[i] = s[b.readIndex + i]
    BY <1>3, <1>4, ContentBytes
  <2>2. /\ Content(b) \in Seq(ByteSet) /\ Len(Content(b)) = Readable(b)
        /\ \A i \in 1..Readable(b) : Content(b)[i] = b.buffer[b.readIndex + i]
    BY ContentBytes
  <2>3. /\ Content(b) \o data \in Seq(ByteSet)
        /\ Len(Content(b) \o data) = Readable(b) + Len(data)
        /\ \A i \in 1..(Readable(b) + Len(data)) : (Content(b) \o data)[i] =
              IF i <= Readable(b) THEN Content(b)[i] ELSE data[i - Readable(b)]
    <3>1. /\ Content(b) \o data \in Seq(ByteSet)
          /\ Len(Content(b) \o data) = Len(Content(b)) + Len(data)
          /\ \A i \in 1..(Len(Content(b)) + Len(data)) :
                (Content(b) \o data)[i] =
                   IF i <= Len(Content(b)) THEN Content(b)[i]
                   ELSE data[i - Len(Content(b))]
      BY <2>2, ConcatProperties
    <3> QED
      BY <2>2, <3>1
  <2>4. ASSUME NEW i \in 1..Readable(e)
        PROVE  Content(e)[i] = (Content(b) \o data)[i]
    <3>1. CASE i <= Readable(b)
      <4>1. i \in 1..Readable(b) /\ b.readIndex + i \in 1..b.writeIndex
        BY <1>1, <1>5, <3>1 DEF Readable
      <4> QED
        BY <1>2, <1>5, <2>1, <2>2, <2>3, <3>1, <4>1
    <3>2. CASE i > Readable(b)
      <4>1. /\ i - Readable(b) \in 1..Len(data) /\ ~(i <= Readable(b))
            /\ b.readIndex + i = b.writeIndex + (i - Readable(b))
        BY <1>1, <1>5, <3>2, SMTT(30) DEF Readable
      <4> QED
        BY <1>2, <1>5, <2>1, <2>3, <4>1
    <3>3. i <= Readable(b) \/ i > Readable(b)
      BY <1>1, <1>5
    <3> QED
      BY <3>1, <3>2, <3>3, Zenon
  <2> QED
    BY <1>5, <2>1, <2>3, <2>4, SeqEqual
<1> QED
  BY <1>4, <1>5, <1>6

\* The same for the record that append() and readFd leave.
LEMMA WriteBehind ==
  ASSUME NEW b, Good(b), NEW data \in Seq(ByteSet), Len(data) <= Writeable(b)
  PROVE  LET e == [b EXCEPT !.buffer = CopyTo(@, b.writeIndex, data),
                            !.writeIndex = @ + Len(data)]
         IN  /\ Good(e)
             /\ Content(e) = Content(b) \o data
             /\ Readable(e) = Readable(b) + Len(data)
<1> DEFINE s == CopyTo(b.buffer, b.writeIndex, data)
           e == [b EXCEPT !.buffer = s, !.writeIndex = @ + Len(data)]
<1>1. /\ b \in Records /\ b.buffer \in Seq(ByteSet) /\ b.writeIndex \in Nat
      /\ Len(b.buffer) \in Nat /\ Len(data) \in Nat
      /\ b.writeIndex + Len(data) <= Len(b.buffer)
      /\ b.writeIndex + Len(data) \in Nat
  BY LenProperties DEF Good, Records, Writeable
<1>2. s \in Seq(ByteSet)
  BY <1>1, CopyToBytes
<1> HIDE DEF s
<1>3. /\ e.buffer = s /\ e.readIndex = b.readIndex
      /\ e.writeIndex = b.writeIndex + Len(data)
  BY <1>1 DEF Records
<1>4. e \in Records
  BY <1>1, <1>2 DEF Records
<1> HIDE DEF e
<1>5. e.buffer = CopyTo(b.buffer, b.writeIndex, data)
  BY <1>3 DEF s
<1>6. /\ Good(e) /\ Content(e) = Content(b) \o data
      /\ Readable(e) = Readable(b) + Len(data)
  BY <1>3, <1>4, <1>5, WriteBehindFields
<1> QED
  BY <1>6 DEF e, s

\* Two Buffers with the same indices and the same bytes up to writeIndex_.
LEMMA SameContent ==
  ASSUME NEW b, Good(b), NEW e, Good(e),
         e.readIndex = b.readIndex, e.writeIndex = b.writeIndex,
         \A i \in 1..b.writeIndex : e.buffer[i] = b.buffer[i]
  PROVE  Content(e) = Content(b) /\ Readable(e) = Readable(b)
<1>1. Readable(e) = Readable(b)
  BY DEF Readable
<1>2. /\ Content(e) \in Seq(ByteSet) /\ Len(Content(e)) = Readable(b)
      /\ \A i \in 1..Readable(b) : Content(e)[i] = e.buffer[b.readIndex + i]
  BY <1>1, ContentBytes
<1>3. /\ Content(b) \in Seq(ByteSet) /\ Len(Content(b)) = Readable(b)
      /\ \A i \in 1..Readable(b) : Content(b)[i] = b.buffer[b.readIndex + i]
  BY ContentBytes
<1>4. \A i \in 1..Readable(b) : b.readIndex + i \in 1..b.writeIndex
  BY DEF Good, Records, Readable
<1>5. \A i \in 1..Readable(b) : Content(e)[i] = Content(b)[i]
  BY <1>2, <1>3, <1>4
<1> QED
  BY <1>1, <1>2, <1>3, <1>5, SeqEqual

\* ensureWritableBytes() makes room and keeps the readable bytes.
LEMMA EnsureKeeps ==
  ASSUME NEW b, Good(b), NEW len \in Nat, ~MustMove(b, len)
  PROVE  LET e == EnsureWritableBytes(b, len)
         IN  /\ Good(e) /\ len <= Writeable(e)
             /\ Content(e) = Content(b) /\ Readable(e) = Readable(b)
<1>1. /\ b \in Records /\ b.buffer \in Seq(ByteSet) /\ b.readIndex \in Nat
      /\ b.writeIndex \in Nat /\ b.readIndex <= b.writeIndex
      /\ b.writeIndex <= Len(b.buffer) /\ CheapPrepend <= Len(b.buffer)
      /\ Len(b.buffer) \in Nat /\ CheapPrepend \in Nat
  BY LenProperties, BufferAssumption DEF Good, Records
<1>2. CASE ~(Writeable(b) < len)
  BY <1>1, <1>2 DEF EnsureWritableBytes, Writeable
<1>3. CASE Writeable(b) < len
  <2> DEFINE s == Resize(b.buffer, b.writeIndex + len)
             e == [b EXCEPT !.buffer = s]
  <2>1. EnsureWritableBytes(b, len) = e
    BY <1>3 DEF EnsureWritableBytes, MakeSpace
  <2>2. b.writeIndex + len \in Nat /\ Len(b.buffer) <= b.writeIndex + len
    BY <1>1, <1>3 DEF Writeable
  <2>3. /\ s \in Seq(ByteSet) /\ Len(s) = b.writeIndex + len
        /\ \A i \in 1..Len(b.buffer) : s[i] = b.buffer[i]
    BY <1>1, <2>2, ResizeBytes
  <2> HIDE DEF s
  <2>4. /\ e \in Records /\ e.buffer = s /\ e.readIndex = b.readIndex
        /\ e.writeIndex = b.writeIndex
    BY <1>1, <2>3 DEF Records
  <2> HIDE DEF e
  <2>5. Good(e) /\ len <= Writeable(e)
    BY <1>1, <2>2, <2>3, <2>4 DEF Good, Writeable
  <2>6. \A i \in 1..b.writeIndex : e.buffer[i] = b.buffer[i]
    BY <1>1, <2>3, <2>4
  <2>7. Content(e) = Content(b) /\ Readable(e) = Readable(b)
    BY <2>4, <2>5, <2>6, SameContent
  <2> QED
    BY <2>1, <2>5, <2>7
<1> QED
  BY <1>2, <1>3

\* append() puts its bytes behind the readable ones.
LEMMA AppendBehind ==
  ASSUME NEW b, Good(b), NEW data \in Seq(ByteSet), ~MustMove(b, Len(data))
  PROVE  LET e == AppendTo(b, data)
         IN  /\ Good(e) /\ Content(e) = Content(b) \o data
             /\ Readable(e) = Readable(b) + Len(data)
<1> DEFINE m == EnsureWritableBytes(b, Len(data))
<1>1. Len(data) \in Nat
  BY LenProperties
<1>2. /\ Good(m) /\ Len(data) <= Writeable(m)
      /\ Content(m) = Content(b) /\ Readable(m) = Readable(b)
  BY <1>1, EnsureKeeps
<1>3. AppendTo(b, data) = [m EXCEPT !.buffer = CopyTo(@, m.writeIndex, data),
                                    !.writeIndex = @ + Len(data)]
  BY DEF AppendTo
<1> HIDE DEF m
<1> QED
  BY <1>2, <1>3, WriteBehind

\* prepend() puts its bytes before the readable ones.
LEMMA PrependBefore ==
  ASSUME NEW b, Good(b), NEW data \in Seq(ByteSet), Len(data) <= Prependable(b)
  PROVE  LET e == [b EXCEPT
                      !.buffer = CopyTo(@, b.readIndex - Len(data), data),
                      !.readIndex = @ - Len(data)]
         IN  /\ Good(e) /\ Content(e) = data \o Content(b)
             /\ Readable(e) = Readable(b) + Len(data)
<1> DEFINE at == b.readIndex - Len(data)
           s == CopyTo(b.buffer, at, data)
           e == [b EXCEPT !.buffer = s, !.readIndex = at]
<1>1. /\ b \in Records /\ b.buffer \in Seq(ByteSet) /\ b.readIndex \in Nat
      /\ b.writeIndex \in Nat /\ b.readIndex <= b.writeIndex
      /\ b.writeIndex <= Len(b.buffer) /\ CheapPrepend <= Len(b.buffer)
      /\ Len(b.buffer) \in Nat /\ Len(data) \in Nat
      /\ at \in Nat /\ at + Len(data) = b.readIndex
  BY LenProperties DEF Good, Records, Prependable
<1> HIDE DEF at
<1>2. at + Len(data) <= Len(b.buffer)
  BY <1>1
<1>3. /\ s \in Seq(ByteSet) /\ Len(s) = Len(b.buffer)
      /\ \A i \in 1..Len(data) : s[at + i] = data[i]
      /\ \A i \in (at + Len(data) + 1)..Len(b.buffer) : s[i] = b.buffer[i]
  BY <1>1, <1>2, CopyToBytes
<1> HIDE DEF s
<1>4. /\ e \in Records /\ e.buffer = s /\ e.readIndex = at
      /\ e.writeIndex = b.writeIndex
  BY <1>1, <1>3 DEF Records
<1> HIDE DEF e
<1>5. Good(e)
  BY <1>1, <1>3, <1>4 DEF Good
<1>6. Readable(e) = Readable(b) + Len(data) /\ Readable(b) \in Nat
  BY <1>1, <1>4 DEF Readable
<1>7. Content(e) = data \o Content(b)
  <2>1. /\ Content(e) \in Seq(ByteSet) /\ Len(Content(e)) = Readable(e)
        /\ \A i \in 1..Readable(e) : Content(e)[i] = s[at + i]
    BY <1>4, <1>5, ContentBytes
  <2>2. /\ Content(b) \in Seq(ByteSet) /\ Len(Content(b)) = Readable(b)
        /\ \A i \in 1..Readable(b) : Content(b)[i] = b.buffer[b.readIndex + i]
    BY ContentBytes
  <2>3. /\ data \o Content(b) \in Seq(ByteSet)
        /\ Len(data \o Content(b)) = Len(data) + Len(Content(b))
        /\ \A i \in 1..(Len(data) + Len(Content(b))) :
              (data \o Content(b))[i] =
                 IF i <= Len(data) THEN data[i] ELSE Content(b)[i - Len(data)]
    BY <2>2, ConcatProperties
  <2>4. ASSUME NEW i \in 1..Readable(e)
        PROVE  Content(e)[i] = (data \o Content(b))[i]
    <3>1. CASE i <= Len(data)
      <4>1. i \in 1..Len(data) /\ i \in 1..(Len(data) + Len(Content(b)))
        BY <1>1, <1>6, <2>2, <3>1
      <4>2. Content(e)[i] = data[i]
        BY <1>3, <2>1, <4>1
      <4>3. (data \o Content(b))[i] = data[i]
        BY <2>3, <3>1, <4>1
      <4> QED
        BY <4>2, <4>3, Zenon
    <3>2. CASE i > Len(data)
      <4>1. /\ i - Len(data) \in 1..Readable(b) /\ ~(i <= Len(data))
            /\ at + i = b.readIndex + (i - Len(data))
            /\ at + i \in (at + Len(data) + 1)..Len(b.buffer)
        <5>1. Readable(b) = b.writeIndex - b.readIndex
          BY DEF Readable
        <5>2. i \in Nat /\ i <= Readable(b) + Len(data)
          BY <1>1, <1>6
        <5>3. i - Len(data) \in 1..Readable(b) /\ ~(i <= Len(data))
          BY <1>1, <1>6, <3>2, <5>2
        <5>4. at + i = b.readIndex + (i - Len(data))
          BY <1>1, <5>2
        <5>5. at + i \in (at + Len(data) + 1)..Len(b.buffer)
          BY <1>1, <1>6, <3>2, <5>1, <5>2
        <5> QED
          BY <5>3, <5>4, <5>5
      <4>2. Content(e)[i] = b.buffer[b.readIndex + (i - Len(data))]
        BY <1>3, <2>1, <4>1
      <4>3. (data \o Content(b))[i] = Content(b)[i - Len(data)]
        BY <1>1, <1>6, <2>2, <2>3, <4>1
      <4> QED
        BY <2>2, <4>1, <4>2, <4>3
    <3>3. i <= Len(data) \/ i > Len(data)
      BY <1>1, <1>6
    <3> QED
      BY <3>1, <3>2, <3>3, Zenon
  <2>5. Len(Content(e)) = Len(data \o Content(b))
    BY <1>1, <1>6, <2>1, <2>2, <2>3
  <2> QED
    BY <2>1, <2>3, <2>4, <2>5, SeqEqual
<1> QED
  BY <1>5, <1>6, <1>7 DEF e, s, at

\* retrieve(len) takes the first bytes; when none is left the indices go back.
LEMMA RetrieveTakes ==
  ASSUME NEW b, Good(b), NEW n \in 1..Readable(b)
  PROVE  LET e == RetrieveFrom(b, n)
         IN  /\ Good(e)
             /\ Content(e) = SubSeq(Content(b), n + 1, Len(Content(b)))
<1>1. /\ b \in Records /\ b.buffer \in Seq(ByteSet) /\ b.readIndex \in Nat
      /\ b.writeIndex \in Nat /\ b.readIndex <= b.writeIndex
      /\ b.writeIndex <= Len(b.buffer) /\ CheapPrepend <= Len(b.buffer)
      /\ Len(b.buffer) \in Nat /\ CheapPrepend \in Nat
      /\ Readable(b) = b.writeIndex - b.readIndex
  BY LenProperties, BufferAssumption DEF Good, Records, Readable
<1>2. /\ Content(b) \in Seq(ByteSet) /\ Len(Content(b)) = Readable(b)
      /\ Readable(b) \in Nat
      /\ \A i \in 1..Readable(b) : Content(b)[i] = b.buffer[b.readIndex + i]
  BY ContentBytes
<1>3. /\ SubSeq(Content(b), n + 1, Readable(b)) \in Seq(ByteSet)
      /\ Len(SubSeq(Content(b), n + 1, Readable(b))) = Readable(b) - n
      /\ \A i \in 1..(Readable(b) - n) :
            SubSeq(Content(b), n + 1, Readable(b))[i] = Content(b)[n + i]
  <2>1. \A i \in (n + 1)..Readable(b) : Content(b)[i] \in ByteSet
    BY <1>2, ElementOfSeq
  <2>2. n + 1 \in Int /\ Readable(b) \in Int
    BY <1>2
  <2>3. /\ SubSeq(Content(b), n + 1, Readable(b)) \in Seq(ByteSet)
        /\ Len(SubSeq(Content(b), n + 1, Readable(b))) =
              IF n + 1 <= Readable(b) THEN Readable(b) - (n + 1) + 1 ELSE 0
        /\ \A i \in 1..(Readable(b) - (n + 1) + 1) :
              SubSeq(Content(b), n + 1, Readable(b))[i]
                 = Content(b)[(n + 1) + i - 1]
    BY <2>1, <2>2, SubSeqProperties
  <2>4. /\ Readable(b) - (n + 1) + 1 = Readable(b) - n
        /\ \A i \in 1..(Readable(b) - n) : (n + 1) + i - 1 = n + i
    BY <1>2
  <2>5. (IF n + 1 <= Readable(b) THEN Readable(b) - (n + 1) + 1 ELSE 0)
           = Readable(b) - n
    BY <1>2
  <2> QED
    BY <2>3, <2>4, <2>5
<1> DEFINE e == RetrieveFrom(b, n)
<1>4. CASE n < Readable(b)
  <2>1. /\ e \in Records /\ e.buffer = b.buffer
        /\ e.readIndex = b.readIndex + n /\ e.writeIndex = b.writeIndex
    <3>1. e = [b EXCEPT !.readIndex = @ + n] /\ b.readIndex + n \in Nat
      BY <1>1, <1>4 DEF RetrieveFrom
    <3> QED
      BY <1>1, <3>1 DEF Records
  <2> HIDE DEF e
  <2>2. Good(e) /\ Readable(e) = Readable(b) - n
    BY <1>1, <1>2, <1>4, <2>1 DEF Good, Readable
  <2>3. /\ Content(e) \in Seq(ByteSet) /\ Len(Content(e)) = Readable(e)
        /\ \A i \in 1..Readable(e) :
              Content(e)[i] = b.buffer[b.readIndex + n + i]
    BY <2>1, <2>2, ContentBytes
  <2>4. \A i \in 1..(Readable(b) - n) :
           /\ n + i \in 1..Readable(b)
           /\ b.readIndex + (n + i) = b.readIndex + n + i
    BY <1>1, <1>2
  <2>5. \A i \in 1..(Readable(b) - n) :
           Content(e)[i] = SubSeq(Content(b), n + 1, Readable(b))[i]
    BY <1>2, <1>3, <2>2, <2>3, <2>4
  <2>6. Content(e) = SubSeq(Content(b), n + 1, Readable(b))
    BY <1>3, <2>2, <2>3, <2>5, SeqEqual
  <2> QED
    BY <1>2, <2>2, <2>6 DEF e
<1>5. CASE n = Readable(b)
  <2>1. /\ e \in Records /\ e.buffer = b.buffer
        /\ e.readIndex = CheapPrepend /\ e.writeIndex = CheapPrepend
    <3>1. e = [b EXCEPT !.readIndex = CheapPrepend,
                        !.writeIndex = CheapPrepend]
      BY <1>2, <1>5 DEF RetrieveFrom
    <3> QED
      BY <1>1, <3>1 DEF Records
  <2> HIDE DEF e
  <2>2. Good(e)
    BY <1>1, <2>1 DEF Good
  <2>3. Content(e) = <<>>
    BY <1>1, <2>1, SubSeqEmpty DEF Content
  <2>4. SubSeq(Content(b), n + 1, Readable(b)) = <<>>
    BY <1>2, <1>5, SubSeqEmpty
  <2> QED
    BY <1>2, <2>2, <2>3, <2>4 DEF e
<1> QED
  BY <1>2, <1>4, <1>5

\* unWrites(len) takes the last bytes back.
LEMMA UnWritesTakes ==
  ASSUME NEW b, Good(b), NEW n \in 1..Readable(b)
  PROVE  LET e == [b EXCEPT !.writeIndex = @ - n]
         IN  /\ Good(e)
             /\ Content(e) = SubSeq(Content(b), 1, Len(Content(b)) - n)
<1> DEFINE e == [b EXCEPT !.writeIndex = @ - n]
           t == SubSeq(Content(b), 1, Readable(b) - n)
<1>1. /\ b \in Records /\ b.buffer \in Seq(ByteSet) /\ b.readIndex \in Nat
      /\ b.writeIndex \in Nat /\ b.readIndex <= b.writeIndex
      /\ b.writeIndex <= Len(b.buffer) /\ CheapPrepend <= Len(b.buffer)
      /\ Len(b.buffer) \in Nat /\ Readable(b) = b.writeIndex - b.readIndex
  BY LenProperties DEF Good, Records, Readable
<1>2. /\ Content(b) \in Seq(ByteSet) /\ Len(Content(b)) = Readable(b)
      /\ Readable(b) \in Nat
      /\ \A i \in 1..Readable(b) : Content(b)[i] = b.buffer[b.readIndex + i]
  BY ContentBytes
<1>3. b.writeIndex - n \in Nat
  BY <1>1, <1>2
<1>4. /\ e \in Records /\ e.buffer = b.buffer
      /\ e.readIndex = b.readIndex /\ e.writeIndex = b.writeIndex - n
  BY <1>1, <1>3 DEF Records
<1> HIDE DEF e
<1>5. Good(e) /\ Readable(e) = Readable(b) - n
  BY <1>1, <1>2, <1>3, <1>4 DEF Good, Readable
<1>6. /\ Content(e) \in Seq(ByteSet) /\ Len(Content(e)) = Readable(e)
      /\ \A i \in 1..Readable(e) : Content(e)[i] = b.buffer[b.readIndex + i]
  BY <1>4, <1>5, ContentBytes
<1>7. /\ t \in Seq(ByteSet) /\ Len(t) = Readable(b) - n
      /\ \A i \in 1..(Readable(b) - n) : t[i] = Content(b)[i]
  <2>1. \A i \in 1..(Readable(b) - n) : Content(b)[i] \in ByteSet
    BY <1>2, ElementOfSeq
  <2>2. 1 \in Int /\ Readable(b) - n \in Int
    BY <1>2
  <2>3. /\ t \in Seq(ByteSet)
        /\ Len(t) = IF 1 <= Readable(b) - n THEN Readable(b) - n - 1 + 1 ELSE 0
        /\ \A i \in 1..(Readable(b) - n - 1 + 1) :
              t[i] = Content(b)[1 + i - 1]
    BY <2>1, <2>2, SubSeqProperties
  <2> HIDE DEF t
  <2>4. /\ Readable(b) - n - 1 + 1 = Readable(b) - n
        /\ \A i \in 1..(Readable(b) - n) : 1 + i - 1 = i
        /\ ~(1 <= Readable(b) - n) => Readable(b) - n = 0
    BY <1>2
  <2> QED
    BY <2>3, <2>4
<1> HIDE DEF t
<1>8. \A i \in 1..(Readable(b) - n) :
         i \in 1..Readable(b) /\ i \in 1..Readable(e)
  BY <1>2, <1>5
<1>9. Content(e) = t
  BY <1>2, <1>5, <1>6, <1>7, <1>8, SeqEqual
<1> QED
  BY <1>2, <1>5, <1>9 DEF e, t

\* The bytes that come in are bytes.
LEMMA BytesAreBytes ==
  ASSUME NEW n \in Nat, fresh \in 1..(MaxBytes + 1), Comes(n)
  PROVE  Bytes(n) \in Seq(ByteSet) /\ Len(Bytes(n)) = n
<1>1. Bytes(n) \in [1..n -> ByteSet]
  BY BufferAssumption DEF Bytes, ByteSet, Comes
<1> QED
  BY <1>1, FunctionIsSeq

\* What readv puts into the vector, when it fills it, is the part that fits.
LEMMA CopyFits ==
  ASSUME NEW store \in Seq(ByteSet), NEW data \in Seq(ByteSet),
         NEW at \in 0..Len(store), Len(store) - at <= Len(data)
  PROVE  LET fits == Len(store) - at
         IN  CopyTo(store, at, data)
                = CopyTo(store, at, SubSeq(data, 1, fits))
<1> DEFINE fits == Len(store) - at
           t == SubSeq(data, 1, fits)
<1>1. /\ DOMAIN store = 1..Len(store) /\ Len(store) \in Nat
      /\ DOMAIN data = 1..Len(data) /\ Len(data) \in Nat
      /\ \A i \in 1..Len(data) : data[i] \in ByteSet
  BY LenProperties, ElementOfSeq
<1>2. fits \in Nat /\ fits <= Len(data) /\ at \in Nat
  BY <1>1
<1>3. /\ t \in Seq(ByteSet) /\ Len(t) = fits
      /\ \A i \in 1..fits : t[i] = data[i]
  <2> HIDE DEF fits
  <2>1. \A i \in 1..fits : data[i] \in ByteSet
    BY <1>1, <1>2
  <2>2. /\ t \in Seq(ByteSet)
        /\ Len(t) = IF 1 <= fits THEN fits - 1 + 1 ELSE 0
        /\ \A i \in 1..(fits - 1 + 1) : t[i] = data[1 + i - 1]
    BY <1>2, <2>1, SubSeqProperties
  <2> HIDE DEF t
  <2> QED
    BY <1>2, <2>2
<1>4. DOMAIN t = 1..fits
  BY <1>3, LenProperties
<1> HIDE DEF t
<1>5. \A i \in 1..Len(store) :
         (IF i - at \in 1..Len(data) THEN data[i - at] ELSE store[i])
            = IF i - at \in 1..fits THEN t[i - at] ELSE store[i]
  <2> TAKE i \in 1..Len(store)
  <2>1. i - at \in 1..Len(data) <=> i - at \in 1..fits
    BY <1>1, <1>2
  <2> HIDE DEF fits
  <2> QED
    BY <1>3, <2>1
<1>6. CopyTo(store, at, data) = CopyTo(store, at, t)
  <2> HIDE DEF fits
  <2> QED
    BY <1>1, <1>4, <1>5 DEF CopyTo
<1> QED
  BY <1>6 DEF t

\* A write after another one: the bytes follow one another.
LEMMA WriteInTwoParts ==
  ASSUME NEW b, Good(b), NEW t \in Seq(ByteSet), NEW rest \in Seq(ByteSet),
         NEW full, Good(full), Content(full) = Content(b) \o t,
         ~MustMove(full, Len(rest))
  PROVE  LET e == AppendTo(full, rest)
         IN  Good(e) /\ Content(e) = Content(b) \o (t \o rest)
<1>1. /\ Good(AppendTo(full, rest))
      /\ Content(AppendTo(full, rest)) = Content(full) \o rest
  BY AppendBehind
<1>2. Content(b) \in Seq(ByteSet)
  BY ContentBytes
<1>3. (Content(b) \o t) \o rest = Content(b) \o (t \o rest)
  BY <1>2, ConcatAssociative
<1> QED
  BY <1>1, <1>3

\* What a sequence's two parts are.
LEMMA SplitAt ==
  ASSUME NEW S, NEW data \in Seq(S), NEW fits \in 0..Len(data)
  PROVE  LET t == SubSeq(data, 1, fits)
             rest == SubSeq(data, fits + 1, Len(data))
         IN  /\ t \in Seq(S) /\ Len(t) = fits
             /\ rest \in Seq(S) /\ Len(rest) = Len(data) - fits
             /\ t \o rest = data
<1>1. Len(data) \in Nat /\ fits \in Nat /\ fits <= Len(data)
  BY LenProperties
<1>2. \A i \in 1..Len(data) : data[i] \in S
  BY ElementOfSeq
<1>3. /\ SubSeq(data, 1, fits) \in Seq(S)
      /\ Len(SubSeq(data, 1, fits)) = fits
  <2>1. \A i \in 1..fits : data[i] \in S
    BY <1>1, <1>2
  <2>2. /\ SubSeq(data, 1, fits) \in Seq(S)
        /\ Len(SubSeq(data, 1, fits)) = IF 1 <= fits THEN fits - 1 + 1 ELSE 0
    BY <1>1, <2>1, SubSeqProperties
  <2> QED
    BY <1>1, <2>2
<1>4. /\ SubSeq(data, fits + 1, Len(data)) \in Seq(S)
      /\ Len(SubSeq(data, fits + 1, Len(data))) = Len(data) - fits
  <2>1. \A i \in (fits + 1)..Len(data) : data[i] \in S
    BY <1>1, <1>2
  <2>2. fits + 1 \in Int /\ Len(data) \in Int
    BY <1>1
  <2>3. /\ SubSeq(data, fits + 1, Len(data)) \in Seq(S)
        /\ Len(SubSeq(data, fits + 1, Len(data))) =
              IF fits + 1 <= Len(data) THEN Len(data) - (fits + 1) + 1 ELSE 0
    BY <2>1, <2>2, SubSeqProperties
  <2>4. (IF fits + 1 <= Len(data) THEN Len(data) - (fits + 1) + 1 ELSE 0)
           = Len(data) - fits
    BY <1>1
  <2> QED
    BY <2>3, <2>4
<1>5. SubSeq(data, 1, fits) \o SubSeq(data, fits + 1, Len(data)) = data
  <2>1. /\ 1 \in 1..(Len(data) + 1) /\ fits \in (1 - 1)..Len(data)
        /\ Len(data) \in fits..Len(data)
    BY <1>1
  <2> QED
    BY <2>1, ConcatAdjacentSubSeq, SubSeqFull
<1> QED
  BY <1>3, <1>4, <1>5

\* readFd, when more comes than fits.
LEMMA ReadFdOverflows ==
  ASSUME NEW b, Good(b), NEW data \in Seq(ByteSet), Writeable(b) <= Len(data),
         NEW full, full = [b EXCEPT !.buffer = CopyTo(@, b.writeIndex, data),
                                    !.writeIndex = Len(b.buffer)],
         ~MustMove(full, Len(data) - Writeable(b))
  PROVE  LET e == AppendTo(full, SubSeq(data, Writeable(b) + 1, Len(data)))
         IN  Good(e) /\ Content(e) = Content(b) \o data
<1>1. /\ b \in Records /\ b.buffer \in Seq(ByteSet)
      /\ b.writeIndex \in Nat /\ Len(b.buffer) \in Nat /\ Len(data) \in Nat
      /\ Writeable(b) = Len(b.buffer) - b.writeIndex
      /\ Writeable(b) \in 0..Len(data) /\ b.writeIndex \in 0..Len(b.buffer)
      /\ b.writeIndex + Writeable(b) = Len(b.buffer)
  BY LenProperties DEF Good, Records, Writeable
<1>2. PICK t, rest :
         /\ t = SubSeq(data, 1, Writeable(b))
         /\ rest = SubSeq(data, Writeable(b) + 1, Len(data))
  OBVIOUS
<1>3. /\ t \in Seq(ByteSet) /\ Len(t) = Writeable(b)
      /\ rest \in Seq(ByteSet) /\ Len(rest) = Len(data) - Writeable(b)
      /\ t \o rest = data
  BY <1>1, <1>2, SplitAt
<1>4. CopyTo(b.buffer, b.writeIndex, data) = CopyTo(b.buffer, b.writeIndex, t)
  BY <1>1, <1>2, CopyFits
<1>5. CopyTo(b.buffer, b.writeIndex, t) \in Seq(ByteSet)
  BY <1>1, <1>3, CopyToBytes
<1>6. /\ full \in Records /\ full.readIndex = b.readIndex
      /\ full.buffer = CopyTo(b.buffer, b.writeIndex, t)
      /\ full.writeIndex = b.writeIndex + Len(t)
  BY <1>1, <1>3, <1>4, <1>5 DEF Records
<1>7. Good(full) /\ Content(full) = Content(b) \o t
  <2>1. t \in Seq(ByteSet) /\ Len(t) <= Writeable(b)
    BY <1>1, <1>3
  <2> QED
    BY <1>6, <2>1, WriteBehindFields
<1>8. ~MustMove(full, Len(rest))
  BY <1>3
<1>9. /\ Good(AppendTo(full, rest))
      /\ Content(AppendTo(full, rest)) = Content(b) \o (t \o rest)
  <2>1. t \in Seq(ByteSet) /\ rest \in Seq(ByteSet)
    BY <1>3
  <2> QED
    BY <1>7, <1>8, <2>1, WriteInTwoParts, ZenonT(40)
<1> QED
  BY <1>2, <1>3, <1>9

\* A new Buffer is empty.
LEMMA NewIsEmpty ==
  LET b == NewBuffer(InitialSize)
  IN  /\ Good(b) /\ Content(b) = <<>>
      /\ \A len \in Nat : ~MustMove(b, len)
<1> DEFINE s == [k \in 1..(CheapPrepend + InitialSize) |-> 0]
           b == NewBuffer(InitialSize)
<1>1. CheapPrepend \in Nat /\ InitialSize \in Nat /\ 0 \in ByteSet
  BY BufferAssumption DEF ByteSet
<1>2. s \in Seq(ByteSet) /\ Len(s) = CheapPrepend + InitialSize
  <2>1. s \in [1..(CheapPrepend + InitialSize) -> ByteSet]
    BY <1>1
  <2> HIDE DEF s
  <2> QED
    BY <1>1, <2>1, FunctionIsSeq
<1>3. /\ b.buffer = s /\ b.readIndex = CheapPrepend
      /\ b.writeIndex = CheapPrepend
      /\ b = [buffer |-> s, readIndex |-> CheapPrepend,
              writeIndex |-> CheapPrepend]
  BY DEF NewBuffer
<1> HIDE DEF s
<1>4. b \in Records
  BY <1>1, <1>2, <1>3 DEF Records
<1> HIDE DEF b
<1>5. Good(b)
  BY <1>1, <1>2, <1>3, <1>4 DEF Good
<1>6. Content(b) = <<>>
  BY <1>1, <1>3, SubSeqEmpty DEF Content
<1>7. \A len \in Nat : ~MustMove(b, len)
  BY <1>1, <1>2, <1>3 DEF MustMove, Writeable, Prependable
<1> QED
  BY <1>5, <1>6, <1>7 DEF b

\* shrink() copies the readable bytes to a Buffer that has room for them.
LEMMA ShrinkKeeps ==
  ASSUME NEW b, Good(b), NEW reserve \in Nat
  PROVE  LET e == AppendTo(EnsureWritableBytes(NewBuffer(InitialSize),
                                               Readable(b) + reserve),
                           Content(b))
         IN  Good(e) /\ Content(e) = Content(b)
<1> DEFINE new == NewBuffer(InitialSize)
           m == EnsureWritableBytes(new, Readable(b) + reserve)
<1>1. /\ Content(b) \in Seq(ByteSet) /\ Len(Content(b)) = Readable(b)
      /\ Readable(b) \in Nat /\ Readable(b) + reserve \in Nat
  BY ContentBytes
<1>2. /\ Good(new) /\ Content(new) = <<>>
      /\ ~MustMove(new, Readable(b) + reserve)
  BY <1>1, NewIsEmpty
<1> HIDE DEF new
<1>3. /\ Good(m) /\ Readable(b) + reserve <= Writeable(m)
      /\ Content(m) = <<>>
  BY <1>1, <1>2, EnsureKeeps
<1> HIDE DEF m
<1>4. ~MustMove(m, Len(Content(b)))
  <2>1. Writeable(m) \in Int
    BY <1>3, LenProperties DEF Writeable, Good, Records
  <2>2. ~(Writeable(m) < Readable(b))
    BY <1>1, <1>3, <2>1
  <2> QED
    BY <1>1, <2>2 DEF MustMove
<1>5. LET e == AppendTo(m, Content(b))
      IN  Good(e) /\ Content(e) = Content(m) \o Content(b)
  BY <1>1, <1>3, <1>4, AppendBehind
<1>6. <<>> \o Content(b) = Content(b)
  BY <1>1, ConcatEmptySeq
<1> QED
  BY <1>3, <1>5, <1>6 DEF m, new

-----------------------------------------------------------------------------
(* The operations                                                          *)

\* The inductive invariant.
BufferInv ==
    Good(buf) /\ fresh \in 1..(MaxBytes + 1) /\ got \in Seq(ByteSet)

\* append, and readFd into the vector, into extrabuf or both.
LEMMA BytesComeBehind ==
  ASSUME BufferInv, ~Compaction, NEW n \in 1..MaxChunk,
         AppendBytes(n) \/ ReadFd(n)
  PROVE  /\ Good(buf') /\ Content(buf') = Content(buf) \o Bytes(n)
         /\ fresh' = fresh + n /\ fresh' \in 1..(MaxBytes + 1) /\ got' = got
<1>1. /\ n \in Nat /\ Comes(n) /\ fresh' = fresh + n /\ got' = got
      /\ fresh' \in 1..(MaxBytes + 1) /\ Good(buf)
  BY BufferAssumption DEF AppendBytes, ReadFd, Comes, BufferInv
<1>2. Bytes(n) \in Seq(ByteSet) /\ Len(Bytes(n)) = n
  BY <1>1, BytesAreBytes DEF BufferInv
<1>3. PICK data : data = Bytes(n)
  OBVIOUS
<1>4. CASE AppendBytes(n)
  <2>1. buf' = AppendTo(buf, data) /\ ~MustMove(buf, Len(data))
    BY <1>2, <1>3, <1>4 DEF AppendBytes, MayAppend
  <2>2. data \in Seq(ByteSet)
    BY <1>2, <1>3
  <2>3. Good(buf') /\ Content(buf') = Content(buf) \o data
    BY <1>1, <2>1, <2>2, AppendBehind
  <2> QED
    BY <1>1, <1>3, <2>3
<1>5. CASE ReadFd(n) /\ n <= Writeable(buf)
  <2>1. buf' = [buf EXCEPT !.buffer = CopyTo(@, buf.writeIndex, data),
                           !.writeIndex = @ + Len(data)]
    BY <1>2, <1>3, <1>5 DEF ReadFd
  <2>2. data \in Seq(ByteSet) /\ Len(data) <= Writeable(buf)
    BY <1>2, <1>3, <1>5
  <2>3. Good(buf') /\ Content(buf') = Content(buf) \o data
    BY <1>1, <2>1, <2>2, WriteBehind
  <2> QED
    BY <1>1, <1>3, <2>3
<1>6. CASE ReadFd(n) /\ ~(n <= Writeable(buf))
  <2>1. PICK full :
           full = [buf EXCEPT !.buffer = CopyTo(@, buf.writeIndex, data),
                              !.writeIndex = Len(buf.buffer)]
    OBVIOUS
  <2>2. /\ ~MustMove(full, Len(data) - Writeable(buf))
        /\ buf' = AppendTo(full, SubSeq(data, Writeable(buf) + 1, Len(data)))
    BY <1>2, <1>3, <1>6, <2>1 DEF ReadFd, MayAppend
  <2>3. data \in Seq(ByteSet) /\ Writeable(buf) <= Len(data)
    <3>1. Writeable(buf) \in Int
      BY <1>1, LenProperties DEF Writeable, Good, Records
    <3> QED
      BY <1>1, <1>2, <1>3, <1>6, <3>1
  <2>4. Good(buf') /\ Content(buf') = Content(buf) \o data
    BY <1>1, <2>1, <2>2, <2>3, ReadFdOverflows
  <2> QED
    BY <1>1, <1>3, <2>4
<1> QED
  BY <1>4, <1>5, <1>6

\* prepend.
LEMMA BytesComeBefore ==
  ASSUME BufferInv, NEW n \in 1..MaxChunk, Prepend(n)
  PROVE  /\ Good(buf') /\ Content(buf') = Bytes(n) \o Content(buf)
         /\ fresh' = fresh + n /\ fresh' \in 1..(MaxBytes + 1) /\ got' = got
<1>1. /\ n \in Nat /\ Comes(n) /\ fresh' = fresh + n /\ got' = got
      /\ fresh' \in 1..(MaxBytes + 1) /\ Good(buf)
  BY BufferAssumption DEF Prepend, Comes, BufferInv
<1>2. Bytes(n) \in Seq(ByteSet) /\ Len(Bytes(n)) = n
  BY <1>1, BytesAreBytes DEF BufferInv
<1>3. PICK data : data = Bytes(n)
  OBVIOUS
<1>4. buf' = [buf EXCEPT !.buffer = CopyTo(@, buf.readIndex - Len(data), data),
                         !.readIndex = @ - Len(data)]
  BY <1>2, <1>3 DEF Prepend
<1>5. data \in Seq(ByteSet) /\ Len(data) <= Prependable(buf)
  BY <1>2, <1>3 DEF Prepend
<1>6. Good(buf') /\ Content(buf') = data \o Content(buf)
  BY <1>1, <1>4, <1>5, PrependBefore
<1> QED
  BY <1>1, <1>3, <1>6

\* retrieve, and the retrieve of an integer that is read.
LEMMA BytesGo ==
  ASSUME BufferInv, NEW n \in Nat \ {0}, n <= Readable(buf),
         buf' = RetrieveFrom(buf, n)
  PROVE  /\ Good(buf') /\ n \in 1..Len(Content(buf))
         /\ Content(buf') = SubSeq(Content(buf), n + 1, Len(Content(buf)))
<1>1. Good(buf)
  BY DEF BufferInv
<1>2. Len(Content(buf)) = Readable(buf) /\ Readable(buf) \in Nat
  BY <1>1, ContentBytes
<1>3. n \in 1..Readable(buf)
  BY <1>2
<1> QED
  BY <1>1, <1>2, <1>3, RetrieveTakes

\* The size of an integer, and of what is looked at for it.
LEMMA Sizes ==
  ASSUME NEW kind \in Kinds
  PROVE  /\ Size(kind) \in Nat \ {0} /\ Size(Peeked(kind)) \in 1..Size(kind)
         /\ kind # "int64" => Size(Peeked(kind)) = Size(kind)
<1>1. kind \in {"int8", "int16", "int32", "int64"}
  BY BufferAssumption DEF IntKinds
<1> QED
  BY <1>1 DEF Size, Peeked

\* The bytes of an integer are readable ones.
LEMMA GotBytes ==
  ASSUME BufferInv, NEW n \in Nat, n <= Readable(buf)
  PROVE  SubSeq(Content(buf), 1, n) \in Seq(ByteSet)
<1>1. /\ Content(buf) \in Seq(ByteSet) /\ Len(Content(buf)) = Readable(buf)
      /\ Readable(buf) \in Nat
  BY ContentBytes DEF BufferInv
<1>2. n \in 0..Len(Content(buf))
  BY <1>1
<1> QED
  BY <1>1, <1>2, SplitAt

\* Every operation keeps the invariant.
LEMMA StepKeeps ==
  ASSUME BufferInv, ~Compaction, [Next]_vars
  PROVE  BufferInv'
<1>1. ASSUME NEW n \in 1..MaxChunk, AppendBytes(n) \/ ReadFd(n)
      PROVE  BufferInv'
  BY <1>1, BytesComeBehind DEF BufferInv
<1>2. ASSUME NEW n \in 1..MaxChunk, Prepend(n)
      PROVE  BufferInv'
  BY <1>2, BytesComeBefore DEF BufferInv
<1>3. ASSUME NEW n \in 1..MaxChunk, Retrieve(n)
      PROVE  BufferInv'
  <2>1. n \in Nat \ {0}
    OBVIOUS
  <2> QED
    BY <1>3, <2>1, BytesGo DEF Retrieve, BufferInv
<1>4. ASSUME NEW n \in 1..MaxChunk, UnWrites(n)
      PROVE  BufferInv'
  <2>1. n \in 1..Readable(buf) /\ Good(buf)
    BY <1>4, ContentBytes DEF UnWrites, BufferInv
  <2> QED
    BY <1>4, <2>1, UnWritesTakes DEF UnWrites, BufferInv
<1>5. ASSUME NEW kind \in Kinds, ReadInt(kind)
      PROVE  BufferInv'
  <2>1. /\ Size(kind) \in Nat \ {0} /\ Size(kind) <= Readable(buf)
        /\ Size(Peeked(kind)) \in 1..Size(kind)
        /\ buf' = RetrieveFrom(buf, Size(kind)) /\ fresh' = fresh
        /\ got' = SubSeq(Content(buf), 1, Size(Peeked(kind)))
    BY <1>5, Sizes DEF ReadInt
  <2>2. Good(buf')
    BY <2>1, BytesGo
  <2>3. Size(Peeked(kind)) \in Nat /\ Size(Peeked(kind)) <= Readable(buf)
    <3>1. Readable(buf) \in Nat
      BY ContentBytes DEF BufferInv
    <3> QED
      BY <2>1, <3>1
  <2>4. got' \in Seq(ByteSet)
    BY <2>1, <2>3, GotBytes
  <2> QED
    BY <2>1, <2>2, <2>4 DEF BufferInv
<1>6. ASSUME NEW reserve \in 0..MaxChunk, Shrink(reserve)
      PROVE  BufferInv'
  BY <1>6, ShrinkKeeps DEF Shrink, BufferInv
<1>7. CASE UNCHANGED vars
  BY <1>7 DEF vars, BufferInv
<1> QED
  BY <1>1, <1>2, <1>3, <1>4, <1>5, <1>6, <1>7 DEF Next

-----------------------------------------------------------------------------
(* The theorems                                                            *)

\* The inductive invariant.
THEOREM BufferInvariant ==
  ASSUME ~Compaction
  PROVE  Spec => []BufferInv
<1>1. Init => BufferInv
  <2>1. 1 \in 1..(MaxBytes + 1) /\ <<>> \in Seq(ByteSet)
    BY BufferAssumption, EmptySeq
  <2> QED
    BY <2>1, NewIsEmpty DEF Init, BufferInv
<1>2. BufferInv /\ [Next]_vars => BufferInv'
  BY StepKeeps
<1> QED
  BY <1>1, <1>2, PTL DEF Spec

\* readIndex_ and writeIndex_ stay in order and within the vector, whatever
\* the sizes, the chunks and the order of the calls.
THEOREM BufferTypeCorrect ==
  ASSUME ~Compaction
  PROVE  Spec => []TypeOK
<1>1. BufferInv => TypeOK
  <2> SUFFICES ASSUME BufferInv PROVE TypeOK
    OBVIOUS
  <2>1. /\ buf.buffer \in Seq(ByteSet) /\ buf.readIndex \in Nat
        /\ buf.writeIndex \in Nat /\ buf.readIndex <= buf.writeIndex
        /\ buf.writeIndex <= Len(buf.buffer) /\ Len(buf.buffer) \in Nat
    BY LenProperties DEF BufferInv, Good, Records
  <2> QED
    BY <2>1 DEF BufferInv, TypeOK, ByteSet
<1> QED
  BY <1>1, BufferInvariant, PTL

\* The Buffer is a queue of bytes: append, prepend, the two parts of readFd,
\* retrieve with its reset of the indices, the reads of integers, unWrites,
\* the growth of the vector and shrink lose, repeat and reorder nothing.
THEOREM BufferRefinement ==
  ASSUME ~Compaction, "int64" \notin Kinds
  PROVE  Spec => ImplementsByteQueue
<1>1. Init => BQ!Init
  BY NewIsEmpty DEF Init, BQ!Init
<1>2. BufferInv /\ [Next]_vars =>
        [BQ!PutBack \/ BQ!PutFront \/ BQ!Take \/ BQ!TakeBack]_(BQ!vars)
  <2> SUFFICES ASSUME BufferInv, [Next]_vars
               PROVE  \/ BQ!PutBack \/ BQ!PutFront \/ BQ!Take \/ BQ!TakeBack
                      \/ UNCHANGED BQ!vars
    OBVIOUS
  <2>1. ASSUME NEW n \in 1..MaxChunk, fresh' = fresh + n
        PROVE  BQ!NewBytes = Bytes(n) /\ fresh' > fresh
    <3>1. fresh' - fresh = n /\ fresh' > fresh
      BY <2>1 DEF BufferInv
    <3> QED
      BY <3>1 DEF BQ!NewBytes, Bytes
  <2>2. ASSUME NEW n \in 1..MaxChunk, AppendBytes(n) \/ ReadFd(n)
        PROVE  BQ!PutBack
    BY <2>1, <2>2, BytesComeBehind DEF BQ!PutBack
  <2>3. ASSUME NEW n \in 1..MaxChunk, Prepend(n)
        PROVE  BQ!PutFront
    BY <2>1, <2>3, BytesComeBefore DEF BQ!PutFront
  <2>4. ASSUME NEW n \in 1..MaxChunk, Retrieve(n)
        PROVE  BQ!Take
    <3>1. /\ n \in Nat \ {0} /\ n <= Readable(buf)
          /\ buf' = RetrieveFrom(buf, n) /\ fresh' = fresh /\ got' = got
      BY <2>4 DEF Retrieve
    <3> QED
      BY <3>1, BytesGo DEF BQ!Take
  <2>5. ASSUME NEW kind \in Kinds, ReadInt(kind)
        PROVE  BQ!Take
    <3>1. /\ Size(kind) \in Nat \ {0} /\ Size(kind) <= Readable(buf)
          /\ buf' = RetrieveFrom(buf, Size(kind)) /\ fresh' = fresh
          /\ got' = SubSeq(Content(buf), 1, Size(kind))
      BY <2>5, Sizes DEF ReadInt
    <3> QED
      BY <3>1, BytesGo DEF BQ!Take
  <2>6. ASSUME NEW n \in 1..MaxChunk, UnWrites(n)
        PROVE  BQ!TakeBack
    <3>1. n \in 1..Readable(buf) /\ Good(buf) /\ n \in 1..Len(Content(buf))
      BY <2>6, ContentBytes DEF UnWrites, BufferInv
    <3> QED
      BY <2>6, <3>1, UnWritesTakes DEF UnWrites, BQ!TakeBack
  <2>7. ASSUME NEW reserve \in 0..MaxChunk, Shrink(reserve)
        PROVE  UNCHANGED BQ!vars
    BY <2>7, ShrinkKeeps DEF Shrink, BufferInv, BQ!vars
  <2>8. CASE UNCHANGED vars
    BY <2>8 DEF vars, BQ!vars
  <2> QED
    BY <2>2, <2>3, <2>4, <2>5, <2>6, <2>7, <2>8 DEF Next
<1> QED
  BY <1>1, <1>2, BufferInvariant, PTL DEF Spec, ImplementsByteQueue, BQ!Spec
=============================================================================
