------------------------------- MODULE Buffer -------------------------------
(***************************************************************************)
(* Buffer (Buffer.cpp): a vector of bytes with two indices.  Bytes before  *)
(* readIndex_ are prependable, those up to writeIndex_ readable, the rest  *)
(* writable; appending more than the writable part holds makes space by    *)
(* growing the vector or by moving the readable bytes to the front.        *)
(*                                                                         *)
(* Data: bytes are numbered in the order they come in, 0 is a byte nobody  *)
(* wrote.  An integer is its bytes in network order; the sizes are scaled. *)
(* An operation is called when its assertions on the arguments hold.       *)
(***************************************************************************)
EXTENDS Integers, Sequences, Functions

CONSTANTS
    CheapPrepend, InitialSize,  \* of Buffer.h, scaled down
    ExtraSize,                  \* sizeof(extrabuf) of readFd, scaled down
    Kinds,                      \* the integers read: a subset of IntKinds
    Compaction,     \* whether callers append when bytes must be moved for it
    MaxBytes,       \* bound: bytes that come in
    MaxChunk        \* bound: bytes per call

IntKinds == {"int8", "int16", "int32", "int64"}

ASSUME BufferAssumption ==
    /\ CheapPrepend \in Nat \ {0} /\ InitialSize \in Nat /\ ExtraSize \in Nat
    /\ Kinds \subseteq IntKinds
    /\ Compaction \in BOOLEAN
    /\ MaxBytes \in Nat /\ MaxChunk \in Nat

VARIABLES
    buf,            \* the Buffer: buffer_, readIndex_, writeIndex_
    fresh,          \* the next byte to come in
    got             \* the bytes of the integer that was read last

vars == <<buf, fresh, got>>

NewBuffer(size) ==
    [buffer |-> [k \in 1..(CheapPrepend + size) |-> 0],
     readIndex |-> CheapPrepend, writeIndex |-> CheapPrepend]

Readable(b) == b.writeIndex - b.readIndex
Writeable(b) == Len(b.buffer) - b.writeIndex
Prependable(b) == b.readIndex
Content(b) == SubSeq(b.buffer, b.readIndex + 1, b.writeIndex)

\* Type correctness; the indices stay in order and within the vector, so
\* that no copy goes past its end.
TypeOK ==
    /\ buf.buffer \in Seq(0..MaxBytes)
    /\ buf.readIndex \in 0..buf.writeIndex
    /\ buf.writeIndex \in 0..Len(buf.buffer)
    /\ fresh \in 1..(MaxBytes + 1)
    /\ got \in Seq(0..MaxBytes)

Init == buf = NewBuffer(InitialSize) /\ fresh = 1 /\ got = <<>>

\* The n bytes that come in next.
Bytes(n) == [i \in 1..n |-> fresh + i - 1]

-----------------------------------------------------------------------------
(* Space                                                                   *)

\* memcpy of data to the index at; nothing is kept past the vector's end.
CopyTo(store, at, data) ==
    [k \in DOMAIN store |->
        IF k - at \in DOMAIN data THEN data[k - at] ELSE store[k]]

Resize(store, size) ==
    [k \in 1..size |-> IF k \in DOMAIN store THEN store[k] ELSE 0]

MustMove(b, len) ==
    /\ Writeable(b) < len
    /\ Writeable(b) + Prependable(b) >= len + CheapPrepend

\* Mutant: the vector is given room for the new bytes only.
MakeSpace_Short(b, len) ==
    IF MustMove(b, len) THEN b
    ELSE [b EXCEPT !.buffer = Resize(@, CheapPrepend + Readable(b) + len)]

\* makeSpace(len).  The second index is moved by a prependableBytes() that
\* the first assignment has already changed to 0.
MakeSpace(b, len) ==
    IF MustMove(b, len)
    THEN LET moved == [b EXCEPT
                 !.buffer = CopyTo(@, CheapPrepend, Content(b)),
                 !.readIndex = @ - Prependable(b)]
         IN  [moved EXCEPT !.writeIndex = @ - Prependable(moved)]
    ELSE [b EXCEPT !.buffer = Resize(@, b.writeIndex + len)]

EnsureWritableBytes(b, len) ==
    IF Writeable(b) < len THEN MakeSpace(b, len) ELSE b

AppendTo(b, data) ==
    LET e == EnsureWritableBytes(b, Len(data))
    IN  [e EXCEPT !.buffer = CopyTo(@, e.writeIndex, data),
                  !.writeIndex = @ + Len(data)]

\* Mutant: retrieveAll() does not reset writeIndex_.
RetrieveFrom_KeepsWriteIndex(b, len) ==
    IF len < Readable(b) THEN [b EXCEPT !.readIndex = @ + len]
    ELSE [b EXCEPT !.readIndex = CheapPrepend]

RetrieveFrom(b, len) ==
    IF len < Readable(b) THEN [b EXCEPT !.readIndex = @ + len]
    ELSE [b EXCEPT !.readIndex = CheapPrepend, !.writeIndex = CheapPrepend]

-----------------------------------------------------------------------------
(* Operations                                                              *)

MayAppend(b, len) == Compaction \/ ~MustMove(b, len)
Comes(n) == fresh + n <= MaxBytes + 1

\* append and appendInt*; ensureWritableBytes, a copy to beginWrite() and
\* hasWritten is the same in three calls.
AppendBytes(n) ==
    /\ Comes(n) /\ MayAppend(buf, n)
    /\ buf' = AppendTo(buf, Bytes(n))
    /\ fresh' = fresh + n
    /\ UNCHANGED got

\* prepend and prependInt*.
Prepend(n) ==
    /\ Comes(n) /\ n <= Prependable(buf)
    /\ buf' = [buf EXCEPT !.buffer = CopyTo(@, buf.readIndex - n, Bytes(n)),
                          !.readIndex = @ - n]
    /\ fresh' = fresh + n
    /\ UNCHANGED got

\* readFd: readv fills the writable part, then extrabuf, which is appended.
ReadFd(n) ==
    LET fits == Writeable(buf)
        full == [buf EXCEPT !.buffer = CopyTo(@, buf.writeIndex, Bytes(n)),
                            !.writeIndex = Len(buf.buffer)]
    IN  /\ Comes(n) /\ n <= fits + ExtraSize
        /\ IF n <= fits
           THEN buf' = [buf EXCEPT
                           !.buffer = CopyTo(@, buf.writeIndex, Bytes(n)),
                           !.writeIndex = @ + n]
           ELSE /\ MayAppend(full, n - fits)
                /\ buf' = AppendTo(full, SubSeq(Bytes(n), fits + 1, n))
        /\ fresh' = fresh + n
        /\ UNCHANGED got

\* retrieve, retrieveUntil, retrieveInt*, retrieveAsString and, with all of
\* them, retrieveAll and retrieveAllAsString.
Retrieve(n) ==
    /\ n <= Readable(buf)
    /\ buf' = RetrieveFrom(buf, n)
    /\ UNCHANGED <<fresh, got>>

UnWrites(n) ==
    /\ n <= Readable(buf)
    /\ buf' = [buf EXCEPT !.writeIndex = @ - n]
    /\ UNCHANGED <<fresh, got>>

Size(kind) == CASE kind = "int8" -> 1 [] kind = "int16" -> 2
                [] kind = "int32" -> 4 [] kind = "int64" -> 8

\* readInt8, readInt16 and readInt32; readInt64 looks at an int16.
Peeked(kind) == IF kind = "int64" THEN "int16" ELSE kind

\* The look at an integer asserts that there are more bytes than it has, the
\* retrieve() that follows that there are as many as it takes.
ReadInt(kind) ==
    /\ Size(Peeked(kind)) < Readable(buf)
    /\ Size(kind) <= Readable(buf)
    /\ got' = SubSeq(Content(buf), 1, Size(Peeked(kind)))
    /\ buf' = RetrieveFrom(buf, Size(kind))
    /\ UNCHANGED fresh

\* shrink(reserve): a new Buffer with room for the bytes and reserve more.
Shrink(reserve) ==
    /\ buf' = AppendTo(EnsureWritableBytes(NewBuffer(InitialSize),
                                           Readable(buf) + reserve),
                       Content(buf))
    /\ UNCHANGED <<fresh, got>>

Next ==
    \/ \E n \in 1..MaxChunk :
          AppendBytes(n) \/ Prepend(n) \/ ReadFd(n) \/ Retrieve(n) \/ UnWrites(n)
    \/ \E kind \in Kinds : ReadInt(kind)
    \/ \E reserve \in 0..MaxChunk : Shrink(reserve)

Spec == Init /\ [][Next]_vars

-----------------------------------------------------------------------------
(* Properties                                                              *)

\* The Buffer is a queue of bytes, whatever its indices and its vector do:
\* growing, shrinking, the reset of the indices when it runs empty and the
\* two parts of readFd lose, repeat and reorder nothing.
BQ == INSTANCE ByteQueue WITH content <- Content(buf)
ImplementsByteQueue == BQ!Spec

\* Making space for new bytes leaves the number of readable bytes alone
\* (assert(readableBytes() == readable), Buffer.cpp:339): what comes in adds
\* its own length and nothing else.
SpaceKeepsReadable ==
    [][fresh' > fresh => Readable(buf)' = Readable(buf) + (fresh' - fresh)]_vars
=============================================================================
