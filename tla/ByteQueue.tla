----------------------------- MODULE ByteQueue -----------------------------
(***************************************************************************)
(* What a Buffer promises its users, who see "(char*, len)" only: bytes    *)
(* that come in at the back, or are prepended, and are taken from the      *)
(* front in the same order.  The bytes are numbered in the order they come *)
(* in; fresh is the number of the next one.                                *)
(***************************************************************************)
EXTENDS Integers, Sequences

VARIABLES
    content,        \* the readable bytes
    fresh,          \* the next byte to come in
    got             \* the bytes of the integer that was read last

vars == <<content, fresh, got>>

NewBytes == [i \in 1..(fresh' - fresh) |-> fresh + i - 1]

Init == content = <<>> /\ fresh = 1 /\ got = <<>>

PutBack == fresh' > fresh /\ content' = content \o NewBytes /\ UNCHANGED got

PutFront == fresh' > fresh /\ content' = NewBytes \o content /\ UNCHANGED got

Take ==
    \E n \in 1..Len(content) :
        /\ content' = SubSeq(content, n + 1, Len(content))
        /\ got' \in {got, SubSeq(content, 1, n)}
        /\ UNCHANGED fresh

TakeBack ==
    \E n \in 1..Len(content) :
        content' = SubSeq(content, 1, Len(content) - n) /\ UNCHANGED <<fresh, got>>

Spec == Init /\ [][PutBack \/ PutFront \/ Take \/ TakeBack]_vars
=============================================================================
