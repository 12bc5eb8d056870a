---------------------------- MODULE SequenceUtil ----------------------------
(***************************************************************************)
(* Operators on sequences as recursive functions, which SequenceFacts.tla  *)
(* proves about.                                                           *)
(***************************************************************************)
EXTENDS Integers, Sequences

\* The elements of s that are not in D, in their order.
Without(s, D) ==
    LET left[i \in 0..Len(s)] ==
          IF i = 0 THEN <<>>
          ELSE IF s[i] \in D THEN left[i - 1] ELSE Append(left[i - 1], s[i])
    IN  left[Len(s)]

\* The sum of a sequence of numbers.
SumSeq(s) ==
    LET sum[i \in 0..Len(s)] == IF i = 0 THEN 0 ELSE sum[i - 1] + s[i]
    IN  sum[Len(s)]

\* 1, 2, ..., n.
UpTo(n) == [i \in 1..n |-> i]
=============================================================================
