------------------------------ MODULE MCBuffer ------------------------------
(***************************************************************************)
(* Buffer for TLC: two prependable bytes and three initial ones, so that   *)
(* a few calls fill, grow, empty and shrink the vector.                    *)
(***************************************************************************)
EXTENDS Buffer
=============================================================================
