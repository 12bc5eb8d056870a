---------------------------- MODULE MCThreadPool ----------------------------
(***************************************************************************)
(* ThreadPool for TLC: a worker that waits and one that is busy, and a     *)
(* task for each.                                                          *)
(***************************************************************************)
EXTENDS ThreadPool
=============================================================================
