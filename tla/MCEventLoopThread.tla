------------------------- MODULE MCEventLoopThread -------------------------
(***************************************************************************)
(* EventLoopThread for TLC: the IO thread, its owner t1, and another       *)
(* thread t2 that queues functors and calls quit().                        *)
(***************************************************************************)
EXTENDS EventLoopThread
=============================================================================
