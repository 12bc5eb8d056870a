---------------------------- MODULE FunctorQueue ----------------------------
(***************************************************************************)
(* What EventLoop::queueInLoop promises its callers: functors handed in    *)
(* from any thread are run one at a time, each exactly once, in the order  *)
(* in which they were handed in.  Nothing here says who runs them, how the *)
(* queue is locked or how the loop learns of them: that is EventLoop's.    *)
(***************************************************************************)
EXTENDS Sequences

CONSTANT Functors       \* the functors that callers may hand in

VARIABLES
    queue,              \* handed in and not yet run, oldest first
    executed            \* the functors run so far, oldest first

vars == <<queue, executed>>

Init ==
    /\ queue = <<>>
    /\ executed = <<>>

Submit(f) ==
    /\ queue' = Append(queue, f)
    /\ UNCHANGED executed

Execute ==
    /\ queue # <<>>
    /\ queue' = Tail(queue)
    /\ executed' = Append(executed, Head(queue))

Next ==
    \/ \E f \in Functors : Submit(f)
    \/ Execute

Spec == Init /\ [][Next]_vars
=============================================================================
