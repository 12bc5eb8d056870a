----------------------------- MODULE EventLoop -----------------------------
(***************************************************************************)
(* One EventLoop (EventLoop.cpp): the loop thread alternates epoll_wait,   *)
(* the callbacks of the channels that came back active, and the functors   *)
(* that were queued meanwhile.  Other threads, and the callbacks and       *)
(* functors themselves, hand functors in with queueInLoop and end the loop *)
(* with quit.  The mutex protects only the push and the swap of            *)
(* pendingFunctors_, so each of them is one step; the write to the eventfd *)
(* that wakes the poller is a later step of the calling thread, and the    *)
(* loop thread may do anything in between.                                 *)
(*                                                                         *)
(* Data: a functor is a model value standing for one call of queueInLoop.  *)
(* The eventfd counter is only ever tested for being non-zero, so it is a  *)
(* flag.  Channels other than the eventfd's are one channel, "io", whose   *)
(* callback is arbitrary code that may call queueInLoop and quit.          *)
(***************************************************************************)
EXTENDS Sequences, Functions

CONSTANTS
    Threads,            \* threads other than the loop's own
    Functors            \* one element for each call of queueInLoop

VARIABLES
    pc,                 \* where the loop thread is
    quit,               \* quit_
    callingPendingFunctor,
    active,             \* activeChannels_ whose callbacks have not run yet
    pendingFunctors,    \* pendingFunctors_
    list,               \* doPendingFunctors' list, without what already ran
    weakupFd,           \* the eventfd is readable
    caller,             \* where each other thread is
    submitted,          \* history: functors in the order of their push
    executed            \* history: functors in the order they were run

vars == <<pc, quit, callingPendingFunctor, active, pendingFunctors, list,
          weakupFd, caller, submitted, executed>>

queueVars == <<pendingFunctors, list, submitted, executed>>

LoopPC == {"created", "check", "polling", "events", "handler", "swap",
           "functors", "functor", "stopped"}

FieldsOK ==
    /\ pc \in LoopPC
    /\ quit \in BOOLEAN
    /\ callingPendingFunctor \in BOOLEAN
    /\ active \subseteq {"weakup", "io"}
    /\ pendingFunctors \in Seq(Functors)
    /\ list \in Seq(Functors)
    /\ weakupFd \in BOOLEAN
    /\ caller \in [Threads -> {"idle", "waking"}]
    /\ submitted \in Seq(Functors)
    /\ executed \in Seq(Functors)

\* callingPendingFunctor_ is set exactly while doPendingFunctors runs its
\* list; queueInLoop decides by it whether to wake the loop.
CallingFlagOK == callingPendingFunctor <=> pc \in {"functors", "functor"}

\* The type invariant, with what the flag of doPendingFunctors stands for.
TypeOK == FieldsOK /\ CallingFlagOK

Init ==
    /\ pc = "created"
    /\ quit = FALSE
    /\ callingPendingFunctor = FALSE
    /\ active = {}
    /\ pendingFunctors = <<>>
    /\ list = <<>>
    /\ weakupFd = FALSE
    /\ caller = [t \in Threads |-> "idle"]
    /\ submitted = <<>>
    /\ executed = <<>>

-----------------------------------------------------------------------------
(* loop(): the loop thread's own steps.                                    *)

\* Entering loop() overwrites quit_, whatever it was.
EnterLoop ==
    /\ pc = "created"
    /\ pc' = "check"
    /\ quit' = FALSE
    /\ UNCHANGED <<callingPendingFunctor, active, weakupFd, caller, queueVars>>

\* while(!quit_): leave, or clear activeChannels_ and block in epoll_wait.
CheckQuit ==
    /\ pc = "check"
    /\ pc' = IF quit THEN "stopped" ELSE "polling"
    /\ active' = {}
    /\ UNCHANGED <<quit, callingPendingFunctor, weakupFd, caller, queueVars>>

\* epoll_wait is level-triggered: the eventfd is reported exactly when it is
\* readable, the other channels whenever the outside world makes them ready.
PollReturns ==
    /\ pc = "polling"
    /\ \E io \in SUBSET {"io"} :
          active' = io \union (IF weakupFd THEN {"weakup"} ELSE {})
    /\ active' # {}
    /\ pc' = "events"
    /\ UNCHANGED <<quit, callingPendingFunctor, weakupFd, caller, queueVars>>

\* PollTImeMs passed with nothing active.
PollTimesOut ==
    /\ pc = "polling"
    /\ ~weakupFd
    /\ active' = {}
    /\ pc' = "events"
    /\ UNCHANGED <<quit, callingPendingFunctor, weakupFd, caller, queueVars>>

\* The eventfd's channel: handleRead() resets the counter.
HandleWeakup ==
    /\ pc = "events"
    /\ "weakup" \in active
    /\ active' = active \ {"weakup"}
    /\ weakupFd' = FALSE
    /\ UNCHANGED <<pc, quit, callingPendingFunctor, caller, queueVars>>

\* Any other channel: its callback starts.
HandleIo ==
    /\ pc = "events"
    /\ "io" \in active
    /\ active' = active \ {"io"}
    /\ pc' = "handler"
    /\ UNCHANGED <<quit, callingPendingFunctor, weakupFd, caller, queueVars>>

HandlerReturns ==
    /\ pc = "handler"
    /\ pc' = "events"
    /\ UNCHANGED <<quit, callingPendingFunctor, active, weakupFd, caller,
                   queueVars>>

EventsDone ==
    /\ pc = "events"
    /\ active = {}
    /\ pc' = "swap"
    /\ UNCHANGED <<quit, callingPendingFunctor, active, weakupFd, caller,
                   queueVars>>

-----------------------------------------------------------------------------
(* doPendingFunctors()                                                     *)

\* Mutant: the list is copied instead of swapped.
SwapFunctors_Copies ==
    /\ pc = "swap"
    /\ callingPendingFunctor' = TRUE
    /\ list' = pendingFunctors
    /\ UNCHANGED pendingFunctors
    /\ pc' = "functors"
    /\ UNCHANGED <<quit, active, weakupFd, caller, submitted, executed>>

SwapFunctors ==
    /\ pc = "swap"
    /\ callingPendingFunctor' = TRUE
    /\ list' = pendingFunctors
    /\ pendingFunctors' = <<>>
    /\ pc' = "functors"
    /\ UNCHANGED <<quit, active, weakupFd, caller, submitted, executed>>

\* for(cb : list) cb(): the next functor starts.
RunFunctor ==
    /\ pc = "functors"
    /\ list # <<>>
    /\ list' = Tail(list)
    /\ executed' = Append(executed, Head(list))
    /\ pc' = "functor"
    /\ UNCHANGED <<quit, callingPendingFunctor, active, pendingFunctors,
                   weakupFd, caller, submitted>>

FunctorReturns ==
    /\ pc = "functor"
    /\ pc' = "functors"
    /\ UNCHANGED <<quit, callingPendingFunctor, active, weakupFd, caller,
                   queueVars>>

FunctorsDone ==
    /\ pc = "functors"
    /\ list = <<>>
    /\ callingPendingFunctor' = FALSE
    /\ pc' = "check"
    /\ UNCHANGED <<quit, active, weakupFd, caller, queueVars>>

-----------------------------------------------------------------------------
(* queueInLoop(cb) and quit()                                              *)

Push(f) ==
    /\ f \notin Range(submitted)
    /\ pendingFunctors' = Append(pendingFunctors, f)
    /\ submitted' = Append(submitted, f)

InCallback == pc \in {"handler", "functor"}

\* Mutant: wake only for other threads.
QueueInLoopHere_NoWeakup(f) ==
    /\ InCallback
    /\ Push(f)
    /\ UNCHANGED <<pc, quit, callingPendingFunctor, active, list, weakupFd,
                   caller, executed>>

\* Mutant: within doPendingFunctors the new functor joins the running list.
QueueInLoopHere_JoinsList(f) ==
    /\ InCallback
    /\ f \notin Range(submitted)
    /\ submitted' = Append(submitted, f)
    /\ IF callingPendingFunctor
       THEN /\ list' = Append(list, f)
            /\ UNCHANGED pendingFunctors
       ELSE /\ pendingFunctors' = Append(pendingFunctors, f)
            /\ UNCHANGED list
    /\ UNCHANGED <<pc, quit, callingPendingFunctor, active, weakupFd, caller,
                   executed>>

\* queueInLoop called by a callback or a functor, on the loop thread: it
\* writes the eventfd only from within doPendingFunctors.
QueueInLoopHere(f) ==
    /\ InCallback
    /\ Push(f)
    /\ weakupFd' = (weakupFd \/ callingPendingFunctor)
    /\ UNCHANGED <<pc, quit, callingPendingFunctor, active, list, caller,
                   executed>>

\* queueInLoop called by another thread: the push, then weakup().
QueueInLoop(t, f) ==
    /\ caller[t] = "idle"
    /\ Push(f)
    /\ caller' = [caller EXCEPT ![t] = "waking"]
    /\ UNCHANGED <<pc, quit, callingPendingFunctor, active, list, weakupFd,
                   executed>>

\* quit() called on the loop thread needs no weakup().
QuitHere ==
    /\ InCallback
    /\ quit' = TRUE
    /\ UNCHANGED <<pc, callingPendingFunctor, active, weakupFd, caller,
                   queueVars>>

\* Mutant: quit() of another thread only sets the flag.
Quit_NoWeakup(t) ==
    /\ caller[t] = "idle"
    /\ quit' = TRUE
    /\ UNCHANGED <<pc, callingPendingFunctor, active, weakupFd, caller,
                   queueVars>>

Quit(t) ==
    /\ caller[t] = "idle"
    /\ quit' = TRUE
    /\ caller' = [caller EXCEPT ![t] = "waking"]
    /\ UNCHANGED <<pc, callingPendingFunctor, active, weakupFd, queueVars>>

Weakup(t) ==
    /\ caller[t] = "waking"
    /\ weakupFd' = TRUE
    /\ caller' = [caller EXCEPT ![t] = "idle"]
    /\ UNCHANGED <<pc, quit, callingPendingFunctor, active, queueVars>>

-----------------------------------------------------------------------------

\* The steps the loop thread takes by itself.  PollTimesOut is not among
\* them: nothing below relies on the ten-second timeout.
LoopStep ==
    \/ EnterLoop \/ CheckQuit
    \/ PollReturns
    \/ HandleWeakup \/ HandleIo \/ HandlerReturns \/ EventsDone
    \/ SwapFunctors \/ RunFunctor \/ FunctorReturns \/ FunctorsDone

CallbackStep ==
    \/ \E f \in Functors : QueueInLoopHere(f)
    \/ QuitHere

ThreadStep(t) ==
    \/ \E f \in Functors : QueueInLoop(t, f)
    \/ Quit(t)
    \/ Weakup(t)

Next ==
    \/ LoopStep
    \/ PollTimesOut
    \/ CallbackStep
    \/ \E t \in Threads : ThreadStep(t)

Spec == Init /\ [][Next]_vars

\* Each thread is scheduled; a thread in the middle of queueInLoop or quit
\* goes on to its weakup().  Nobody is obliged to call anything, the outside
\* world is not obliged to make a channel ready, and no use is made of the
\* poll timeout: PollReturns is enabled by the eventfd alone.
Fairness ==
    /\ WF_vars(LoopStep /\ pc # "polling")
    /\ WF_vars(PollReturns /\ weakupFd)
    /\ \A t \in Threads : WF_vars(Weakup(t))

FairSpec == Spec /\ Fairness

-----------------------------------------------------------------------------
(* Properties                                                              *)

\* No wakeup is lost: while the loop thread sits in epoll_wait, work that
\* was queued or a quit() that was called has made the eventfd readable, or
\* the caller is just about to.  (The condition of queueInLoop, line 108,
\* and the order push/weakup and handleRead/swap.)
NoLostWeakup ==
    pc = "polling" /\ (pendingFunctors # <<>> \/ quit) =>
        weakupFd \/ \E t \in Threads : caller[t] = "waking"

\* Functors run once each and in the order of their push, whichever threads
\* push them and however the pushes fall around the swap.
FQ == INSTANCE FunctorQueue WITH queue <- list \o pendingFunctors
ImplementsFunctorQueue == FQ!Spec

\* The batch that doPendingFunctors runs is fixed at the swap: a functor
\* queued by a functor waits for the next turn of the loop, so functors that
\* queue functors cannot keep the loop from polling.
BatchFixedAtSwap ==
    [][(pc \in {"functors", "functor"}) =>
          executed' \o list' = executed \o list]_vars

\* Every functor is run, unless the loop stops first; the ten-second poll
\* timeout is not needed for it.
FunctorsAreRun ==
    \A f \in Functors :
        f \in Range(submitted) ~> (f \in Range(executed) \/ pc = "stopped")

\* quit() called once loop() has been entered ends the loop.
QuitStopsRunningLoop == quit /\ pc # "created" ~> pc = "stopped"
=============================================================================
