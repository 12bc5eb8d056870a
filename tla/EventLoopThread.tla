-------------------------- MODULE EventLoopThread --------------------------
(***************************************************************************)
(* EventLoopThread (EventLoopThread.cpp): an owner starts a thread that    *)
(* builds an EventLoop on its stack, publishes its address, and runs       *)
(* loop(); the owner's destructor quits the loop and joins the thread.     *)
(* The loop itself is EventLoop's, and the owner is one of the threads     *)
(* that call it.  Nobody begins a call before startLoop() has returned or  *)
(* after the EventLoop is gone, but a call that has begun goes on.         *)
(*                                                                         *)
(* loop_ is read by the destructor and written by the thread without any   *)
(* synchronisation after the start.  When somebody else ended the loop,    *)
(* the destructor may find loop_ null while the thread is still on its way *)
(* out, and may read it as null at line 20 after the test at line 18.      *)
(***************************************************************************)
EXTENDS EventLoop

CONSTANT Owner          \* the thread that owns the EventLoopThread

ASSUME OwnerAssumption == Owner \in Threads

VARIABLES
    thread,         \* where threadFunc() is
    loopPtr,        \* loop_ is not null
    latch,          \* latch_'s count
    owner,          \* where the owning thread is
    othersQuit      \* history: quit() was called, not by the destructor

threadVars == <<thread, loopPtr, latch, owner, othersQuit>>
allVars == <<vars, threadVars>>

\* none: not created; building: before line 42; published: loop_ is set;
\* looping: the latch is counted down; leaving: loop_ is null again, the
\* EventLoop not yet destroyed; finished: the thread has ended.
ThreadStates == {"none", "building", "published", "looping", "leaving",
                 "finished"}

\* Type correctness; loop_ is set from line 42 of threadFunc() to line 47,
\* which is less than the life of the EventLoop, and the latch is open from
\* line 43 on.
ThreadTypeOK ==
    /\ TypeOK
    /\ thread \in ThreadStates
    /\ owner \in {"new", "starting", "started", "quitting", "waking",
                  "joining", "done", "crashed"}
    /\ loopPtr \in BOOLEAN
    /\ loopPtr <=> thread \in {"published", "looping"}
    /\ latch = IF thread \in {"looping", "leaving", "finished"} THEN 0 ELSE 1
    /\ othersQuit \in BOOLEAN

ThreadInit ==
    /\ Init
    /\ thread = "none"
    /\ loopPtr = FALSE
    /\ latch = 1
    /\ owner = "new"
    /\ othersQuit = FALSE

-----------------------------------------------------------------------------
(* The owner                                                               *)

\* startLoop(): create the thread, then wait for the latch.
StartLoop ==
    /\ owner = "new"
    /\ owner' = "starting"
    /\ thread' = "building"
    /\ UNCHANGED <<loopPtr, latch, othersQuit, vars>>

\* Mutant: startLoop() does not wait for the latch.
StartLoopReturns_NoWait ==
    /\ owner = "starting"
    /\ owner' = "started"
    /\ UNCHANGED <<thread, loopPtr, latch, othersQuit, vars>>

StartLoopReturns ==
    /\ owner = "starting"
    /\ latch = 0
    /\ owner' = "started"
    /\ UNCHANGED <<thread, loopPtr, latch, othersQuit, vars>>

\* ~EventLoopThread(), line 18: nothing to do unless loop_ is set.  A thread
\* that was started and is not joined is detached by ~Thread().
Destroy ==
    /\ owner \in {"new", "started"}
    /\ caller[Owner] = "idle"
    /\ owner' = IF loopPtr THEN "quitting" ELSE "done"
    /\ UNCHANGED <<thread, loopPtr, latch, othersQuit, vars>>

\* loop_->quit(), first half: quit_ = true.  The build may keep the pointer
\* it tested at line 18, whatever loop_ has become.
DestroyQuits ==
    /\ owner = "quitting"
    /\ owner' = "waking"
    /\ Quit(Owner)
    /\ UNCHANGED <<thread, loopPtr, latch, othersQuit>>

\* Or it may read loop_ again at line 20, and the thread has set it to
\* nullptr in between: the null pointer is dereferenced.
DestroyDereferencesNull ==
    /\ owner = "quitting"
    /\ ~loopPtr
    /\ owner' = "crashed"
    /\ UNCHANGED <<thread, loopPtr, latch, othersQuit, vars>>

\* Mutant: quit() does not wake the loop.
DestroyWakes_NoWrite ==
    /\ owner = "waking"
    /\ owner' = "joining"
    /\ caller' = [caller EXCEPT ![Owner] = "idle"]
    /\ UNCHANGED <<thread, loopPtr, latch, othersQuit, pc, quit,
                   callingPendingFunctor, active, weakupFd, queueVars>>

\* loop_->quit(), second half: the owner is not the loop thread, so weakup().
DestroyWakes ==
    /\ owner = "waking"
    /\ owner' = "joining"
    /\ Weakup(Owner)
    /\ UNCHANGED <<thread, loopPtr, latch, othersQuit>>

DestroyJoins ==
    /\ owner = "joining"
    /\ thread = "finished"
    /\ owner' = "done"
    /\ UNCHANGED <<thread, loopPtr, latch, othersQuit, vars>>

-----------------------------------------------------------------------------
(* The IO thread; it and the callers end with the process                  *)

Running == owner # "crashed"

\* threadFunc() up to loop_ = &loop.
PublishLoop ==
    /\ thread = "building"
    /\ thread' = "published"
    /\ loopPtr' = TRUE
    /\ UNCHANGED <<latch, owner, othersQuit, vars>>

\* Mutant: threadFunc() does not count the latch down.
CountDown_Not ==
    /\ thread = "published"
    /\ thread' = "looping"
    /\ UNCHANGED <<loopPtr, latch, owner, othersQuit, vars>>

CountDown ==
    /\ thread = "published"
    /\ thread' = "looping"
    /\ latch' = 0
    /\ UNCHANGED <<loopPtr, owner, othersQuit, vars>>

\* loop.loop(), with the calls of queueInLoop() its callbacks make.
LoopRuns ==
    /\ thread = "looping"
    /\ \/ LoopStep \/ PollTimesOut
       \/ \E f \in Functors : QueueInLoopHere(f)
    /\ UNCHANGED threadVars

\* A callback or functor calls quit().
LoopQuits ==
    /\ thread = "looping"
    /\ QuitHere
    /\ othersQuit' = TRUE
    /\ UNCHANGED <<thread, loopPtr, latch, owner>>

\* loop() returned: loop_ = nullptr, the thread's last access to the object.
LoopReset ==
    /\ Running
    /\ thread = "looping"
    /\ pc = "stopped"
    /\ thread' = "leaving"
    /\ loopPtr' = FALSE
    /\ UNCHANGED <<latch, owner, othersQuit, vars>>

\* ~EventLoop() at the end of threadFunc(), and the end of the thread.
LoopDestroyed ==
    /\ Running
    /\ thread = "leaving"
    /\ thread' = "finished"
    /\ UNCHANGED <<loopPtr, latch, owner, othersQuit, vars>>

-----------------------------------------------------------------------------
(* Calls of the loop                                                       *)

\* queueInLoop() or quit() called by another thread while the EventLoop
\* exists.  The owner hands connections over while it has the loop; its
\* quit() is the destructor's.
CallLoop(t) ==
    /\ Running
    /\ thread \in {"looping", "leaving"}
    /\ t = Owner => owner = "started"
    /\ \/ /\ \E f \in Functors : QueueInLoop(t, f)
          /\ UNCHANGED othersQuit
       \/ /\ t # Owner
          /\ Quit(t)
          /\ othersQuit' = TRUE
    /\ UNCHANGED <<thread, loopPtr, latch, owner>>

\* The weakup() of such a call, the loop having gone on meanwhile.
CallWakes(t) ==
    /\ Running
    /\ t = Owner => owner = "started"
    /\ Weakup(t)
    /\ UNCHANGED threadVars

OwnerStep ==
    \/ StartLoop \/ StartLoopReturns
    \/ Destroy \/ DestroyQuits \/ DestroyDereferencesNull
    \/ DestroyWakes \/ DestroyJoins

Finished ==
    /\ \/ owner = "done" /\ thread \in {"none", "finished"}
       \/ owner = "crashed"
    /\ UNCHANGED allVars

ThreadNext ==
    \/ OwnerStep
    \/ PublishLoop \/ CountDown
    \/ LoopRuns \/ LoopQuits \/ LoopReset \/ LoopDestroyed
    \/ \E t \in Threads : CallLoop(t) \/ CallWakes(t)
    \/ Finished

ThreadSpec == ThreadInit /\ [][ThreadNext]_allVars

\* Both threads are scheduled once started; the owner need not destroy the
\* object, but a destructor that was entered goes on.
ThreadFairSpec ==
    /\ ThreadSpec
    /\ WF_allVars(StartLoopReturns)
    /\ WF_allVars(DestroyQuits \/ DestroyWakes \/ DestroyJoins)
    /\ WF_allVars(PublishLoop \/ CountDown \/ LoopReset \/ LoopDestroyed)
    /\ WF_allVars(thread = "looping" /\ LoopStep /\ pc # "polling"
                  /\ UNCHANGED threadVars)
    /\ WF_allVars(thread = "looping" /\ PollReturns /\ weakupFd
                  /\ UNCHANGED threadVars)
    /\ \A t \in Threads : WF_allVars(CallWakes(t))

-----------------------------------------------------------------------------
(* Properties                                                              *)

\* What the destructor leaves behind.  When nobody else called quit(), the IO
\* thread was never started or has ended, and line 20 does not meet a null
\* pointer.  When somebody did, the thread may be left behind, detached, but
\* only past line 47: it touches the destroyed object no more.  Both depend on
\* startLoop() having waited for loop_, which the destructor looks at alone.
NoThreadLeftBehind ==
    /\ owner = "done" =>
          \/ thread \in {"none", "finished"}
          \/ othersQuit /\ thread = "leaving"
    /\ owner = "crashed" => othersQuit

\* Once loop() has been entered, quit() ends it and the join returns; the
\* ten-second poll timeout is not needed for it.
JoinReturns ==
    owner = "joining" /\ quit /\ pc # "created" ~> owner = "done"
=============================================================================
