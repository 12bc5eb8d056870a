----------------------- MODULE EventLoopThreadProofs -----------------------
(***************************************************************************)
(* Proofs about EventLoop, for any sets of threads and of functors, and    *)
(* about EventLoopThread, for any threads that call the loop.              *)
(***************************************************************************)
EXTENDS EventLoopThread, SequenceTheorems, TLAPS

-----------------------------------------------------------------------------
(* Sequences                                                               *)

\* The empty sequence is a sequence of anything.
LEMMA EmptySeqType == ASSUME NEW S PROVE <<>> \in Seq(S)
  OBVIOUS

\* Moving the head of s to the end of t leaves t followed by s as it was.
LEMMA MoveHead ==
  ASSUME NEW S, NEW s \in Seq(S), NEW t \in Seq(S), s # <<>>
  PROVE  Append(t, Head(s)) \o Tail(s) = t \o s
  BY SMTT(30)

\* Taking the head off s takes it off s followed by t.
LEMMA TailOfConcat ==
  ASSUME NEW S, NEW s \in Seq(S), NEW t \in Seq(S), s # <<>>
  PROVE  /\ s \o t # <<>>
         /\ Head(s \o t) = Head(s)
         /\ Tail(s \o t) = Tail(s) \o t
  BY SMTT(30)

\* Appending to t appends to s followed by t.
LEMMA AppendToConcat ==
  ASSUME NEW S, NEW s \in Seq(S), NEW t \in Seq(S), NEW e \in S
  PROVE  s \o Append(t, e) = Append(s \o t, e)
  BY SMTT(30)

-----------------------------------------------------------------------------
(* Type correctness                                                        *)

\* The type invariant: every field of the loop, and where each thread may be.
THEOREM TypeCorrect == Spec => []TypeOK
<1>1. Init => TypeOK
  BY EmptySeqType DEF Init, TypeOK, FieldsOK, CallingFlagOK, LoopPC
<1>2. FieldsOK /\ [Next]_vars => FieldsOK'
  <2> SUFFICES ASSUME FieldsOK, [Next]_vars PROVE FieldsOK'
    OBVIOUS
  <2> USE DEF FieldsOK, LoopPC
  <2>1. CASE EnterLoop \/ CheckQuit
    BY <2>1 DEF EnterLoop, CheckQuit, queueVars
  <2>2. CASE PollReturns \/ PollTimesOut
    BY <2>2 DEF PollReturns, PollTimesOut, queueVars
  <2>3. CASE HandleWeakup \/ HandleIo \/ HandlerReturns \/ EventsDone
    BY <2>3 DEF HandleWeakup, HandleIo, HandlerReturns, EventsDone, queueVars
  <2>4. CASE SwapFunctors
    BY <2>4, EmptySeqType DEF SwapFunctors
  <2>5. CASE RunFunctor
    BY <2>5, HeadTailProperties, AppendProperties DEF RunFunctor
  <2>6. CASE FunctorReturns \/ FunctorsDone
    BY <2>6 DEF FunctorReturns, FunctorsDone, queueVars
  <2>7. CASE CallbackStep
    <3>1. CASE QuitHere
      BY <3>1 DEF QuitHere, queueVars
    <3>2. ASSUME NEW f \in Functors, QueueInLoopHere(f) PROVE FieldsOK'
      <4>1. (weakupFd \/ callingPendingFunctor) \in BOOLEAN
        OBVIOUS
      <4> QED
        BY <3>2, <4>1, AppendProperties DEF QueueInLoopHere, Push
    <3> QED
      BY <2>7, <3>1, <3>2 DEF CallbackStep
  <2>8. CASE \E t \in Threads : ThreadStep(t)
    <3>1. PICK t \in Threads : ThreadStep(t)
      BY <2>8
    <3>2. CASE Quit(t) \/ Weakup(t)
      BY <3>2 DEF Quit, Weakup, queueVars
    <3>3. ASSUME NEW f \in Functors, QueueInLoop(t, f) PROVE FieldsOK'
      BY <3>3, AppendProperties DEF QueueInLoop, Push
    <3> QED
      BY <3>1, <3>2, <3>3 DEF ThreadStep
  <2>9. CASE UNCHANGED vars
    BY <2>9 DEF vars, queueVars
  <2> QED
    BY <2>1, <2>2, <2>3, <2>4, <2>5, <2>6, <2>7, <2>8, <2>9
    DEF Next, LoopStep
<1>3. CallingFlagOK /\ [Next]_vars => CallingFlagOK'
  <2> SUFFICES ASSUME CallingFlagOK, [Next]_vars PROVE CallingFlagOK'
    OBVIOUS
  <2> USE DEF CallingFlagOK, queueVars
  <2>1. CASE LoopStep \/ PollTimesOut
    BY <2>1 DEF LoopStep, EnterLoop, CheckQuit, PollReturns, PollTimesOut,
       HandleWeakup, HandleIo, HandlerReturns, EventsDone, SwapFunctors,
       RunFunctor, FunctorReturns, FunctorsDone
  <2>2. CASE CallbackStep
    BY <2>2 DEF CallbackStep, QueueInLoopHere, QuitHere
  <2>3. CASE \E t \in Threads : ThreadStep(t)
    BY <2>3 DEF ThreadStep, QueueInLoop, Quit, Weakup
  <2>4. CASE UNCHANGED vars
    BY <2>4 DEF vars
  <2> QED
    BY <2>1, <2>2, <2>3, <2>4 DEF Next
<1> QED
  BY <1>1, <1>2, <1>3, PTL DEF Spec, TypeOK

-----------------------------------------------------------------------------
(* Wakeups                                                                 *)

\* Somebody has made, or is about to make, the eventfd readable.
WeakupOnItsWay == weakupFd \/ \E t \in Threads : caller[t] = "waking"

\* Why no wakeup is lost.  NoLostWeakup speaks of the poller only; what
\* carries it is that from the swap until the next epoll_wait every push is
\* matched by a wakeup.  Between epoll_wait and the swap it need not be (a
\* channel callback pushes without waking, and handleRead clears the
\* eventfd): the swap that is still to come empties the queue.
WeakupInv ==
    /\ pendingFunctors # <<>>
         /\ pc \in {"created", "functors", "functor", "check", "polling"}
       => WeakupOnItsWay
    /\ quit /\ pc = "polling" => WeakupOnItsWay

\* WeakupInv is an invariant of the loop.
THEOREM WeakupInvariant == Spec => []WeakupInv
<1>1. Init => WeakupInv
  BY DEF Init, WeakupInv
<1>2. TypeOK /\ WeakupInv /\ [Next]_vars => WeakupInv'
  <2> SUFFICES ASSUME TypeOK, WeakupInv, [Next]_vars PROVE WeakupInv'
    OBVIOUS
  <2> USE DEF WeakupInv, WeakupOnItsWay
  <2>1. CASE EnterLoop
    BY <2>1 DEF EnterLoop, queueVars
  <2>2. CASE CheckQuit
    BY <2>2 DEF CheckQuit, queueVars
  <2>3. CASE PollReturns
    BY <2>3 DEF PollReturns, queueVars
  <2>4. CASE PollTimesOut
    BY <2>4 DEF PollTimesOut, queueVars
  <2>5. CASE HandleWeakup
    BY <2>5 DEF HandleWeakup, queueVars
  <2>6. CASE HandleIo \/ HandlerReturns \/ EventsDone
    BY <2>6 DEF HandleIo, HandlerReturns, EventsDone, queueVars
  <2>7. CASE SwapFunctors
    BY <2>7 DEF SwapFunctors
  <2>8. CASE RunFunctor
    BY <2>8 DEF RunFunctor
  <2>9. CASE FunctorReturns \/ FunctorsDone
    BY <2>9 DEF FunctorReturns, FunctorsDone, queueVars
  <2>10. CASE CallbackStep
    <3>1. CASE QuitHere
      BY <3>1 DEF QuitHere, InCallback, queueVars
    <3>2. ASSUME NEW f \in Functors, QueueInLoopHere(f) PROVE WeakupInv'
      BY <3>2 DEF QueueInLoopHere, InCallback, TypeOK, CallingFlagOK
    <3> QED
      BY <2>10, <3>1, <3>2 DEF CallbackStep
  <2>11. CASE \E t \in Threads : ThreadStep(t)
    <3>1. PICK t \in Threads : ThreadStep(t)
      BY <2>11
    <3> USE DEF TypeOK, FieldsOK
    <3>2. CASE Quit(t)
      BY <3>2 DEF Quit, queueVars
    <3>3. CASE Weakup(t)
      BY <3>3 DEF Weakup, queueVars
    <3>4. ASSUME NEW f \in Functors, QueueInLoop(t, f) PROVE WeakupInv'
      BY <3>4 DEF QueueInLoop
    <3> QED
      BY <3>1, <3>2, <3>3, <3>4 DEF ThreadStep
  <2>12. CASE UNCHANGED vars
    BY <2>12 DEF vars
  <2> QED
    BY <2>1, <2>2, <2>3, <2>4, <2>5, <2>6, <2>7, <2>8, <2>9, <2>10, <2>11,
       <2>12 DEF Next, LoopStep
<1> QED
  BY <1>1, <1>2, TypeCorrect, PTL DEF Spec

\* No wakeup is lost, for any number of threads: a loop thread blocked in
\* epoll_wait with work queued, or with quit() called, is being woken.
THEOREM NoWeakupIsLost == Spec => []NoLostWeakup
<1>1. WeakupInv => NoLostWeakup
  BY DEF WeakupInv, NoLostWeakup, WeakupOnItsWay
<1> QED
  BY <1>1, WeakupInvariant, PTL

-----------------------------------------------------------------------------
(* Order: the loop implements FunctorQueue                                 *)

\* Outside doPendingFunctors no functor waits in its list.
ListInv == pc \notin {"functors", "functor"} => list = <<>>

\* ListInv is an invariant of the loop.
THEOREM ListInvariant == Spec => []ListInv
<1>1. Init => ListInv
  BY DEF Init, ListInv
<1>2. ListInv /\ [Next]_vars => ListInv'
  <2> SUFFICES ASSUME ListInv, [Next]_vars PROVE ListInv'
    OBVIOUS
  <2> USE DEF ListInv
  <2>1. CASE LoopStep
    BY <2>1 DEF LoopStep, EnterLoop, CheckQuit, PollReturns, HandleWeakup,
       HandleIo, HandlerReturns, EventsDone, SwapFunctors, RunFunctor,
       FunctorReturns, FunctorsDone, queueVars
  <2>2. CASE PollTimesOut
    BY <2>2 DEF PollTimesOut, queueVars
  <2>3. CASE CallbackStep
    BY <2>3 DEF CallbackStep, QueueInLoopHere, QuitHere, queueVars
  <2>4. CASE \E t \in Threads : ThreadStep(t)
    BY <2>4 DEF ThreadStep, QueueInLoop, Quit, Weakup, queueVars
  <2>5. CASE UNCHANGED vars
    BY <2>5 DEF vars
  <2> QED
    BY <2>1, <2>2, <2>3, <2>4, <2>5 DEF Next
<1> QED
  BY <1>1, <1>2, PTL DEF Spec

\* A push, from wherever, is a Submit of the abstract queue.
LEMMA PushSubmits ==
  ASSUME TypeOK, NEW f \in Functors, Push(f), UNCHANGED <<list, executed>>
  PROVE  FQ!Submit(f)
<1>1. list \o Append(pendingFunctors, f) = Append(list \o pendingFunctors, f)
  BY AppendToConcat DEF TypeOK, FieldsOK
<1> QED
  BY <1>1 DEF Push, FQ!Submit

\* A step that leaves the functors alone is a stutter of the abstract queue.
LEMMA OtherStepsStutter ==
  ASSUME UNCHANGED queueVars
  PROVE  UNCHANGED FQ!vars
  BY DEF queueVars, FQ!vars

\* The loop runs functors once each, in the order of their push.
THEOREM Refinement == Spec => ImplementsFunctorQueue
<1>1. Init => FQ!Init
  BY DEF Init, FQ!Init
<1>2. TypeOK /\ ListInv /\ [Next]_vars => [FQ!Next]_FQ!vars
  <2> SUFFICES ASSUME TypeOK, ListInv, [Next]_vars
               PROVE  FQ!Next \/ UNCHANGED FQ!vars
    OBVIOUS
  <2>1. CASE UNCHANGED queueVars
    BY <2>1, OtherStepsStutter
  <2>2. CASE SwapFunctors
    <3>1. list = <<>>
      BY <2>2 DEF SwapFunctors, ListInv
    <3>2. list \o pendingFunctors = list' \o pendingFunctors'
      BY <2>2, <3>1, ConcatProperties DEF SwapFunctors, TypeOK
    <3> QED
      BY <2>2, <3>2 DEF SwapFunctors, FQ!vars
  <2>3. CASE RunFunctor
    <3>1. /\ list \o pendingFunctors # <<>>
          /\ Head(list \o pendingFunctors) = Head(list)
          /\ Tail(list \o pendingFunctors) = Tail(list) \o pendingFunctors
      BY <2>3, TailOfConcat DEF RunFunctor, TypeOK
    <3> QED
      BY <2>3, <3>1 DEF RunFunctor, FQ!Next, FQ!Execute
  <2>4. CASE CallbackStep
    BY <2>4, <2>1, PushSubmits
    DEF CallbackStep, QueueInLoopHere, QuitHere, FQ!Next
  <2>5. CASE \E t \in Threads : ThreadStep(t)
    BY <2>5, <2>1, PushSubmits
    DEF ThreadStep, QueueInLoop, Quit, Weakup, FQ!Next
  <2>6. CASE LoopStep \/ PollTimesOut
    BY <2>6, <2>1, <2>2, <2>3 DEF LoopStep, PollTimesOut, EnterLoop, CheckQuit,
       PollReturns, HandleWeakup, HandleIo, HandlerReturns, EventsDone,
       FunctorReturns, FunctorsDone
  <2>7. CASE UNCHANGED vars
    BY <2>7, <2>1 DEF vars, queueVars
  <2> QED
    BY <2>4, <2>5, <2>6, <2>7 DEF Next
<1> QED
  BY <1>1, <1>2, TypeCorrect, ListInvariant, PTL
  DEF Spec, ImplementsFunctorQueue, FQ!Spec

-----------------------------------------------------------------------------
(* Batches                                                                 *)

\* What doPendingFunctors runs is fixed at its swap.
THEOREM BatchesAreFixed == Spec => BatchFixedAtSwap
<1>1. TypeOK /\ [Next]_vars =>
        [(pc \in {"functors", "functor"}) =>
            executed' \o list' = executed \o list]_vars
  <2> SUFFICES ASSUME TypeOK, Next, pc \in {"functors", "functor"}
               PROVE  executed' \o list' = executed \o list
    OBVIOUS
  <2>1. CASE UNCHANGED <<list, executed>>
    BY <2>1
  <2>2. CASE RunFunctor
    BY <2>2, MoveHead DEF RunFunctor, TypeOK
  <2>3. CASE LoopStep \/ PollTimesOut
    BY <2>3, <2>1, <2>2 DEF LoopStep, PollTimesOut, EnterLoop, CheckQuit,
       PollReturns, HandleWeakup, HandleIo, HandlerReturns, EventsDone,
       SwapFunctors, FunctorReturns, FunctorsDone, queueVars
  <2>4. CASE CallbackStep
    BY <2>4, <2>1 DEF CallbackStep, QueueInLoopHere, QuitHere, queueVars
  <2>5. CASE \E t \in Threads : ThreadStep(t)
    BY <2>5, <2>1 DEF ThreadStep, QueueInLoop, Quit, Weakup, queueVars
  <2> QED
    BY <2>3, <2>4, <2>5 DEF Next
<1> QED
  BY <1>1, TypeCorrect, PTL DEF Spec, BatchFixedAtSwap

-----------------------------------------------------------------------------
(* The loop of an EventLoopThread is an EventLoop                          *)

\* A step of the owner, of the io thread or of a caller is a step of the loop
\* or leaves the loop alone.
LEMMA ThreadStepIsLoopStep == [ThreadNext]_allVars => [Next]_vars
<1> SUFFICES ASSUME [ThreadNext]_allVars PROVE Next \/ UNCHANGED vars
  OBVIOUS
<1>1. CASE \/ StartLoop \/ StartLoopReturns
           \/ Destroy \/ DestroyDereferencesNull \/ DestroyJoins
  BY <1>1 DEF StartLoop, StartLoopReturns, Destroy, DestroyDereferencesNull,
              DestroyJoins
<1>2. CASE DestroyQuits \/ DestroyWakes
  BY <1>2, OwnerAssumption DEF DestroyQuits, DestroyWakes, Next, ThreadStep
<1>3. CASE PublishLoop \/ CountDown \/ LoopReset \/ LoopDestroyed
  BY <1>3 DEF PublishLoop, CountDown, LoopReset, LoopDestroyed
<1>4. CASE LoopRuns \/ LoopQuits
  BY <1>4 DEF LoopRuns, LoopQuits, CallbackStep, Next
<1>5. CASE \E t \in Threads : CallLoop(t) \/ CallWakes(t)
  BY <1>5 DEF CallLoop, CallWakes, Next, ThreadStep
<1>6. CASE Finished \/ UNCHANGED allVars
  BY <1>6 DEF Finished, allVars
<1> QED
  BY <1>1, <1>2, <1>3, <1>4, <1>5, <1>6 DEF ThreadNext, OwnerStep

\* An io thread from its start to its end is a run of EventLoop, so what is
\* proved of the loop holds of every EventLoopThread.
THEOREM ThreadImplementsLoop == ThreadSpec => Spec
<1>1. ThreadInit => Init
  BY DEF ThreadInit
<1> QED
  BY <1>1, ThreadStepIsLoopStep, PTL DEF ThreadSpec, Spec

\* No wakeup of an io thread's loop is lost, between startLoop() and the end
\* of the destructor.
THEOREM ThreadLosesNoWeakup == ThreadSpec => []NoLostWeakup
  BY ThreadImplementsLoop, NoWeakupIsLost, PTL

\* An io thread runs the functors it is given once each, in order.
THEOREM ThreadRefinement == ThreadSpec => ImplementsFunctorQueue
  BY ThreadImplementsLoop, Refinement, PTL

-----------------------------------------------------------------------------
(* Start and destruction                                                   *)

\* The owner's and the io thread's own variables.
ThreadFieldsOK ==
    /\ thread \in ThreadStates
    /\ owner \in {"new", "starting", "started", "quitting", "waking",
                  "joining", "done", "crashed"}
    /\ loopPtr \in BOOLEAN
    /\ loopPtr <=> thread \in {"published", "looping"}
    /\ latch = IF thread \in {"looping", "leaving", "finished"} THEN 0 ELSE 1
    /\ othersQuit \in BOOLEAN

\* Why the destructor leaves no running loop behind.  It looks at loop_ only,
\* which is null both before the thread has published its loop and after the
\* loop has stopped; the latch rules the first case out once startLoop() has
\* returned.  In the second, the loop has stopped because of a quit(), and
\* until the destructor has called its own, that was somebody else's.
OwnerInv ==
    /\ owner = "new" => thread = "none"
    /\ owner \in {"started", "quitting", "waking", "joining"} =>
          thread \in {"looping", "leaving", "finished"}
    /\ thread \in {"leaving", "finished"} => pc = "stopped"
    /\ owner \in {"new", "starting", "started", "quitting"} /\ ~othersQuit =>
          ~quit /\ pc # "stopped"
    /\ NoThreadLeftBehind

\* ThreadFieldsOK and OwnerInv are invariants, the second with the help of the
\* first.
THEOREM OwnerInvariant == ThreadSpec => [](ThreadFieldsOK /\ OwnerInv)
<1>1. ThreadInit => ThreadFieldsOK /\ OwnerInv
  BY DEF ThreadInit, Init, ThreadFieldsOK, ThreadStates, OwnerInv,
         NoThreadLeftBehind
<1>2. ThreadFieldsOK /\ OwnerInv /\ [ThreadNext]_allVars
        => ThreadFieldsOK' /\ OwnerInv'
  <2> SUFFICES ASSUME ThreadFieldsOK, OwnerInv, [ThreadNext]_allVars
               PROVE  ThreadFieldsOK' /\ OwnerInv'
    OBVIOUS
  <2> USE DEF ThreadFieldsOK, ThreadStates, OwnerInv, NoThreadLeftBehind
  <2>1. CASE StartLoop \/ StartLoopReturns \/ DestroyJoins
    BY <2>1 DEF StartLoop, StartLoopReturns, DestroyJoins, vars
  <2>2. CASE Destroy \/ DestroyDereferencesNull
    BY <2>2 DEF Destroy, DestroyDereferencesNull, vars
  <2>3. CASE DestroyQuits \/ DestroyWakes
    BY <2>3 DEF DestroyQuits, DestroyWakes, Quit, Weakup
  <2>4. CASE PublishLoop \/ CountDown
    <3>1. CASE PublishLoop
      BY <3>1 DEF PublishLoop, vars
    <3>2. CASE CountDown
      BY <3>2 DEF CountDown, vars
    <3> QED
      BY <2>4, <3>1, <3>2
  <2>5. CASE LoopReset \/ LoopDestroyed
    <3>1. CASE LoopReset
      BY <3>1 DEF LoopReset, vars
    <3>2. CASE LoopDestroyed
      BY <3>2 DEF LoopDestroyed, vars
    <3> QED
      BY <2>5, <3>1, <3>2
  <2>6. CASE LoopQuits
    BY <2>6 DEF LoopQuits, QuitHere
  <2>7. CASE LoopRuns
    <3>1. ~quit /\ pc # "stopped" => ~quit' /\ pc' # "stopped"
      BY <2>7 DEF LoopRuns, LoopStep, PollTimesOut, EnterLoop, CheckQuit,
         PollReturns, HandleWeakup, HandleIo, HandlerReturns, EventsDone,
         SwapFunctors, RunFunctor, FunctorReturns, FunctorsDone,
         QueueInLoopHere
    <3> QED
      BY <2>7, <3>1 DEF LoopRuns, threadVars
  <2>8. CASE \E t \in Threads : CallLoop(t) \/ CallWakes(t)
    <3>1. UNCHANGED <<pc, thread, loopPtr, latch, owner>>
      BY <2>8 DEF CallLoop, CallWakes, QueueInLoop, Quit, Weakup, threadVars
    <3>2. othersQuit' = TRUE \/ UNCHANGED <<quit, othersQuit>>
      BY <2>8 DEF CallLoop, CallWakes, QueueInLoop, Quit, Weakup, threadVars
    <3>3. CASE othersQuit' = TRUE
      BY <3>1, <3>3
    <3>4. CASE UNCHANGED <<quit, othersQuit>>
      BY <3>1, <3>4
    <3> QED
      BY <3>2, <3>3, <3>4
  <2>9. CASE Finished \/ UNCHANGED allVars
    BY <2>9 DEF Finished, allVars, threadVars, vars
  <2> QED
    BY <2>1, <2>2, <2>3, <2>4, <2>5, <2>6, <2>7, <2>8, <2>9
    DEF ThreadNext, OwnerStep
<1> QED
  BY <1>1, <1>2, PTL DEF ThreadSpec

\* Types of the thread and of its loop; loop_ is set from line 42 to line 47
\* of threadFunc() and the latch is open from line 43 on.
THEOREM ThreadTypeCorrect == ThreadSpec => []ThreadTypeOK
<1>1. TypeOK /\ ThreadFieldsOK => ThreadTypeOK
  BY DEF ThreadFieldsOK, ThreadTypeOK
<1> QED
  BY <1>1, ThreadImplementsLoop, TypeCorrect, OwnerInvariant, PTL

\* ~EventLoopThread() returns with the io thread ended or never started,
\* unless someone else ended the loop; then the thread may still be on its way
\* out, past its last access to the object, or line 20 may meet a null loop_.
THEOREM DestructorEndsThread == ThreadSpec => []NoThreadLeftBehind
<1>1. OwnerInv => NoThreadLeftBehind
  BY DEF OwnerInv
<1> QED
  BY <1>1, OwnerInvariant, PTL
=============================================================================
