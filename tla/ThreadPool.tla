----------------------------- MODULE ThreadPool -----------------------------
(***************************************************************************)
(* ThreadPool (ThreadPool.cpp): workers that take tasks from a bounded     *)
(* queue guarded by mutex_ and notEmpty_.                                  *)
(*                                                                         *)
(* take() tests the queue and waits on notEmpty_ without holding mutex_.   *)
(* What pthread_cond_wait then does is modelled as glibc does it for a     *)
(* mutex of the default kind: it unlocks the mutex whoever holds it, and   *)
(* on return the waiter holds it.  The guard that follows in take() locks  *)
(* it once more, which for this kind of mutex blocks its own holder.       *)
(* Wake-ups without a notification are left out.                           *)
(***************************************************************************)
EXTENDS Naturals, Sequences

CONSTANTS
    Workers,        \* the threads of pool_
    Tasks,          \* the tasks, one caller of run() for each
    MaxQueueSize,   \* maxQueueSize_; 0 unless setMaxQueueSize() is called
    None            \* nobody, no task

VARIABLES
    running,        \* running_
    queue,          \* queue_
    mutex,          \* mutex_: the thread that locked it, or None
    pc,             \* pc[w]: where worker w is
    task,           \* task[w]: its local task, None for the empty function
    call,           \* call[t]: where the call run(t) is
    stop,           \* where the call of stop() is
    done            \* history: the tasks that were run

vars == <<running, queue, mutex, pc, task, call, stop, done>>
workerVars == <<pc, task, done>>

Init ==
    /\ running = FALSE
    /\ queue = <<>>
    /\ mutex = None
    /\ pc = [w \in Workers |-> "created"]
    /\ task = [w \in Workers |-> None]
    /\ call = [t \in Tasks |-> "idle"]
    /\ stop = "idle"
    /\ done = {}

\* start(): every Thread::start() returns once its thread runs.
Start ==
    /\ ~running /\ stop = "idle"
    /\ running' = TRUE
    /\ pc' = [w \in Workers |-> "loop"]
    /\ UNCHANGED <<queue, mutex, task, call, stop, done>>

-----------------------------------------------------------------------------
(* runInThread() and take()                                                *)

Step(w, from, to) == pc[w] = from /\ pc' = [pc EXCEPT ![w] = to]

Loop(w) ==
    /\ Step(w, "loop", IF running THEN "test" ELSE "ended")
    /\ UNCHANGED <<running, queue, mutex, task, call, stop, done>>

\* while(queue_.empty() && running_)
Test(w) ==
    /\ Step(w, "test", IF queue = <<>> /\ running THEN "wait" ELSE "lock")
    /\ UNCHANGED <<running, queue, mutex, task, call, stop, done>>

\* notEmpty_.wait(): the worker is counted as waiting before the mutex opens.
Wait(w) ==
    /\ Step(w, "wait", "waiting")
    /\ mutex' = None
    /\ UNCHANGED <<running, queue, task, call, stop, done>>

\* The notified worker locks the mutex again, inside pthread_cond_wait.
Relock(w) ==
    /\ Step(w, "notified", "test")
    /\ mutex = None
    /\ mutex' = w
    /\ UNCHANGED <<running, queue, task, call, stop, done>>

Lock(w) ==
    /\ Step(w, "lock", "locked")
    /\ mutex = None
    /\ mutex' = w
    /\ UNCHANGED <<running, queue, task, call, stop, done>>

\* The guard's block: the front of the queue, or the empty function.
Pop(w) ==
    /\ Step(w, "locked", "task")
    /\ mutex' = None
    /\ IF queue = <<>>
       THEN UNCHANGED <<queue, task>>
       ELSE /\ task' = [task EXCEPT ![w] = Head(queue)]
            /\ queue' = Tail(queue)
    /\ UNCHANGED <<running, call, stop, done>>

RunTask(w) ==
    /\ Step(w, "task", "loop")
    /\ task' = [task EXCEPT ![w] = None]
    /\ done' = done \union ({task[w]} \ {None})
    /\ UNCHANGED <<running, queue, mutex, call, stop>>

-----------------------------------------------------------------------------
(* run(task) and stop()                                                    *)

RunLocks(t) ==
    /\ call[t] = "idle"
    /\ mutex = None
    /\ mutex' = t
    /\ call' = [call EXCEPT ![t] = "locked"]
    /\ UNCHANGED <<running, queue, stop, workerVars>>

\* A full queue drops the task.
RunPushes(t) ==
    /\ call[t] = "locked"
    /\ mutex' = None
    /\ IF Len(queue) < MaxQueueSize
       THEN /\ queue' = Append(queue, t)
            /\ call' = [call EXCEPT ![t] = "accepted"]
       ELSE /\ UNCHANGED queue
            /\ call' = [call EXCEPT ![t] = "dropped"]
    /\ UNCHANGED <<running, stop, workerVars>>

\* notify(), after the mutex was released.
RunNotifies(t) ==
    /\ call[t] \in {"accepted", "dropped"}
    /\ call' = [call EXCEPT ![t] = IF @ = "accepted" THEN "queued" ELSE "refused"]
    /\ IF \E w \in Workers : pc[w] = "waiting"
       THEN \E w \in Workers : Step(w, "waiting", "notified")
       ELSE UNCHANGED pc
    /\ UNCHANGED <<running, queue, mutex, task, stop, done>>

StopLocks ==
    /\ running /\ stop = "idle"
    /\ mutex = None
    /\ mutex' = "stop"
    /\ stop' = "locked"
    /\ UNCHANGED <<running, queue, call, workerVars>>

StopNotifiesAll ==
    /\ stop = "locked"
    /\ running' = FALSE
    /\ pc' = [w \in Workers |-> IF pc[w] = "waiting" THEN "notified" ELSE pc[w]]
    /\ mutex' = None
    /\ stop' = "joining"
    /\ UNCHANGED <<queue, task, call, done>>

Joined ==
    /\ stop = "joining"
    /\ \A w \in Workers : pc[w] = "ended"
    /\ stop' = "done"
    /\ UNCHANGED <<running, queue, mutex, call, workerVars>>

-----------------------------------------------------------------------------

WorkerStep(w) ==
    Loop(w) \/ Test(w) \/ Wait(w) \/ Relock(w) \/ Lock(w) \/ Pop(w) \/ RunTask(w)

CallStep(t) == RunPushes(t) \/ RunNotifies(t)

StopStep == StopNotifiesAll \/ Joined

Next ==
    \/ Start
    \/ \E w \in Workers : WorkerStep(w)
    \/ \E t \in Tasks : RunLocks(t) \/ CallStep(t)
    \/ StopLocks \/ StopStep

\* start() is called, threads are scheduled, calls that were begun go on, and
\* a mutex that is free again and again is at some time got.
Spec ==
    /\ Init
    /\ [][Next]_vars
    /\ \A w \in Workers :
          /\ WF_vars(WorkerStep(w))
          /\ SF_vars(Relock(w))
          /\ SF_vars(Lock(w))
    /\ \A t \in Tasks : WF_vars(CallStep(t))
    /\ WF_vars(Start)
    /\ WF_vars(StopStep)

-----------------------------------------------------------------------------

\* A task that run() put into the queue is run, unless the pool is stopped:
\* the worker that waits in take() is woken by run(), takes it and runs it.
TasksAreRun ==
    \A t \in Tasks :
        call[t] = "accepted" ~> t \in done \/ stop # "idle"
=============================================================================
