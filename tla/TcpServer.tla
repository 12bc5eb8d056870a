----------------------------- MODULE TcpServer -----------------------------
(***************************************************************************)
(* TcpServer, its connections and the event loops they live on.  The main  *)
(* loop accepts and keeps connections_; each connection belongs to one     *)
(* loop of the pool, chosen round robin.  A connection is closed on its    *)
(* own loop, taken out of connections_ on the main loop, and destroyed on  *)
(* its own loop again; the pointers that the queued functors hold decide   *)
(* when its memory goes.                                                   *)
(*                                                                         *)
(* A loop turns through three phases (EventLoop.cpp:58-76): epoll_wait     *)
(* takes a snapshot of the ready channels, their handlers run one after    *)
(* the other, then the functors that were queued at the swap.  That queued *)
(* functors are run in order and that the poller wakes for them is         *)
(* EventLoop.tla's business and is used here.                              *)
(*                                                                         *)
(* The kernel's side of a socket (sock) and the peer are external.         *)
(***************************************************************************)
EXTENDS TcpConnection, FiniteSets, Functions, SequenceUtil

CONSTANTS
    Conns,          \* connections that peers may open
    Pools,          \* the pools it may be started with, sequences of io
                    \* loops; <<>>: only the base loop
    MaxRequests,    \* bound: segments a peer sends on a connection
    MaxBytes,       \* bound: bytes the application sends on a connection
    MaxMessage,     \* bound: bytes of one message, a size_t
    MaxCalls,       \* bound: calls of the further callers below
    AppMoves,       \* how message callbacks may end (MessageCallback's then)
    CallerSets      \* the sets of further callers there may be: "idle",
                    \* "delay", "sender", "closer", see below

ASSUME TcpServerAssumption ==
    /\ {MaxRequests, MaxBytes, MaxCalls} \subseteq Nat
    /\ MaxMessage \in 1..(SizeLimit - 1)
    /\ AppMoves \subseteq {"stay", "shutdown", "forceClose"}
    /\ UNION CallerSets \subseteq {"idle", "delay", "sender", "closer"}
    /\ \A pl \in Pools : pl \in Seq(Range(pl)) /\ "main" \notin Range(pl)

VARIABLES
    conn,           \* the connection objects
    sock,           \* the kernel's side: peer, unread segments, SO_ERROR
    connections,    \* connections_
    pool,           \* EventLoopThreadPool::loops_, fixed by setThreadNum
    callers,        \* the further callers there are
    loopOf,         \* conn->getLoop()
    next,           \* EventLoopThreadPool::next_
    killed,         \* SIGPIPE has ended the process
    phase,          \* of each loop: poll, events, functors
    active,         \* of each loop: the snapshot, revents of each connection
    acceptReady,    \* the acceptor's channel is in the main loop's snapshot
    pending,        \* of each loop: pendingFunctors_
    list,           \* of each loop: the functors of this turn still to run
    held,           \* of each loop: connections held by functors of this
                    \* turn that have run; the list is destroyed at its end
    timers,         \* connections with a forceCloseWithDelay timer
    foreign,        \* a thread that is in the middle of a call
    calls,          \* calls made by the further callers so far
    removals,       \* history: removeConnectionInLoop calls per connection
    misuse          \* history: connections touched after their destruction

connVars == <<conn, sock>>
loopVars == <<phase, active, acceptReady, pending, list, held>>
servVars == <<pool, callers, loopOf, next, killed>>
vars == <<conn, sock, connections, servVars, loopVars, timers, foreign, calls,
          removals, misuse>>

Loops == {"main"} \union UNION {Range(pl) : pl \in Pools}
Events == {"IN", "OUT", "HUP", "ERR"}
FunctorNames == {"connectEstablished", "connectDestroyed", "writeComplete",
                 "highWaterMark", "sendInLoop", "shutdownInLoop",
                 "forceCloseInLoop",
                 "removeConnectionInLoop"}
NoCall == [at |-> "idle"]

\* Type correctness; a handler leaves nothing of its own queue behind, and
\* next_ stays an index of the pool.
TypeOK ==
    /\ \A c \in Conns :
          /\ conn[c].state \in States
          /\ conn[c].index \in {"new", "added", "deleted"}
          /\ conn[c].queued = <<>>
          /\ conn[c].accepted \in 0..MaxBytes
    /\ \A c \in Conns :
          /\ sock[c].peer \in {"none", "open", "fin", "rst", "refused"}
          /\ sock[c].unread \in 0..sock[c].sent
          /\ sock[c].sent \in 0..MaxRequests
          /\ sock[c].err \in BOOLEAN
    /\ connections \subseteq Conns
    /\ loopOf \in [Conns -> Loops]
    /\ pool \in Pools /\ callers \in CallerSets
    /\ next \in Nat /\ (next = 0 \/ next < Len(pool))
    /\ killed \in BOOLEAN
    /\ phase \in [Loops -> {"poll", "events", "functors"}]
    /\ active \in [Loops -> [Conns -> SUBSET Events]]
    /\ \A l \in Loops : \A f \in Range(pending[l]) \union Range(list[l]) :
          f.fn \in FunctorNames /\ f.c \in Conns
    /\ acceptReady \in BOOLEAN
    /\ held \in [Loops -> SUBSET Conns]
    /\ timers \subseteq Conns
    /\ calls \in 0..MaxCalls
    /\ removals \in [Conns -> Nat]
    /\ misuse \subseteq Conns

Init ==
    /\ conn = [c \in Conns |-> NoConnection]
    /\ sock = [c \in Conns |->
                  [peer |-> "none", unread |-> 0, sent |-> 0, err |-> FALSE]]
    /\ connections = {}
    /\ pool \in Pools
    /\ callers \in CallerSets
    /\ loopOf = [c \in Conns |-> "main"]
    /\ next = 0
    /\ killed = FALSE
    /\ phase = [l \in Loops |-> "poll"]
    /\ active = [l \in Loops |-> [c \in Conns |-> {}]]
    /\ acceptReady = FALSE
    /\ pending = [l \in Loops |-> <<>>]
    /\ list = [l \in Loops |-> <<>>]
    /\ held = [l \in Loops |-> {}]
    /\ timers = {}
    /\ foreign = NoCall
    /\ calls = 0
    /\ removals = [c \in Conns |-> 0]
    /\ misuse = {}

-----------------------------------------------------------------------------
(* Lifetime                                                                *)

\* Somebody holds a TcpConnectionPtr: connections_, a functor bound to
\* shared_from_this() that is queued or in the list of this turn, or a
\* thread that is calling a method.
Alive(c) ==
    \/ c \in connections
    \/ \E l \in Loops :
          \/ c \in held[l]
          \/ \E f \in Range(pending[l]) \union Range(list[l]) :
                f.c = c /\ (f.fn = "removeConnectionInLoop" \/ Owning(f.fn))
    \/ foreign.at # "idle" /\ foreign.c = c

Destroyed(c) == conn[c].state # "None" /\ ~Alive(c)

-----------------------------------------------------------------------------
(* Queues                                                                  *)

Functor(c) == [fn \in FunctorNames |-> [fn |-> fn, c |-> c]]

\* Mutant: the connection is destroyed at once, without the main loop.
RemoveConnection_Direct(c, queues) ==
    [queues EXCEPT ![loopOf[c]] = Append(@, Functor(c)["connectDestroyed"])]

\* TcpServer::removeConnection, called by handleClose on c's loop: runInLoop
\* on the main loop, which is a plain call when c lives on the main loop.
RemoveConnection(c, queues) ==
    IF loopOf[c] = "main"
    THEN [queues EXCEPT !["main"] = Append(@, Functor(c)["connectDestroyed"])]
    ELSE [queues EXCEPT !["main"] =
             Append(@, Functor(c)["removeConnectionInLoop"])]

\* A handler of c has run and left the record r: its queueInLoop calls and
\* its closeCallback_ take effect.
Commit(c, r) ==
    LET l == loopOf[c]
        own == [i \in 1..Len(r.queued) |-> Functor(c)[r.queued[i]]]
        queues == [pending EXCEPT ![l] = @ \o own]
        closing == r.closes > conn[c].closes
        direct == closing /\ l = "main"
    IN  /\ conn' = [conn EXCEPT ![c] = [r EXCEPT !.queued = <<>>]]
        /\ pending' = IF closing THEN RemoveConnection(c, queues) ELSE queues
        /\ connections' = IF direct THEN connections \ {c} ELSE connections
        /\ removals' = IF direct THEN [removals EXCEPT ![c] = @ + 1]
                       ELSE removals

\* The same for code that a destroyed connection has no business running.
CommitIfAlive(c, r) ==
    IF Destroyed(c)
    THEN /\ misuse' = misuse \union {c}
         /\ UNCHANGED <<conn, pending, connections, removals>>
    ELSE /\ Commit(c, r)
         /\ UNCHANGED misuse

-----------------------------------------------------------------------------
(* The peer and the kernel (external)                                      *)

envUnchanged == <<conn, connections, servVars, loopVars, timers, foreign,
                  calls, removals, misuse>>

PeerConnects(c) ==
    /\ sock[c].peer = "none"
    /\ sock' = [sock EXCEPT ![c].peer = "open"]
    /\ UNCHANGED envUnchanged

PeerSends(c) ==
    /\ sock[c].peer = "open"
    /\ sock[c].sent < MaxRequests
    /\ sock' = [sock EXCEPT ![c].unread = @ + 1, ![c].sent = @ + 1]
    /\ UNCHANGED envUnchanged

PeerCloses(c) ==
    /\ sock[c].peer = "open"
    /\ sock' = [sock EXCEPT ![c].peer = "fin"]
    /\ UNCHANGED envUnchanged

\* A reset throws away what was not read and leaves an error on the socket.
PeerResets(c) ==
    /\ sock[c].peer \in {"open", "fin"}
    /\ sock' = [sock EXCEPT ![c].peer = "rst", ![c].unread = 0, ![c].err = TRUE]
    /\ UNCHANGED envUnchanged

\* What epoll reports of c; w says that there is room to write.
Ready(c, w) ==
    LET r == conn[c]
        s == sock[c]
        gone == s.peer \in {"fin", "rst"}
    IN  IF r.index # "added" THEN {}
        ELSE {e \in Events :
                CASE e = "IN"  -> r.rd /\ (s.unread > 0 \/ gone)
                  [] e = "OUT" -> r.wr /\ (w \/ s.peer = "rst")
                  [] e = "HUP" -> s.peer = "rst" \/ (s.peer = "fin" /\ r.fin)
                  [] e = "ERR" -> s.err}

\* What readv finds: the error left by a reset is reported first unless the
\* error callback fetched it.
Got(c) ==
    CASE sock[c].unread > 0 -> "data"
      [] sock[c].err /\ "ERR" \notin active[loopOf[c]][c] -> "error"
      [] OTHER -> "eof"

\* The room the kernel may have for c's output: none after a reset.
Room(c) == IF sock[c].peer = "rst" THEN {0} ELSE 0..MaxBytes

\* c's output is shut, by our own FIN or by a reset whose error was fetched
\* before: the next ::send raises SIGPIPE.  With the error still there it
\* fetches it and returns -1.
Broken(c) == conn[c].fin \/ sock[c].peer = "rst"

\* In the event that is being handled: handleWrite gets to its ::send, the
\* channel still writing and the connection not closed by the callbacks
\* before; or a message may be answered by a ::send of sendInLoop.
WritesNow(c) ==
    LET revents == active[loopOf[c]][c]
    IN  /\ "OUT" \in revents /\ conn[c].wr
        /\ IF "IN" \in revents THEN Got(c) # "eof" ELSE "HUP" \notin revents
RepliesNow(c) ==
    /\ "IN" \in active[loopOf[c]][c] /\ Got(c) = "data"
    /\ conn[c].state = "Connected" /\ SendsNow(conn[c])

\* The error of a reset is fetched before that ::send, by readv or the error
\* callback, or was already.
Fetched(c) ==
    ~sock[c].err \/ active[loopOf[c]][c] \intersect {"IN", "ERR"} # {}

-----------------------------------------------------------------------------
(* The turns of a loop                                                     *)

Backlog == {c \in Conns : /\ sock[c].peer \notin {"none", "refused"}
                          /\ conn[c].state = "None"}

\* epoll_wait of a loop that was started returns, woken or by its timeout.
Poll(l) ==
    /\ l = "main" \/ l \in Range(pool)
    /\ phase[l] = "poll"
    /\ \E writable \in SUBSET {c \in Conns : conn[c].wr /\ loopOf[c] = l} :
          active' = [active EXCEPT ![l] =
              [c \in Conns |-> IF loopOf[c] = l /\ conn[c].state # "None"
                               THEN Ready(c, c \in writable) ELSE {}]]
    /\ acceptReady' = IF l = "main" THEN Backlog # {} ELSE acceptReady
    /\ phase' = [phase EXCEPT ![l] = "events"]
    /\ UNCHANGED <<connVars, connections, servVars, pending, list, held,
                   timers, foreign, calls, removals, misuse>>

\* EventLoopThreadPool::getNextLoop.
NextLoop == IF pool = <<>> THEN "main" ELSE pool[next + 1]

\* Mutant: next_ does not wrap.
NextIndex_NoWrap == IF pool = <<>> THEN 0 ELSE next + 1

NextIndex == IF pool = <<>> THEN 0 ELSE (next + 1) % Len(pool)

\* Acceptor::handleRead takes one connection.
Accepts(c) == phase["main"] = "events" /\ acceptReady /\ c \in Backlog

\* TcpServer::newConnection: a new connection is entered in connections_ and
\* handed to the next loop of the pool.
Accept(c) ==
    /\ Accepts(c)
    /\ loopOf' = [loopOf EXCEPT ![c] = NextLoop]
    /\ next' = NextIndex
    /\ connections' = connections \union {c}
    /\ IF NextLoop = "main"
       THEN /\ conn' = [conn EXCEPT ![c] = ConnectEstablished(NewConnection)]
            /\ UNCHANGED pending
       ELSE /\ conn' = [conn EXCEPT ![c] = NewConnection]
            /\ pending' = [pending EXCEPT ![NextLoop] =
                  Append(@, Functor(c)["connectEstablished"])]
    /\ acceptReady' = FALSE
    /\ UNCHANGED <<sock, pool, callers, killed, phase, active, list, held,
                   timers, foreign, calls, removals, misuse>>

\* accept() fails, for want of descriptors or for any other reason (EMFILE is
\* a constant, so line 55 does not ask which): idleFd_ is closed and another
\* accept takes c with the descriptor that became free, and closes it at
\* once; or some other thread took the descriptor, and c stays.
AcceptFails(c) ==
    /\ Accepts(c)
    /\ \/ sock' = [sock EXCEPT ![c].peer = "refused", ![c].unread = 0,
                                ![c].err = FALSE]
       \/ UNCHANGED sock
    /\ acceptReady' = FALSE
    /\ UNCHANGED <<conn, connections, servVars, phase, active, pending, list,
                   held, timers, foreign, calls, removals, misuse>>

\* Channel::handleEvent of c.
HandleChannel(c) ==
    /\ phase[loopOf[c]] = "events"
    /\ active[loopOf[c]][c] # {}
    /\ ~(WritesNow(c) /\ Broken(c) /\ Fetched(c))
    /\ LET revents == active[loopOf[c]][c]
           sizes == {n \in 0..MaxMessage : conn[c].accepted + n <= MaxBytes}
       IN  \E n \in sizes, then \in AppMoves :
           \E room1, room2 \in Room(c) :
              CommitIfAlive(c, HandleEvent(conn[c], revents, Got(c),
                  [n |-> n, room |-> room1, then |-> then], room2))
    /\ active' = [active EXCEPT ![loopOf[c]][c] = {}]
    /\ sock' = [sock EXCEPT
          ![c].unread = IF "IN" \in active[loopOf[c]][c] THEN 0 ELSE @,
          ![c].err = ~Fetched(c) /\ ~WritesNow(c)]
    /\ UNCHANGED <<servVars, phase, acceptReady, list, held, timers,
                   foreign, calls>>

\* All handlers of the snapshot have run: the pending functors are swapped
\* out.
EventsDone(l) ==
    /\ phase[l] = "events"
    /\ \A c \in Conns : active[l][c] = {}
    /\ l = "main" => ~acceptReady
    /\ phase' = [phase EXCEPT ![l] = "functors"]
    /\ list' = [list EXCEPT ![l] = pending[l]]
    /\ pending' = [pending EXCEPT ![l] = <<>>]
    /\ UNCHANGED <<connVars, connections, servVars, active, acceptReady,
                   held, timers, foreign, calls, removals, misuse>>

\* sendInLoop, queued by another thread with a view of the message: of a
\* string that send() was given by value nothing is left by now.
RunSend(c) ==
    /\ ~(SendsNow(conn[c]) /\ Broken(c) /\ ~sock[c].err)
    /\ \E intact \in BOOLEAN, room \in Room(c) :
          /\ intact => conn[c].accepted < MaxBytes
          /\ CommitIfAlive(c, SendInLoop(conn[c], 1, intact, room))
    /\ sock' = [sock EXCEPT ![c].err = @ /\ ~SendsNow(conn[c])]

\* removeConnectionInLoop runs on the main loop, any other functor on its
\* connection's loop.
RunFunctor(l) ==
    /\ phase[l] = "functors"
    /\ list[l] # <<>>
    /\ LET f == Head(list[l])
       IN  /\ CASE f.fn = "removeConnectionInLoop" ->
                     /\ connections' = connections \ {f.c}
                     /\ removals' = [removals EXCEPT ![f.c] = @ + 1]
                     /\ pending' = [pending EXCEPT ![loopOf[f.c]] =
                           Append(@, Functor(f.c)["connectDestroyed"])]
                     /\ UNCHANGED <<conn, sock, misuse>>
                [] f.fn = "sendInLoop" -> RunSend(f.c)
                [] OTHER -> /\ CommitIfAlive(f.c, Run(conn[f.c], f.fn))
                            /\ UNCHANGED sock
           /\ held' = [held EXCEPT ![l] =
                 IF f.fn = "removeConnectionInLoop" \/ Owning(f.fn)
                 THEN @ \union {f.c} ELSE @]
    /\ list' = [list EXCEPT ![l] = Tail(@)]
    /\ UNCHANGED <<servVars, phase, active, acceptReady, timers, foreign,
                   calls>>

\* A ::send raises SIGPIPE, which src/ neither ignores nor prevents with
\* MSG_NOSIGNAL: the process ends.  Any ::send may: the peer may have closed
\* and reset the connection in the middle of the handler, after which the
\* error of the reset is EPIPE itself.
SignalPipe(c) ==
    /\ ~Destroyed(c)
    /\ \/ phase[loopOf[c]] = "events" /\ (WritesNow(c) \/ RepliesNow(c))
       \/ /\ phase[loopOf[c]] = "functors"
          /\ list[loopOf[c]] # <<>>
          /\ Head(list[loopOf[c]]) = Functor(c)["sendInLoop"]
          /\ SendsNow(conn[c])
    /\ killed' = TRUE
    /\ UNCHANGED <<connVars, connections, pool, callers, loopOf, next,
                   loopVars, timers, foreign, calls, removals, misuse>>

\* The list goes out of scope and with it the pointers its functors held.
FunctorsDone(l) ==
    /\ phase[l] = "functors"
    /\ list[l] = <<>>
    /\ phase' = [phase EXCEPT ![l] = "poll"]
    /\ held' = [held EXCEPT ![l] = {}]
    /\ UNCHANGED <<connVars, connections, servVars, active, acceptReady,
                   pending, list, timers, foreign, calls, removals, misuse>>

-----------------------------------------------------------------------------
(* Further callers                                                         *)

\* What ~Entry of the timing wheel does on the loop thread: it locks its weak
\* pointer and calls shutdown().  The timer turns a copy of the wheel
\* (HttpServer.cpp:91), so that today no Entry goes before its connection;
\* the runs let it happen at any time.
IdleShutdown(c) ==
    /\ "idle" \in callers
    /\ phase[loopOf[c]] = "events"
    /\ Alive(c)
    /\ conn[c].state = "Connected"
    /\ Commit(c, Shutdown(conn[c]))
    /\ UNCHANGED <<sock, servVars, phase, active, acceptReady, list, held,
                   timers, foreign, calls, misuse>>

\* forceCloseWithDelay binds forceClose to the raw this.
ForceCloseWithDelay(c) ==
    /\ "delay" \in callers
    /\ phase[loopOf[c]] = "events"
    /\ Alive(c)
    /\ conn[c].state \in {"Connected", "DisConnecting"}
    /\ calls < MaxCalls
    /\ calls' = calls + 1
    /\ timers' = timers \union {c}
    /\ UNCHANGED <<connVars, connections, servVars, loopVars, foreign,
                   removals, misuse>>

DelayFires(c) ==
    /\ c \in timers
    /\ phase[loopOf[c]] = "events"
    /\ timers' = timers \ {c}
    /\ CommitIfAlive(c, ForceClose(conn[c]))
    /\ UNCHANGED <<sock, servVars, phase, active, acceptReady, list, held,
                   foreign, calls>>

\* Another thread that holds a TcpConnectionPtr calls send(), shutdown() or
\* forceClose(): it tests state_, sets it (send() does not), and queues a
\* functor bound to the raw this, with the connection's own loop running in
\* between.
ForeignTests(c, fn) ==
    /\ IF fn = "sendInLoop" THEN "sender" \in callers ELSE "closer" \in callers
    /\ foreign = NoCall
    /\ calls < MaxCalls
    /\ calls' = calls + 1
    /\ Alive(c)
    /\ \/ conn[c].state = "Connected"
       \/ conn[c].state = "DisConnecting" /\ fn = "forceCloseInLoop"
    /\ foreign' = [at |-> IF fn = "sendInLoop" THEN "set" ELSE "tested",
                   c |-> c, fn |-> fn]
    /\ UNCHANGED <<connVars, connections, servVars, loopVars, timers,
                   removals, misuse>>

ForeignSets ==
    /\ foreign.at = "tested"
    /\ conn' = [conn EXCEPT ![foreign.c].state = "DisConnecting"]
    /\ foreign' = [foreign EXCEPT !.at = "set"]
    /\ UNCHANGED <<sock, connections, servVars, loopVars, timers, calls,
                   removals, misuse>>

ForeignQueues ==
    /\ foreign.at = "set"
    /\ pending' = [pending EXCEPT ![loopOf[foreign.c]] =
          Append(@, Functor(foreign.c)[foreign.fn])]
    /\ foreign' = NoCall
    /\ UNCHANGED <<connVars, connections, servVars, phase, active,
                   acceptReady, list, held, timers, calls, removals, misuse>>

-----------------------------------------------------------------------------

PeerStep(c) ==
    PeerConnects(c) \/ PeerSends(c) \/ PeerCloses(c) \/ PeerResets(c)

AppStep(c) ==
    \/ IdleShutdown(c)
    \/ ForceCloseWithDelay(c)
    \/ DelayFires(c)
    \/ \E fn \in {"sendInLoop", "shutdownInLoop", "forceCloseInLoop"} :
          ForeignTests(c, fn)

LoopStep(l) ==
    \/ Poll(l)
    \/ l = "main" /\ \E c \in Conns : Accept(c) \/ AcceptFails(c)
    \/ \E c \in Conns : loopOf[c] = l /\ (HandleChannel(c) \/ SignalPipe(c))
    \/ EventsDone(l)
    \/ RunFunctor(l)
    \/ FunctorsDone(l)

Lives ==
    \/ \E c \in Conns : PeerStep(c) \/ AppStep(c)
    \/ \E l \in Loops : LoopStep(l)
    \/ ForeignSets
    \/ ForeignQueues

\* What peers do after the process has ended is not followed.
Next ==
    \/ ~killed /\ Lives
    \/ killed /\ UNCHANGED vars

Spec == Init /\ [][Next]_vars

\* Every loop thread is scheduled.
LoopsRun == \A l \in Loops : WF_vars(~killed /\ LoopStep(l))

\* The peer of c keeps reading, so that the kernel keeps taking bytes.
PollWritable(c) ==
    ~killed /\ \E l \in Loops : Poll(l) /\ "OUT" \in active'[l][c]
Drains(c) ==
    ~killed /\ HandleChannel(c) /\ Len(conn'[c].out) < Len(conn[c].out)
PeersRead == \A c \in Conns : SF_vars(PollWritable(c)) /\ SF_vars(Drains(c))

FairSpec == Spec /\ LoopsRun /\ PeersRead

-----------------------------------------------------------------------------
(* Safety                                                                  *)

\* A connection lives once, whatever its handlers have left in the queues:
\* handleClose is called once (its assert, TcpConnection.cpp:215), the
\* connection removeConnectionInLoop is given is still in connections_ (its
\* assert, TcpServer.cpp:79), and application code sees the connection come
\* up once and go down at most once, in this order.
ClosedOnce ==
    \A c \in Conns :
        /\ conn[c].closes <= 1
        /\ removals[c] <= 1
        /\ conn[c].downs <= conn[c].ups /\ conn[c].ups <= 1

\* A closed connection is not watched for anything any more: queued
\* callbacks do not enable a channel that handleClose disabled.
ClosedStaysClosed ==
    \A c \in Conns :
        conn[c].state = "DisConnected" => ~conn[c].rd /\ ~conn[c].wr

\* No dangling Channel*: when the last pointer to a connection goes, its
\* channel is neither with the poller nor in a loop's snapshot.
NoDanglingChannel ==
    \A c \in Conns : Destroyed(c) =>
        /\ conn[c].index = "new"
        /\ \A l \in Loops : active[l][c] = {}

\* No handler, functor or timer runs on a destroyed connection.
NoUseAfterDestroy == misuse = {}

\* The bytes the application sent go out in the order in which it sent them,
\* none lost or doubled, however they are split between ::send and
\* outputBuffer_.  Nothing comes between them as long as neither happened of
\* two things this code does allow: a ::send of sendInLoop failed, after which
\* "remaining" exceeds the message (against the assertion at line 134) and a
\* byte from in front of it goes out too; or the message of another thread's
\* send() was gone by the time sendInLoop ran.
StreamInOrder ==
    \A c \in Conns :
        LET stream == conn[c].wire \o conn[c].out
        IN  /\ Without(stream, {Garbage}) = UpTo(conn[c].accepted)
            /\ ~conn[c].failed => stream = UpTo(conn[c].accepted)

\* Graceful shutdown: the FIN is the last thing sent.
FinAfterData == \A c \in Conns : conn[c].fin => conn[c].out = <<>>

HasQueued(c, fn) ==
    \E l \in Loops : Functor(c)[fn] \in Range(pending[l]) \union Range(list[l])

\* A connection paused at the high-water mark is resumed: there is output
\* being written, whose completion resumes it, or the resumption is queued.
PausedIsResumed ==
    \A c \in Conns :
        conn[c].state \in {"Connected", "DisConnecting"} /\ ~conn[c].rd
            => conn[c].wr \/ HasQueued(c, "writeComplete")

-----------------------------------------------------------------------------
(* Liveness                                                                *)

\* A connection that was accepted and that its peer has reset, even before,
\* is closed, taken out of connections_ and destroyed, whatever state it was
\* in, unless a ::send of any connection has ended the process by SIGPIPE;
\* only the loops need to run.
ResetIsCleanedUp ==
    \A c \in Conns :
        sock[c].peer = "rst" /\ conn[c].state # "None"
            ~> Destroyed(c) \/ killed

\* shutdown() while output is waiting sends its FIN once the output is gone,
\* provided the peer keeps reading and the process lives.
ShutdownCompletes ==
    \A c \in Conns :
        conn[c].state = "DisConnecting"
            ~> conn[c].fin \/ conn[c].state = "DisConnected" \/ killed
=============================================================================
