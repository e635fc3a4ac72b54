------------------------------- MODULE MyServer -------------------------------
(***************************************************************************)
(* The server that main() starts: MyServer, TcpServer, Acceptor and        *)
(* TcpConnection on one event loop, with the channels and the poller of    *)
(* PollerOps, against clients that connect, send, close, reset or vanish   *)
(* at any moment.                                                          *)
(*                                                                         *)
(* The loop is that of module EventLoop seen from its own thread.  That    *)
(* thread is never "the loop's thread" (threadId_ is the main thread), so  *)
(* runInLoop always queues and every queueInLoop writes the eventfd.  None *)
(* of the commands that main() reads afterwards reaches this loop.         *)
(*                                                                         *)
(* A connection is named after its client.  Its C++ object lives from      *)
(* newConnection until the last shared_ptr is gone: the one in the map     *)
(* connections_ and those bound into functors that are queued or in the    *)
(* vector that doPendingFunctors is running.                               *)
(*                                                                         *)
(* Sockets::accept leaves accepted sockets in blocking mode, so a write to *)
(* a socket whose send buffer is full waits, and with it the loop.         *)
(*                                                                         *)
(* A definition whose comment begins with "Fault" is not part of the       *)
(* specification: it is a plausible mistake in the definition after it,    *)
(* kept to show that the properties below notice it.                       *)
(***************************************************************************)
EXTENDS Naturals, Sequences, FiniteSets

CONSTANTS
    Conns,           \* the clients, and the connections they become
    kMaxConnections, \* MyServer::kMaxConnections_
    Fds,             \* the descriptors left for accepted sockets
    MaxIn,           \* bound: unread messages a client may have sent
    MaxOut,          \* messages that fit into the send buffer of a socket
    AcceptChannel,   \* Acceptor::acceptChannel_
    WakeupChannel,   \* EventLoop::wakeupChannel_
    None

ASSUME ConstantsAssumption ==
    /\ IsFiniteSet(Conns)
    /\ kMaxConnections \in Nat \ {0}
    /\ MaxIn \in Nat \ {0}
    /\ MaxOut \in Nat \ {0}
    /\ Fds \subseteq Nat /\ IsFiniteSet(Fds)
    /\ {AcceptChannel, WakeupChannel, None} \cap Conns = {}
    /\ AcceptChannel # WakeupChannel
    /\ None \notin Fds

VARIABLES
    state,        \* TcpConnection::state_, "none" before and "destroyed" after
    connections,  \* TcpServer::connections_
    poller,       \* channels, channels_ and the kernel's interest list
    outputBuffer, \* the connections whose outputBuffer_ is not empty
    numConnected, \* MyServer::numConnected_
    hostPtr,      \* MyServer::hostPtr_; the static flag is TRUE while it is None
    pc,           \* where the loop's thread is, or what ended the process
    active,       \* activeChannels_ still to be handled, with their revents_
    pending,      \* pendingFunctors_
    functors,     \* the vector of doPendingFunctors, still to be run
    eventfd,      \* the eventfd is readable
    backlog,      \* the accept queue of the listening socket
    sock          \* the kernel's socket of each client

INSTANCE PollerOps WITH Chans <- Conns

\* What stands for "not in the interest list" is no entry of it.
ASSUME NoneAssumption == None \notin Interest

serverVars == <<state, connections, poller, outputBuffer, numConnected, hostPtr>>
loopVars == <<pc, active, pending, functors, eventfd>>
netVars == <<backlog, sock>>
vars == <<serverVars, loopVars, netVars>>

Functor(op, c) == [op |-> op, conn |-> c]

Ops == {"connectEstablished", "shutdownInLoop", "forceCloseInLoop",
        "removeConnectionInLoop", "connectDestroyed"}

Functors == [op : Ops, conn : Conns]

Sockets ==
    [peer : {"none", "connected", "closed", "reset", "lost", "gone"},
     inq : 0 .. MaxIn, outq : 0 .. MaxOut,
     err : {"none", "EPIPE", "ECONNRESET", "ETIMEDOUT"},
     shutWr : BOOLEAN]

NewSocket == [peer |-> "none", inq |-> 0, outq |-> 0, err |-> "none", shutWr |-> FALSE]

\* The ways the process dies: a null hostPtr_ is used, a write raises
\* SIGPIPE, an assertion fails.
Ends == {"null host", "SIGPIPE", "assert"}

TypeOK ==
    /\ state \in [Conns -> {"none", "kConnecting", "kConnected", "kDisconnecting",
                            "kDisconnected", "destroyed"}]
    /\ connections \subseteq Conns
    /\ poller \in Pollers
    /\ outputBuffer \subseteq Conns
    /\ numConnected \in Nat
    /\ hostPtr \in Conns \cup {None}
    /\ pc \in {"poll", "events", "send", "functors"} \cup Ends
    /\ \E chs \in SUBSET (Conns \cup {AcceptChannel, WakeupChannel}) :
          active \in [chs -> SUBSET {"IN", "OUT", "HUP", "ERR"}]
    /\ pending \in Seq(Functors)
    /\ functors \in Seq(Functors)
    /\ eventfd \in BOOLEAN
    /\ backlog \in Seq(Conns)
    /\ sock \in [Conns -> Sockets]

\* What InitNetworkServer leaves: the acceptor listens and is registered.
Init ==
    /\ state = [c \in Conns |-> "none"]
    /\ connections = {}
    /\ poller = EmptyPoller
    /\ outputBuffer = {}
    /\ numConnected = 0
    /\ hostPtr = None
    /\ pc = "poll"
    /\ active = << >>
    /\ pending = <<>>
    /\ functors = <<>>
    /\ eventfd = FALSE
    /\ backlog = <<>>
    /\ sock = [c \in Conns |-> NewSocket]

\* The connection object exists.
Live(c) == state[c] \notin {"none", "destroyed"}

\* Between the two calls of onConnection.
Up(c) == state[c] \in {"kConnected", "kDisconnecting"}

-----------------------------------------------------------------------------
(***************************************************************************)
(* The clients and their sockets.                                          *)
(***************************************************************************)

Dead(c) == sock[c].peer \in {"reset", "lost"}

\* A client connects; its connection waits in the accept queue.
Connect(c) ==
    /\ pc \notin Ends
    /\ sock[c].peer = "none"
    /\ sock' = [sock EXCEPT ![c].peer = "connected"]
    /\ backlog' = Append(backlog, c)
    /\ UNCHANGED <<serverVars, loopVars>>

\* A client sends a message, one read of at most 1024 bytes.
Send(c) ==
    /\ pc \notin Ends
    /\ sock[c].peer = "connected"
    /\ sock[c].inq < MaxIn
    /\ sock' = [sock EXCEPT ![c].inq = @ + 1]
    /\ UNCHANGED <<serverVars, loopVars, backlog>>

\* A client takes a message off its connection.
Receive(c) ==
    /\ pc \notin Ends
    /\ sock[c].peer = "connected"
    /\ sock[c].outq > 0
    /\ sock' = [sock EXCEPT ![c].outq = @ - 1]
    /\ UNCHANGED <<serverVars, loopVars, backlog>>

\* A client closes its socket.
Close(c) ==
    /\ pc \notin Ends
    /\ sock[c].peer = "connected"
    /\ sock' = [sock EXCEPT ![c].peer = "closed"]
    /\ UNCHANGED <<serverVars, loopVars, backlog>>

\* A client aborts its connection.
Abort(c) ==
    /\ pc \notin Ends
    /\ sock[c].peer = "connected"
    /\ sock' = [sock EXCEPT ![c].peer = "reset", ![c].err = "ECONNRESET", ![c].outq = 0]
    /\ UNCHANGED <<serverVars, loopVars, backlog>>

\* Data that reaches a closed client is answered by a reset.
Refuse(c) ==
    /\ pc \notin Ends
    /\ sock[c].peer = "closed"
    /\ sock[c].outq > 0
    /\ sock' = [sock EXCEPT ![c].peer = "reset", ![c].err = "EPIPE", ![c].outq = 0]
    /\ UNCHANGED <<serverVars, loopVars, backlog>>

\* Nobody acknowledges what was sent and the kernel gives the connection up.
GiveUp(c) ==
    /\ pc \notin Ends
    /\ sock[c].peer \in {"connected", "closed"}
    /\ sock[c].outq > 0
    /\ sock' = [sock EXCEPT ![c].peer = "lost", ![c].err = "ETIMEDOUT", ![c].outq = 0]
    /\ UNCHANGED <<serverVars, loopVars, backlog>>

Clients ==
    \E c \in Conns :
        Connect(c) \/ Send(c) \/ Receive(c) \/ Close(c) \/ Abort(c) \/ Refuse(c) \/ GiveUp(c)

-----------------------------------------------------------------------------
(***************************************************************************)
(* Operations that handlers and functors call.                             *)
(***************************************************************************)

\* queueInLoop on the loop's thread, which always ends with wakeup().
queueInLoop(fs) ==
    /\ pending' = pending \o fs
    /\ eventfd' = (eventfd \/ fs # <<>>)

\* Fault: the state is not tested, so a second event closes again.
handleCloseAlways(c) ==
    /\ state' = [state EXCEPT ![c] = "kDisconnected"]
    /\ poller' = disableAll(poller, c)
    /\ numConnected' = numConnected - 1
    /\ queueInLoop(<<Functor("removeConnectionInLoop", c)>>)

\* Fault: the channel stays registered.
handleCloseKeepsChannel(c) ==
    IF Up(c)
      THEN /\ state' = [state EXCEPT ![c] = "kDisconnected"]
           /\ numConnected' = numConnected - 1
           /\ queueInLoop(<<Functor("removeConnectionInLoop", c)>>)
           /\ UNCHANGED poller
      ELSE UNCHANGED <<state, poller, numConnected, pending, eventfd>>

\* TcpConnection::handleClose, with onConnection and removeConnection.
handleClose(c) ==
    IF Up(c)
      THEN /\ state' = [state EXCEPT ![c] = "kDisconnected"]
           /\ poller' = disableAll(poller, c)
           /\ numConnected' = numConnected - 1
           /\ queueInLoop(<<Functor("removeConnectionInLoop", c)>>)
      ELSE UNCHANGED <<state, poller, numConnected, pending, eventfd>>

\* The rest of sendInLoop: what could not be written waits for EPOLLOUT.
BufferOutput(h) ==
    /\ outputBuffer' = outputBuffer \cup {h}
    /\ poller' = IF isWriting(poller, h) THEN poller ELSE enableWriting(poller, h)

(***************************************************************************)
(* MyServer::onMessage: lock hostPtr_ and send to the host.  A host that   *)
(* is gone is a null pointer and is used all the same.  Otherwise          *)
(* sendInLoop gives up, appends, or goes on to write (pc = "send").        *)
(***************************************************************************)
onMessage ==
    LET h == hostPtr
        gone == h = None \/ state[h] = "destroyed"
        mustAppend == isWriting(poller, h) \/ h \in outputBuffer
    IN  CASE gone ->
               pc' = "null host" /\ UNCHANGED <<poller, outputBuffer>>
          [] ~gone /\ state[h] = "kDisconnected" ->
               UNCHANGED <<pc, poller, outputBuffer>>
          [] ~gone /\ state[h] # "kDisconnected" /\ mustAppend ->
               BufferOutput(h) /\ UNCHANGED pc
          [] OTHER ->
               pc' = "send" /\ UNCHANGED <<poller, outputBuffer>>

\* Fault: the limit is compared before the new connection is counted.
TooManyBefore == numConnected > kMaxConnections

\* onConnection's test, with numConnected_ already incremented.
TooMany == numConnected + 1 > kMaxConnections

(***************************************************************************)
(* TcpConnection::connectEstablished, with onConnection: a connection      *)
(* beyond the limit calls shutdown() and forceClose(), which both queue.   *)
(* The functor of shutdown() holds a plain pointer.                        *)
(***************************************************************************)
connectEstablished(c) ==
    IF state[c] # "kConnecting"
      THEN /\ pc' = "assert"
           /\ UNCHANGED <<serverVars, pending, eventfd, sock>>
      ELSE /\ poller' = enableReading(poller, c)
           /\ numConnected' = numConnected + 1
           /\ state' = [state EXCEPT ![c] = IF TooMany THEN "kDisconnecting" ELSE "kConnected"]
           /\ hostPtr' = IF ~TooMany /\ hostPtr = None THEN c ELSE hostPtr
           /\ queueInLoop(IF TooMany THEN <<Functor("shutdownInLoop", c),
                                            Functor("forceCloseInLoop", c)>>
                                     ELSE <<>>)
           /\ UNCHANGED <<connections, outputBuffer, pc, sock>>

\* TcpConnection::shutdownInLoop.
shutdownInLoop(c) ==
    /\ sock' = IF isWriting(poller, c) THEN sock ELSE [sock EXCEPT ![c].shutWr = TRUE]
    /\ UNCHANGED <<serverVars, pending, eventfd, pc>>

\* Fault: only a connection that is still kConnected is closed.
forceCloseInLoopConnectedOnly(c) ==
    /\ IF state[c] = "kConnected"
         THEN handleClose(c)
         ELSE UNCHANGED <<state, poller, numConnected, pending, eventfd>>
    /\ UNCHANGED <<connections, outputBuffer, hostPtr, pc, sock>>

\* TcpConnection::forceCloseInLoop.
forceCloseInLoop(c) ==
    /\ handleClose(c)
    /\ UNCHANGED <<connections, outputBuffer, hostPtr, pc, sock>>

\* Fault: the connection is taken out of the map only when it is destroyed.
removeConnectionInLoopKeepsEntry(c) ==
    /\ queueInLoop(<<Functor("connectDestroyed", c)>>)
    /\ UNCHANGED <<serverVars, pc, sock>>

\* TcpServer::removeConnectionInLoop.
removeConnectionInLoop(c) ==
    /\ connections' = connections \ {c}
    /\ queueInLoop(<<Functor("connectDestroyed", c)>>)
    /\ UNCHANGED <<state, poller, outputBuffer, numConnected, hostPtr, pc, sock>>

\* Fault: the channel is not removed from the poller.
connectDestroyedKeepsChannel(c) ==
    UNCHANGED <<serverVars, pending, eventfd, pc, sock>>

\* TcpConnection::connectDestroyed.  A connection that is still kConnected
\* would be taken down here.
connectDestroyed(c) ==
    LET up == state[c] = "kConnected"
        quiet == IF up THEN disableAll(poller, c) ELSE poller
    IN  /\ state' = IF up THEN [state EXCEPT ![c] = "kDisconnected"] ELSE state
        /\ numConnected' = IF up THEN numConnected - 1 ELSE numConnected
        /\ poller' = remove(quiet, c)
        /\ UNCHANGED <<connections, outputBuffer, hostPtr, pending, eventfd,
                       pc, sock>>

-----------------------------------------------------------------------------
(***************************************************************************)
(* The turn of the loop.                                                   *)
(***************************************************************************)

\* The epoll events of an entry of the kernel's interest list.
Revents(entry) ==
    LET s == sock[entry.channel]
        dead == Dead(entry.channel)
    IN  {e \in {"IN", "OUT", "HUP", "ERR"} :
            CASE e = "IN"  -> e \in entry.events /\ (s.inq > 0 \/ s.peer # "connected")
              [] e = "OUT" -> e \in entry.events /\ (s.outq < MaxOut \/ s.shutWr \/ dead)
              [] e = "HUP" -> dead \/ (s.peer = "closed" /\ s.shutWr)
              [] e = "ERR" -> s.err # "none"}

Registered == {poller.epoll[fd] : fd \in {f \in Fds : poller.epoll[f] # None}}

Readable ==
    {entry.channel : entry \in {e \in Registered : Revents(e) # {}}}
    \cup (IF backlog # <<>> THEN {AcceptChannel} ELSE {})
    \cup (IF eventfd THEN {WakeupChannel} ELSE {})

EventsOf(ch) ==
    IF ch \in Conns
      THEN Revents(CHOOSE e \in Registered : e.channel = ch)
      ELSE {"IN"}

\* epoll_wait reports every channel that is ready; their revents_ are those
\* of this moment.  After kPollTimeMs it reports none.
Poll ==
    /\ pc = "poll"
    /\ active' = [ch \in Readable |-> EventsOf(ch)]
    /\ pc' = "events"
    /\ UNCHANGED <<serverVars, pending, functors, eventfd, netVars>>

Without(ch) == [x \in DOMAIN active \ {ch} |-> active[x]]

\* The channel whose write callback is still to be called after its read
\* callback; handleEvent has not returned from it.
InEvent(ch) == active[ch] = {"OUT"}

Pick(ch) ==
    /\ pc = "events"
    /\ ch \in DOMAIN active
    /\ \A x \in DOMAIN active : InEvent(x) => x = ch

\* EventLoop::handleRead.
HandleWakeup ==
    /\ Pick(WakeupChannel)
    /\ active' = Without(WakeupChannel)
    /\ eventfd' = FALSE
    /\ UNCHANGED <<serverVars, pc, pending, functors, netVars>>

FreeFds == Fds \ {poller.fd[c] : c \in {x \in Conns : Live(x)}}

LowestFree == CHOOSE fd \in FreeFds : \A other \in FreeFds : fd <= other

\* Fault: nobody is accepted while the server is full.
MayAcceptBelowLimit == FreeFds # {} /\ numConnected < kMaxConnections

\* accept succeeds: it fails only when the process is out of descriptors.
MayAccept == FreeFds # {}

\* Acceptor::handleRead with TcpServer::newConnection: one accept per event.
HandleAccept ==
    /\ Pick(AcceptChannel)
    /\ active' = Without(AcceptChannel)
    /\ IF MayAccept
         THEN LET c == Head(backlog)
              IN  /\ backlog' = Tail(backlog)
                  /\ state' = [state EXCEPT ![c] = "kConnecting"]
                  /\ poller' = NewChannel(poller, c, LowestFree)
                  /\ connections' = connections \cup {c}
                  /\ queueInLoop(<<Functor("connectEstablished", c)>>)
                  /\ UNCHANGED <<outputBuffer, numConnected, hostPtr>>
         ELSE UNCHANGED <<serverVars, pending, eventfd, backlog>>
    /\ UNCHANGED <<pc, functors, sock>>

\* What is left of the event once the read or close callback has returned.
AfterRead(c) ==
    active' = IF "OUT" \in active[c] THEN [active EXCEPT ![c] = {"OUT"}] ELSE Without(c)

ReadEvent(c) == Pick(c) /\ "IN" \in active[c]

\* TcpConnection::handleRead of a message.
ReadMessage(c) ==
    /\ ReadEvent(c)
    /\ sock[c].inq > 0
    /\ sock' = [sock EXCEPT ![c].inq = @ - 1]
    /\ AfterRead(c)
    /\ onMessage
    /\ UNCHANGED <<state, connections, numConnected, hostPtr, pending, functors,
                   eventfd, backlog>>

\* handleRead when read fails: handleError does nothing.
ReadError(c) ==
    /\ ReadEvent(c)
    /\ sock[c].inq = 0
    /\ sock[c].err # "none"
    /\ sock' = [sock EXCEPT ![c].err = "none"]
    /\ AfterRead(c)
    /\ UNCHANGED <<serverVars, pc, pending, functors, eventfd, backlog>>

\* handleRead at the end of the stream, or a hangup with nothing to read.
ReadEnd(c) ==
    /\ \/ ReadEvent(c) /\ sock[c].inq = 0 /\ sock[c].err = "none"
       \/ Pick(c) /\ "HUP" \in active[c] /\ "IN" \notin active[c]
    /\ AfterRead(c)
    /\ handleClose(c)
    /\ UNCHANGED <<connections, outputBuffer, hostPtr, pc, functors, netVars>>

Broken(h) == Dead(h) \/ sock[h].shutWr

\* A failed write raises SIGPIPE, which the program neither blocks nor
\* handles, unless the socket has another error than EPIPE to report.
RaisesSIGPIPE(h) == Broken(h) /\ sock[h].err \in {"none", "EPIPE"}

(***************************************************************************)
(* sendInLoop's write to the host.  It waits while the send buffer is      *)
(* full.  An error other than EPIPE and ECONNRESET leaves the data to the  *)
(* output buffer.                                                          *)
(***************************************************************************)
WriteToHost ==
    LET h == hostPtr
    IN  /\ pc = "send"
        /\ \/ /\ ~Broken(h) /\ sock[h].outq < MaxOut
              /\ sock' = [sock EXCEPT ![h].outq = @ + 1]
              /\ pc' = "events"
              /\ UNCHANGED <<poller, outputBuffer>>
           \/ /\ RaisesSIGPIPE(h)
              /\ pc' = "SIGPIPE"
              /\ UNCHANGED <<poller, outputBuffer, sock>>
           \/ /\ Broken(h) /\ ~RaisesSIGPIPE(h)
              /\ sock' = [sock EXCEPT ![h].err = "none"]
              /\ pc' = "events"
              /\ IF sock[h].err = "ETIMEDOUT"
                   THEN BufferOutput(h)
                   ELSE UNCHANGED <<poller, outputBuffer>>
        /\ UNCHANGED <<state, connections, numConnected, hostPtr, active, pending,
                       functors, eventfd, backlog>>

\* TcpConnection::handleWrite.  The buffer drains as a whole.
HandleWrite(c) ==
    /\ Pick(c)
    /\ InEvent(c)
    /\ active' = Without(c)
    /\ CASE ~isWriting(poller, c) ->
              UNCHANGED <<poller, outputBuffer, pc, sock>>
         [] isWriting(poller, c) /\ RaisesSIGPIPE(c) ->
              pc' = "SIGPIPE" /\ UNCHANGED <<poller, outputBuffer, sock>>
         [] isWriting(poller, c) /\ Broken(c) /\ ~RaisesSIGPIPE(c) ->
              /\ sock' = [sock EXCEPT ![c].err = "none"]
              /\ UNCHANGED <<poller, outputBuffer, pc>>
         [] OTHER ->
              /\ outputBuffer' = outputBuffer \ {c}
              /\ poller' = disableWriting(poller, c)
              /\ sock' = [sock EXCEPT ![c].outq = @ + 1,
                                      ![c].shutWr = @ \/ state[c] = "kDisconnecting"]
              /\ UNCHANGED pc
    /\ UNCHANGED <<state, connections, numConnected, hostPtr, pending, functors,
                   eventfd, backlog>>

\* doPendingFunctors takes the queue.
BeginPendingFunctors ==
    /\ pc = "events"
    /\ active = << >>
    /\ pc' = "functors"
    /\ functors' = pending
    /\ pending' = <<>>
    /\ UNCHANGED <<serverVars, active, eventfd, netVars>>

RunFunctor ==
    /\ pc = "functors"
    /\ functors # <<>>
    /\ LET c == Head(functors).conn
           op == Head(functors).op
       IN  \/ op = "connectEstablished" /\ connectEstablished(c)
           \/ op = "shutdownInLoop" /\ shutdownInLoop(c)
           \/ op = "forceCloseInLoop" /\ forceCloseInLoop(c)
           \/ op = "removeConnectionInLoop" /\ removeConnectionInLoop(c)
           \/ op = "connectDestroyed" /\ connectDestroyed(c)
    /\ functors' = Tail(functors)
    /\ UNCHANGED <<active, backlog>>

\* Fault: the functors are bound to plain pointers.
SharesNothing(f) == FALSE

\* The functor keeps its connection alive; that of shutdown() does not.
Shares(f) == f.op # "shutdownInLoop"

\* The connections nobody holds once the vector of functors is gone.
Unreferenced ==
    {c \in Conns \ connections :
        Live(c) /\ ~\E i \in DOMAIN pending : pending[i].conn = c /\ Shares(pending[i])}

\* The end of doPendingFunctors: its vector goes, and with it the last
\* references; ~TcpConnection shuts down and closes the descriptor.
EndPendingFunctors ==
    /\ pc = "functors"
    /\ functors = <<>>
    /\ pc' = "poll"
    /\ state' = [c \in Conns |-> IF c \in Unreferenced THEN "destroyed" ELSE state[c]]
    /\ poller' = CloseFds(poller, {poller.fd[c] : c \in Unreferenced})
    /\ sock' = [c \in Conns |-> IF c \in Unreferenced
                                  THEN [NewSocket EXCEPT !.peer = "gone"] ELSE sock[c]]
    /\ UNCHANGED <<connections, outputBuffer, numConnected, hostPtr, active, pending,
                   functors, eventfd, backlog>>

Turn ==
    \/ Poll
    \/ HandleWakeup
    \/ HandleAccept
    \/ \E c \in Conns : ReadMessage(c) \/ ReadError(c) \/ ReadEnd(c) \/ HandleWrite(c)
    \/ WriteToHost
    \/ BeginPendingFunctors
    \/ RunFunctor
    \/ EndPendingFunctors

\* The process has died; nothing happens any more.
Ended ==
    /\ pc \in Ends
    /\ UNCHANGED vars

Next ==
    \/ Turn
    \/ Clients
    \/ Ended

Spec == Init /\ [][Next]_vars

(***************************************************************************)
(* The loop's thread is scheduled and epoll_wait returns.  Of the network  *)
(* only what TCP itself guarantees: data to a closed client is answered.   *)
(* That clients read what they are sent is an assumption about them, not   *)
(* about the server, and is kept apart.                                    *)
(***************************************************************************)
FairSpec == Spec /\ WF_vars(Turn) /\ \A c \in Conns : WF_vars(Refuse(c))

ClientsRead == \A c \in Conns : WF_vars(Receive(c))

-----------------------------------------------------------------------------
(***************************************************************************)
(* Properties.                                                             *)
(***************************************************************************)

(***************************************************************************)
(* numConnected_ is the number of connections between their two calls of   *)
(* onConnection: the end of the stream, forceClose and connectDestroyed    *)
(* may all reach one connection and count it down once.                    *)
(***************************************************************************)
CountIsExact == numConnected = Cardinality({c \in Conns : Up(c)})

(***************************************************************************)
(* No more than kMaxConnections_ clients are served: a connection beyond   *)
(* the limit is being closed from its first callback on.                   *)
(***************************************************************************)
ServedWithinLimit ==
    Cardinality({c \in Conns : state[c] = "kConnected"}) <= kMaxConnections

(***************************************************************************)
(* Descriptors are reused at once, so the poller's map and the kernel's    *)
(* interest list must have forgotten a connection before its descriptor is *)
(* closed: the entry of a descriptor is that of the connection that has it *)
(* now, and a connection that is up can be heard.                          *)
(***************************************************************************)
DescriptorsMatch ==
    \A c \in {x \in Conns : Live(x)} :
        LET fd == poller.fd[c]
            known == poller.channels[fd]
            entry == poller.epoll[fd]
        IN  /\ \A x \in Conns \ {c} : Live(x) => poller.fd[x] # fd
            /\ CASE state[c] = "kConnecting" -> known = None /\ entry = None
                 [] Up(c) -> known = c /\ entry # None /\ entry.channel = c
                             /\ entry.events = poller.events[c] /\ "IN" \in entry.events
                 [] OTHER -> known \in {c, None} /\ entry = None

(***************************************************************************)
(* Whatever still names a connection names one that exists: the functors   *)
(* that are to run (that of shutdown() has only a plain pointer), the      *)
(* active channels (handleEvent's lock of tie_ always succeeds), the map   *)
(* logChannels walks through after every poll, and the kernel's interest   *)
(* list.                                                                   *)
(***************************************************************************)
NothingDangles ==
    /\ \A i \in DOMAIN functors : Live(functors[i].conn)
    /\ \A i \in DOMAIN pending : Live(pending[i].conn)
    /\ \A c \in DOMAIN active \cap Conns : Live(c)
    /\ \A fd \in Fds : /\ poller.channels[fd] # None => Live(poller.channels[fd])
                       /\ poller.epoll[fd] # None => Live(poller.epoll[fd].channel)

Coming(op, c) == {i \in DOMAIN (functors \o pending) : (functors \o pending)[i] = Functor(op, c)}

(***************************************************************************)
(* TcpConnection.h lines 79 to 82: connectEstablished is called once, on a *)
(* connection that is still kConnecting, and connectDestroyed once, after  *)
(* TcpServer has taken the connection out of its map.                      *)
(***************************************************************************)
CalledOnce ==
    \A c \in Conns :
        /\ Coming("connectEstablished", c) # {} =>
              state[c] = "kConnecting" /\ Cardinality(Coming("connectEstablished", c)) = 1
        /\ Coming("connectDestroyed", c) # {} =>
              /\ c \notin connections
              /\ state[c] = "kDisconnected"
              /\ Cardinality(Coming("connectDestroyed", c)) = 1
              /\ Coming("removeConnectionInLoop", c) = {}

(***************************************************************************)
(* Every behaviour of the server is one of ConnectionLife: whatever order  *)
(* events and functors come in, each connection goes through its life once *)
(* and in order, and it is served exactly when fewer than kMaxConnections_ *)
(* are up at that moment, whatever numConnected_ has been through.         *)
(***************************************************************************)
Lives == INSTANCE ConnectionLife
           WITH Limit <- kMaxConnections, life <- state, listed <- connections

ImplementsConnectionLife == Lives!Spec

(***************************************************************************)
(* The message callback of a connection comes between its two connection   *)
(* callbacks, whatever the client sent before and after the server decided *)
(* to close.                                                               *)
(***************************************************************************)
MessagesOnlyWhileUp ==
    [][\A c \in Conns : sock'[c].inq < sock[c].inq /\ sock'[c].peer # "gone" => Up(c)]_vars

Destroyed(c) == state[c] = "destroyed"

(***************************************************************************)
(* A connection whose client has gone is destroyed and its descriptor      *)
(* closed, unless the process dies first, provided clients read what they  *)
(* are sent.                                                               *)
(***************************************************************************)
GoneClientIsReleased ==
    ClientsRead =>
        \A c \in Conns : Live(c) /\ sock[c].peer \in {"closed", "reset", "lost"}
                          ~> Destroyed(c) \/ pc \in Ends

(***************************************************************************)
(* A client beyond the limit is disconnected even if it never closes.      *)
(***************************************************************************)
RefusedClientIsReleased ==
    ClientsRead =>
        \A c \in Conns : state[c] = "kDisconnecting" ~> Destroyed(c) \/ pc \in Ends

(***************************************************************************)
(* Every client in the accept queue gets its connection callback, although *)
(* one accept is made per event, as long as one descriptor is left beyond  *)
(* the limit.                                                              *)
(***************************************************************************)
QueuedClientIsAnswered ==
    ClientsRead =>
        \A c \in Conns : (\E i \in DOMAIN backlog : backlog[i] = c)
                          ~> Up(c) \/ pc \in Ends

(***************************************************************************)
(* socket.cpp lines 63 to 66 say that an accepted socket has been set to   *)
(* non-blocking, so that the loop's thread never waits in a write.         *)
(***************************************************************************)
WritesDoNotWait ==
    pc = "send" => Broken(hostPtr) \/ sock[hostPtr].outq < MaxOut

(***************************************************************************)
(* A message that arrives when the host has disconnected is given up, as   *)
(* sendInLoop does for a disconnected connection.                          *)
(***************************************************************************)
HostIsChecked == pc # "null host"
=============================================================================
