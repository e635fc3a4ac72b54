--------------------------------- MODULE Ipc ---------------------------------
(***************************************************************************)
(* The variant of the older server that is built with USE_IPC_CLASS.       *)
(* Start forks a child process that serves the devices in                  *)
(* ConcurrentProcess; the child connects to the parent's IPC server, a     *)
(* local socket, over which Stop sends the message that ends it.  The      *)
(* console of the parent may connect to the same server.  The parent has   *)
(* two threads, the console and IPCThread; they share ipcFd, the           *)
(* descriptor accepted last, without a lock, and one step is one access.   *)
(*                                                                         *)
(* Both event loops are edge-triggered, with one accept or one read per    *)
(* event, and every socket is in blocking mode.  What the console writes   *)
(* is short, so a child's read takes all of it, joined; what a child       *)
(* passes on may be longer than what the parent's read takes, and is       *)
(* counted in units of what one write brings.  The clients of the child    *)
(* are only seen in that data.  A connection is a number, in the order in  *)
(* which they are made.                                                    *)
(*                                                                         *)
(* A definition whose comment begins with "Fault" is a plausible mistake   *)
(* in the definition after it.                                             *)
(***************************************************************************)
EXTENDS Naturals, FiniteSets, Sequences

CONSTANTS
    MaxConns,   \* bound: connections that are made to the server
    Children,   \* the processes that may be forked
    Fds,        \* the descriptors left for connections in the parent
    MaxQueue,   \* bound: messages that a client leaves unread, which one read takes
    MaxUnread,  \* the room for what the server has not read yet
    None

ASSUME IpcAssumption ==
    /\ Fds \subseteq Nat \ {0} /\ IsFiniteSet(Fds)
    /\ {MaxConns, MaxQueue} \subseteq Nat
    /\ MaxUnread \in Nat \ {0}
    /\ None \notin Nat

VARIABLES
    status,      \* "running", or how the parent process has ended
    serving,     \* TcpServerSocket::isThreadRunning in the parent
    ipcFd,       \* IPC::ipcFd
    latest,      \* history: the connection accepted last
    thread,      \* where IPCThread is
    batch,       \* its events: None for the listening socket, or descriptors
    fdOf,        \* the descriptor of each accepted connection
    backlog,     \* the accept queue
    edge,        \* what has had an event, None for the listening socket
    conn,        \* each connection as the kernel has it
    mainConn,    \* IpcClient::socketFd in the parent, as a connection
    ownFd,       \* the descriptor in the parent of each client's end it made
    console,     \* where the console is in IpcWrite
    child        \* each child process

vars == <<status, serving, ipcFd, latest, thread, batch, fdOf, backlog, edge,
          conn, mainConn, ownFd, console, child>>
threadVars == <<ipcFd, latest, thread, batch, fdOf>>
consoleVars == <<serving, mainConn, ownFd, console>>

Conns == 1..MaxConns

\* end is the client's end; unread is the error that its last close left.
NewConn == [end |-> "unused", toClient |-> <<>>, toServer |-> 0, error |-> FALSE]
NoChild == [pc |-> "none", conn |-> None, running |-> FALSE, edge |-> FALSE, batch |-> {}]

\* fd is what the write uses; aim is a history, the connection that was the
\* one accepted last when fd was loaded.
Idle == [pc |-> "idle", msg |-> None, fd |-> None, aim |-> None]

\* The server has been constructed and listens; its thread has been started.
Init ==
    /\ status = "running"
    /\ serving = FALSE
    /\ ipcFd = None
    /\ latest = None
    /\ thread = "starting"
    /\ batch = {}
    /\ fdOf = [k \in Conns |-> None]
    /\ backlog = <<>>
    /\ edge = {}
    /\ conn = [k \in Conns |-> NewConn]
    /\ mainConn = None
    /\ ownFd = [k \in Conns |-> None]
    /\ console = Idle
    /\ child = [h \in Children |-> NoChild]

Accepted(k) == fdOf[k] # None
Edge(k) == IF Accepted(k) THEN {k} ELSE {}

\* The kernel gives the lowest free number.
FreeFds == Fds \ ({fdOf[k] : k \in Conns} \cup {ownFd[k] : k \in Conns})
LowestFree == CHOOSE fd \in FreeFds : \A other \in FreeFds : fd <= other

-----------------------------------------------------------------------------
(***************************************************************************)
(* IpcClient, in the parent and in a child.                                *)
(***************************************************************************)

\* TryConnect: Open makes a new socket whether or not there is one already.
TryConnect(k) ==
    /\ {j \in Conns : conn[j].end = "unused"} = k..MaxConns
    /\ conn' = [conn EXCEPT ![k].end = "open"]
    /\ backlog' = Append(backlog, k)
    /\ edge' = edge \cup {None}

\* Close up to its shutdown.
TryDisconnect(k) ==
    /\ conn' = [conn EXCEPT ![k].end = "shut"]
    /\ edge' = edge \cup Edge(k)

\* The last descriptor of the client's end is closed, which a child that
\* inherited one may delay; what was not read is then reported as an error.
Release(k) ==
    /\ conn[k].end = "shut"
    /\ conn' = [conn EXCEPT ![k].end = "closed", ![k].error = conn[k].toClient # <<>>]
    /\ edge' = edge \cup Edge(k)
    /\ UNCHANGED <<status, threadVars, backlog, consoleVars, child>>

-----------------------------------------------------------------------------
(***************************************************************************)
(* The console of the parent.                                              *)
(***************************************************************************)

\* Command 1.  Without a free descriptor Open and connect fail.
ConsoleConnect ==
    /\ console.pc = "idle"
    /\ \/ /\ FreeFds # {}
          /\ \E k \in Conns :
                TryConnect(k) /\ mainConn' = k /\ ownFd' = [ownFd EXCEPT ![k] = LowestFree]
       \/ /\ FreeFds = {}
          /\ mainConn' = None
          /\ UNCHANGED <<ownFd, conn, backlog, edge>>
    /\ UNCHANGED <<status, serving, threadVars, console, child>>

\* Command 0.
ConsoleDisconnect ==
    /\ console.pc = "idle"
    /\ mainConn # None
    /\ TryDisconnect(mainConn)
    /\ mainConn' = None
    /\ ownFd' = [ownFd EXCEPT ![mainConn] = None]
    /\ UNCHANGED <<status, serving, threadVars, backlog, console, child>>

\* IPC::IpcWrite up to its test of ipcFd.
IpcWrite(m) ==
    /\ console.pc = "idle"
    /\ \A k \in Conns : Len(conn[k].toClient) < MaxQueue
    /\ console' = IF ipcFd = None THEN console ELSE [Idle EXCEPT !.pc = "load", !.msg = m]
    /\ UNCHANGED <<status, threadVars, backlog, edge, conn, mainConn, ownFd, child>>

\* Command 2.
ConsoleWrite == IpcWrite("text") /\ UNCHANGED serving

\* TcpServerSocket::Stop writes even if nothing was started.
Stop == IpcWrite("stop") /\ serving' = FALSE

\* ipcFd is loaded again for the write; it may have been cleared since.
LoadIpcFd ==
    /\ console.pc = "load"
    /\ console' = [console EXCEPT !.pc = "write", !.fd = ipcFd, !.aim = latest]
    /\ UNCHANGED <<status, serving, threadVars, backlog, edge, conn, mainConn, ownFd, child>>

\* The write goes to whatever has the number by now: a connection, a client's
\* end of the parent, which makes it data for the server, or nothing, which
\* is an error without effect.  A client that has gone is SIGPIPE.
Write ==
    LET written == {k \in Conns : Accepted(k) /\ fdOf[k] = console.fd}
        reached == {k \in written : conn[k].end = "open"}
        own     == {k \in Conns : ownFd[k] # None /\ ownFd[k] = console.fd}
    IN  /\ console.pc = "write"
        /\ \A k \in own : conn[k].toServer < MaxUnread
        /\ conn' = [k \in Conns |->
                      [conn[k] EXCEPT
                         !.toClient = IF k \in reached THEN Append(@, console.msg) ELSE @,
                         !.toServer = IF k \in own THEN @ + 1 ELSE @]]
        /\ edge' = edge \cup UNION {Edge(k) : k \in own}
        /\ child' = [h \in Children |->
                      IF child[h].conn \in reached THEN [child[h] EXCEPT !.edge = TRUE]
                                                   ELSE child[h]]
        /\ status' = IF written = reached THEN status ELSE "SIGPIPE"
        /\ console' = Idle
        /\ UNCHANGED <<serving, threadVars, backlog, mainConn, ownFd>>

\* TcpServerSocket::Start.  The child has a copy of the parent's IpcClient,
\* which its own TryConnect overwrites.
Start ==
    /\ console.pc = "idle"
    /\ ~serving
    /\ serving' = TRUE
    /\ \E h \in Children :
          /\ child[h].pc = "none"
          /\ child' = [child EXCEPT ![h].pc = "forked", ![h].running = TRUE]
    /\ UNCHANGED <<status, threadVars, backlog, edge, conn, mainConn, ownFd, console>>

Console ==
    \/ ConsoleConnect \/ ConsoleDisconnect \/ ConsoleWrite \/ Start \/ Stop
    \/ LoadIpcFd \/ Write

-----------------------------------------------------------------------------
(***************************************************************************)
(* IPCThread.                                                              *)
(***************************************************************************)

\* What epoll_wait finds ready of those that had an event.
Ready(x) == IF x = None THEN backlog # <<>>
            ELSE conn[x].toServer # 0 \/ conn[x].error \/ conn[x].end # "open"

\* The thread makes its epoll descriptor; what came before is an event.
Begin ==
    /\ thread = "starting"
    /\ thread' = "loop"
    /\ UNCHANGED <<status, ipcFd, latest, batch, fdOf, backlog, edge, conn,
                   consoleVars, child>>

\* Nobody asks the thread to exit.
Wait ==
    /\ thread = "loop"
    /\ batch = {}
    /\ edge # {}
    /\ batch' = {IF x = None THEN None ELSE fdOf[x] : x \in {y \in edge : Ready(y)}}
    /\ edge' = {}
    /\ UNCHANGED <<status, ipcFd, latest, thread, fdOf, backlog, conn, consoleVars, child>>

Event(e) == thread = "loop" /\ e \in batch

\* Fault: accept again until it fails, on a blocking socket.
HandleAcceptUntilEmpty == UNCHANGED batch

\* One accept for an event.
HandleAccept == batch' = batch \ {None}

\* Fault: the connection that is there already is kept.
SetIpcFdOnce(fd) ==
    /\ ipcFd' = IF ipcFd = None THEN fd ELSE ipcFd
    /\ latest' = Head(backlog)

\* The connection accepted last is the one that IpcWrite writes to.
SetIpcFd(fd) ==
    /\ ipcFd' = fd
    /\ latest' = Head(backlog)

Accept ==
    /\ Event(None)
    /\ backlog # <<>>
    /\ FreeFds # {}
    /\ LET k == Head(backlog)
       IN  /\ fdOf' = [fdOf EXCEPT ![k] = LowestFree]
           /\ edge' = IF Ready(k) THEN edge \cup {k} ELSE edge
    /\ SetIpcFd(LowestFree)
    /\ backlog' = Tail(backlog)
    /\ HandleAccept
    /\ UNCHANGED <<status, thread, conn, consoleVars, child>>

\* An accept that fails ends the process.  The other parts of the process
\* may have taken the last descriptor.
AcceptFails ==
    /\ Event(None)
    /\ backlog # <<>>
    /\ status' = "exited"
    /\ UNCHANGED <<threadVars, backlog, edge, conn, consoleVars, child>>

Reads(k) == Accepted(k) /\ Event(fdOf[k])

\* One read of 512 bytes for an event; the rest waits for the next one.
ReadData(k) ==
    /\ Reads(k)
    /\ \E n \in 1 .. conn[k].toServer : conn' = [conn EXCEPT ![k].toServer = @ - n]
    /\ batch' = batch \ {fdOf[k]}
    /\ UNCHANGED <<status, ipcFd, latest, thread, fdOf, backlog, edge, consoleVars, child>>

\* A read that fails is passed over; the error is reported once.
ReadError(k) ==
    /\ Reads(k)
    /\ conn[k].toServer = 0 /\ conn[k].error
    /\ conn' = [conn EXCEPT ![k].error = FALSE]
    /\ batch' = batch \ {fdOf[k]}
    /\ UNCHANGED <<status, ipcFd, latest, thread, fdOf, backlog, edge, consoleVars, child>>

\* The end of the stream: shutdown and close.
ReadEnd(k) ==
    /\ Reads(k)
    /\ conn[k].toServer = 0 /\ ~conn[k].error /\ conn[k].end # "open"
    /\ batch' = batch \ {fdOf[k]}
    /\ fdOf' = [fdOf EXCEPT ![k] = None]
    /\ edge' = edge \ {k}
    /\ thread' = "closing"
    /\ UNCHANGED <<status, ipcFd, latest, backlog, conn, consoleVars, child>>

\* SetConnFd(-1), whichever connection has ended.
SetConnFd ==
    /\ thread = "closing"
    /\ thread' = "loop"
    /\ ipcFd' = None
    /\ UNCHANGED <<status, latest, batch, fdOf, backlog, edge, conn, consoleVars, child>>

IPCThread ==
    \/ Begin \/ Wait \/ SetConnFd
    \/ Accept \/ AcceptFails
    \/ \E k \in Conns : ReadData(k) \/ ReadError(k) \/ ReadEnd(k)

-----------------------------------------------------------------------------
(***************************************************************************)
(* ConcurrentProcess in a child.                                           *)
(***************************************************************************)
parentVars == <<status, threadVars, consoleVars>>

Connect(h) ==
    /\ child[h].pc = "forked"
    /\ \E k \in Conns :
          /\ TryConnect(k)
          /\ child' = [child EXCEPT ![h].pc = "loop", ![h].conn = k]
    /\ UNCHANGED parentVars

\* epoll_wait, which returns after 500 ms at the latest.  An edge of the
\* connection to the parent is dropped if what it was for has been read with
\* what came before.  Bound: data of one device in a turn.
WaitInChild(h) ==
    /\ child[h].pc = "loop" /\ child[h].batch = {}
    /\ child[h].running
    /\ \E devices \in SUBSET {"device"} :
          LET ipc == IF child[h].edge /\ conn[child[h].conn].toClient # <<>> THEN {"ipc"} ELSE {}
          IN  child' = [child EXCEPT ![h].batch = ipc \cup devices, ![h].edge = FALSE]
    /\ UNCHANGED <<parentVars, backlog, edge, conn>>

Handles(h, event) == child[h].pc = "loop" /\ event \in child[h].batch

\* What was read from a device is written to the parent.
Forwarded(h) ==
    /\ conn[child[h].conn].toServer < MaxUnread
    /\ conn' = [conn EXCEPT ![child[h].conn].toServer = @ + 1]
    /\ edge' = edge \cup Edge(child[h].conn)
    /\ child' = [child EXCEPT ![h].pc = "loop", ![h].batch = @ \ {"device"}]

HandleDevice(h) ==
    /\ Handles(h, "device")
    /\ Forwarded(h)
    /\ UNCHANGED <<parentVars, backlog>>

\* Without room the child waits in write.
WriteWaits(h) ==
    /\ Handles(h, "device")
    /\ conn[child[h].conn].toServer = MaxUnread
    /\ child' = [child EXCEPT ![h].pc = "write"]
    /\ UNCHANGED <<parentVars, backlog, edge, conn>>

WriteReturns(h) ==
    /\ child[h].pc = "write"
    /\ Forwarded(h)
    /\ UNCHANGED <<parentVars, backlog>>

\* Fault: the end of what was read is compared.
SaysStopLast(received) == received # <<>> /\ received[Len(received)] = "stop"

\* The first three bytes are compared, however many were read.
SaysStop(received) == received # <<>> /\ Head(received) = "stop"

\* The rest of the turn is still handled after a stop.
ReadIpc(h) ==
    /\ Handles(h, "ipc")
    /\ LET k == child[h].conn
       IN  /\ child' = [child EXCEPT ![h].batch = @ \ {"ipc"},
                                     ![h].running = @ /\ ~SaysStop(conn[k].toClient)]
           /\ conn' = [conn EXCEPT ![k].toClient = <<>>]
    /\ UNCHANGED <<parentVars, backlog, edge>>

\* TryDisconnect, and _exit.
Exit(h) ==
    /\ child[h].pc = "loop" /\ child[h].batch = {}
    /\ ~child[h].running
    /\ TryDisconnect(child[h].conn)
    /\ child' = [child EXCEPT ![h].pc = "exited"]
    /\ UNCHANGED <<parentVars, backlog>>

ConcurrentProcess(h) ==
    \/ Connect(h) \/ WaitInChild(h)
    \/ ReadIpc(h) \/ HandleDevice(h) \/ WriteWaits(h) \/ WriteReturns(h)
    \/ Exit(h)

-----------------------------------------------------------------------------
\* A child dies with its parent: prctl(PR_SET_PDEATHSIG, SIGHUP).
Running == status = "running"

Next ==
    /\ Running
    /\ \/ Console
       \/ IPCThread
       \/ \E h \in Children : ConcurrentProcess(h)
       \/ \E k \in Conns : Release(k)

(***************************************************************************)
(* The thread and the children run when they can.  Left open are the       *)
(* console, the devices, so that a child's turn is only certain when there *)
(* is an edge of its connection, and the time of the last close.  A write  *)
(* that waits is certain to go on when everything was read: the kernel     *)
(* need not wake it before most of what filled the buffer is gone.         *)
(***************************************************************************)
ChildRuns(h) ==
    /\ ConcurrentProcess(h)
    /\ child[h].pc = "loop" /\ child[h].batch = {} /\ child[h].running => child[h].edge
    /\ child[h].pc = "write" => conn[child[h].conn].toServer = 0

Fairness ==
    /\ WF_vars(Running /\ IPCThread)
    /\ \A h \in Children : WF_vars(Running /\ ChildRuns(h))

Spec == Init /\ [][Next]_vars /\ Fairness

-----------------------------------------------------------------------------
(***************************************************************************)
(* Properties.                                                             *)
(***************************************************************************)

(***************************************************************************)
(* What IpcWrite writes goes to the connection that was accepted last when *)
(* ipcFd was loaded: neither to an older one, nor to one that has the same *)
(* number by then, nor to the parent's own client, unless the connection   *)
(* it was for has been closed since.  The console reads ipcFd without a    *)
(* lock, twice, and writes later.                                          *)
(***************************************************************************)
WritesReachLatest ==
    [][console.pc = "write" /\ console' = Idle =>
         \A k \in Conns : conn'[k] # conn[k] => k = console.aim \/ ~Accepted(console.aim)]_vars

(***************************************************************************)
(* IPCThread and the children never wait in accept or read, although their *)
(* sockets are in blocking mode: what an event announced is still there    *)
(* when it is handled.  (A child may wait in its write to the parent.)     *)
(***************************************************************************)
IpcReadsDoNotWait ==
    Running =>
        /\ None \in batch => backlog # <<>>
        /\ \A k \in Conns : Accepted(k) /\ fdOf[k] \in batch => Ready(k)
        /\ \A h \in Children :
              Handles(h, "ipc") => conn[child[h].conn].toClient # <<>>

(***************************************************************************)
(* A stop that has reached the head of a child's connection ends the       *)
(* child, whatever is written after it, unless the child waits for ever in *)
(* its write to the parent, with data before it that the parent has left   *)
(* unread.  (A stop behind another message does not end it: ReadIpc        *)
(* compares the first bytes.)                                              *)
(***************************************************************************)
StuckInWrite(h) == child[h].pc = "write" /\ conn[child[h].conn].toServer # 0

StopEndsChild ==
    \A h \in Children :
        \/ child[h].conn # None /\ SaysStop(conn[child[h].conn].toClient)
               ~> child[h].pc = "exited" \/ ~Running
        \/ <>[]StuckInWrite(h)
=============================================================================
