--------------------------- MODULE TcpServerSocket ---------------------------
(***************************************************************************)
(* The older servers, the class TcpServerSocket in its two types.          *)
(* "concurrent" listens on two ports, one for devices and one for          *)
(* interfaces (its TcpInterfaceSocket); "config", of the type              *)
(* NONE_CONCURRENT, listens on one port for one host.  Each class of       *)
(* clients has an FdManager with the descriptors of its connections, each  *)
(* server one thread, ConcurrentThread or NoneConcurrentThread.  Another   *)
(* thread calls Start and Stop; Stop joins.  All descriptors are those of  *)
(* one process: a number that one server closed the other may get next.    *)
(*                                                                         *)
(* Every descriptor is registered edge-triggered and is in blocking mode,  *)
(* and an event leads to one accept or one read.  Events are what          *)
(* epoll_wait returned and are handled in any order; an event holds the    *)
(* number of a descriptor and not the connection.                          *)
(*                                                                         *)
(* A client is named once and may connect again after its connection was   *)
(* closed by the server.  A definition whose comment begins with "Fault"   *)
(* is not part of the specification: it is a plausible mistake in the      *)
(* definition after it.                                                    *)
(***************************************************************************)
EXTENDS Naturals, FiniteSets, FdManager

CONSTANTS
    Servers,         \* "concurrent", "config" or both
    Devices,         \* the clients of the device port
    Interfaces,      \* the clients of the interface port
    Hosts,           \* the clients of the other server
    MaxDevices,      \* MAX_DEV_CONNECTIONS
    MaxInterfaces,   \* MAX_IFC_CONNECTIONS
    Fds,             \* the descriptors left for accepted sockets
    MaxIn,           \* bound: reads a client's unread data is worth
    None

ASSUME ConstantsAssumption ==
    /\ Servers \subseteq {"concurrent", "config"}
    /\ Devices \cap Interfaces = {}
    /\ Hosts \cap (Devices \cup Interfaces) = {}
    /\ (Devices \cup Interfaces \cup Hosts) \cap {"device", "interface", "host"} = {}
    /\ Devices \cup Interfaces # {} => "concurrent" \in Servers
    /\ Hosts # {} => "config" \in Servers
    /\ MaxDevices \in Nat /\ MaxInterfaces \in Nat /\ MaxIn \in Nat
    /\ Fds \subseteq Nat /\ IsFiniteSet(Fds)
    /\ None \notin Fds

VARIABLES
    isThreadRunning, \* of each server
    pc,         \* where each server's thread is
    slots,      \* pDevFdVec_ of either server and pIfcFdVec_
    fdOf,       \* the descriptor of each accepted connection
    backlog,    \* the accept queue of each listening socket
    edge,       \* what has had an event since epoll_wait last reported it
    batch,      \* the events of each thread's last epoll_wait still to handle
    sock        \* the state of each client's connection

vars == <<isThreadRunning, pc, slots, fdOf, backlog, edge, batch, sock>>
netVars == <<backlog, edge, sock>>

Clients == Devices \cup Interfaces \cup Hosts
KindsOf(s) == IF s = "concurrent" THEN {"device", "interface"} ELSE {"host"}
Kinds == UNION {KindsOf(s) : s \in Servers}
ServerOf(k) == IF k = "host" THEN "config" ELSE "concurrent"
Kind(c) == IF c \in Devices THEN "device"
           ELSE IF c \in Interfaces THEN "interface" ELSE "host"

\* The type of the server decides: a host is alone.
maxConnections(k) ==
    CASE k = "device" -> MaxDevices
      [] k = "interface" -> MaxInterfaces
      [] k = "host" -> 1

NewSocket == [peer |-> "none", inq |-> 0]

Open(c) == fdOf[c] # None
OpenOf(k) == {c \in Clients : Open(c) /\ Kind(c) = k}

\* A thread that ends closes one class after the other, and its pc is the
\* class whose sockets it is closing: the interfaces, then the devices.
FirstClosed(s) == IF s = "concurrent" THEN "interface" ELSE "host"

\* Fault: only the interfaces are closed, as in ConcurrentProcess.
NextClosedAsInChild(k) == "ended"

NextClosed(k) == IF k = "interface" THEN "device" ELSE "ended"

\* The listening socket of k is open.
Listening(k) ==
    \/ pc[ServerOf(k)] \in {"loop", "wait", k}
    \/ k = "device" /\ pc[ServerOf(k)] = "interface"

\* What epoll_wait reports: a listening socket or a descriptor to read.
AcceptEvent(k) == <<k, None>>
ReadEvent(fd) == <<"read", fd>>
Events == {AcceptEvent(k) : k \in Kinds} \cup {ReadEvent(fd) : fd \in Fds}

TypeOK ==
    /\ isThreadRunning \in [Servers -> BOOLEAN]
    /\ pc \in [Servers -> {"idle", "starting", "loop", "wait", "ended"} \cup Kinds]
    /\ slots \in [Kinds -> Seq(Fds)]
    /\ fdOf \in [Clients -> Fds \cup {None}]
    /\ backlog \in [Kinds -> Seq(Clients)]
    /\ edge \subseteq Kinds \cup Clients
    /\ batch \in [Servers -> SUBSET Events]
    /\ sock \in [Clients -> [peer : {"none", "connected", "closed", "reset"},
                             inq : 0 .. MaxIn]]

Init ==
    /\ isThreadRunning = [s \in Servers |-> FALSE]
    /\ pc = [s \in Servers |-> "idle"]
    /\ slots = [k \in Kinds |-> <<>>]
    /\ fdOf = [c \in Clients |-> None]
    /\ backlog = [k \in Kinds |-> <<>>]
    /\ edge = {}
    /\ batch = [s \in Servers |-> {}]
    /\ sock = [c \in Clients |-> NewSocket]

-----------------------------------------------------------------------------
(***************************************************************************)
(* The clients.  What happens on a registered descriptor is an edge.       *)
(***************************************************************************)

Edge(c) == edge' = IF Open(c) THEN edge \cup {c} ELSE edge

Connect(c) ==
    /\ Listening(Kind(c))
    /\ sock[c].peer = "none"
    /\ sock' = [sock EXCEPT ![c].peer = "connected"]
    /\ backlog' = [backlog EXCEPT ![Kind(c)] = Append(@, c)]
    /\ edge' = edge \cup {Kind(c)}
    /\ UNCHANGED <<isThreadRunning, pc, slots, fdOf, batch>>

Send(c) ==
    /\ sock[c].peer = "connected"
    /\ sock[c].inq < MaxIn
    /\ sock' = [sock EXCEPT ![c].inq = @ + 1]
    /\ Edge(c)
    /\ UNCHANGED <<isThreadRunning, pc, slots, fdOf, backlog, batch>>

Close(c) ==
    /\ sock[c].peer = "connected"
    /\ sock' = [sock EXCEPT ![c].peer = "closed"]
    /\ Edge(c)
    /\ UNCHANGED <<isThreadRunning, pc, slots, fdOf, backlog, batch>>

Abort(c) ==
    /\ sock[c].peer = "connected"
    /\ sock' = [sock EXCEPT ![c].peer = "reset"]
    /\ Edge(c)
    /\ UNCHANGED <<isThreadRunning, pc, slots, fdOf, backlog, batch>>

-----------------------------------------------------------------------------
(***************************************************************************)
(* The thread that owns the servers.                                       *)
(***************************************************************************)

\* Start: the flag is set and the thread is made.
Start(s) ==
    /\ ~isThreadRunning[s]
    /\ pc[s] = "idle"
    /\ isThreadRunning' = [isThreadRunning EXCEPT ![s] = TRUE]
    /\ pc' = [pc EXCEPT ![s] = "starting"]
    /\ UNCHANGED <<slots, fdOf, batch, netVars>>

\* Stop up to its join.
Stop(s) ==
    /\ isThreadRunning[s]
    /\ isThreadRunning' = [isThreadRunning EXCEPT ![s] = FALSE]
    /\ UNCHANGED <<pc, slots, fdOf, batch, netVars>>

\* The join of Stop returns.  The Close that follows it in a server of the
\* type NONE_CONCURRENT finds the listening socket closed by the thread.
Join(s) ==
    /\ ~isThreadRunning[s]
    /\ pc[s] = "ended"
    /\ pc' = [pc EXCEPT ![s] = "idle"]
    /\ UNCHANGED <<isThreadRunning, slots, fdOf, batch, netVars>>

-----------------------------------------------------------------------------
(***************************************************************************)
(* What the two threads have in common.                                    *)
(***************************************************************************)

\* The sockets are opened, bound, listening and registered.
Begin(s) ==
    /\ pc[s] = "starting"
    /\ pc' = [pc EXCEPT ![s] = "loop"]
    /\ UNCHANGED <<isThreadRunning, slots, fdOf, batch, netVars>>

\* A read would return at once.
Readable(c) == sock[c].inq > 0 \/ sock[c].peer # "connected"

\* What epoll_wait finds ready of those that had an event.
Ready(x) == IF x \in Kinds THEN backlog[x] # <<>> ELSE Readable(x)

\* Which thread's epoll instance a socket is registered with.
Registered(s, x) == (IF x \in Kinds THEN x ELSE Kind(x)) \in KindsOf(s)

\* while(isThreadRunning): go and wait.
CheckRunning(s) ==
    /\ pc[s] = "loop"
    /\ batch[s] = {}
    /\ isThreadRunning[s]
    /\ pc' = [pc EXCEPT ![s] = "wait"]
    /\ UNCHANGED <<isThreadRunning, slots, fdOf, batch, netVars>>

\* epoll_wait returns, after 500 ms at the latest; an edge is reported once.
Wait(s) ==
    /\ pc[s] = "wait"
    /\ LET found == {x \in edge : Registered(s, x) /\ Ready(x)}
       IN  batch' = [batch EXCEPT ![s] =
                       {AcceptEvent(k) : k \in found \cap Kinds}
                         \cup {ReadEvent(fdOf[c]) : c \in found \cap Clients}]
    /\ edge' = {x \in edge : ~Registered(s, x)}
    /\ pc' = [pc EXCEPT ![s] = "loop"]
    /\ UNCHANGED <<isThreadRunning, slots, fdOf, backlog, sock>>

Event(s, e) == pc[s] = "loop" /\ e \in batch[s]
Handle(s, e) == batch' = [batch EXCEPT ![s] = @ \ {e}]

\* Fault: accept is called again until it fails, on a blocking socket.
HandleOnFailure(k) ==
    IF backlog[k] = <<>> THEN Handle(ServerOf(k), AcceptEvent(k)) ELSE UNCHANGED batch

\* An accept ends the handling of the event.
HandleAccept(k) == Handle(ServerOf(k), AcceptEvent(k))

FreeFds == Fds \ {fdOf[c] : c \in Clients}
LowestFree == CHOOSE fd \in FreeFds : \A other \in FreeFds : fd <= other

\* Fault: one connection more than the maximum passes.
CheckConnectionsOrEqual(k) == GetTotalCount(slots[k]) <= maxConnections(k)

\* CheckConnections of either class.
CheckConnections(k) == GetTotalCount(slots[k]) < maxConnections(k)

\* Accept gets a connection for which there is a slot.
Admit(k, c) ==
    /\ CheckConnections(k)
    /\ slots' = [slots EXCEPT ![k] = Insert(@, LowestFree, maxConnections(k))]
    /\ fdOf' = [fdOf EXCEPT ![c] = LowestFree]
    /\ edge' = IF Readable(c) THEN edge \cup {c} ELSE edge
    /\ UNCHANGED sock

\* Accept gets a connection beyond the maximum: Close(fd) also deletes fd
\* from the list, in which an earlier connection may have left it.
Refuse(k, c) ==
    /\ ~CheckConnections(k)
    /\ slots' = [slots EXCEPT ![k] = Delete(@, LowestFree)]
    /\ sock' = [sock EXCEPT ![c] = NewSocket]
    /\ UNCHANGED <<fdOf, edge>>

\* TcpServerSocket::Accept and TcpInterfaceSocket::Accept, which wait while
\* the queue is empty.
Accept(k) ==
    /\ Event(ServerOf(k), AcceptEvent(k))
    /\ backlog[k] # <<>>
    /\ FreeFds # {}
    /\ HandleAccept(k)
    /\ backlog' = [backlog EXCEPT ![k] = Tail(@)]
    /\ Admit(k, Head(backlog[k])) \/ Refuse(k, Head(backlog[k]))
    /\ UNCHANGED <<isThreadRunning, pc>>

\* Fault: the -1 that accept returned is inserted as well.
AcceptFailsInserts(k) ==
    /\ Event(ServerOf(k), AcceptEvent(k))
    /\ backlog[k] # <<>>
    /\ FreeFds = {}
    /\ Handle(ServerOf(k), AcceptEvent(k))
    /\ slots' = [slots EXCEPT ![k] = Insert(@, None, maxConnections(k))]
    /\ UNCHANGED <<isThreadRunning, pc, fdOf, netVars>>

\* Both of them when the process is out of descriptors.
AcceptFails(k) ==
    /\ Event(ServerOf(k), AcceptEvent(k))
    /\ backlog[k] # <<>>
    /\ FreeFds = {}
    /\ Handle(ServerOf(k), AcceptEvent(k))
    /\ UNCHANGED <<isThreadRunning, pc, slots, fdOf, netVars>>

\* The thread of s reads the descriptor of c, which may have got the number
\* after epoll_wait returned.
Reads(s, c) == Open(c) /\ Event(s, ReadEvent(fdOf[c]))

\* One read of at most 512 bytes: some or all of what is there.
ReadData(s, c) ==
    /\ Reads(s, c)
    /\ \E n \in 1 .. sock[c].inq : sock' = [sock EXCEPT ![c].inq = @ - n]
    /\ Handle(s, ReadEvent(fdOf[c]))
    /\ UNCHANGED <<isThreadRunning, pc, slots, fdOf, backlog, edge>>

\* Any other error of read than ECONNRESET: the descriptor is closed.
ReadFails(s, fd) ==
    /\ Event(s, ReadEvent(fd))
    /\ \A c \in Clients : fdOf[c] # fd
    /\ Handle(s, ReadEvent(fd))
    /\ UNCHANGED <<isThreadRunning, pc, slots, fdOf, netVars>>

\* The connection of c is closed: nothing more is heard of it.
CloseConnection(c) ==
    /\ fdOf' = [fdOf EXCEPT ![c] = None]
    /\ sock' = [sock EXCEPT ![c] = NewSocket]
    /\ edge' = edge \ {c}

\* ECONNRESET: the descriptor is closed, its place in the list remains.
ReadReset(s, c) ==
    /\ Reads(s, c)
    /\ sock[c].inq = 0
    /\ sock[c].peer = "reset"
    /\ Handle(s, ReadEvent(fdOf[c]))
    /\ CloseConnection(c)
    /\ UNCHANGED <<isThreadRunning, pc, slots, backlog>>

ReadsEnd(s, c) ==
    /\ Reads(s, c)
    /\ sock[c].inq = 0
    /\ sock[c].peer = "closed"
    /\ Handle(s, ReadEvent(fdOf[c]))
    /\ UNCHANGED <<isThreadRunning, pc, backlog>>

\* while(isThreadRunning) is left.
LeaveLoop(s) ==
    /\ pc[s] = "loop"
    /\ batch[s] = {}
    /\ ~isThreadRunning[s]
    /\ pc' = [pc EXCEPT ![s] = FirstClosed(s)]
    /\ UNCHANGED <<isThreadRunning, slots, fdOf, batch, netVars>>

\* CloseAllConnections, one descriptor of the list, whoever has the number
\* by now.  The list is what is left to close, and ClearAll is its end.
CloseListed(k) ==
    /\ pc[ServerOf(k)] = k
    /\ slots[k] # <<>>
    /\ slots' = [slots EXCEPT ![k] = Tail(@)]
    /\ \/ \E c \in Clients : fdOf[c] = Head(slots[k]) /\ CloseConnection(c)
       \/ /\ \A c \in Clients : fdOf[c] # Head(slots[k])
          /\ UNCHANGED <<fdOf, sock, edge>>
    /\ UNCHANGED <<isThreadRunning, pc, backlog, batch>>

\* Close of the listening socket: who is in its queue is reset.
CloseListening(k) ==
    /\ pc[ServerOf(k)] = k
    /\ slots[k] = <<>>
    /\ pc' = [pc EXCEPT ![ServerOf(k)] = NextClosed(k)]
    /\ backlog' = [backlog EXCEPT ![k] = <<>>]
    /\ sock' = [c \in Clients |-> IF Contains(backlog[k], c) THEN NewSocket ELSE sock[c]]
    /\ edge' = edge \ {k}
    /\ UNCHANGED <<isThreadRunning, slots, fdOf, batch>>

Loop(s) ==
    \/ Begin(s)
    \/ CheckRunning(s)
    \/ Wait(s)
    \/ \E k \in KindsOf(s) :
          Accept(k) \/ AcceptFails(k) \/ CloseListed(k) \/ CloseListening(k)
    \/ \E c \in Clients : ReadData(s, c) \/ ReadReset(s, c)
    \/ \E fd \in Fds : ReadFails(s, fd)
    \/ LeaveLoop(s)

-----------------------------------------------------------------------------
(***************************************************************************)
(* ConcurrentThread.  At the end of a stream the two calls of CheckFd look *)
(* for the descriptor in the list of devices first;                        *)
(* TcpInterfaceSocket::Close deletes it once more.  A descriptor in        *)
(* neither list stays open.                                                *)
(***************************************************************************)
CheckFd(k, fd) ==
    IF k = "interface" THEN Delete(Delete(slots[k], fd), fd) ELSE Delete(slots[k], fd)

ReadEnd(c) ==
    /\ ReadsEnd("concurrent", c)
    /\ LET fd == fdOf[c]
           listed == {k \in Kinds \ {"host"} : Find(slots[k], fd)}
           found == IF "device" \in listed THEN "device" ELSE "interface"
       IN  IF listed = {}
             THEN UNCHANGED <<slots, fdOf, sock, edge>>
             ELSE /\ slots' = [slots EXCEPT ![found] = CheckFd(found, fd)]
                  /\ CloseConnection(c)

ConcurrentThread == Loop("concurrent") \/ \E c \in Clients : ReadEnd(c)

(***************************************************************************)
(* NoneConcurrentThread.  At the end of a stream the descriptor is closed  *)
(* whether or not it is in the list.                                       *)
(***************************************************************************)
HostReadEnd(c) ==
    /\ ReadsEnd("config", c)
    /\ slots' = [slots EXCEPT !["host"] = Delete(@, fdOf[c])]
    /\ CloseConnection(c)

NoneConcurrentThread == Loop("config") \/ \E c \in Clients : HostReadEnd(c)

ServerThread(s) ==
    IF s = "concurrent" THEN ConcurrentThread ELSE NoneConcurrentThread

ClientStep == \E c \in Clients : Connect(c) \/ Send(c) \/ Close(c) \/ Abort(c)

Next ==
    \/ \E s \in Servers : ServerThread(s) \/ Start(s) \/ Stop(s) \/ Join(s)
    \/ ClientStep

Spec == Init /\ [][Next]_vars

-----------------------------------------------------------------------------
(***************************************************************************)
(* Properties.                                                             *)
(***************************************************************************)

(***************************************************************************)
(* The descriptor of every open connection is in the list of its own       *)
(* class, although resets leave descriptors behind, descriptors are used   *)
(* again by either class, and the end of an interface's connection is      *)
(* looked up among the devices first.  Without this a connection would     *)
(* never be closed.                                                        *)
(***************************************************************************)
OpenHasSlot == \A c \in Clients : Open(c) => Find(slots[Kind(c)], fdOf[c])

(***************************************************************************)
(* Neither class ever has more connections open than its maximum, although *)
(* FdManager itself would take one more.                                   *)
(***************************************************************************)
WithinLimit == \A k \in Kinds : Cardinality(OpenOf(k)) <= maxConnections(k)

(***************************************************************************)
(* The thread waits in epoll_wait and nowhere else: when an event is       *)
(* handled there is still something to accept or to read, although the     *)
(* sockets are in blocking mode.  Otherwise the join of Stop would last    *)
(* until some client came to its help.                                     *)
(***************************************************************************)
CallsDoNotWait ==
    \A s \in Servers : \A e \in batch[s] :
        /\ \A k \in Kinds : e = AcceptEvent(k) => backlog[k] # <<>>
        /\ \A c \in Clients : Open(c) /\ e = ReadEvent(fdOf[c]) => Readable(c)

(***************************************************************************)
(* When the thread has ended it has left no connection open, so that Start *)
(* may be called again.  It closes the two classes one after the other,    *)
(* and clients connect until the listening socket of theirs is closed.     *)
(***************************************************************************)
EndClosesAll ==
    \A s \in Servers : pc[s] = "ended" => \A k \in KindsOf(s) : OpenOf(k) = {}

(***************************************************************************)
(* TcpServerSocket.cpp line 218 reports "Max interface reached" when it    *)
(* refuses a connection: a refusal means that the maximum is in use.  The  *)
(* check counts the list, and after ECONNRESET the number of a connection  *)
(* that is closed is in it until a Close of that number, which may be the  *)
(* one of the refusal itself, deletes it.                                  *)
(***************************************************************************)
RefusesOnlyAtMax ==
    [][\A k \in Kinds :
          /\ backlog[k] # <<>>
          /\ backlog[k]' = Tail(backlog[k])
          /\ pc'[ServerOf(k)] = "loop"
          /\ fdOf'[Head(backlog[k])] = None
          => Cardinality(OpenOf(k)) = maxConnections(k)]_vars
=============================================================================
