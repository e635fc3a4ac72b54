--------------------------- MODULE MyServerProofs ---------------------------
(***************************************************************************)
(* Proofs about module MyServer, for any set of clients, any limit, any    *)
(* descriptors and any size of the socket buffers.                         *)
(*                                                                         *)
(* Three properties of the connections are proved together, because each   *)
(* step needs the others: the count is exact, no more than the limit are   *)
(* served, and a functor of a connection's life finds the connection in    *)
(* the state it was queued in.  The last holds because of two facts about  *)
(* the queue, the vector that is being run followed by the functors that   *)
(* wait: it holds at most one functor of each connection's life (OneLife), *)
(* and each of them fits the state of its connection now (QueueFits).  A   *)
(* connection that closes is up, so no functor of its life was queued, and *)
(* its removal is the only one afterwards.                                 *)
(*                                                                         *)
(* The module goes through the types first, then states the invariant Inv, *)
(* proves it action by action, and reads the theorems off it: the three    *)
(* properties, and that the server implements ConnectionLife.              *)
(***************************************************************************)
EXTENDS MyServer, SequenceTheorems, FiniteSetTheorems, TLAPS

-----------------------------------------------------------------------------
(***************************************************************************)
(* Every operation of a channel leaves a poller a poller.                  *)
(***************************************************************************)
LEMMA EpollCtlType ==
    ASSUME NEW p \in Pollers, NEW op, NEW c \in Conns
    PROVE  EpollCtl(p, op, c) \in Pollers
<1> DEFINE entry == [channel |-> c, events |-> p.events[c]]
<1>1. entry \in Interest
  BY DEF Pollers, Interest
<1> HIDE DEF entry
<1>2. ASSUME NEW e \in Interest \cup {None}
      PROVE  [p EXCEPT !.epoll[p.fd[c]] = e] \in Pollers
  <2> DEFINE r == [p.epoll EXCEPT ![p.fd[c]] = e]
  <2>1. r \in [Fds -> Interest \cup {None}]
    BY DEF Pollers
  <2> HIDE DEF r
  <2>2. [p EXCEPT !.epoll = r] \in Pollers
    BY <2>1 DEF Pollers
  <2> QED
    BY <2>2 DEF r
<1> QED
  BY <1>1, <1>2 DEF EpollCtl, entry

LEMMA IndexType ==
    ASSUME NEW p \in Pollers, NEW c \in Conns, NEW i \in Index
    PROVE  [p EXCEPT !.index[c] = i] \in Pollers
BY DEF Pollers

LEMMA KnownType ==
    ASSUME NEW p \in Pollers, NEW fd, NEW c \in Conns \cup {None}
    PROVE  [p EXCEPT !.channels[fd] = c] \in Pollers
<1> DEFINE r == [p.channels EXCEPT ![fd] = c]
<1>1. r \in [Fds -> Conns \cup {None}]
  BY DEF Pollers
<1> HIDE DEF r
<1>2. [p EXCEPT !.channels = r] \in Pollers
  BY <1>1 DEF Pollers
<1> QED
  BY <1>2 DEF r

LEMMA UpdateType ==
    ASSUME NEW p \in Pollers, NEW c \in Conns
    PROVE  updateChannel(p, c) \in Pollers
<1>1. AddChannel(p, c) \in Pollers
  <2> DEFINE known == IF p.index[c] = "cNew" /\ p.channels[p.fd[c]] = None
                        THEN [p EXCEPT !.channels[p.fd[c]] = c]
                        ELSE p
  <2>1. known \in Pollers
    BY KnownType
  <2> HIDE DEF known
  <2>2. EpollCtl([known EXCEPT !.index[c] = "cAdded"], "ADD", c) \in Pollers
    BY <2>1, IndexType, EpollCtlType DEF Index
  <2> QED
    BY <2>2 DEF AddChannel, known
<1>2. ModifyChannel(p, c) \in Pollers
  BY IndexType, EpollCtlType DEF ModifyChannel, Index
<1> QED
  BY <1>1, <1>2 DEF updateChannel

LEMMA EventsType ==
    ASSUME NEW p \in Pollers, NEW c \in Conns, NEW es \in SUBSET {"IN", "OUT"}
    PROVE  [p EXCEPT !.events[c] = es] \in Pollers
BY DEF Pollers

LEMMA ChannelTypes ==
    ASSUME NEW p \in Pollers, NEW c \in Conns
    PROVE  /\ enableReading(p, c) \in Pollers
           /\ enableWriting(p, c) \in Pollers
           /\ disableWriting(p, c) \in Pollers
           /\ disableAll(p, c) \in Pollers
<1>1. p.events[c] \in SUBSET {"IN", "OUT"}
  BY DEF Pollers
<1> QED
  BY <1>1, EventsType, UpdateType
     DEF enableReading, enableWriting, disableWriting, disableAll

LEMMA RemoveType ==
    ASSUME NEW p \in Pollers, NEW c \in Conns
    PROVE  remove(p, c) \in Pollers
<1> DEFINE erased == [p EXCEPT !.channels[p.fd[c]] = None]
           deleted == IF p.index[c] = "cAdded" THEN EpollCtl(erased, "DEL", c) ELSE erased
<1>1. erased \in Pollers
  BY KnownType
<1> HIDE DEF erased
<1>2. deleted \in Pollers
  BY <1>1, EpollCtlType
<1> HIDE DEF deleted
<1>3. [deleted EXCEPT !.index[c] = "cNew"] \in Pollers
  BY <1>2, IndexType DEF Index
<1> QED
  BY <1>3 DEF remove, removeChannel, deleted, erased

LEMMA NewChannelType ==
    ASSUME NEW p \in Pollers, NEW c \in Conns, NEW fd \in Fds
    PROVE  NewChannel(p, c, fd) \in Pollers
BY DEF NewChannel, Pollers, Index

LEMMA CloseFdsType ==
    ASSUME NEW p \in Pollers, NEW fds
    PROVE  CloseFds(p, fds) \in Pollers
<1> DEFINE r == [fd \in Fds |-> IF fd \in fds THEN None ELSE p.epoll[fd]]
<1>1. r \in [Fds -> Interest \cup {None}]
  BY DEF Pollers
<1> HIDE DEF r
<1>2. [p EXCEPT !.epoll = r] \in Pollers
  BY <1>1 DEF Pollers
<1> QED
  BY <1>2 DEF CloseFds, r

-----------------------------------------------------------------------------
(***************************************************************************)
(* The queue of functors: those the loop is running and those that wait    *)
(* for its next turn.                                                      *)
(***************************************************************************)
LEMMA TailOfConcat ==
    ASSUME NEW S, NEW a \in Seq(S), NEW b \in Seq(S), a # <<>>
    PROVE  Tail(a \o b) = Tail(a) \o b /\ a \o b # <<>> /\ Head(a \o b) = Head(a)
<1>1. /\ a \o b \in Seq(S)
      /\ Len(a \o b) = Len(a) + Len(b)
      /\ \A i \in 1 .. Len(a) + Len(b) :
            (a \o b)[i] = IF i <= Len(a) THEN a[i] ELSE b[i - Len(a)]
  BY ConcatProperties
<1>2. Len(a) \in Nat /\ Len(a) >= 1 /\ Len(b) \in Nat
  OBVIOUS
<1>3. a \o b # <<>> /\ Head(a \o b) = Head(a)
  BY <1>1, <1>2
<1>4. /\ Tail(a) \in Seq(S)
      /\ Len(Tail(a)) = Len(a) - 1
      /\ \A i \in 1 .. Len(a) - 1 : Tail(a)[i] = a[i + 1]
  BY HeadTailProperties
<1>5. /\ Tail(a \o b) \in Seq(S)
      /\ Len(Tail(a \o b)) = Len(a) + Len(b) - 1
      /\ \A i \in 1 .. Len(a) + Len(b) - 1 : Tail(a \o b)[i] = (a \o b)[i + 1]
  BY <1>1, <1>3, HeadTailProperties
<1>6. /\ Tail(a) \o b \in Seq(S)
      /\ Len(Tail(a) \o b) = Len(a) - 1 + Len(b)
      /\ \A i \in 1 .. Len(a) - 1 + Len(b) :
            (Tail(a) \o b)[i] = IF i <= Len(a) - 1 THEN Tail(a)[i] ELSE b[i - (Len(a) - 1)]
  BY <1>4, ConcatProperties
<1> DEFINE t == Tail(a \o b)
           u == Tail(a) \o b
<1>7. ASSUME NEW i \in 1 .. Len(t)
      PROVE  t[i] = u[i]
  <2>1. /\ i \in 1 .. Len(a) + Len(b) - 1 /\ i \in 1 .. Len(a) - 1 + Len(b)
        /\ i + 1 \in 1 .. Len(a) + Len(b)
    BY <1>2, <1>5
  <2>2. t[i] = IF i + 1 <= Len(a) THEN a[i + 1] ELSE b[i + 1 - Len(a)]
    BY <1>1, <1>5, <2>1
  <2>3. u[i] = IF i <= Len(a) - 1 THEN Tail(a)[i] ELSE b[i - (Len(a) - 1)]
    BY <1>6, <2>1
  <2>4. CASE i + 1 <= Len(a)
    <3>1. i <= Len(a) - 1 /\ i \in 1 .. Len(a) - 1
      BY <1>2, <2>4
    <3> QED
      BY <1>4, <2>2, <2>3, <2>4, <3>1
  <2>5. CASE ~(i + 1 <= Len(a))
    <3>1. ~(i <= Len(a) - 1) /\ i - (Len(a) - 1) = i + 1 - Len(a)
      BY <1>2, <2>5
    <3> QED
      BY <2>2, <2>3, <2>5, <3>1
  <2> QED
    BY <2>4, <2>5
<1>8. Len(t) = Len(u) /\ t \in Seq(S) /\ u \in Seq(S)
  BY <1>2, <1>5, <1>6
<1> HIDE DEF t, u
<1>9. t = u
  BY <1>7, <1>8, SeqEqual
<1> QED
  BY <1>3, <1>9 DEF t, u

\* The functors that make a connection's life.
Life == {"connectEstablished", "removeConnectionInLoop", "connectDestroyed"}

\* One of them at most is queued for each connection.
OneLife(q) ==
    \A i, j \in 1 .. Len(q) :
        q[i].op \in Life /\ q[j].op \in Life /\ q[i].conn = q[j].conn => i = j

LEMMA OneLifeOfConcat ==
    ASSUME NEW q \in Seq(Functors), NEW fs \in Seq(Functors), OneLife(q),
           \A i, j \in 1 .. Len(fs) : fs[i].op \in Life /\ fs[j].op \in Life => i = j,
           \A i \in 1 .. Len(q), j \in 1 .. Len(fs) :
              q[i].op \in Life /\ fs[j].op \in Life => q[i].conn # fs[j].conn
    PROVE  OneLife(q \o fs)
<1>1. /\ Len(q \o fs) = Len(q) + Len(fs)
      /\ \A i \in 1 .. Len(q) + Len(fs) :
            (q \o fs)[i] = IF i <= Len(q) THEN q[i] ELSE fs[i - Len(q)]
      /\ Len(q) \in Nat /\ Len(fs) \in Nat
  BY ConcatProperties
<1> DEFINE r == q \o fs
<1>2. ASSUME NEW i \in 1 .. Len(q) + Len(fs)
      PROVE  \/ i \in 1 .. Len(q) /\ r[i] = q[i]
             \/ i - Len(q) \in 1 .. Len(fs) /\ r[i] = fs[i - Len(q)]
  BY <1>1
<1> HIDE DEF r
<1>3. ASSUME NEW i \in 1 .. Len(q) + Len(fs), NEW j \in 1 .. Len(q) + Len(fs),
             r[i].op \in Life, r[j].op \in Life, r[i].conn = r[j].conn
      PROVE  i = j
  <2>1. CASE i \in 1 .. Len(q) /\ r[i] = q[i] /\ j \in 1 .. Len(q) /\ r[j] = q[j]
    BY <1>3, <2>1 DEF OneLife
  <2>2. CASE /\ i - Len(q) \in 1 .. Len(fs) /\ r[i] = fs[i - Len(q)]
             /\ j - Len(q) \in 1 .. Len(fs) /\ r[j] = fs[j - Len(q)]
    <3>1. i - Len(q) = j - Len(q)
      BY <1>3, <2>2
    <3> QED
      BY <1>1, <3>1
  <2> QED
    BY <1>2, <1>3, <2>1, <2>2
<1> QED
  BY <1>1, <1>3 DEF OneLife, r

LEMMA OneLifeOfTail ==
    ASSUME NEW q \in Seq(Functors), q # <<>>, OneLife(q)
    PROVE  /\ OneLife(Tail(q))
           /\ \A i \in 1 .. Len(Tail(q)) :
                 Head(q).op \in Life /\ Tail(q)[i].op \in Life => Tail(q)[i].conn # Head(q).conn
<1>1. /\ Len(Tail(q)) = Len(q) - 1 /\ Len(q) \in Nat /\ Len(q) >= 1
      /\ \A i \in 1 .. Len(q) - 1 : Tail(q)[i] = q[i + 1]
      /\ Head(q) = q[1]
  BY HeadTailProperties
<1>2. ASSUME NEW i \in 1 .. Len(q) - 1
      PROVE  i + 1 \in 1 .. Len(q) /\ i + 1 # 1 /\ 1 \in 1 .. Len(q)
  BY <1>1
<1>3. ASSUME NEW i \in 1 .. Len(q) - 1, NEW j \in 1 .. Len(q) - 1, i + 1 = j + 1
      PROVE  i = j
  BY <1>1, <1>3
<1> QED
  BY <1>1, <1>2, <1>3 DEF OneLife

-----------------------------------------------------------------------------
(***************************************************************************)
(* The types of what the theorems are about, without the bounds of the     *)
(* socket's queues.  A write is made to a host that there is, and a client *)
(* is accepted when one is in the queue.                                   *)
(***************************************************************************)
States == {"none", "kConnecting", "kConnected", "kDisconnecting", "kDisconnected", "destroyed"}

UnboundedSockets ==
    [peer : {"none", "connected", "closed", "reset", "lost", "gone"},
     inq : Nat, outq : Nat,
     err : {"none", "EPIPE", "ECONNRESET", "ETIMEDOUT"},
     shutWr : BOOLEAN]

Types ==
    /\ state \in [Conns -> States]
    /\ connections \subseteq Conns
    /\ poller \in Pollers
    /\ hostPtr \in Conns \cup {None}
    /\ pending \in Seq(Functors)
    /\ functors \in Seq(Functors)
    /\ backlog \in Seq(Conns)
    /\ sock \in [Conns -> UnboundedSockets]
    /\ pc = "send" => hostPtr # None
    /\ AcceptChannel \in DOMAIN active => backlog # <<>>

LEMMA InitTypes == Init => Types
<1> SUFFICES ASSUME Init PROVE Types
  OBVIOUS
<1>1. EmptyPoller \in Pollers
  BY DEF EmptyPoller, Pollers, Index
<1>2. NewSocket \in UnboundedSockets
  BY DEF NewSocket, UnboundedSockets
<1>3. DOMAIN active = {}
  BY DEF Init
<1> QED
  BY <1>1, <1>2, <1>3 DEF Init, Types, States

(***************************************************************************)
(* One field of a socket changes.                                          *)
(***************************************************************************)
LEMMA SocketTypes ==
    ASSUME NEW r \in UnboundedSockets
    PROVE  /\ \A p \in {"none", "connected", "closed", "reset", "lost", "gone"} :
                 [r EXCEPT !.peer = p] \in UnboundedSockets
           /\ \A e \in {"none", "EPIPE", "ECONNRESET", "ETIMEDOUT"} :
                 [r EXCEPT !.err = e] \in UnboundedSockets
           /\ \A n \in Nat : /\ [r EXCEPT !.inq = n] \in UnboundedSockets
                             /\ [r EXCEPT !.outq = n] \in UnboundedSockets
           /\ \A b \in BOOLEAN : [r EXCEPT !.shutWr = b] \in UnboundedSockets
<1> USE DEF UnboundedSockets
<1>1. \A p \in {"none", "connected", "closed", "reset", "lost", "gone"} :
         [r EXCEPT !.peer = p] \in UnboundedSockets
  OBVIOUS
<1>2. \A e \in {"none", "EPIPE", "ECONNRESET", "ETIMEDOUT"} :
         [r EXCEPT !.err = e] \in UnboundedSockets
  OBVIOUS
<1>3. \A n \in Nat : [r EXCEPT !.inq = n] \in UnboundedSockets
  OBVIOUS
<1>4. \A n \in Nat : [r EXCEPT !.outq = n] \in UnboundedSockets
  OBVIOUS
<1>5. \A b \in BOOLEAN : [r EXCEPT !.shutWr = b] \in UnboundedSockets
  OBVIOUS
<1> QED
  BY <1>1, <1>2, <1>3, <1>4, <1>5

LEMMA SockType ==
    ASSUME Types, NEW c \in Conns, NEW r \in UnboundedSockets, sock' = [sock EXCEPT ![c] = r]
    PROVE  sock' \in [Conns -> UnboundedSockets]
BY DEF Types

\* What the clients leave alone.
LEMMA ClientsFrame ==
    ASSUME Clients
    PROVE  UNCHANGED <<serverVars, loopVars>>
BY DEF Clients, Connect, Send, Receive, Close, Abort, Refuse, GiveUp

LEMMA ClientsTypes ==
    ASSUME Types, Clients
    PROVE  Types'
<1> PICK c \in Conns :
       Connect(c) \/ Send(c) \/ Receive(c) \/ Close(c) \/ Abort(c) \/ Refuse(c) \/ GiveUp(c)
  BY DEF Clients
<1> DEFINE r == sock[c]
<1>1. r \in UnboundedSockets /\ r.inq \in Nat /\ r.outq \in Nat
  BY DEF Types, UnboundedSockets
<1>2. UNCHANGED <<state, connections, poller, hostPtr, pending, functors, pc, active>>
  BY ClientsFrame DEF Clients, serverVars, loopVars
<1>3. backlog' \in Seq(Conns) /\ (backlog # <<>> => backlog' # <<>>)
  <2>1. CASE Connect(c)
    <3>1. backlog' = Append(backlog, c) /\ backlog \in Seq(Conns)
      BY <2>1 DEF Connect, Types
    <3> QED
      BY <3>1, AppendProperties
  <2>2. CASE backlog' = backlog
    BY <2>2 DEF Types
  <2> QED
    BY <2>1, <2>2 DEF Send, Receive, Close, Abort, Refuse, GiveUp
<1>4. sock' \in [Conns -> UnboundedSockets]
  <2>1. ASSUME NEW n \in Nat, NEW p \in {"connected", "closed", "reset", "lost"},
               NEW e \in {"EPIPE", "ECONNRESET", "ETIMEDOUT"}
        PROVE  /\ [r EXCEPT !.peer = p] \in UnboundedSockets
               /\ [r EXCEPT !.inq = n] \in UnboundedSockets
               /\ [r EXCEPT !.outq = n] \in UnboundedSockets
               /\ [[[r EXCEPT !.peer = p] EXCEPT !.err = e] EXCEPT !.outq = 0] \in UnboundedSockets
    BY <1>1, SocketTypes
  <2>2. CASE Connect(c)
    BY <2>1, <2>2 DEF Connect, Types
  <2>3. CASE Send(c)
    <3>1. r.inq + 1 \in Nat
      BY <1>1
    <3> QED
      BY <2>1, <2>3, <3>1 DEF Send, Types
  <2>4. CASE Receive(c)
    <3>1. r.outq - 1 \in Nat
      BY <1>1, <2>4 DEF Receive
    <3> QED
      BY <2>1, <2>4, <3>1 DEF Receive, Types
  <2>5. CASE Close(c)
    BY <2>1, <2>5 DEF Close, Types
  <2>6. CASE Abort(c) \/ Refuse(c) \/ GiveUp(c)
    <3>1. PICK p \in {"connected", "closed", "reset", "lost"},
               e \in {"EPIPE", "ECONNRESET", "ETIMEDOUT"} :
            sock' = [sock EXCEPT ![c].peer = p, ![c].err = e, ![c].outq = 0]
      BY <2>6 DEF Abort, Refuse, GiveUp
    <3> DEFINE r3 == [[[r EXCEPT !.peer = p] EXCEPT !.err = e] EXCEPT !.outq = 0]
    <3>2. r3 \in UnboundedSockets
      BY <2>1
    <3>3. sock' = [sock EXCEPT ![c] = r3]
      BY <3>1 DEF Types
    <3> HIDE DEF r3
    <3> QED
      BY <3>2, <3>3, SockType
  <2> QED
    BY <2>2, <2>3, <2>4, <2>5, <2>6
<1> QED
  BY <1>2, <1>3, <1>4 DEF Types

(***************************************************************************)
(* The operations that several handlers call.                              *)
(***************************************************************************)
LEMMA FunctorType ==
    \A op \in Ops, c \in Conns : Functor(op, c) \in Functors
BY DEF Functor, Functors

LEMMA QueueTypes ==
    ASSUME Types, NEW fs \in Seq(Functors), queueInLoop(fs)
    PROVE  pending' \in Seq(Functors)
BY ConcatProperties DEF Types, queueInLoop

LEMMA HandleCloseTypes ==
    ASSUME Types, NEW c \in Conns, handleClose(c)
    PROVE  /\ state' \in [Conns -> States]
           /\ poller' \in Pollers
           /\ pending' \in Seq(Functors)
<1>1. CASE Up(c)
  <2>1. <<Functor("removeConnectionInLoop", c)>> \in Seq(Functors)
    BY FunctorType DEF Ops
  <2>2. pending' \in Seq(Functors)
    BY <1>1, <2>1, QueueTypes DEF handleClose
  <2>3. poller' \in Pollers
    BY <1>1, ChannelTypes DEF handleClose, Types
  <2>4. state' \in [Conns -> States]
    BY <1>1 DEF handleClose, Types, States
  <2> QED
    BY <2>2, <2>3, <2>4
<1>2. CASE ~Up(c)
  BY <1>2 DEF handleClose, Types
<1> QED
  BY <1>1, <1>2

LEMMA BufferOutputTypes ==
    ASSUME Types, NEW h \in Conns, BufferOutput(h)
    PROVE  poller' \in Pollers
BY ChannelTypes DEF BufferOutput, Types

LEMMA OnMessageTypes ==
    ASSUME Types, onMessage
    PROVE  poller' \in Pollers /\ (pc' = "send" => hostPtr # None \/ pc = "send")
<1>1. CASE hostPtr = None
  BY <1>1 DEF onMessage, Types
<1>2. CASE hostPtr # None
  <2>1. hostPtr \in Conns
    BY <1>2 DEF Types
  <2>2. poller' = poller \/ BufferOutput(hostPtr)
    BY DEF onMessage
  <2> QED
    BY <1>2, <2>1, <2>2, BufferOutputTypes DEF Types
<1> QED
  BY <1>1, <1>2

(***************************************************************************)
(* The least of a set of descriptors.                                      *)
(***************************************************************************)
LEMMA LowestFreeIsFree ==
    ASSUME FreeFds # {}
    PROVE  LowestFree \in FreeFds /\ LowestFree \in Fds
<1> DEFINE Less == {p \in Nat \X Nat : p[1] < p[2]}
<1>1. IsWellFoundedOn(Less, Nat)
  BY NatLessThanWellFounded DEF OpToRel
<1>2. FreeFds \in SUBSET Nat
  BY ConstantsAssumption DEF FreeFds
<1>3. PICK n \in FreeFds : \A m \in FreeFds : <<m, n>> \notin Less
  BY <1>1, <1>2, WFMin
<1>4. ASSUME NEW m \in FreeFds
      PROVE  n <= m
  <2>1. m \in Nat /\ n \in Nat /\ ~(m < n)
    BY <1>2, <1>3
  <2> QED
    BY <2>1
<1>5. LowestFree \in FreeFds
  BY <1>4 DEF LowestFree
<1> QED
  BY <1>5 DEF FreeFds

(***************************************************************************)
(* Only a client that waits makes the listening socket readable.           *)
(***************************************************************************)
LEMMA PollTypes ==
    ASSUME Types, Poll
    PROVE  Types'
<1>1. AcceptChannel \in Readable => backlog # <<>>
  <2>1. AcceptChannel \notin Conns /\ AcceptChannel # WakeupChannel
    BY ConstantsAssumption
  <2>2. \A entry \in Registered : entry.channel \in Conns
    BY DEF Registered, Types, Pollers, Interest
  <2> QED
    BY <2>1, <2>2 DEF Readable
<1>2. DOMAIN active' = Readable
  BY DEF Poll
<1> QED
  BY <1>1, <1>2 DEF Poll, Types, serverVars, netVars

\* The events that are handled become fewer.
LEMMA FewerActive ==
    /\ \A ch : DOMAIN Without(ch) = DOMAIN active \ {ch}
    /\ \A c \in Conns : AfterRead(c) => DOMAIN active' \subseteq DOMAIN active
BY DEF Without, AfterRead

LEMMA HandleAcceptTypes ==
    ASSUME Types, HandleAccept
    PROVE  Types'
<1>1. AcceptChannel \notin DOMAIN active'
  BY FewerActive DEF HandleAccept
<1>2. backlog # <<>>
  BY DEF HandleAccept, Pick, Types
<1>3. UNCHANGED <<hostPtr, functors, sock>> /\ pc' = "events"
  BY DEF HandleAccept, Pick, serverVars
<1>4. CASE FreeFds = {}
  BY <1>1, <1>3, <1>4 DEF HandleAccept, MayAccept, Types, serverVars
<1>5. CASE FreeFds # {}
  <2> DEFINE c == Head(backlog)
  <2>1. c \in Conns /\ Tail(backlog) \in Seq(Conns)
    BY <1>2 DEF Types
  <2>2. LowestFree \in Fds
    BY <1>5, LowestFreeIsFree
  <2>3. poller' \in Pollers
    BY <1>5, <2>1, <2>2, NewChannelType DEF HandleAccept, MayAccept, Types
  <2>4. pending' \in Seq(Functors)
    <3>1. <<Functor("connectEstablished", c)>> \in Seq(Functors)
      BY <2>1, FunctorType DEF Ops
    <3>2. queueInLoop(<<Functor("connectEstablished", c)>>)
      BY <1>5 DEF HandleAccept, MayAccept
    <3> QED
      BY <3>1, <3>2, QueueTypes
  <2>5. state' \in [Conns -> States] /\ connections' \subseteq Conns /\ backlog' \in Seq(Conns)
    BY <1>5, <2>1 DEF HandleAccept, MayAccept, Types, States
  <2> QED
    BY <1>1, <1>3, <2>3, <2>4, <2>5 DEF Types
<1> QED
  BY <1>4, <1>5

LEMMA ReadTypes ==
    ASSUME Types, NEW c \in Conns, ReadMessage(c) \/ ReadError(c) \/ ReadEnd(c)
    PROVE  Types'
<1>1. DOMAIN active' \subseteq DOMAIN active
  BY FewerActive DEF ReadMessage, ReadError, ReadEnd
<1>2. UNCHANGED <<connections, hostPtr, functors, backlog>> /\ pc = "events"
  BY DEF ReadMessage, ReadError, ReadEnd, ReadEvent, Pick, serverVars, netVars
<1>3. sock[c] \in UnboundedSockets /\ sock[c].inq \in Nat
  BY DEF Types, UnboundedSockets
<1>4. CASE ReadMessage(c)
  <2>1. sock[c].inq - 1 \in Nat
    BY <1>3, <1>4 DEF ReadMessage
  <2> DEFINE r == [sock[c] EXCEPT !.inq = sock[c].inq - 1]
  <2>2. r \in UnboundedSockets
    BY <1>3, <2>1, SocketTypes
  <2>3. sock' = [sock EXCEPT ![c] = r]
    BY <1>4 DEF ReadMessage
  <2> HIDE DEF r
  <2>4. sock' \in [Conns -> UnboundedSockets]
    BY <2>2, <2>3, SockType
  <2>5. poller' \in Pollers /\ (pc' = "send" => hostPtr # None)
    BY <1>2, <1>4, OnMessageTypes DEF ReadMessage
  <2> QED
    BY <1>1, <1>2, <1>4, <2>4, <2>5 DEF ReadMessage, Types
<1>5. CASE ReadError(c)
  <2> DEFINE r == [sock[c] EXCEPT !.err = "none"]
  <2>1. r \in UnboundedSockets
    BY <1>3, SocketTypes
  <2>2. sock' = [sock EXCEPT ![c] = r]
    BY <1>5 DEF ReadError
  <2> HIDE DEF r
  <2>3. sock' \in [Conns -> UnboundedSockets]
    BY <2>1, <2>2, SockType
  <2> QED
    BY <1>1, <1>2, <1>5, <2>3 DEF ReadError, Types, serverVars
<1>6. CASE ReadEnd(c)
  <2>1. /\ state' \in [Conns -> States]
        /\ poller' \in Pollers
        /\ pending' \in Seq(Functors)
    BY <1>6, HandleCloseTypes DEF ReadEnd
  <2> QED
    BY <1>1, <1>2, <1>6, <2>1 DEF ReadEnd, Types, netVars
<1> QED
  BY <1>4, <1>5, <1>6

(***************************************************************************)
(* A write changes one socket, and the poller when it has to wait.         *)
(***************************************************************************)
LEMMA WriteTypes ==
    ASSUME Types, NEW c \in Conns,
           \/ sock' = sock
           \/ sock' = [sock EXCEPT ![c].err = "none"]
           \/ sock' = [sock EXCEPT ![c].outq = @ + 1]
           \/ \E b \in BOOLEAN : sock' = [sock EXCEPT ![c].outq = @ + 1, ![c].shutWr = b]
    PROVE  sock' \in [Conns -> UnboundedSockets]
<1> DEFINE s == sock[c]
<1>1. s \in UnboundedSockets /\ s.outq + 1 \in Nat
  BY DEF Types, UnboundedSockets
<1>2. CASE sock' = sock
  BY <1>2 DEF Types
<1>3. CASE sock' = [sock EXCEPT ![c].err = "none"]
  <2> DEFINE r == [s EXCEPT !.err = "none"]
  <2>1. r \in UnboundedSockets
    BY <1>1, SocketTypes
  <2>2. sock' = [sock EXCEPT ![c] = r]
    BY <1>3
  <2> HIDE DEF r
  <2> QED
    BY <2>1, <2>2, SockType
<1>4. CASE sock' = [sock EXCEPT ![c].outq = @ + 1]
  <2> DEFINE r == [s EXCEPT !.outq = s.outq + 1]
  <2>1. r \in UnboundedSockets
    BY <1>1, SocketTypes
  <2>2. sock' = [sock EXCEPT ![c] = r]
    BY <1>4
  <2> HIDE DEF r
  <2> QED
    BY <2>1, <2>2, SockType
<1>5. ASSUME NEW b \in BOOLEAN, sock' = [sock EXCEPT ![c].outq = @ + 1, ![c].shutWr = b]
      PROVE  sock' \in [Conns -> UnboundedSockets]
  <2> DEFINE r == [[s EXCEPT !.outq = s.outq + 1] EXCEPT !.shutWr = b]
  <2>1. r \in UnboundedSockets
    BY <1>1, SocketTypes
  <2>2. sock' = [sock EXCEPT ![c] = r]
    BY <1>5 DEF Types
  <2> HIDE DEF r
  <2> QED
    BY <2>1, <2>2, SockType
<1> QED
  BY <1>2, <1>3, <1>4, <1>5

LEMMA WriteToHostTypes ==
    ASSUME Types, WriteToHost
    PROVE  Types'
<1> DEFINE h == hostPtr
<1>1. h \in Conns
  BY DEF WriteToHost, Types
<1>2. \/ sock' = sock
      \/ sock' = [sock EXCEPT ![h].err = "none"]
      \/ sock' = [sock EXCEPT ![h].outq = @ + 1]
  BY DEF WriteToHost
<1>3. poller' = poller \/ BufferOutput(h)
  BY DEF WriteToHost
<1>4. /\ UNCHANGED <<state, connections, hostPtr, active, pending, functors, backlog>>
      /\ pc' # "send"
  BY DEF WriteToHost
<1>5. sock' \in [Conns -> UnboundedSockets]
  BY <1>1, <1>2, WriteTypes
<1>6. poller' \in Pollers
  BY <1>1, <1>3, BufferOutputTypes DEF Types
<1> QED
  BY <1>4, <1>5, <1>6 DEF Types

LEMMA HandleWriteTypes ==
    ASSUME Types, NEW c \in Conns, HandleWrite(c)
    PROVE  Types'
<1>1. sock' \in [Conns -> UnboundedSockets]
  <2>1. CASE sock' = [sock EXCEPT ![c].outq = @ + 1,
                                  ![c].shutWr = @ \/ state[c] = "kDisconnecting"]
    <3> DEFINE b == sock[c].shutWr \/ state[c] = "kDisconnecting"
    <3>1. b \in BOOLEAN
      OBVIOUS
    <3>2. sock' = [sock EXCEPT ![c].outq = @ + 1, ![c].shutWr = b]
      BY <2>1 DEF Types, UnboundedSockets
    <3> HIDE DEF b
    <3> QED
      BY <3>1, <3>2, WriteTypes
  <2>2. CASE sock' = sock \/ sock' = [sock EXCEPT ![c].err = "none"]
    BY <2>2, WriteTypes
  <2> QED
    BY <2>1, <2>2 DEF HandleWrite
<1>2. poller' \in Pollers
  BY ChannelTypes DEF HandleWrite, Types
<1>3. /\ UNCHANGED <<state, connections, hostPtr, pending, functors, backlog>>
      /\ pc' # "send"
      /\ DOMAIN active' \subseteq DOMAIN active
  BY FewerActive DEF HandleWrite, Pick
<1> QED
  BY <1>1, <1>2, <1>3 DEF Types

(***************************************************************************)
(* The functors.                                                           *)
(***************************************************************************)
RunOne(op, c) ==
    \/ op = "connectEstablished" /\ connectEstablished(c)
    \/ op = "shutdownInLoop" /\ shutdownInLoop(c)
    \/ op = "forceCloseInLoop" /\ forceCloseInLoop(c)
    \/ op = "removeConnectionInLoop" /\ removeConnectionInLoop(c)
    \/ op = "connectDestroyed" /\ connectDestroyed(c)

LEMMA RunFunctorTypes ==
    ASSUME Types, RunFunctor
    PROVE  Types'
<1> PICK f \in Functors : f = Head(functors)
  BY HeadTailProperties DEF RunFunctor, Types
<1> DEFINE c == f.conn
<1>1. c \in Conns
  BY DEF Functors
<1>2. functors' \in Seq(Functors)
  BY DEF RunFunctor, Types
<1>3. UNCHANGED <<active, backlog>> /\ pc = "functors"
  BY DEF RunFunctor
<1>4. RunOne(f.op, c)
  BY DEF RunFunctor, RunOne
<1> HIDE DEF c
<1>5. CASE connectEstablished(c)
  <2>1. CASE state[c] # "kConnecting"
    BY <1>2, <1>3, <1>5, <2>1 DEF connectEstablished, serverVars, Types
  <2>2. CASE state[c] = "kConnecting"
    <3> DEFINE fs == IF TooMany THEN <<Functor("shutdownInLoop", c), Functor("forceCloseInLoop", c)>>
                                ELSE <<>>
    <3>1. fs \in Seq(Functors)
      <4>1. <<Functor("shutdownInLoop", c), Functor("forceCloseInLoop", c)>> \in Seq(Functors)
        BY <1>1, FunctorType DEF Ops
      <4> QED
        BY <4>1
    <3>2. queueInLoop(fs)
      BY <1>5, <2>2 DEF connectEstablished
    <3> HIDE DEF fs
    <3>3. pending' \in Seq(Functors)
      BY <3>1, <3>2, QueueTypes
    <3>4. poller' \in Pollers
      BY <1>1, <1>5, <2>2, ChannelTypes DEF connectEstablished, Types
    <3>5. /\ state' \in [Conns -> States]
          /\ hostPtr' \in Conns \cup {None}
          /\ UNCHANGED <<connections, pc, sock>>
      BY <1>1, <1>5, <2>2 DEF connectEstablished, Types, States
    <3> QED
      BY <1>2, <1>3, <3>3, <3>4, <3>5 DEF Types
  <2> QED
    BY <2>1, <2>2
<1>6. CASE shutdownInLoop(c)
  <2> DEFINE r == [sock[c] EXCEPT !.shutWr = TRUE]
  <2>1. r \in UnboundedSockets
    BY <1>1, SocketTypes DEF Types
  <2>2. sock' = sock \/ sock' = [sock EXCEPT ![c] = r]
    BY <1>6 DEF shutdownInLoop
  <2> HIDE DEF r
  <2>3. sock' \in [Conns -> UnboundedSockets]
    BY <1>1, <2>1, <2>2, SockType DEF Types
  <2> QED
    BY <1>2, <1>3, <1>6, <2>3 DEF shutdownInLoop, serverVars, Types
<1>7. CASE forceCloseInLoop(c)
  <2>1. state' \in [Conns -> States] /\ poller' \in Pollers /\ pending' \in Seq(Functors)
    BY <1>1, <1>7, HandleCloseTypes DEF forceCloseInLoop
  <2> QED
    BY <1>2, <1>3, <1>7, <2>1 DEF forceCloseInLoop, Types
<1>8. CASE removeConnectionInLoop(c)
  <2>1. <<Functor("connectDestroyed", c)>> \in Seq(Functors)
    BY <1>1, FunctorType DEF Ops
  <2>2. pending' \in Seq(Functors)
    BY <1>8, <2>1, QueueTypes DEF removeConnectionInLoop
  <2> QED
    BY <1>2, <1>3, <1>8, <2>2 DEF removeConnectionInLoop, Types
<1>9. CASE connectDestroyed(c)
  <2>1. state' \in [Conns -> States]
    BY <1>9 DEF connectDestroyed, Types, States
  <2>2. poller' \in Pollers
    <3> DEFINE quiet == IF state[c] = "kConnected" THEN disableAll(poller, c) ELSE poller
    <3>1. quiet \in Pollers
      BY <1>1, ChannelTypes DEF Types
    <3>2. poller' = remove(quiet, c)
      BY <1>9 DEF connectDestroyed
    <3> HIDE DEF quiet
    <3> QED
      BY <1>1, <3>1, <3>2, RemoveType
  <2> QED
    BY <1>2, <1>3, <1>9, <2>1, <2>2 DEF connectDestroyed, Types
<1> QED
  BY <1>4, <1>5, <1>6, <1>7, <1>8, <1>9 DEF RunOne

LEMMA EndTypes ==
    ASSUME Types, BeginPendingFunctors \/ EndPendingFunctors
    PROVE  Types'
<1>1. CASE BeginPendingFunctors
  BY <1>1 DEF BeginPendingFunctors, Types, serverVars, netVars
<1>2. CASE EndPendingFunctors
  <2>1. poller' \in Pollers
    BY <1>2, CloseFdsType DEF EndPendingFunctors, Types
  <2>2. [NewSocket EXCEPT !.peer = "gone"] \in UnboundedSockets
    BY DEF NewSocket, UnboundedSockets
  <2>3. sock' \in [Conns -> UnboundedSockets]
    BY <1>2, <2>2 DEF EndPendingFunctors, Types
  <2>4. state' \in [Conns -> States]
    BY <1>2 DEF EndPendingFunctors, Types, States
  <2> QED
    BY <1>2, <2>1, <2>3, <2>4 DEF EndPendingFunctors, Types
<1> QED
  BY <1>1, <1>2

LEMMA StepTypes ==
    ASSUME Types, [Next]_vars
    PROVE  Types'
<1>1. CASE UNCHANGED vars
  BY <1>1 DEF vars, serverVars, loopVars, netVars, Types
<1>2. CASE HandleWakeup
  BY <1>2, FewerActive DEF HandleWakeup, Pick, Types, serverVars, netVars
<1> QED
  BY <1>1, <1>2, ClientsTypes, PollTypes, HandleAcceptTypes, ReadTypes, WriteToHostTypes,
     HandleWriteTypes, RunFunctorTypes, EndTypes
     DEF Next, Turn, Ended

-----------------------------------------------------------------------------
(***************************************************************************)
(* The invariant.  What a functor of a connection's life finds when its    *)
(* turn comes, and what a client finds that waits in the accept queue.     *)
(***************************************************************************)
Queue == functors \o pending

Fits(f) ==
    /\ f.op = "connectEstablished" => state[f.conn] = "kConnecting"
    /\ f.op = "removeConnectionInLoop" => state[f.conn] = "kDisconnected"
    /\ f.op = "connectDestroyed" => state[f.conn] = "kDisconnected" /\ f.conn \notin connections

QueueFits == \A i \in 1 .. Len(Queue) : Fits(Queue[i])

\* A connection is in the map until it is down.
Mapped ==
    \A c \in Conns : state[c] \in {"kConnecting", "kConnected", "kDisconnecting"} => c \in connections

BacklogIsFresh ==
    /\ \A i \in 1 .. Len(backlog) : state[backlog[i]] = "none" /\ sock[backlog[i]].peer # "none"
    /\ \A i, j \in 1 .. Len(backlog) : backlog[i] = backlog[j] => i = j
    /\ \A c \in Conns : state[c] # "none" => sock[c].peer # "none"

\* The vector of doPendingFunctors is empty outside of it.
FunctorsAreRun == functors # <<>> => pc \in {"functors"} \cup Ends

Inv ==
    /\ Types
    /\ FunctorsAreRun
    /\ BacklogIsFresh
    /\ Mapped
    /\ OneLife(Queue)
    /\ QueueFits
    /\ CountIsExact
    /\ ServedWithinLimit

LEMMA InitInv == Init => Inv
<1> SUFFICES ASSUME Init PROVE Inv
  OBVIOUS
<1>1. Queue = <<>>
  BY DEF Init, Queue
<1>2. {c \in Conns : Up(c)} = {} /\ {c \in Conns : state[c] = "kConnected"} = {}
  BY DEF Init, Up
<1>3. CountIsExact /\ ServedWithinLimit
  <2>1. Cardinality({}) = 0 /\ numConnected = 0 /\ 0 <= kMaxConnections
    BY FS_EmptySet, ConstantsAssumption DEF Init
  <2>2. CountIsExact
    BY <1>2, <2>1 DEF CountIsExact
  <2>3. ServedWithinLimit
    BY <1>2, <2>1 DEF ServedWithinLimit
  <2> QED
    BY <2>2, <2>3
<1>4. FunctorsAreRun /\ BacklogIsFresh /\ Mapped
  BY DEF Init, FunctorsAreRun, BacklogIsFresh, Mapped
<1>5. OneLife(Queue) /\ QueueFits
  BY <1>1 DEF OneLife, QueueFits
<1> QED
  BY <1>3, <1>4, <1>5, InitTypes DEF Inv

(***************************************************************************)
(* The queue after a step: q is what is left of it and fs is new.          *)
(***************************************************************************)
LEMMA FitsStays ==
    ASSUME NEW f, Fits(f),
           f.op \in Life => /\ state'[f.conn] = state[f.conn]
                            /\ f.conn \in connections' => f.conn \in connections
    PROVE  Fits(f)'
BY DEF Fits, Life

LEMMA QueueChanges ==
    ASSUME NEW q \in Seq(Functors), NEW fs \in Seq(Functors), OneLife(q),
           \A i \in 1 .. Len(q) : Fits(q[i])',
           \A i \in 1 .. Len(fs) : Fits(fs[i])',
           \A i, j \in 1 .. Len(fs) : fs[i].op \in Life /\ fs[j].op \in Life => i = j,
           \A i \in 1 .. Len(q), j \in 1 .. Len(fs) :
              q[i].op \in Life /\ fs[j].op \in Life => q[i].conn # fs[j].conn,
           Queue' = q \o fs
    PROVE  OneLife(Queue)' /\ QueueFits'
<1>1. OneLife(q \o fs)
  BY OneLifeOfConcat
<1>2. /\ Len(q \o fs) = Len(q) + Len(fs)
      /\ \A i \in 1 .. Len(q) + Len(fs) :
            (q \o fs)[i] = IF i <= Len(q) THEN q[i] ELSE fs[i - Len(q)]
      /\ Len(q) \in Nat /\ Len(fs) \in Nat
  BY ConcatProperties
<1>3. ASSUME NEW i \in 1 .. Len(q) + Len(fs), NEW f, f = (q \o fs)[i]
      PROVE  Fits(f)'
  <2>1. CASE i <= Len(q)
    <3>1. i \in 1 .. Len(q) /\ f = q[i]
      BY <1>2, <1>3, <2>1
    <3> QED
      BY <3>1
  <2>2. CASE ~(i <= Len(q))
    <3>1. i - Len(q) \in 1 .. Len(fs) /\ f = fs[i - Len(q)]
      BY <1>2, <1>3, <2>2
    <3> QED
      BY <3>1
  <2> QED
    BY <2>1, <2>2
<1>4. QueueFits'
  BY <1>2, <1>3 DEF QueueFits, Fits
<1>5. OneLife(Queue)'
  BY <1>1 DEF OneLife
<1> QED
  BY <1>4, <1>5

(***************************************************************************)
(* A step that changes nothing of this.                                    *)
(***************************************************************************)
LEMMA SameInv ==
    ASSUME Inv, Types', FunctorsAreRun', Queue' = Queue,
           UNCHANGED <<state, connections, numConnected, backlog>>,
           \A c \in Conns : sock'[c].peer = "none" => sock[c].peer = "none"
    PROVE  Inv'
<1>1. BacklogIsFresh'
  <2>1. \A i \in 1 .. Len(backlog) : backlog[i] \in Conns
    BY DEF Inv, Types
  <2> QED
    BY <2>1 DEF Inv, BacklogIsFresh
<1>2. OneLife(Queue)'
  BY DEF Inv, OneLife
<1>3. QueueFits'
  BY DEF Inv, QueueFits, Fits
<1>4. Mapped' /\ CountIsExact' /\ ServedWithinLimit'
  BY DEF Inv, Mapped, CountIsExact, ServedWithinLimit, Up
<1> QED
  BY <1>1, <1>2, <1>3, <1>4 DEF Inv

\* No socket becomes one that was never connected.
LEMMA PeersStay ==
    ASSUME Types, NEW c \in Conns, NEW r,
           sock' = [sock EXCEPT ![c] = r], r.peer = sock[c].peer \/ r.peer # "none"
    PROVE  \A d \in Conns : sock'[d].peer = "none" => sock[d].peer = "none"
BY DEF Types

LEMMA FieldsArePeerless ==
    ASSUME NEW r \in UnboundedSockets, NEW v
    PROVE  /\ [r EXCEPT !.inq = v].peer = r.peer
           /\ [r EXCEPT !.outq = v].peer = r.peer
           /\ [r EXCEPT !.err = v].peer = r.peer
           /\ [r EXCEPT !.shutWr = v].peer = r.peer
BY DEF UnboundedSockets

LEMMA ClientsInv ==
    ASSUME Inv, Clients
    PROVE  Inv'
<1> PICK c \in Conns :
       Connect(c) \/ Send(c) \/ Receive(c) \/ Close(c) \/ Abort(c) \/ Refuse(c) \/ GiveUp(c)
  BY DEF Clients
<1>1. Types'
  BY ClientsTypes DEF Inv
<1>2. /\ UNCHANGED <<state, connections, numConnected, functors, pending, pc>>
      /\ Queue' = Queue /\ FunctorsAreRun'
  BY ClientsFrame DEF serverVars, loopVars, Inv, FunctorsAreRun, Queue
<1>3. sock \in [Conns -> UnboundedSockets] /\ sock[c] \in UnboundedSockets
  BY DEF Inv, Types
<1>4. \A d \in Conns : sock'[d].peer = "none" => sock[d].peer = "none"
  <2>1. CASE Connect(c)
    BY <1>3, <2>1 DEF Connect, UnboundedSockets
  <2>2. CASE Send(c) \/ Receive(c)
    BY <1>3, <2>2 DEF Send, Receive, UnboundedSockets
  <2>3. CASE Close(c)
    BY <1>3, <2>3 DEF Close, UnboundedSockets
  <2>4. CASE Abort(c) \/ Refuse(c) \/ GiveUp(c)
    <3>1. sock'[c].peer # "none" /\ \A d \in Conns : d # c => sock'[d] = sock[d]
      BY <1>3, <2>4 DEF Abort, Refuse, GiveUp, UnboundedSockets
    <3> QED
      BY <3>1
  <2> QED
    BY <2>1, <2>2, <2>3, <2>4
<1>5. CASE backlog' = backlog
  BY <1>1, <1>2, <1>4, <1>5, SameInv
<1>6. CASE Connect(c)
  <2> PICK b \in Seq(Conns) : b = backlog
    BY DEF Inv, Types
  <2>1. backlog' = Append(b, c) /\ sock[c].peer = "none" /\ sock'[c].peer = "connected"
    BY <1>3, <1>6 DEF Connect, UnboundedSockets
  <2>2. /\ Len(Append(b, c)) = Len(b) + 1 /\ Append(b, c)[Len(b) + 1] = c
        /\ \A i \in 1 .. Len(b) : Append(b, c)[i] = b[i]
        /\ Len(b) \in Nat
    BY AppendProperties
  <2>3. ASSUME NEW i \in 1 .. Len(b)
        PROVE  b[i] \in Conns /\ state[b[i]] = "none" /\ sock[b[i]].peer # "none" /\ b[i] # c
    BY <2>1 DEF Inv, BacklogIsFresh
  <2>4. state[c] = "none"
    BY <2>1 DEF Inv, BacklogIsFresh
  <2>5. ASSUME NEW i \in 1 .. Len(b) + 1
        PROVE  i \in 1 .. Len(b) \/ i = Len(b) + 1
    BY <2>2
  <2>6. ASSUME NEW i \in 1 .. Len(b) + 1, NEW d, d = Append(b, c)[i]
        PROVE  state'[d] = "none" /\ sock'[d].peer # "none"
    <3>1. CASE i \in 1 .. Len(b)
      BY <1>2, <1>4, <2>2, <2>3, <2>6, <3>1
    <3>2. CASE i = Len(b) + 1
      BY <1>2, <2>1, <2>2, <2>4, <2>6, <3>2
    <3> QED
      BY <2>5, <3>1, <3>2
  <2>7. ASSUME NEW i \in 1 .. Len(b) + 1, NEW j \in 1 .. Len(b) + 1,
               Append(b, c)[i] = Append(b, c)[j]
        PROVE  i = j
    <3>1. \A k, l \in 1 .. Len(b) : b[k] = b[l] => k = l
      BY DEF Inv, BacklogIsFresh
    <3> QED
      BY <2>2, <2>3, <2>5, <2>7, <3>1
  <2>8. \A d \in Conns : state'[d] # "none" => sock'[d].peer # "none"
    BY <1>2, <1>4 DEF Inv, BacklogIsFresh
  <2>9. BacklogIsFresh'
    BY <2>1, <2>2, <2>6, <2>7, <2>8 DEF BacklogIsFresh
  <2>10. OneLife(Queue)' /\ QueueFits'
    BY <1>2 DEF Inv, OneLife, QueueFits, Fits
  <2>11. Mapped' /\ CountIsExact' /\ ServedWithinLimit'
    BY <1>2 DEF Inv, Mapped, CountIsExact, ServedWithinLimit, Up
  <2> QED
    BY <1>1, <1>2, <2>9, <2>10, <2>11 DEF Inv
<1> QED
  BY <1>5, <1>6 DEF Send, Receive, Close, Abort, Refuse, GiveUp

(***************************************************************************)
(* A connection goes down: nothing of its life is queued before, and its   *)
(* removal after.                                                          *)
(***************************************************************************)
LEMMA UpHasNoLife ==
    ASSUME NEW q, NEW c, Up(c), \A i \in 1 .. Len(q) : Fits(q[i])
    PROVE  \A i \in 1 .. Len(q) : q[i].op \in Life => q[i].conn # c
BY DEF Up, Fits, Life

LEMMA CountDown ==
    ASSUME Inv, NEW c \in Conns, Up(c), state' = [state EXCEPT ![c] = "kDisconnected"],
           numConnected' = numConnected - 1
    PROVE  CountIsExact' /\ ServedWithinLimit'
<1> DEFINE U == {x \in Conns : Up(x)}
           S == {x \in Conns : state[x] = "kConnected"}
<1>1. IsFiniteSet(U) /\ IsFiniteSet(S)
  BY FS_Subset, ConstantsAssumption
<1>2. {x \in Conns : Up(x)'} = U \ {c}
  BY DEF Inv, Types, Up
<1>3. Cardinality(U \ {c}) = Cardinality(U) - 1
  BY <1>1, FS_RemoveElement
<1>4. CountIsExact'
  BY <1>2, <1>3 DEF Inv, CountIsExact
<1>5. {x \in Conns : state'[x] = "kConnected"} \subseteq S
  BY DEF Inv, Types
<1>6. /\ Cardinality({x \in Conns : state'[x] = "kConnected"}) <= Cardinality(S)
      /\ Cardinality(S) \in Nat
      /\ Cardinality({x \in Conns : state'[x] = "kConnected"}) \in Nat
  BY <1>1, <1>5, FS_Subset, FS_CardinalityType
<1>7. ServedWithinLimit'
  BY <1>6, ConstantsAssumption DEF Inv, ServedWithinLimit
<1> QED
  BY <1>4, <1>7

(***************************************************************************)
(* A step that appends fs to what is left of the queue.                    *)
(***************************************************************************)
LEMMA QueueIs ==
    ASSUME Types, Types', NEW q \in Seq(Functors), NEW fs \in Seq(Functors),
           functors' \o pending = q, pending' = pending \o fs
    PROVE  Queue' = q \o fs
<1> PICK a \in Seq(Functors), p \in Seq(Functors) : a = functors' /\ p = pending
  BY DEF Types
<1>1. (a \o p) \o fs = a \o (p \o fs)
  BY ConcatAssociative
<1>2. Queue' = a \o (p \o fs)
  BY DEF Queue
<1> QED
  BY <1>1, <1>2

LEMMA CloseInv ==
    ASSUME Inv, Types', FunctorsAreRun', NEW c \in Conns, handleClose(c),
           NEW q \in Seq(Functors), functors' \o pending = q,
           OneLife(q), \A i \in 1 .. Len(q) : Fits(q[i]),
           UNCHANGED <<connections, backlog, sock>>
    PROVE  Inv'
<1>0. Types
  BY DEF Inv
<1>1. CASE Up(c)
  <2>1. /\ state' = [state EXCEPT ![c] = "kDisconnected"]
        /\ numConnected' = numConnected - 1
        /\ pending' = pending \o <<Functor("removeConnectionInLoop", c)>>
    BY <1>1 DEF handleClose, queueInLoop
  <2>2. state'[c] = "kDisconnected" /\ \A d \in Conns : d # c => state'[d] = state[d]
    BY <2>1 DEF Inv, Types
  <2> DEFINE f == Functor("removeConnectionInLoop", c)
             fs == <<f>>
  <2>3. /\ f.op = "removeConnectionInLoop" /\ f.conn = c
        /\ fs \in Seq(Functors) /\ Len(fs) = 1 /\ fs[1] = f
    BY FunctorType DEF Ops, Functor
  <2>4. Queue' = q \o fs
    BY <1>0, <2>1, <2>3, QueueIs
  <2> HIDE DEF f, fs
  <2>5. ASSUME NEW i \in 1 .. Len(q)
        PROVE  Fits(q[i])' /\ (q[i].op \in Life => q[i].conn # c)
    <3>1. q[i].op \in Life => q[i].conn # c
      BY <1>1, UpHasNoLife
    <3>2. q[i] \in Functors /\ q[i].conn \in Conns
      <4>1. q[i] \in Functors
        BY ElementOfSeq
      <4> QED
        BY <4>1 DEF Functors
    <3> QED
      BY <2>2, <3>1, <3>2, FitsStays
  <2>6. \A i \in 1 .. Len(fs) : Fits(fs[i])' /\ fs[i].conn = c
    BY <2>2, <2>3 DEF Fits
  <2>7. \A i, j \in 1 .. Len(fs) : i = j
    BY <2>3
  <2>8. OneLife(Queue)' /\ QueueFits'
    BY <2>3, <2>4, <2>5, <2>6, <2>7, QueueChanges
  <2>9. CountIsExact' /\ ServedWithinLimit'
    BY <1>1, <2>1, CountDown
  <2>10. Mapped'
    BY <2>2 DEF Inv, Mapped
  <2>11. BacklogIsFresh'
    <3>1. \A i \in 1 .. Len(backlog) : backlog[i] \in Conns
      BY DEF Inv, Types
    <3>2. state[c] # "none"
      BY <1>1 DEF Up
    <3> QED
      BY <2>2, <3>1, <3>2 DEF Inv, BacklogIsFresh
  <2> QED
    BY <2>8, <2>9, <2>10, <2>11 DEF Inv
<1>2. CASE ~Up(c)
  <2>1. UNCHANGED <<state, numConnected, pending>>
    BY <1>2 DEF handleClose
  <2>2. Queue' = q
    BY <2>1 DEF Queue
  <2>3. OneLife(Queue)' /\ QueueFits'
    BY <2>1, <2>2 DEF OneLife, QueueFits, Fits
  <2>4. Mapped' /\ CountIsExact' /\ ServedWithinLimit' /\ BacklogIsFresh'
    BY <2>1 DEF Inv, Mapped, CountIsExact, ServedWithinLimit, BacklogIsFresh, Up
  <2> QED
    BY <2>3, <2>4 DEF Inv
<1> QED
  BY <1>1, <1>2

(***************************************************************************)
(* The handlers of events.                                                 *)
(***************************************************************************)
LEMMA EventInv ==
    ASSUME Inv,
           \/ WriteToHost \/ Poll \/ HandleWakeup
           \/ \E c \in Conns : ReadMessage(c) \/ ReadError(c) \/ HandleWrite(c)
    PROVE  Inv'
<1>1. [Next]_vars
  BY DEF Next, Turn
<1>2. Types'
  BY <1>1, StepTypes DEF Inv
<1>3. /\ UNCHANGED <<state, connections, numConnected, backlog, functors, pending>>
      /\ pc \notin {"functors"} \cup Ends
  BY DEF ReadMessage, ReadError, HandleWrite, WriteToHost, Poll, HandleWakeup, ReadEvent, Pick,
         serverVars, netVars, Ends
<1>4. Queue' = Queue /\ FunctorsAreRun'
  BY <1>3 DEF Queue, Inv, FunctorsAreRun
<1>5. \A d \in Conns : sock'[d].peer = "none" => sock[d].peer = "none"
  <2>1. sock \in [Conns -> UnboundedSockets]
    BY DEF Inv, Types
  <2>2. ASSUME NEW c \in Conns, ReadMessage(c) \/ ReadError(c)
        PROVE  \A d \in Conns : sock'[d].peer = "none" => sock[d].peer = "none"
    BY <2>1, <2>2 DEF ReadMessage, ReadError, UnboundedSockets
  <2>3. ASSUME NEW c \in Conns, HandleWrite(c)
        PROVE  \A d \in Conns : sock'[d].peer = "none" => sock[d].peer = "none"
    BY <2>1, <2>3 DEF HandleWrite, UnboundedSockets
  <2>4. CASE WriteToHost
    BY <2>1, <2>4 DEF WriteToHost, UnboundedSockets
  <2>5. CASE Poll \/ HandleWakeup
    BY <2>5 DEF Poll, HandleWakeup, netVars
  <2> QED
    BY <2>2, <2>3, <2>4, <2>5
<1> QED
  BY <1>2, <1>3, <1>4, <1>5, SameInv

LEMMA ReadEndInv ==
    ASSUME Inv, NEW c \in Conns, ReadEnd(c)
    PROVE  Inv'
<1>1. Types'
  BY StepTypes DEF Inv, Next, Turn
<1>2. UNCHANGED <<connections, backlog, sock, functors, pc>> /\ handleClose(c)
  BY DEF ReadEnd, netVars
<1> PICK q \in Seq(Functors) : q = Queue
  BY ConcatProperties DEF Inv, Types, Queue
<1>3. functors' \o pending = q
  BY <1>2 DEF Queue
<1>4. OneLife(q) /\ \A i \in 1 .. Len(q) : Fits(q[i])
  BY DEF Inv, QueueFits
<1>5. FunctorsAreRun'
  BY <1>2 DEF Inv, FunctorsAreRun
<1> QED
  BY <1>1, <1>2, <1>3, <1>4, <1>5, CloseInv

LEMMA HandleAcceptInv ==
    ASSUME Inv, HandleAccept
    PROVE  Inv'
<1>1. Types'
  BY StepTypes DEF Inv, Next, Turn
<1>2. UNCHANGED <<functors, pc, sock>>
  BY DEF HandleAccept
<1>3. FunctorsAreRun'
  BY <1>2 DEF Inv, FunctorsAreRun
<1>4. CASE ~MayAccept
  <2>1. UNCHANGED <<state, connections, numConnected, backlog, pending>>
    BY <1>4 DEF HandleAccept, serverVars
  <2> QED
    BY <1>1, <1>2, <1>3, <2>1, SameInv DEF Queue
<1>5. CASE MayAccept
  <2> PICK b \in Seq(Conns) : b = backlog /\ b # <<>>
    BY DEF Inv, Types, HandleAccept, Pick
  <2> PICK c \in Conns : c = Head(b) /\ c = b[1]
    OBVIOUS
  <2>1. /\ backlog' = Tail(b)
        /\ state' = [state EXCEPT ![c] = "kConnecting"]
        /\ connections' = connections \cup {c}
        /\ pending' = pending \o <<Functor("connectEstablished", c)>>
        /\ numConnected' = numConnected
    BY <1>5 DEF HandleAccept, queueInLoop
  <2>2. /\ Len(Tail(b)) = Len(b) - 1 /\ Len(b) \in Nat /\ Len(b) >= 1
        /\ \A i \in 1 .. Len(b) - 1 : Tail(b)[i] = b[i + 1]
    BY HeadTailProperties
  <2>3. state'[c] = "kConnecting" /\ \A d \in Conns : d # c => state'[d] = state[d]
    BY <2>1 DEF Inv, Types
  <2>4. state[c] = "none" /\ sock[c].peer # "none"
    BY <2>2 DEF Inv, BacklogIsFresh
  <2>5. BacklogIsFresh'
    <3>1. ASSUME NEW i \in 1 .. Len(b) - 1
          PROVE  /\ i + 1 \in 1 .. Len(b) /\ i + 1 # 1 /\ 1 \in 1 .. Len(b)
      BY <2>2
    <3>2. /\ \A i \in 1 .. Len(b) : state[b[i]] = "none" /\ sock[b[i]].peer # "none" /\ b[i] \in Conns
          /\ \A i, j \in 1 .. Len(b) : b[i] = b[j] => i = j
      BY DEF Inv, BacklogIsFresh
    <3>3. ASSUME NEW i \in 1 .. Len(b) - 1, NEW d, d = Tail(b)[i]
          PROVE  state'[d] = "none" /\ sock'[d].peer # "none"
      <4>1. d = b[i + 1] /\ d # c /\ d \in Conns
        BY <2>2, <3>1, <3>2, <3>3
      <4> QED
        BY <1>2, <2>3, <3>1, <3>2, <4>1
    <3>4. ASSUME NEW i \in 1 .. Len(b) - 1, NEW j \in 1 .. Len(b) - 1, Tail(b)[i] = Tail(b)[j]
          PROVE  i = j
      <4>1. b[i + 1] = b[j + 1]
        BY <2>2, <3>4
      <4>2. i + 1 = j + 1
        BY <3>1, <3>2, <4>1
      <4> QED
        BY <4>2
    <3>5. \A d \in Conns : state'[d] # "none" => sock'[d].peer # "none"
      BY <1>2, <2>3, <2>4 DEF Inv, BacklogIsFresh
    <3> DEFINE t == Tail(b)
    <3>6. Len(t) = Len(b) - 1 /\ backlog' = t
      BY <2>1, <2>2
    <3>7. \A i \in 1 .. Len(t) : state'[t[i]] = "none" /\ sock'[t[i]].peer # "none"
      BY <3>3, <3>6
    <3>8. \A i, j \in 1 .. Len(t) : t[i] = t[j] => i = j
      BY <3>4, <3>6
    <3> HIDE DEF t
    <3> QED
      BY <3>5, <3>6, <3>7, <3>8 DEF BacklogIsFresh
  <2>6. OneLife(Queue)' /\ QueueFits'
    <3> PICK q \in Seq(Functors) : q = Queue
      BY ConcatProperties DEF Inv, Types, Queue
    <3> DEFINE f == Functor("connectEstablished", c)
               fs == <<f>>
    <3>1. /\ f.op = "connectEstablished" /\ f.conn = c
          /\ fs \in Seq(Functors) /\ Len(fs) = 1 /\ fs[1] = f
      BY FunctorType DEF Ops, Functor
    <3>2. Queue' = q \o fs
      <4>1. functors' \o pending = q
        BY <1>2 DEF Queue
      <4> QED
        BY <1>1, <2>1, <3>1, <4>1, QueueIs DEF Inv
    <3> HIDE DEF f, fs
    <3>3. OneLife(q) /\ \A i \in 1 .. Len(q) : Fits(q[i])
      BY DEF Inv, QueueFits
    <3>4. ASSUME NEW i \in 1 .. Len(q)
          PROVE  Fits(q[i])' /\ (q[i].op \in Life => q[i].conn # c)
      <4>1. Fits(q[i]) /\ q[i].conn \in Conns
        <5>1. q[i] \in Functors
          BY ElementOfSeq
        <5> QED
          BY <3>3, <5>1 DEF Functors
      <4>2. q[i].op \in Life => q[i].conn # c
        BY <2>4, <4>1 DEF Fits, Life
      <4> QED
        BY <2>1, <2>3, <4>1, <4>2, FitsStays
    <3>5. \A i \in 1 .. Len(fs) : Fits(fs[i])' /\ fs[i].conn = c
      BY <2>3, <3>1 DEF Fits
    <3>6. \A i, j \in 1 .. Len(fs) : i = j
      BY <3>1
    <3> QED
      BY <3>1, <3>2, <3>3, <3>4, <3>5, <3>6, QueueChanges
  <2>7. Mapped'
    BY <2>1, <2>3 DEF Inv, Mapped
  <2>8. CountIsExact' /\ ServedWithinLimit'
    <3>1. \A d \in Conns : (Up(d)' <=> Up(d)) /\ (state'[d] = "kConnected" <=> state[d] = "kConnected")
      BY <2>3, <2>4 DEF Up
    <3>2. /\ {d \in Conns : Up(d)'} = {d \in Conns : Up(d)}
          /\ {d \in Conns : state'[d] = "kConnected"} = {d \in Conns : state[d] = "kConnected"}
      BY <3>1
    <3> QED
      BY <2>1, <3>2 DEF Inv, CountIsExact, ServedWithinLimit
  <2> QED
    BY <1>1, <1>3, <2>5, <2>6, <2>7, <2>8 DEF Inv
<1> QED
  BY <1>4, <1>5
(***************************************************************************)
(* The functors.  A step takes the first functor f off the queue, leaves q *)
(* and queues fs, which holds nothing of a life but that of f's own.       *)
(***************************************************************************)
LEMMA FirstFunctor ==
    ASSUME Inv, RunFunctor
    PROVE  \E f \in Functors, q \in Seq(Functors) :
              /\ RunOne(f.op, f.conn)
              /\ Fits(f)
              /\ functors' \o pending = q
              /\ OneLife(q)
              /\ \A i \in 1 .. Len(q) :
                    /\ Fits(q[i])
                    /\ q[i] \in Functors
                    /\ f.op \in Life /\ q[i].op \in Life => q[i].conn # f.conn
<1> PICK a \in Seq(Functors), p \in Seq(Functors) : a = functors /\ p = pending /\ a # <<>>
  BY DEF RunFunctor, Inv, Types
<1>1. Tail(a \o p) = Tail(a) \o p /\ a \o p # <<>> /\ Head(a \o p) = Head(a)
  BY TailOfConcat
<1> PICK w \in Seq(Functors) : w = a \o p
  BY ConcatProperties
<1>2. w # <<>> /\ OneLife(w) /\ \A i \in 1 .. Len(w) : Fits(w[i])
  BY <1>1 DEF Inv, QueueFits, Queue
<1>3. /\ OneLife(Tail(w))
      /\ \A i \in 1 .. Len(Tail(w)) :
            Head(w).op \in Life /\ Tail(w)[i].op \in Life => Tail(w)[i].conn # Head(w).conn
  BY <1>2, OneLifeOfTail
<1>4. /\ Len(Tail(w)) = Len(w) - 1 /\ Len(w) \in Nat /\ Len(w) >= 1
      /\ \A i \in 1 .. Len(w) - 1 : Tail(w)[i] = w[i + 1]
      /\ Head(w) = w[1] /\ Head(w) \in Functors /\ Tail(w) \in Seq(Functors)
  BY <1>2, HeadTailProperties
<1>5. ASSUME NEW i \in 1 .. Len(Tail(w))
      PROVE  Fits(Tail(w)[i]) /\ Tail(w)[i] \in Functors
  <2>1. i \in 1 .. Len(w) - 1 /\ i + 1 \in 1 .. Len(w)
    BY <1>4
  <2>2. Tail(w)[i] \in Functors
    BY <1>4, ElementOfSeq
  <2> QED
    BY <1>2, <1>4, <2>1, <2>2
<1>6. Fits(Head(w))
  <2>1. 1 \in 1 .. Len(w)
    BY <1>4
  <2> QED
    BY <1>2, <1>4, <2>1
<1>7. functors' \o pending = Tail(w)
  BY <1>1 DEF RunFunctor
<1>8. RunOne(Head(w).op, Head(w).conn)
  BY <1>1 DEF RunFunctor, RunOne
<1> WITNESS Head(w) \in Functors, Tail(w) \in Seq(Functors)
<1> QED
  BY <1>3, <1>5, <1>6, <1>7, <1>8

\* A connection comes up and is counted; beyond the limit it is not served.
LEMMA CountUp ==
    ASSUME Inv, NEW c \in Conns, state[c] = "kConnecting",
           state' = [state EXCEPT ![c] = IF TooMany THEN "kDisconnecting" ELSE "kConnected"],
           numConnected' = numConnected + 1
    PROVE  CountIsExact' /\ ServedWithinLimit'
<1> DEFINE U == {x \in Conns : Up(x)}
           S == {x \in Conns : state[x] = "kConnected"}
           V == {x \in Conns : Up(x)'}
           T == {x \in Conns : state'[x] = "kConnected"}
<1>1. IsFiniteSet(U) /\ IsFiniteSet(S) /\ IsFiniteSet(V)
  BY FS_Subset, ConstantsAssumption
<1>2. state'[c] \in {"kDisconnecting", "kConnected"} /\ \A d \in Conns : d # c => state'[d] = state[d]
  BY DEF Inv, Types
<1>3. V = U \cup {c} /\ c \notin U
  BY <1>2 DEF Up
<1>4. Cardinality(V) = Cardinality(U) + 1
  BY <1>1, <1>3, FS_AddElement
<1>5. numConnected = Cardinality(U) /\ Cardinality(S) <= kMaxConnections
  BY DEF Inv, CountIsExact, ServedWithinLimit
<1>6. CountIsExact'
  <2>1. numConnected' = Cardinality(V)
    BY <1>4, <1>5
  <2> QED
    BY <2>1 DEF CountIsExact
<1>7. Cardinality(T) <= kMaxConnections
  <2>1. CASE TooMany
    <3>1. T = S
      BY <1>2, <2>1 DEF Inv, Types
    <3> QED
      BY <1>5, <3>1
  <2>2. CASE ~TooMany
    <3>1. T \subseteq V
      BY DEF Up
    <3>2. Cardinality(T) <= Cardinality(V) /\ Cardinality(T) \in Nat /\ Cardinality(V) \in Nat
      BY <1>1, <3>1, FS_Subset, FS_CardinalityType
    <3>3. Cardinality(V) <= kMaxConnections
      BY <1>1, <1>4, <1>5, <2>2, FS_CardinalityType, ConstantsAssumption DEF TooMany
    <3> HIDE DEF T, V
    <3> QED
      BY <3>2, <3>3, ConstantsAssumption
  <2> QED
    BY <2>1, <2>2
<1>8. ServedWithinLimit'
  BY <1>7 DEF ServedWithinLimit
<1> QED
  BY <1>6, <1>8
LEMMA BacklogStays ==
    ASSUME Inv, backlog' = backlog,
           \A d \in Conns : /\ state'[d] = "none" <=> state[d] = "none"
                            /\ sock'[d].peer = "none" => sock[d].peer = "none"
    PROVE  BacklogIsFresh'
<1>1. \A i \in 1 .. Len(backlog) : backlog[i] \in Conns
  BY DEF Inv, Types
<1> QED
  BY <1>1 DEF Inv, BacklogIsFresh

\* A functor that queues nothing and changes no connection.
LEMMA ShorterInv ==
    ASSUME Inv, Types', FunctorsAreRun', NEW q \in Seq(Functors), Queue' = q,
           OneLife(q), \A i \in 1 .. Len(q) : Fits(q[i]),
           UNCHANGED <<state, connections, numConnected, backlog>>,
           \A d \in Conns : sock'[d].peer = "none" => sock[d].peer = "none"
    PROVE  Inv'
<1>1. BacklogIsFresh'
  BY BacklogStays
<1>2. OneLife(Queue)' /\ QueueFits'
  BY DEF OneLife, QueueFits, Fits
<1>3. Mapped' /\ CountIsExact' /\ ServedWithinLimit'
  BY DEF Inv, Mapped, CountIsExact, ServedWithinLimit, Up
<1> QED
  BY <1>1, <1>2, <1>3 DEF Inv

LEMMA RunFunctorInv ==
    ASSUME Inv, RunFunctor
    PROVE  Inv'
<1> PICK f \in Functors, q \in Seq(Functors) :
       /\ RunOne(f.op, f.conn)
       /\ Fits(f)
       /\ functors' \o pending = q
       /\ OneLife(q)
       /\ \A i \in 1 .. Len(q) :
             /\ Fits(q[i])
             /\ q[i] \in Functors
             /\ f.op \in Life /\ q[i].op \in Life => q[i].conn # f.conn
  BY FirstFunctor
<1> PICK c \in Conns : c = f.conn
  BY DEF Functors
<1>1. Types'
  BY StepTypes DEF Inv, Next, Turn
<1>2. backlog' = backlog /\ (pc' = "functors" \/ pc' = "assert")
  BY DEF RunFunctor, connectEstablished, shutdownInLoop, forceCloseInLoop, removeConnectionInLoop,
         connectDestroyed
<1>3. FunctorsAreRun'
  BY <1>2 DEF FunctorsAreRun, Ends
<1>4. /\ sock \in [Conns -> UnboundedSockets] /\ state \in [Conns -> States]
      /\ pending \in Seq(Functors)
  BY DEF Inv, Types
<1>5. \A i \in 1 .. Len(q) : q[i].conn \in Conns
  BY DEF Functors
<1>6. CASE f.op = "connectEstablished" /\ connectEstablished(c)
  <2>1. state[c] = "kConnecting"
    BY <1>6 DEF Fits
  <2> DEFINE fs == IF TooMany THEN <<Functor("shutdownInLoop", c), Functor("forceCloseInLoop", c)>>
                              ELSE <<>>
  <2>2. /\ state' = [state EXCEPT ![c] = IF TooMany THEN "kDisconnecting" ELSE "kConnected"]
        /\ numConnected' = numConnected + 1
        /\ pending' = pending \o fs
        /\ UNCHANGED <<connections, sock>>
    BY <1>6, <2>1 DEF connectEstablished, queueInLoop
  <2> DEFINE g == Functor("shutdownInLoop", c)
             h == Functor("forceCloseInLoop", c)
             gh == <<g, h>>
  <2>3. /\ gh \in Seq(Functors) /\ <<>> \in Seq(Functors)
        /\ \A i \in 1 .. Len(gh) : gh[i].op \notin Life
        /\ \A i \in 1 .. Len(<<>>) : FALSE
    <3>1. g \in Functors /\ h \in Functors /\ g.op \notin Life /\ h.op \notin Life
      BY FunctorType DEF Ops, Functor, Life
    <3> HIDE DEF g, h
    <3> QED
      BY <3>1
  <2>4. fs = gh \/ fs = <<>>
    OBVIOUS
  <2> HIDE DEF fs, gh
  <2> PICK gs \in Seq(Functors) : gs = fs /\ (gs = gh \/ gs = <<>>)
    BY <2>3, <2>4
  <2>5. \A i \in 1 .. Len(gs) : gs[i].op \notin Life
    BY <2>3
  <2>6. Queue' = q \o gs
    BY <1>1, <2>2, QueueIs DEF Inv
  <2>7. state'[c] \in {"kDisconnecting", "kConnected"} /\ \A d \in Conns : d # c => state'[d] = state[d]
    BY <1>4, <2>2
  <2>8. \A i \in 1 .. Len(q) : Fits(q[i])'
    <3>1. ASSUME NEW i \in 1 .. Len(q)
          PROVE  Fits(q[i])'
      <4>1. q[i].op \in Life => q[i].conn # c
        BY <1>6 DEF Life
      <4> QED
        BY <1>5, <2>2, <2>7, <4>1, FitsStays
    <3> QED
      BY <3>1
  <2>9. \A i \in 1 .. Len(gs) : Fits(gs[i])'
    BY <2>5 DEF Fits, Life
  <2>10. OneLife(Queue)' /\ QueueFits'
    BY <2>6, <2>5, <2>8, <2>9, QueueChanges
  <2>11. CountIsExact' /\ ServedWithinLimit'
    BY <2>1, <2>2, CountUp
  <2>12. Mapped'
    BY <2>1, <2>2, <2>7 DEF Inv, Mapped
  <2>13. BacklogIsFresh'
    <3>1. \A d \in Conns : /\ state'[d] = "none" <=> state[d] = "none"
                           /\ sock'[d].peer = "none" => sock[d].peer = "none"
      BY <2>1, <2>2, <2>7
    <3> QED
      BY <1>2, <3>1, BacklogStays
  <2> QED
    BY <1>1, <1>3, <2>10, <2>11, <2>12, <2>13 DEF Inv
<1>7. CASE f.op = "shutdownInLoop" /\ shutdownInLoop(c)
  <2>1. UNCHANGED <<state, connections, numConnected, pending>>
    BY <1>7 DEF shutdownInLoop, serverVars
  <2>2. Queue' = q
    BY <2>1 DEF Queue
  <2>3. \A d \in Conns : sock'[d].peer = "none" => sock[d].peer = "none"
    BY <1>4, <1>7 DEF shutdownInLoop, UnboundedSockets
  <2> QED
    BY <1>1, <1>2, <1>3, <2>1, <2>2, <2>3, ShorterInv
<1>8. CASE f.op = "forceCloseInLoop" /\ forceCloseInLoop(c)
  <2>1. handleClose(c) /\ UNCHANGED <<connections, sock>>
    BY <1>8 DEF forceCloseInLoop
  <2> QED
    BY <1>1, <1>2, <1>3, <2>1, CloseInv
<1>9. CASE f.op = "removeConnectionInLoop" /\ removeConnectionInLoop(c)
  <2>1. state[c] = "kDisconnected"
    BY <1>9 DEF Fits
  <2> DEFINE g == Functor("connectDestroyed", c)
             gs == <<g>>
  <2>2. /\ connections' = connections \ {c}
        /\ UNCHANGED <<state, numConnected, sock>>
        /\ pending' = pending \o gs
    BY <1>9 DEF removeConnectionInLoop, queueInLoop
  <2>3. /\ g.op = "connectDestroyed" /\ g.conn = c
        /\ gs \in Seq(Functors) /\ Len(gs) = 1 /\ gs[1] = g
    BY FunctorType DEF Ops, Functor
  <2>4. Queue' = q \o gs
    BY <1>1, <2>2, <2>3, QueueIs DEF Inv
  <2> HIDE DEF g, gs
  <2>5. ASSUME NEW i \in 1 .. Len(q)
        PROVE  Fits(q[i])' /\ (q[i].op \in Life => q[i].conn # c)
    <3>1. q[i].op \in Life => q[i].conn # c
      BY <1>9 DEF Life
    <3> QED
      BY <2>2, <3>1, FitsStays
  <2>6. \A i \in 1 .. Len(gs) : Fits(gs[i])' /\ gs[i].conn = c
    BY <2>1, <2>2, <2>3 DEF Fits
  <2>7. \A i, j \in 1 .. Len(gs) : i = j
    BY <2>3
  <2>8. OneLife(Queue)' /\ QueueFits'
    BY <2>3, <2>4, <2>5, <2>6, <2>7, QueueChanges
  <2>9. CountIsExact' /\ ServedWithinLimit'
    BY <2>2 DEF Inv, CountIsExact, ServedWithinLimit, Up
  <2>10. Mapped'
    BY <2>1, <2>2 DEF Inv, Mapped
  <2>11. BacklogIsFresh'
    BY <1>2, <2>2, BacklogStays
  <2> QED
    BY <1>1, <1>3, <2>8, <2>9, <2>10, <2>11 DEF Inv
<1>10. CASE f.op = "connectDestroyed" /\ connectDestroyed(c)
  <2>1. state[c] = "kDisconnected"
    BY <1>10 DEF Fits
  <2>2. UNCHANGED <<state, connections, numConnected, pending, sock>>
    BY <1>10, <2>1 DEF connectDestroyed
  <2>3. Queue' = q
    BY <2>2 DEF Queue
  <2> QED
    BY <1>1, <1>2, <1>3, <2>2, <2>3, ShorterInv
<1> QED
  BY <1>6, <1>7, <1>8, <1>9, <1>10 DEF RunOne

(***************************************************************************)
(* The queue becomes the vector, and the vector goes.                      *)
(***************************************************************************)
LEMMA BeginInv ==
    ASSUME Inv, BeginPendingFunctors
    PROVE  Inv'
<1>1. Types'
  BY EndTypes DEF Inv
<1>2. functors = <<>> /\ FunctorsAreRun'
  BY DEF BeginPendingFunctors, Inv, FunctorsAreRun, Ends
<1>3. Queue' = Queue
  BY <1>2 DEF BeginPendingFunctors, Queue, Inv, Types
<1>4. UNCHANGED <<state, connections, numConnected, backlog, sock>>
  BY DEF BeginPendingFunctors, serverVars, netVars
<1> QED
  BY <1>1, <1>2, <1>3, <1>4, SameInv

LEMMA EndInv ==
    ASSUME Inv, EndPendingFunctors
    PROVE  Inv'
<1>1. Types'
  BY EndTypes DEF Inv
<1>2. /\ UNCHANGED <<connections, numConnected, backlog, functors, pending>>
      /\ functors = <<>>
  BY DEF EndPendingFunctors
<1>3. FunctorsAreRun' /\ Queue' = Queue
  BY <1>2 DEF FunctorsAreRun, Queue
<1> PICK q \in Seq(Functors) : q = pending
  BY DEF Inv, Types
<1>4. Queue = q
  BY <1>2 DEF Queue
<1>5. OneLife(q) /\ \A i \in 1 .. Len(q) : Fits(q[i])
  BY <1>4 DEF Inv, QueueFits
<1>6. \A d \in Conns :
         /\ d \notin Unreferenced => state'[d] = state[d]
         /\ d \in Unreferenced => state[d] = "kDisconnected" /\ state'[d] = "destroyed"
  <2>1. ASSUME NEW d \in Unreferenced
        PROVE  state[d] = "kDisconnected"
    <3>1. d \in Conns /\ d \notin connections /\ Live(d)
      BY DEF Unreferenced
    <3> QED
      BY <3>1 DEF Inv, Types, States, Mapped, Live
  <2> QED
    BY <2>1 DEF EndPendingFunctors
<1>7. ASSUME NEW i \in 1 .. Len(q)
      PROVE  Fits(q[i])'
  <2>1. q[i] \in Functors
    BY ElementOfSeq
  <2>2. q[i].conn \in Conns
    BY <2>1 DEF Functors
  <2>3. q[i].op \in Life => q[i].conn \notin Unreferenced
    BY <2>2 DEF Unreferenced, Shares, Life
  <2> QED
    BY <1>2, <1>5, <1>6, <2>2, <2>3, FitsStays
<1>8. OneLife(Queue)' /\ QueueFits'
  <2>1. Queue' = q
    BY <1>3, <1>4
  <2>2. QueueFits'
    BY <1>7, <2>1 DEF QueueFits, Fits
  <2>3. OneLife(Queue)'
    BY <1>5, <2>1 DEF OneLife
  <2> QED
    BY <2>2, <2>3
<1>9. CountIsExact' /\ ServedWithinLimit'
  <2>1. \A d \in Conns : (Up(d)' <=> Up(d)) /\ (state'[d] = "kConnected" <=> state[d] = "kConnected")
    BY <1>6 DEF Up
  <2>2. /\ {d \in Conns : Up(d)'} = {d \in Conns : Up(d)}
        /\ {d \in Conns : state'[d] = "kConnected"} = {d \in Conns : state[d] = "kConnected"}
    BY <2>1
  <2> QED
    BY <1>2, <2>2 DEF Inv, CountIsExact, ServedWithinLimit
<1>10. Mapped'
  BY <1>2, <1>6 DEF Inv, Mapped
<1>11. BacklogIsFresh'
  <2>1. \A d \in Conns : sock'[d].peer = "none" => sock[d].peer = "none"
    BY DEF EndPendingFunctors, NewSocket
  <2> QED
    BY <1>2, <1>6, <2>1, BacklogStays
<1> QED
  BY <1>1, <1>3, <1>8, <1>9, <1>10, <1>11 DEF Inv

LEMMA StepInv ==
    ASSUME Inv, [Next]_vars
    PROVE  Inv'
<1>1. CASE UNCHANGED vars
  <2>1. UNCHANGED <<state, connections, numConnected, backlog, sock, functors, pending, pc>>
    BY <1>1 DEF vars, serverVars, loopVars, netVars
  <2>2. Types' /\ Queue' = Queue /\ FunctorsAreRun'
    BY <1>1, <2>1, StepTypes DEF Inv, Queue, FunctorsAreRun
  <2> QED
    BY <2>1, <2>2, SameInv
<1> QED
  BY <1>1, ClientsInv, HandleAcceptInv, EventInv, ReadEndInv, BeginInv, RunFunctorInv, EndInv
     DEF Next, Turn, Ended
-----------------------------------------------------------------------------
(***************************************************************************)
(* What is queued of a connection's life is queued once.                   *)
(***************************************************************************)
LEMMA ComingAre ==
    ASSUME Inv, NEW c \in Conns, NEW op \in Life, NEW i \in Coming(op, c)
    PROVE  /\ i \in 1 .. Len(Queue)
           /\ Queue[i].op = op /\ Queue[i].conn = c
           /\ Fits(Queue[i])
<1>1. Queue \in Seq(Functors)
  BY ConcatProperties DEF Inv, Types, Queue
<1>2. i \in 1 .. Len(Queue) /\ Queue[i] = Functor(op, c)
  BY <1>1 DEF Coming, Queue
<1> QED
  BY <1>2 DEF Functor, Inv, QueueFits

LEMMA ComesOnce ==
    ASSUME Inv, NEW c \in Conns, NEW op \in Life, Coming(op, c) # {}
    PROVE  /\ Cardinality(Coming(op, c)) = 1
           /\ \A other \in Life : other # op => Coming(other, c) = {}
<1> PICK i : i \in Coming(op, c)
  OBVIOUS
<1>1. i \in 1 .. Len(Queue) /\ Queue[i].op = op /\ Queue[i].conn = c
  BY ComingAre
<1>2. ASSUME NEW other \in Life, NEW j \in Coming(other, c)
      PROVE  j = i /\ other = op
  <2>1. j \in 1 .. Len(Queue) /\ Queue[j].op = other /\ Queue[j].conn = c
    BY ComingAre
  <2> QED
    BY <1>1, <2>1 DEF Inv, OneLife
<1>3. Coming(op, c) = {i}
  BY <1>2
<1> QED
  BY <1>2, <1>3, FS_Singleton

LEMMA InvCalledOnce ==
    ASSUME Inv
    PROVE  CalledOnce
<1> SUFFICES ASSUME NEW c \in Conns
             PROVE  /\ Coming("connectEstablished", c) # {} =>
                          /\ state[c] = "kConnecting"
                          /\ Cardinality(Coming("connectEstablished", c)) = 1
                    /\ Coming("connectDestroyed", c) # {} =>
                          /\ c \notin connections
                          /\ state[c] = "kDisconnected"
                          /\ Cardinality(Coming("connectDestroyed", c)) = 1
                          /\ Coming("removeConnectionInLoop", c) = {}
  BY DEF CalledOnce
<1>1. \A op \in {"connectEstablished", "removeConnectionInLoop", "connectDestroyed"} : op \in Life
  BY DEF Life
<1>2. ASSUME Coming("connectEstablished", c) # {}
      PROVE  state[c] = "kConnecting" /\ Cardinality(Coming("connectEstablished", c)) = 1
  <2> PICK i : i \in Coming("connectEstablished", c)
    BY <1>2
  <2>1. state[c] = "kConnecting"
    BY <1>1, ComingAre DEF Fits
  <2> QED
    BY <1>1, <1>2, <2>1, ComesOnce
<1>3. ASSUME Coming("connectDestroyed", c) # {}
      PROVE  /\ c \notin connections
             /\ state[c] = "kDisconnected"
             /\ Cardinality(Coming("connectDestroyed", c)) = 1
             /\ Coming("removeConnectionInLoop", c) = {}
  <2> PICK i : i \in Coming("connectDestroyed", c)
    BY <1>3
  <2>1. c \notin connections /\ state[c] = "kDisconnected"
    BY <1>1, ComingAre DEF Fits
  <2> QED
    BY <1>1, <1>3, <2>1, ComesOnce
<1> QED
  BY <1>2, <1>3

-----------------------------------------------------------------------------
(***************************************************************************)
(* The server against any clients, any limit and any number of             *)
(* descriptors.                                                            *)
(***************************************************************************)
LEMMA InvHolds == Spec => []Inv
<1>1. Init => Inv
  BY InitInv
<1>2. Inv /\ [Next]_vars => Inv'
  BY StepInv
<1> QED
  BY <1>1, <1>2, PTL DEF Spec

(***************************************************************************)
(* numConnected_ is exact: handleClose, forceCloseInLoop and               *)
(* connectDestroyed, in whatever order they reach a connection, count it   *)
(* down once, and connectEstablished counts it up once.                    *)
(***************************************************************************)
THEOREM CountStaysExact == Spec => []CountIsExact
<1>1. Inv => CountIsExact
  BY DEF Inv
<1> QED
  BY <1>1, InvHolds, PTL

(***************************************************************************)
(* MyServer::onConnection never lets more than kMaxConnections_ clients be *)
(* served, although connections come up and go down in functors that are   *)
(* run long after they were queued.                                        *)
(***************************************************************************)
THEOREM ServedStayWithinLimit == Spec => []ServedWithinLimit
<1>1. Inv => ServedWithinLimit
  BY DEF Inv
<1> QED
  BY <1>1, InvHolds, PTL

(***************************************************************************)
(* TcpServer calls connectEstablished and connectDestroyed once for each   *)
(* connection, the first on one that is still kConnecting, the second on   *)
(* one that is down and out of the map.                                    *)
(***************************************************************************)
THEOREM EachIsCalledOnce == Spec => []CalledOnce
<1>1. Inv => CalledOnce
  BY InvCalledOnce
<1> QED
  BY <1>1, InvHolds, PTL
(***************************************************************************)
(* The abstract life of connections: each step of the server is one step   *)
(* of ConnectionLife or changes neither the states nor the map.            *)
(***************************************************************************)
LEMMA CloseLives ==
    ASSUME Inv, NEW c \in Conns, handleClose(c), UNCHANGED connections
    PROVE  Lives!GoDown(c) \/ UNCHANGED Lives!vars
<1>1. CASE Up(c)
  <2>1. c \in connections
    BY <1>1 DEF Up, Inv, Mapped
  <2>2. Lives!IsUp(c)
    BY <1>1 DEF Up, Lives!IsUp
  <2>3. state' = [state EXCEPT ![c] = "kDisconnected"]
    BY <1>1 DEF handleClose
  <2> QED
    BY <2>1, <2>2, <2>3 DEF Lives!GoDown
<1>2. CASE ~Up(c)
  BY <1>2 DEF handleClose, Lives!vars
<1> QED
  BY <1>1, <1>2

LEMMA AcceptLives ==
    ASSUME Inv, HandleAccept
    PROVE  (\E c \in Conns : Lives!Accept(c)) \/ UNCHANGED Lives!vars
<1>1. CASE ~MayAccept
  BY <1>1 DEF HandleAccept, serverVars, Lives!vars
<1>2. CASE MayAccept
  <2> PICK c \in Conns : c = Head(backlog) /\ state[c] = "none"
    <3> PICK b \in Seq(Conns) : b = backlog /\ b # <<>>
      BY DEF Inv, Types, HandleAccept, Pick
    <3>1. Head(b) = b[1] /\ 1 \in 1 .. Len(b) /\ Head(b) \in Conns
      OBVIOUS
    <3> QED
      BY <3>1 DEF Inv, BacklogIsFresh
  <2>1. /\ state' = [state EXCEPT ![c] = "kConnecting"]
        /\ connections' = connections \cup {c}
    BY <1>2 DEF HandleAccept
  <2> QED
    BY <2>1 DEF Lives!Accept, Lives!Advance
<1> QED
  BY <1>1, <1>2

\* ConnectionLife counts as MyServer does.
LEMMA SameCardinality ==
    ASSUME NEW S
    PROVE  Lives!Cardinality(S) = Cardinality(S)
BY DEF Lives!Cardinality, Cardinality

LEMMA EstablishLives ==
    ASSUME Inv, NEW c \in Conns, state[c] = "kConnecting", connectEstablished(c)
    PROVE  Lives!Serve(c) \/ Lives!Refuse(c)
<1> DEFINE U == {x \in Conns : Up(x)}
<1>1. {x \in Conns : Lives!IsUp(x)} = U
  BY DEF Up, Lives!IsUp
<1>2. numConnected = Cardinality(U) /\ Cardinality(U) \in Nat
  BY FS_Subset, FS_CardinalityType, ConstantsAssumption DEF Inv, CountIsExact
<1>3. TooMany <=> Lives!Cardinality(U) >= kMaxConnections
  BY <1>2, SameCardinality, ConstantsAssumption DEF TooMany
<1>4. ~TooMany <=> Lives!Cardinality(U) < kMaxConnections
  BY <1>2, SameCardinality, ConstantsAssumption DEF TooMany
<1>5. /\ state' = [state EXCEPT ![c] = IF TooMany THEN "kDisconnecting" ELSE "kConnected"]
      /\ connections' = connections
  BY DEF connectEstablished
<1> HIDE DEF U
<1>6. CASE TooMany
  BY <1>1, <1>3, <1>5, <1>6 DEF Lives!Refuse, Lives!Advance
<1>7. CASE ~TooMany
  BY <1>1, <1>4, <1>5, <1>7 DEF Lives!Serve, Lives!Advance
<1> QED
  BY <1>6, <1>7

LEMMA RunLives ==
    ASSUME Inv, RunFunctor
    PROVE  Lives!Next \/ UNCHANGED Lives!vars
<1> PICK f \in Functors : RunOne(f.op, f.conn) /\ Fits(f)
  BY FirstFunctor
<1> PICK c \in Conns : c = f.conn
  BY DEF Functors
<1>1. CASE f.op = "connectEstablished" /\ connectEstablished(c)
  <2>1. Lives!Serve(c) \/ Lives!Refuse(c)
    BY <1>1, EstablishLives DEF Fits
  <2> QED
    BY <2>1 DEF Lives!Next
<1>2. CASE f.op = "shutdownInLoop" /\ shutdownInLoop(c)
  BY <1>2 DEF shutdownInLoop, serverVars, Lives!vars
<1>3. CASE f.op = "forceCloseInLoop" /\ forceCloseInLoop(c)
  <2>1. Lives!GoDown(c) \/ UNCHANGED Lives!vars
    BY <1>3, CloseLives DEF forceCloseInLoop
  <2> QED
    BY <2>1 DEF Lives!Next
<1>4. CASE f.op = "removeConnectionInLoop" /\ removeConnectionInLoop(c)
  <2>1. state[c] = "kDisconnected" /\ connections' = connections \ {c} /\ state' = state
    BY <1>4 DEF Fits, removeConnectionInLoop
  <2>2. CASE c \in connections
    <3>1. Lives!Forget(c)
      BY <2>1, <2>2 DEF Lives!Forget
    <3> QED
      BY <3>1 DEF Lives!Next
  <2>3. CASE c \notin connections
    <3>1. connections' = connections
      BY <2>1, <2>3
    <3> QED
      BY <2>1, <3>1 DEF Lives!vars
  <2> QED
    BY <2>2, <2>3
<1>5. CASE f.op = "connectDestroyed" /\ connectDestroyed(c)
  <2>1. state[c] = "kDisconnected"
    BY <1>5 DEF Fits
  <2> QED
    BY <1>5, <2>1 DEF connectDestroyed, Lives!vars
<1> QED
  BY <1>1, <1>2, <1>3, <1>4, <1>5 DEF RunOne

LEMMA EndLives ==
    ASSUME Inv, EndPendingFunctors
    PROVE  Lives!Next
<1>1. Unreferenced \in SUBSET Conns
  BY DEF Unreferenced
<1>2. ASSUME NEW c \in Unreferenced
      PROVE  c \notin connections /\ state[c] = "kDisconnected"
  <2>1. c \in Conns /\ c \notin connections /\ Live(c)
    BY DEF Unreferenced
  <2> QED
    BY <2>1 DEF Inv, Types, States, Mapped, Live
<1>3. Lives!Destroy(Unreferenced)
  BY <1>2 DEF EndPendingFunctors, Lives!Destroy
<1> QED
  BY <1>1, <1>3 DEF Lives!Next

LEMMA StepLives ==
    ASSUME Inv, [Next]_vars
    PROVE  [Lives!Next]_(Lives!vars)
<1>1. CASE \/ UNCHANGED vars \/ Clients \/ Poll \/ HandleWakeup \/ WriteToHost
           \/ BeginPendingFunctors
  <2>1. UNCHANGED <<state, connections>>
    BY <1>1, ClientsFrame
       DEF vars, serverVars, Poll, HandleWakeup, WriteToHost, BeginPendingFunctors
  <2> QED
    BY <2>1 DEF Lives!vars
<1>2. ASSUME NEW c \in Conns, ReadMessage(c) \/ ReadError(c) \/ HandleWrite(c)
      PROVE  UNCHANGED Lives!vars
  BY <1>2 DEF ReadMessage, ReadError, HandleWrite, serverVars, Lives!vars
<1>3. ASSUME NEW c \in Conns, ReadEnd(c)
      PROVE  Lives!Next \/ UNCHANGED Lives!vars
  <2>1. Lives!GoDown(c) \/ UNCHANGED Lives!vars
    BY <1>3, CloseLives DEF ReadEnd
  <2> QED
    BY <2>1 DEF Lives!Next
<1>4. CASE HandleAccept
  BY <1>4, AcceptLives DEF Lives!Next
<1>5. CASE RunFunctor
  BY <1>5, RunLives
<1>6. CASE EndPendingFunctors
  BY <1>6, EndLives
<1> QED
  BY <1>1, <1>2, <1>3, <1>4, <1>5, <1>6 DEF Next, Turn, Ended

(***************************************************************************)
(* The server implements the life of connections: whatever order events    *)
(* and functors come in, each connection is accepted, comes up, goes down, *)
(* leaves the map and is destroyed in this order and once, and it is       *)
(* served exactly when fewer than kMaxConnections_ are up.                 *)
(***************************************************************************)
THEOREM ServerImplementsConnectionLife == Spec => ImplementsConnectionLife
<1>1. Init => Lives!Init
  BY DEF Init, Lives!Init
<1>2. Inv /\ [Next]_vars => [Lives!Next]_(Lives!vars)
  BY StepLives
<1> QED
  BY <1>1, <1>2, InvHolds, PTL DEF Spec, ImplementsConnectionLife, Lives!Spec
=============================================================================
