---------------------------- MODULE PollerProofs ----------------------------
(***************************************************************************)
(* Proofs about the channels and the poller in module MyServer, for any    *)
(* set of clients, any limit, any descriptors and any size of the socket   *)
(* buffers.                                                                *)
(*                                                                         *)
(* The invariant of MyServerProofs follows the connections through their   *)
(* lives.  The one here adds what the poller and the kernel know of them:  *)
(* the entry of a descriptor is that of the one connection that has it     *)
(* (Placed), and whatever still names a connection, a functor, an active   *)
(* channel, hostPtr_ or the data that waits in an output buffer, names one *)
(* that is as far as that needs.                                           *)
(***************************************************************************)
EXTENDS MyServerProofs

-----------------------------------------------------------------------------
(***************************************************************************)
(* What an operation of c's channel leaves alone: the descriptors, the     *)
(* other channels, and the entries of the other descriptors.               *)
(***************************************************************************)
OnlyFor(c, p, q) ==
    /\ q.fd = p.fd
    /\ \A d \in Conns \ {c} : q.events[d] = p.events[d] /\ q.index[d] = p.index[d]
    /\ \A fd \in Fds \ {p.fd[c]} : q.channels[fd] = p.channels[fd] /\ q.epoll[fd] = p.epoll[fd]

\* The poller knows nothing of the descriptor of c.
Unknown(p, c) == p.channels[p.fd[c]] = None /\ p.epoll[p.fd[c]] = None

\* The poller and the kernel know what the channel of c wants.
Known(p, c) ==
    /\ p.index[c] = "cAdded"
    /\ p.channels[p.fd[c]] = c
    /\ p.epoll[p.fd[c]] = [channel |-> c, events |-> p.events[c]]

LEMMA EntryIsNotNone ==
    ASSUME NEW c \in Conns, NEW es \in SUBSET {"IN", "OUT"}
    PROVE  [channel |-> c, events |-> es] # None
<1>1. [channel |-> c, events |-> es] \in Interest
  BY DEF Interest
<1> QED
  BY <1>1, NoneAssumption

(***************************************************************************)
(* A new channel that is enabled becomes known.                            *)
(***************************************************************************)
LEMMA EnableNew ==
    ASSUME NEW p \in Pollers, NEW c \in Conns, p.fd[c] \in Fds,
           p.index[c] = "cNew", Unknown(p, c),
           NEW q, q = enableReading(p, c)
    PROVE  /\ q \in Pollers
           /\ OnlyFor(c, p, q)
           /\ Known(q, c)
           /\ q.events[c] = p.events[c] \cup {"IN"}
<1> DEFINE es == p.events[c] \cup {"IN"}
           p1 == [p EXCEPT !.events[c] = es]
           p2 == [p1 EXCEPT !.channels[p.fd[c]] = c]
           p3 == [p2 EXCEPT !.index[c] = "cAdded"]
           entry == [channel |-> c, events |-> es]
           p4 == [p3 EXCEPT !.epoll[p.fd[c]] = entry]
<1>1. es \in SUBSET {"IN", "OUT"} /\ entry # None
  BY EntryIsNotNone DEF Pollers
<1>2. p1 \in Pollers
  BY <1>1, EventsType
<1>3. p2 \in Pollers
  BY <1>2, KnownType
<1>4. p3 \in Pollers
  BY <1>3, IndexType DEF Index
<1>5. /\ p1.fd = p.fd /\ p1.index = p.index /\ p1.channels = p.channels /\ p1.epoll = p.epoll
      /\ p1.events[c] = es /\ \A d \in Conns \ {c} : p1.events[d] = p.events[d]
  BY DEF Pollers
<1> HIDE DEF p1
<1>6. /\ p2.fd = p.fd /\ p2.index = p.index /\ p2.events = p1.events /\ p2.epoll = p.epoll
      /\ p2.channels[p.fd[c]] = c
      /\ \A fd \in Fds \ {p.fd[c]} : p2.channels[fd] = p.channels[fd]
  BY <1>2, <1>5 DEF Pollers
<1> HIDE DEF p2
<1>7. /\ p3.fd = p.fd /\ p3.channels = p2.channels /\ p3.events = p1.events /\ p3.epoll = p.epoll
      /\ p3.index[c] = "cAdded"
      /\ \A d \in Conns \ {c} : p3.index[d] = p.index[d]
  BY <1>3, <1>6 DEF Pollers
<1> HIDE DEF p3
<1>8. /\ p4.fd = p.fd /\ p4.channels = p2.channels /\ p4.events = p1.events
      /\ p4.index = p3.index
      /\ p4.epoll[p.fd[c]] = entry
      /\ \A fd \in Fds \ {p.fd[c]} : p4.epoll[fd] = p.epoll[fd]
  BY <1>4, <1>7 DEF Pollers
<1>9. q = p4
  <2>1. EpollCtl(p3, "ADD", c) = p4
    BY <1>5, <1>7 DEF EpollCtl, Unknown
  <2>2. AddChannel(p1, c) = EpollCtl(p3, "ADD", c)
    BY <1>5 DEF AddChannel, Unknown, p2, p3
  <2>3. updateChannel(p1, c) = AddChannel(p1, c)
    BY <1>5 DEF updateChannel
  <2> QED
    BY <2>1, <2>2, <2>3 DEF enableReading, p1
<1> HIDE DEF p4, entry
<1>10. q \in Pollers
  BY ChannelTypes
<1>11. OnlyFor(c, p, q)
  BY <1>5, <1>6, <1>7, <1>8, <1>9 DEF OnlyFor
<1>12. Known(q, c) /\ q.events[c] = es
  BY <1>5, <1>6, <1>7, <1>8, <1>9 DEF Known, entry
<1> QED
  BY <1>10, <1>11, <1>12

(***************************************************************************)
(* A channel that is known stays known when it asks for more, and is off   *)
(* the kernel's list, but still in channels_, when it asks for nothing.    *)
(***************************************************************************)
LEMMA UpdateKnown ==
    ASSUME NEW p \in Pollers, NEW c \in Conns, p.fd[c] \in Fds, Known(p, c),
           NEW es \in SUBSET {"IN", "OUT"},
           NEW q, q = updateChannel([p EXCEPT !.events[c] = es], c)
    PROVE  /\ OnlyFor(c, p, q)
           /\ q.events[c] = es
           /\ es # {} => Known(q, c)
           /\ es = {} => /\ q.index[c] = "cDeleted"
                         /\ q.channels[q.fd[c]] = c
                         /\ q.epoll[q.fd[c]] = None
<1> DEFINE p1 == [p EXCEPT !.events[c] = es]
<1>1. p1 \in Pollers
  BY EventsType
<1>2. /\ p1.fd = p.fd /\ p1.index = p.index /\ p1.channels = p.channels /\ p1.epoll = p.epoll
      /\ p1.events[c] = es /\ \A d \in Conns \ {c} : p1.events[d] = p.events[d]
  BY DEF Pollers
<1>3. q = updateChannel(p1, c)
  OBVIOUS
<1> HIDE DEF p1
<1>4. p.epoll[p.fd[c]] # None
  BY EntryIsNotNone DEF Known, Pollers
<1>5. CASE es # {}
  <2> DEFINE entry == [channel |-> c, events |-> es]
             p2 == [p1 EXCEPT !.epoll[p.fd[c]] = entry]
  <2>1. q = p2
    BY <1>2, <1>3, <1>4, <1>5 DEF updateChannel, ModifyChannel, EpollCtl, Known
  <2>2. /\ p2.fd = p.fd /\ p2.index = p.index /\ p2.channels = p.channels
        /\ p2.events = p1.events
        /\ p2.epoll[p.fd[c]] = entry
        /\ \A fd \in Fds \ {p.fd[c]} : p2.epoll[fd] = p.epoll[fd]
    BY <1>1, <1>2 DEF Pollers
  <2> HIDE DEF p2
  <2>3. OnlyFor(c, p, q) /\ q.events[c] = es
    BY <1>2, <2>1, <2>2 DEF OnlyFor
  <2>4. Known(q, c)
    BY <1>2, <2>1, <2>2 DEF Known
  <2> QED
    BY <1>5, <2>3, <2>4
<1>6. CASE es = {}
  <2> DEFINE p2 == [p1 EXCEPT !.epoll[p.fd[c]] = None]
             p3 == [p2 EXCEPT !.index[c] = "cDeleted"]
  <2>1. q = p3
    BY <1>2, <1>3, <1>4, <1>6 DEF updateChannel, ModifyChannel, EpollCtl, Known
  <2>2. p2 \in Pollers
    BY <1>1 DEF Pollers
  <2>3. /\ p2.fd = p.fd /\ p2.index = p.index /\ p2.channels = p.channels
        /\ p2.events = p1.events
        /\ p2.epoll[p.fd[c]] = None
        /\ \A fd \in Fds \ {p.fd[c]} : p2.epoll[fd] = p.epoll[fd]
    BY <1>1, <1>2 DEF Pollers
  <2> HIDE DEF p2
  <2>4. /\ p3.fd = p.fd /\ p3.channels = p.channels /\ p3.events = p1.events
        /\ p3.epoll = p2.epoll
        /\ p3.index[c] = "cDeleted"
        /\ \A d \in Conns \ {c} : p3.index[d] = p.index[d]
    BY <2>2, <2>3 DEF Pollers
  <2> HIDE DEF p3
  <2>5. OnlyFor(c, p, q) /\ q.events[c] = es
    <3>1. q.fd = p.fd /\ q.events[c] = es
      BY <1>2, <2>1, <2>4
    <3>2. \A d \in Conns \ {c} : q.events[d] = p.events[d] /\ q.index[d] = p.index[d]
      BY <1>2, <2>1, <2>4
    <3>3. \A fd \in Fds \ {p.fd[c]} :
             q.channels[fd] = p.channels[fd] /\ q.epoll[fd] = p.epoll[fd]
      BY <2>1, <2>3, <2>4
    <3> QED
      BY <3>1, <3>2, <3>3 DEF OnlyFor
  <2>6. q.index[c] = "cDeleted" /\ q.channels[q.fd[c]] = c /\ q.epoll[q.fd[c]] = None
    BY <2>1, <2>3, <2>4 DEF Known
  <2> QED
    BY <1>6, <2>5, <2>6
<1> QED
  BY <1>5, <1>6

(***************************************************************************)
(* A channel that asked for nothing is forgotten when it is removed.       *)
(***************************************************************************)
LEMMA RemoveSilent ==
    ASSUME NEW p \in Pollers, NEW c \in Conns, p.fd[c] \in Fds, p.events[c] = {},
           p.epoll[p.fd[c]] = None,
           \/ p.index[c] = "cDeleted" /\ p.channels[p.fd[c]] = c
           \/ p.index[c] = "cNew" /\ p.channels[p.fd[c]] = None,
           NEW q, q = remove(p, c)
    PROVE  /\ OnlyFor(c, p, q)
           /\ q.events[c] = {} /\ q.index[c] = "cNew"
           /\ Unknown(q, c)
<1>1. CASE p.index[c] = "cNew"
  BY <1>1 DEF remove, removeChannel, OnlyFor, Unknown
<1>2. CASE p.index[c] = "cDeleted"
  <2> DEFINE p1 == [p EXCEPT !.channels[p.fd[c]] = None]
             p2 == [p1 EXCEPT !.index[c] = "cNew"]
  <2>1. q = p2
    BY <1>2 DEF remove, removeChannel
  <2>2. p1 \in Pollers
    BY KnownType
  <2>3. /\ p1.fd = p.fd /\ p1.index = p.index /\ p1.events = p.events /\ p1.epoll = p.epoll
        /\ p1.channels[p.fd[c]] = None
        /\ \A fd \in Fds \ {p.fd[c]} : p1.channels[fd] = p.channels[fd]
    BY DEF Pollers
  <2> HIDE DEF p1
  <2>4. /\ p2.fd = p.fd /\ p2.channels = p1.channels /\ p2.events = p.events
        /\ p2.epoll = p.epoll
        /\ p2.index[c] = "cNew"
        /\ \A d \in Conns \ {c} : p2.index[d] = p.index[d]
    BY <2>2, <2>3 DEF Pollers
  <2> HIDE DEF p2
  <2> QED
    BY <2>1, <2>3, <2>4 DEF OnlyFor, Unknown
<1> QED
  BY <1>1, <1>2

-----------------------------------------------------------------------------
(***************************************************************************)
(* The invariant, part by part.  What the poller has of a connection in    *)
(* each state of its life, and of a descriptor that no connection has.     *)
(***************************************************************************)
Placed(c) ==
    /\ poller.fd[c] \in Fds
    /\ state[c] = "kConnecting" =>
          poller.index[c] = "cNew" /\ poller.events[c] = {} /\ Unknown(poller, c)
    /\ Up(c) => Known(poller, c) /\ "IN" \in poller.events[c]
    /\ state[c] = "kDisconnected" =>
          /\ poller.events[c] = {} /\ poller.epoll[poller.fd[c]] = None
          /\ \/ poller.index[c] = "cDeleted" /\ poller.channels[poller.fd[c]] = c
             \/ poller.index[c] = "cNew" /\ poller.channels[poller.fd[c]] = None

Has(c, fd) == Live(c) /\ poller.fd[c] = fd

PollerMatches ==
    /\ \A c \in Conns : Live(c) => Placed(c)
    /\ \A c, d \in Conns : Live(c) /\ Has(d, poller.fd[c]) => c = d
    /\ \A fd \in Fds :
          \/ \E c \in Conns : Has(c, fd)
          \/ poller.channels[fd] = None /\ poller.epoll[fd] = None

\* The host has been up, and is up while it is being sent to.
HostReady ==
    /\ hostPtr # None => state[hostPtr] \notin {"none", "kConnecting"}
    /\ pc = "send" => Up(hostPtr)

\* A channel is handled while its connection is up, or has just gone down
\* in the same event, between the read callback and the write callback.
ActiveMatches ==
    /\ pc \in {"poll", "functors"} => DOMAIN active = {}
    /\ \A c \in DOMAIN active \cap Conns : Live(c) /\ (Up(c) \/ InEvent(c))

\* Every functor that is queued finds its connection.  The functor of
\* shutdown() has a plain pointer, but one that holds the connection waits
\* as long as it does.
Elements(q) == {q[i] : i \in 1 .. Len(q)}

Waiting == Elements(functors) \cup Elements(pending)

QueueLives ==
    /\ \A f \in Waiting : Live(f.conn)
    /\ \A f \in Elements(pending) :
          f.op = "shutdownInLoop" =>
             \E g \in Elements(pending) : g.op = "forceCloseInLoop" /\ g.conn = f.conn

\* A connection that is down has its channel removed, or a functor to come
\* that will see to it.
Leaves(f, c) == f.conn = c /\ f.op \in {"removeConnectionInLoop", "connectDestroyed"}

Leaving ==
    \A c \in Conns :
        state[c] = "kDisconnected" =>
            poller.index[c] = "cNew" \/ \E f \in Waiting : Leaves(f, c)

\* Data waits in an output buffer only after the kernel has given the
\* connection up.
Losses ==
    \A c \in Conns :
        /\ sock[c].err = "ETIMEDOUT" => sock[c].peer = "lost"
        /\ sock[c].peer = "gone" <=> state[c] = "destroyed"
        /\ isWriting(poller, c) \/ c \in outputBuffer =>
              sock[c].peer \in {"lost", "gone"} /\ state[c] # "none"

\* The types that MyServerProofs leaves out.
OtherTypes ==
    /\ outputBuffer \subseteq Conns
    /\ pc \in {"poll", "events", "send", "functors"} \cup Ends
    /\ DOMAIN active \subseteq Conns \cup {AcceptChannel, WakeupChannel}
    /\ active \in [DOMAIN active -> SUBSET {"IN", "OUT", "HUP", "ERR"}]
    /\ eventfd \in BOOLEAN
    /\ \A c \in Conns : sock[c].inq <= MaxIn /\ sock[c].outq <= MaxOut

Inv2 ==
    /\ Inv
    /\ OtherTypes
    /\ PollerMatches
    /\ HostReady
    /\ ActiveMatches
    /\ QueueLives
    /\ Leaving
    /\ Losses

LEMMA InitInv2 == Init => Inv2
<1> SUFFICES ASSUME Init PROVE Inv2
  OBVIOUS
<1>1. Inv
  BY InitInv
<1>2. /\ \A c \in Conns : ~Live(c) /\ state[c] = "none"
      /\ DOMAIN active = {} /\ functors = <<>> /\ pending = <<>>
      /\ hostPtr = None /\ pc = "poll" /\ outputBuffer = {} /\ eventfd = FALSE
  BY DEF Init, Live
<1>3. OtherTypes
  <2>1. \A c \in Conns : sock[c].inq <= MaxIn /\ sock[c].outq <= MaxOut
    BY ConstantsAssumption DEF Init, NewSocket
  <2>2. active \in [DOMAIN active -> SUBSET {"IN", "OUT", "HUP", "ERR"}]
    BY DEF Init
  <2> QED
    BY <1>2, <2>1, <2>2 DEF OtherTypes
<1>4. PollerMatches
  BY <1>2 DEF PollerMatches, Init, EmptyPoller
<1>5. HostReady /\ ActiveMatches
  BY <1>2 DEF HostReady, ActiveMatches
<1>6. QueueLives
  BY <1>2 DEF QueueLives, Waiting, Elements
<1>7. Leaving
  BY <1>2 DEF Leaving
<1>8. Losses
  BY <1>2 DEF Losses, Init, EmptyPoller, NewSocket, isWriting
<1> QED
  BY <1>1, <1>3, <1>4, <1>5, <1>6, <1>7, <1>8 DEF Inv2

-----------------------------------------------------------------------------
(***************************************************************************)
(* A connection's states change along its life only.                       *)
(***************************************************************************)
LEMMA StateOnward ==
    ASSUME Inv, [Next]_vars, NEW c \in Conns, state'[c] # state[c]
    PROVE  \/ state[c] = "none" /\ state'[c] = "kConnecting"
           \/ state[c] = "kConnecting" /\ Up(c)'
           \/ Up(c) /\ state'[c] = "kDisconnected"
           \/ state[c] = "kDisconnected" /\ state'[c] = "destroyed"
<1>1. Lives!Next
  BY StepLives DEF Lives!vars
<1>2. state \in [Conns -> States]
  BY DEF Inv, Types
<1>3. ASSUME NEW d \in Conns,
             Lives!Accept(d) \/ Lives!Serve(d) \/ Lives!Refuse(d) \/ Lives!GoDown(d)
      PROVE  \/ state[c] = "none" /\ state'[c] = "kConnecting"
             \/ state[c] = "kConnecting" /\ Up(c)'
             \/ Up(c) /\ state'[c] = "kDisconnected"
  BY <1>2, <1>3
     DEF Lives!Accept, Lives!Serve, Lives!Refuse, Lives!GoDown, Lives!Advance, Lives!IsUp, Up
<1>4. ASSUME NEW d \in Conns, Lives!Forget(d)
      PROVE  FALSE
  BY <1>4 DEF Lives!Forget
<1>5. ASSUME NEW cs \in SUBSET Conns, Lives!Destroy(cs)
      PROVE  state[c] = "kDisconnected" /\ state'[c] = "destroyed"
  BY <1>5 DEF Lives!Destroy
<1> QED
  BY <1>1, <1>3, <1>4, <1>5 DEF Lives!Next

-----------------------------------------------------------------------------
(***************************************************************************)
(* The poller, when one channel changes or none does.                      *)
(***************************************************************************)
LEMMA SameMatches ==
    ASSUME PollerMatches, UNCHANGED <<state, poller>>
    PROVE  PollerMatches'
BY DEF PollerMatches, Placed, Has, Live, Up

LEMMA ChannelMatches ==
    ASSUME Types, PollerMatches, NEW c \in Conns, Live(c), Live(c)',
           \A d \in Conns \ {c} : state'[d] = state[d],
           OnlyFor(c, poller, poller'), Placed(c)'
    PROVE  PollerMatches'
<1>1. /\ poller'.fd = poller.fd
      /\ \A d \in Conns : (Live(d)' <=> Live(d)) /\ \A fd : Has(d, fd)' <=> Has(d, fd)
  BY DEF OnlyFor, Live, Has
<1>2. ASSUME NEW d \in Conns, Live(d)'
      PROVE  Placed(d)'
  <2>1. CASE d = c
    BY <2>1
  <2>2. CASE d # c
    <3>1. Live(d) /\ Placed(d) /\ poller.fd[d] \in Fds /\ poller.fd[d] # poller.fd[c]
      BY <1>1, <1>2, <2>2 DEF PollerMatches, Has, Placed
    <3>2. /\ poller'.fd[d] = poller.fd[d] /\ state'[d] = state[d]
          /\ poller'.events[d] = poller.events[d] /\ poller'.index[d] = poller.index[d]
          /\ poller'.channels[poller.fd[d]] = poller.channels[poller.fd[d]]
          /\ poller'.epoll[poller.fd[d]] = poller.epoll[poller.fd[d]]
      BY <2>2, <3>1 DEF OnlyFor
    <3> QED
      BY <3>1, <3>2 DEF Placed, Unknown, Known, Up
  <2> QED
    BY <2>1, <2>2
<1>3. ASSUME NEW fd \in Fds
      PROVE  \/ \E d \in Conns : Has(d, fd)'
             \/ poller'.channels[fd] = None /\ poller'.epoll[fd] = None
  <2>1. CASE \E d \in Conns : Has(d, fd)
    BY <1>1, <2>1
  <2>2. CASE ~\E d \in Conns : Has(d, fd)
    <3>1. fd # poller.fd[c]
      BY <2>2 DEF Has
    <3> QED
      BY <2>2, <3>1 DEF OnlyFor, PollerMatches
  <2> QED
    BY <2>1, <2>2
<1>4. \A d, e \in Conns : Live(d)' /\ Has(e, poller.fd[d])' => d = e
  BY <1>1 DEF PollerMatches
<1> QED
  BY <1>1, <1>2, <1>3, <1>4 DEF PollerMatches

\* A connection that is up writes, or goes down.
LEMMA BufferMatches ==
    ASSUME Types, PollerMatches, NEW h \in Conns, Up(h), BufferOutput(h), UNCHANGED state
    PROVE  /\ PollerMatches'
           /\ \A d \in Conns \ {h} : poller'.events[d] = poller.events[d]
           /\ \A d \in Conns : poller'.index[d] = poller.index[d]
<1>1. Live(h) /\ Placed(h) /\ poller \in Pollers
  BY DEF Up, Live, PollerMatches, Types
<1>2. CASE poller' = poller
  BY <1>2, SameMatches
<1>3. CASE poller' = enableWriting(poller, h)
  <2> DEFINE es == poller.events[h] \cup {"OUT"}
  <2>1. es \in SUBSET {"IN", "OUT"}
    BY <1>1 DEF Pollers
  <2>2. poller' = updateChannel([poller EXCEPT !.events[h] = es], h)
    BY <1>3 DEF enableWriting
  <2>3. Known(poller, h) /\ poller.fd[h] \in Fds /\ "IN" \in es
    BY <1>1 DEF Placed
  <2>4. es # {}
    BY <2>3
  <2> HIDE DEF es
  <2>5. OnlyFor(h, poller, poller') /\ Known(poller', h) /\ poller'.events[h] = es
    BY <1>1, <2>1, <2>2, <2>3, <2>4, UpdateKnown
  <2>6. Placed(h)'
    BY <2>3, <2>5 DEF Placed, Up, OnlyFor
  <2>7. Live(h)'
    BY <1>1 DEF Live
  <2>8. PollerMatches'
    BY <1>1, <2>5, <2>6, <2>7, ChannelMatches
  <2> QED
    BY <2>3, <2>5, <2>8 DEF OnlyFor, Known
<1> QED
  BY <1>2, <1>3 DEF BufferOutput

LEMMA CloseMatches ==
    ASSUME Types, PollerMatches, NEW c \in Conns, handleClose(c)
    PROVE  /\ PollerMatches'
           /\ Up(c) => OnlyFor(c, poller, poller') /\ poller'.events[c] = {}
<1>1. CASE Up(c)
  <2>1. Live(c) /\ Placed(c) /\ poller \in Pollers /\ Known(poller, c) /\ poller.fd[c] \in Fds
    BY <1>1 DEF Up, Live, PollerMatches, Types, Placed
  <2> PICK es \in SUBSET {"IN", "OUT"} : es = {}
    OBVIOUS
  <2>2. poller' = updateChannel([poller EXCEPT !.events[c] = es], c)
    BY <1>1 DEF handleClose, disableAll
  <2>3. /\ OnlyFor(c, poller, poller')
        /\ poller'.events[c] = {} /\ poller'.index[c] = "cDeleted"
        /\ poller'.channels[poller'.fd[c]] = c /\ poller'.epoll[poller'.fd[c]] = None
    BY <2>1, <2>2, UpdateKnown
  <2>4. state'[c] = "kDisconnected" /\ \A d \in Conns \ {c} : state'[d] = state[d]
    BY <1>1 DEF handleClose, Types
  <2>5. Placed(c)' /\ Live(c)'
    BY <2>1, <2>3, <2>4 DEF Placed, Live, Up, OnlyFor
  <2> QED
    BY <2>1, <2>3, <2>4, <2>5, ChannelMatches
<1>2. CASE ~Up(c)
  BY <1>2, SameMatches DEF handleClose
<1> QED
  BY <1>1, <1>2

LEMMA EstablishMatches ==
    ASSUME Types, PollerMatches, NEW c \in Conns, state[c] = "kConnecting", connectEstablished(c)
    PROVE  PollerMatches' /\ OnlyFor(c, poller, poller') /\ poller'.events[c] = {"IN"}
<1>1. /\ Live(c) /\ Placed(c) /\ poller \in Pollers /\ poller.fd[c] \in Fds
      /\ poller.index[c] = "cNew" /\ poller.events[c] = {} /\ Unknown(poller, c)
  BY DEF Live, PollerMatches, Types, Placed
<1>2. poller' = enableReading(poller, c)
  BY DEF connectEstablished
<1>3. /\ OnlyFor(c, poller, poller') /\ Known(poller', c)
      /\ poller'.events[c] = poller.events[c] \cup {"IN"}
  BY <1>1, <1>2, EnableNew
<1>4. /\ state'[c] \in {"kDisconnecting", "kConnected"}
      /\ \A d \in Conns \ {c} : state'[d] = state[d]
  BY DEF connectEstablished, Types
<1>5. Placed(c)' /\ Live(c)'
  BY <1>1, <1>3, <1>4 DEF Placed, Live, OnlyFor
<1> QED
  BY <1>1, <1>3, <1>4, <1>5, ChannelMatches

LEMMA DestroyedMatches ==
    ASSUME Types, PollerMatches, NEW c \in Conns, state[c] = "kDisconnected", connectDestroyed(c)
    PROVE  /\ PollerMatches' /\ OnlyFor(c, poller, poller')
           /\ poller'.index[c] = "cNew" /\ poller'.events[c] = {}
<1>1. /\ Live(c) /\ poller \in Pollers /\ poller.fd[c] \in Fds /\ poller.events[c] = {}
      /\ poller.epoll[poller.fd[c]] = None
      /\ \/ poller.index[c] = "cDeleted" /\ poller.channels[poller.fd[c]] = c
         \/ poller.index[c] = "cNew" /\ poller.channels[poller.fd[c]] = None
  BY DEF Live, PollerMatches, Types, Placed
<1>2. poller' = remove(poller, c) /\ state' = state
  BY DEF connectDestroyed
<1>3. /\ OnlyFor(c, poller, poller')
      /\ poller'.events[c] = {} /\ poller'.index[c] = "cNew" /\ Unknown(poller', c)
  BY <1>1, <1>2, RemoveSilent
<1>4. Placed(c)' /\ Live(c)'
  BY <1>1, <1>2, <1>3 DEF Placed, Live, Up, OnlyFor, Unknown
<1> QED
  BY <1>1, <1>2, <1>3, <1>4, ChannelMatches

(***************************************************************************)
(* A new connection takes a descriptor that no connection has, and every   *)
(* descriptor that is closed has been forgotten.                           *)
(***************************************************************************)
LEMMA AcceptedChannel ==
    ASSUME Types, NEW c \in Conns, FreeFds # {}, poller' = NewChannel(poller, c, LowestFree)
    PROVE  \E fd \in FreeFds :
              /\ fd \in Fds
              /\ poller'.fd[c] = fd /\ poller'.events[c] = {} /\ poller'.index[c] = "cNew"
              /\ \A d \in Conns \ {c} : /\ poller'.fd[d] = poller.fd[d]
                                        /\ poller'.events[d] = poller.events[d]
                                        /\ poller'.index[d] = poller.index[d]
              /\ poller'.channels = poller.channels /\ poller'.epoll = poller.epoll
<1> PICK fd \in Fds : fd = LowestFree /\ fd \in FreeFds
  BY LowestFreeIsFree
<1>1. poller' = [poller EXCEPT !.fd[c] = fd, !.events[c] = {}, !.index[c] = "cNew"]
  BY DEF NewChannel
<1>2. /\ poller'.fd[c] = fd /\ poller'.events[c] = {} /\ poller'.index[c] = "cNew"
      /\ \A d \in Conns \ {c} : /\ poller'.fd[d] = poller.fd[d]
                                /\ poller'.events[d] = poller.events[d]
                                /\ poller'.index[d] = poller.index[d]
      /\ poller'.channels = poller.channels /\ poller'.epoll = poller.epoll
  BY <1>1 DEF Types, Pollers
<1> QED
  BY <1>2

LEMMA AcceptMatches ==
    ASSUME Inv, PollerMatches, HandleAccept
    PROVE  PollerMatches'
<1>1. CASE ~MayAccept
  BY <1>1, SameMatches DEF HandleAccept, serverVars
<1>2. CASE MayAccept
  <2> PICK c \in Conns : c = Head(backlog) /\ state[c] = "none"
    <3> PICK b \in Seq(Conns) : b = backlog /\ b # <<>>
      BY DEF Inv, Types, HandleAccept, Pick
    <3>1. Head(b) = b[1] /\ 1 \in 1 .. Len(b) /\ Head(b) \in Conns
      OBVIOUS
    <3> QED
      BY <3>1 DEF Inv, BacklogIsFresh
  <2>1. /\ state' = [state EXCEPT ![c] = "kConnecting"]
        /\ poller' = NewChannel(poller, c, LowestFree)
    BY <1>2 DEF HandleAccept
  <2>2. state \in [Conns -> States]
    BY DEF Inv, Types
  <2> PICK fd \in FreeFds :
         /\ fd \in Fds
         /\ poller'.fd[c] = fd /\ poller'.events[c] = {} /\ poller'.index[c] = "cNew"
         /\ \A d \in Conns \ {c} : /\ poller'.fd[d] = poller.fd[d]
                                   /\ poller'.events[d] = poller.events[d]
                                   /\ poller'.index[d] = poller.index[d]
         /\ poller'.channels = poller.channels /\ poller'.epoll = poller.epoll
    BY <1>2, <2>1, AcceptedChannel DEF MayAccept, Inv
  <2>3. state'[c] = "kConnecting" /\ \A d \in Conns \ {c} : state'[d] = state[d]
    BY <2>1, <2>2
  <2>4. ~Live(c) /\ Live(c)' /\ \A d \in Conns \ {c} : Live(d)' <=> Live(d)
    BY <2>3 DEF Live
  <2>5. \A d \in Conns : ~Has(d, fd)
    BY DEF FreeFds, Has
  <2>6. poller.channels[fd] = None /\ poller.epoll[fd] = None
    BY <2>5 DEF PollerMatches
  <2>7. Placed(c)'
    BY <2>3, <2>6 DEF Placed, Unknown, Up
  <2>8. ASSUME NEW d \in Conns \ {c}, Live(d)'
        PROVE  Placed(d)' /\ poller.fd[d] # fd
    BY <2>3, <2>4, <2>5, <2>8 DEF PollerMatches, Placed, Unknown, Known, Up, Has
  <2>9. \A d, e \in Conns : Live(d)' /\ Has(e, poller.fd[d])' => d = e
    <3>1. \A d, e \in Conns : Live(d) /\ Live(e) /\ poller.fd[e] = poller.fd[d] => d = e
      BY DEF PollerMatches, Has
    <3>2. \A d, e \in Conns : Live(d)' /\ Live(e)' /\ poller'.fd[e] = poller'.fd[d] => d = e
      BY <2>4, <2>8, <3>1
    <3> QED
      BY <3>2 DEF Has
  <2>10. ASSUME NEW f \in Fds
         PROVE  \/ \E d \in Conns : Has(d, f)'
                \/ poller'.channels[f] = None /\ poller'.epoll[f] = None
    <3>1. CASE f = fd
      BY <2>6, <3>1
    <3>2. ASSUME NEW d \in Conns, Has(d, f)
          PROVE  Has(d, f)'
      BY <2>4, <3>2 DEF Has
    <3>3. CASE ~\E d \in Conns : Has(d, f)
      BY <3>3 DEF PollerMatches
    <3> QED
      BY <3>1, <3>2, <3>3
  <2> QED
    BY <2>7, <2>8, <2>9, <2>10 DEF PollerMatches
<1> QED
  BY <1>1, <1>2

LEMMA UnreferencedIsForgotten ==
    ASSUME Inv2, functors = <<>>, NEW c \in Unreferenced
    PROVE  /\ c \in Conns /\ state[c] = "kDisconnected" /\ poller.fd[c] \in Fds
           /\ poller.events[c] = {} /\ Unknown(poller, c)
<1>1. c \in Conns /\ c \notin connections /\ Live(c)
  BY DEF Unreferenced
<1>2. state[c] = "kDisconnected" /\ Placed(c)
  BY <1>1 DEF Inv2, Inv, Types, States, Mapped, Live, PollerMatches
<1> PICK q \in Seq(Functors) : q = pending
  BY DEF Inv2, Inv, Types
<1>3. ~\E f \in Waiting : Leaves(f, c)
  <2>1. ~\E i \in 1 .. Len(q) : q[i].conn = c /\ Shares(q[i])
    BY DEF Unreferenced
  <2>2. Waiting = Elements(q)
    BY DEF Waiting, Elements
  <2> QED
    BY <2>1, <2>2 DEF Elements, Shares, Leaves
<1>4. poller.index[c] = "cNew"
  BY <1>1, <1>2, <1>3 DEF Inv2, Leaving
<1> QED
  BY <1>1, <1>2, <1>4 DEF Placed, Unknown

LEMMA EndMatches ==
    ASSUME Inv2, EndPendingFunctors
    PROVE  PollerMatches'
<1>1. poller \in Pollers /\ PollerMatches
  BY DEF Inv2, Inv, Types
<1> DEFINE fds == {poller.fd[c] : c \in Unreferenced}
<1>2. \A c \in Unreferenced : /\ c \in Conns /\ state[c] = "kDisconnected" /\ poller.fd[c] \in Fds
                              /\ Unknown(poller, c)
  BY UnreferencedIsForgotten DEF EndPendingFunctors
<1>3. /\ poller'.fd = poller.fd /\ poller'.events = poller.events /\ poller'.index = poller.index
      /\ poller'.channels = poller.channels
      /\ \A fd \in Fds : poller'.epoll[fd] = IF fd \in fds THEN None ELSE poller.epoll[fd]
  BY <1>1 DEF EndPendingFunctors, CloseFds, Pollers
<1>4. \A fd \in fds : poller.epoll[fd] = None
  BY <1>2 DEF Unknown
<1>5. \A fd \in Fds : poller'.epoll[fd] = poller.epoll[fd]
  BY <1>3, <1>4
<1>6. \A c \in Conns : /\ c \in Unreferenced => state'[c] = "destroyed"
                       /\ c \notin Unreferenced => state'[c] = state[c]
  BY DEF EndPendingFunctors
<1>7. \A c \in Conns : Live(c)' <=> Live(c) /\ c \notin Unreferenced
  BY <1>6 DEF Live, Unreferenced
<1>8. ASSUME NEW c \in Conns, Live(c)'
      PROVE  Placed(c)'
  <2>1. Live(c) /\ Placed(c) /\ state'[c] = state[c]
    BY <1>1, <1>6, <1>7, <1>8 DEF PollerMatches
  <2> QED
    BY <1>3, <1>5, <2>1 DEF Placed, Unknown, Known, Up
<1>9. ASSUME NEW fd \in Fds
      PROVE  \/ \E d \in Conns : Has(d, fd)'
             \/ poller'.channels[fd] = None /\ poller'.epoll[fd] = None
  <2>1. ASSUME NEW d \in Conns, Has(d, fd), d \notin Unreferenced
        PROVE  Has(d, fd)'
    BY <1>3, <1>7, <2>1 DEF Has
  <2>2. ASSUME NEW d \in Conns, Has(d, fd), d \in Unreferenced
        PROVE  poller.channels[fd] = None /\ poller.epoll[fd] = None
    BY <1>2, <2>2 DEF Has, Unknown
  <2> QED
    BY <1>1, <1>3, <1>5, <2>1, <2>2 DEF PollerMatches
<1>10. \A d, e \in Conns : Live(d)' /\ Has(e, poller.fd[d])' => d = e
  BY <1>1, <1>3, <1>7 DEF PollerMatches, Has
<1> QED
  BY <1>8, <1>9, <1>10 DEF PollerMatches

-----------------------------------------------------------------------------
(***************************************************************************)
(* The functors that wait, as a set.                                       *)
(***************************************************************************)
LEMMA ElementsOfConcat ==
    ASSUME NEW S, NEW a \in Seq(S), NEW b \in Seq(S)
    PROVE  Elements(a \o b) = Elements(a) \cup Elements(b)
<1>1. /\ Len(a \o b) = Len(a) + Len(b)
      /\ \A i \in 1 .. Len(a) + Len(b) :
            (a \o b)[i] = IF i <= Len(a) THEN a[i] ELSE b[i - Len(a)]
      /\ Len(a) \in Nat /\ Len(b) \in Nat
  BY ConcatProperties
<1> DEFINE r == a \o b
<1>2. ASSUME NEW i \in 1 .. Len(r)
      PROVE  r[i] \in Elements(a) \cup Elements(b)
  <2>1. \/ i \in 1 .. Len(a) /\ r[i] = a[i]
        \/ i - Len(a) \in 1 .. Len(b) /\ r[i] = b[i - Len(a)]
    BY <1>1
  <2> QED
    BY <2>1 DEF Elements
<1>3. ASSUME NEW i \in 1 .. Len(a)
      PROVE  a[i] \in Elements(r)
  <2>1. i \in 1 .. Len(r) /\ r[i] = a[i]
    BY <1>1
  <2> QED
    BY <2>1 DEF Elements
<1>4. ASSUME NEW i \in 1 .. Len(b)
      PROVE  b[i] \in Elements(r)
  <2>1. i + Len(a) \in 1 .. Len(r) /\ r[i + Len(a)] = b[i]
    BY <1>1
  <2> QED
    BY <2>1 DEF Elements
<1> HIDE DEF r
<1>5. Elements(r) \subseteq Elements(a) \cup Elements(b)
  BY <1>2 DEF Elements
<1>6. Elements(a) \subseteq Elements(r) /\ Elements(b) \subseteq Elements(r)
  BY <1>3, <1>4 DEF Elements
<1> QED
  BY <1>5, <1>6 DEF r

LEMMA ElementsOfTail ==
    ASSUME NEW S, NEW q \in Seq(S), q # <<>>
    PROVE  Elements(q) = {Head(q)} \cup Elements(Tail(q)) /\ Head(q) \in S
<1>1. /\ Len(Tail(q)) = Len(q) - 1 /\ Len(q) \in Nat /\ Len(q) >= 1
      /\ \A i \in 1 .. Len(q) - 1 : Tail(q)[i] = q[i + 1]
      /\ Head(q) = q[1] /\ Head(q) \in S
  BY HeadTailProperties
<1>2. ASSUME NEW i \in 1 .. Len(q)
      PROVE  q[i] \in {Head(q)} \cup Elements(Tail(q))
  <2>1. CASE i = 1
    BY <1>1, <2>1
  <2>2. CASE i # 1
    <3>1. i - 1 \in 1 .. Len(Tail(q)) /\ Tail(q)[i - 1] = q[i]
      BY <1>1, <2>2
    <3> QED
      BY <3>1 DEF Elements
  <2> QED
    BY <2>1, <2>2
<1>3. Head(q) \in Elements(q)
  <2>1. 1 \in 1 .. Len(q)
    BY <1>1
  <2> QED
    BY <1>1, <2>1 DEF Elements
<1>4. ASSUME NEW i \in 1 .. Len(Tail(q))
      PROVE  Tail(q)[i] \in Elements(q)
  <2>1. i + 1 \in 1 .. Len(q) /\ Tail(q)[i] = q[i + 1]
    BY <1>1
  <2> QED
    BY <2>1 DEF Elements
<1> DEFINE t == Tail(q)
<1>5. \A i \in 1 .. Len(t) : t[i] \in Elements(q)
  BY <1>4
<1> HIDE DEF t
<1>6. Elements(t) \subseteq Elements(q)
  BY <1>5 DEF Elements
<1>7. Elements(q) \subseteq {Head(q)} \cup Elements(Tail(q))
  BY <1>2 DEF Elements
<1> QED
  BY <1>1, <1>3, <1>6, <1>7 DEF t

LEMMA ElementsOfFew ==
    /\ Elements(<<>>) = {}
    /\ \A x : Elements(<<x>>) = {x}
    /\ \A x, y : Elements(<<x, y>>) = {x, y}
<1>1. 1 .. 0 = {} /\ 1 .. 1 = {1} /\ 1 .. 2 = {1, 2}
  OBVIOUS
<1>2. Elements(<<>>) = {}
  BY DEF Elements
<1>3. ASSUME NEW x
      PROVE  Elements(<<x>>) = {x}
  <2>1. Len(<<x>>) = 1 /\ <<x>>[1] = x
    OBVIOUS
  <2> QED
    BY <1>1, <2>1 DEF Elements
<1>4. ASSUME NEW x, NEW y
      PROVE  Elements(<<x, y>>) = {x, y}
  <2>1. Len(<<x, y>>) = 2 /\ <<x, y>>[1] = x /\ <<x, y>>[2] = y
    OBVIOUS
  <2> QED
    BY <1>1, <2>1 DEF Elements
<1> QED
  BY <1>2, <1>3, <1>4

LEMMA WaitingFits ==
    ASSUME Inv
    PROVE  \A f \in Waiting : f \in Functors /\ Fits(f)
<1> PICK a \in Seq(Functors), p \in Seq(Functors) : a = functors /\ p = pending
  BY DEF Inv, Types
<1> PICK q \in Seq(Functors) : q = a \o p
  BY ConcatProperties
<1>1. Waiting = Elements(q)
  BY ElementsOfConcat DEF Waiting
<1>2. \A i \in 1 .. Len(q) : Fits(q[i]) /\ q[i] \in Functors
  BY ElementOfSeq DEF Inv, QueueFits, Queue
<1> QED
  BY <1>1, <1>2 DEF Elements

LEMMA QueueGrows ==
    ASSUME Types, NEW fs \in Seq(Functors), queueInLoop(fs)
    PROVE  Elements(pending') = Elements(pending) \cup Elements(fs)
<1> PICK p \in Seq(Functors) : p = pending
  BY DEF Types
<1> QED
  BY ElementsOfConcat DEF queueInLoop

\* The first functor of the vector is run.
LEMMA First ==
    ASSUME Inv2, RunFunctor
    PROVE  \E f \in Functors :
              /\ RunOne(f.op, f.conn)
              /\ Fits(f)
              /\ Live(f.conn)
              /\ Elements(functors) = {f} \cup Elements(functors')
<1> PICK a \in Seq(Functors) : a = functors /\ a # <<>>
  BY DEF RunFunctor, Inv2, Inv, Types
<1>1. Elements(a) = {Head(a)} \cup Elements(Tail(a)) /\ Head(a) \in Functors
  BY ElementsOfTail
<1>2. RunOne(Head(a).op, Head(a).conn) /\ functors' = Tail(a)
  BY DEF RunFunctor, RunOne
<1>3. Fits(Head(a)) /\ Live(Head(a).conn)
  <2>1. Head(a) \in Waiting
    BY <1>1 DEF Waiting
  <2> QED
    BY <2>1, WaitingFits DEF Inv2, QueueLives
<1> WITNESS Head(a) \in Functors
<1> QED
  BY <1>1, <1>2, <1>3

-----------------------------------------------------------------------------
(***************************************************************************)
(* What is left of the three ways to write, given the invariant: the data  *)
(* goes to a host that is up, it is kept back only for one that is lost,   *)
(* and what is kept back is never written.                                 *)
(***************************************************************************)
LEMMA OnMessageWrites ==
    ASSUME Inv2, onMessage
    PROVE  \/ pc' \in {pc, "null host"} /\ UNCHANGED <<poller, outputBuffer>>
           \/ /\ hostPtr \in Conns /\ Up(hostPtr)
              /\ pc' = "send" /\ UNCHANGED <<poller, outputBuffer>>
           \/ /\ hostPtr \in Conns /\ Up(hostPtr) /\ sock[hostPtr].peer = "lost"
              /\ pc' = pc /\ BufferOutput(hostPtr)
<1>1. CASE \/ hostPtr = None \/ state[hostPtr] = "destroyed"
  BY <1>1 DEF onMessage
<1>2. CASE hostPtr # None /\ state[hostPtr] # "destroyed" /\ state[hostPtr] = "kDisconnected"
  BY <1>2 DEF onMessage
<1>3. CASE hostPtr # None /\ state[hostPtr] # "destroyed" /\ state[hostPtr] # "kDisconnected"
  <2> PICK h \in Conns : h = hostPtr
    BY <1>3 DEF Inv2, Inv, Types
  <2>1. Up(h)
    BY <1>3 DEF Inv2, HostReady, Inv, Types, States, Up
  <2>2. CASE isWriting(poller, h) \/ h \in outputBuffer
    <3>1. sock[h].peer = "lost"
      BY <1>3, <2>2 DEF Inv2, Losses
    <3>2. pc' = pc /\ BufferOutput(h)
      BY <1>3, <2>2 DEF onMessage
    <3> QED
      BY <2>1, <3>1, <3>2
  <2>3. CASE ~(isWriting(poller, h) \/ h \in outputBuffer)
    <3>1. pc' = "send" /\ UNCHANGED <<poller, outputBuffer>>
      BY <1>3, <2>3 DEF onMessage
    <3> QED
      BY <2>1, <3>1
  <2> QED
    BY <2>2, <2>3
<1> QED
  BY <1>1, <1>2, <1>3

LEMMA WriteToHostWrites ==
    ASSUME Inv2, WriteToHost
    PROVE  /\ hostPtr \in Conns /\ Up(hostPtr)
           /\ \/ UNCHANGED <<poller, outputBuffer>>
              \/ BufferOutput(hostPtr) /\ sock[hostPtr].peer = "lost"
<1> PICK h \in Conns : h = hostPtr
  BY DEF WriteToHost, Inv2, Inv, Types
<1>1. Up(h)
  BY DEF Inv2, HostReady, WriteToHost
<1>2. \/ UNCHANGED <<poller, outputBuffer>>
      \/ BufferOutput(h) /\ sock[h].err = "ETIMEDOUT"
  BY DEF WriteToHost
<1>3. sock[h].err = "ETIMEDOUT" => sock[h].peer = "lost"
  BY DEF Inv2, Losses
<1> QED
  BY <1>1, <1>2, <1>3

LEMMA HandleWriteWrites ==
    ASSUME Inv2, NEW c \in Conns, HandleWrite(c)
    PROVE  /\ UNCHANGED <<poller, outputBuffer>>
           /\ sock' = sock \/ sock' = [sock EXCEPT ![c].err = "none"]
           /\ pc' \in {pc, "SIGPIPE"}
<1>1. Live(c)
  BY DEF HandleWrite, Pick, Inv2, ActiveMatches
<1>2. isWriting(poller, c) => Broken(c)
  BY <1>1 DEF Inv2, Losses, Live, Broken, Dead
<1> QED
  BY <1>2 DEF HandleWrite

-----------------------------------------------------------------------------
(***************************************************************************)
(* The invariant is kept, part by part.                                    *)
(***************************************************************************)
LEMMA RunMatches ==
    ASSUME Inv2, NEW f \in Functors, RunOne(f.op, f.conn), Fits(f)
    PROVE  PollerMatches'
<1> PICK c \in Conns : c = f.conn
  BY DEF Functors
<1>1. CASE f.op = "connectEstablished" /\ connectEstablished(c)
  BY <1>1, EstablishMatches DEF Inv2, Inv, Fits
<1>2. CASE f.op = "shutdownInLoop" /\ shutdownInLoop(c)
  BY <1>2, SameMatches DEF shutdownInLoop, serverVars, Inv2
<1>3. CASE f.op = "forceCloseInLoop" /\ forceCloseInLoop(c)
  BY <1>3, CloseMatches DEF forceCloseInLoop, Inv2, Inv
<1>4. CASE f.op = "removeConnectionInLoop" /\ removeConnectionInLoop(c)
  BY <1>4, SameMatches DEF removeConnectionInLoop, Inv2
<1>5. CASE f.op = "connectDestroyed" /\ connectDestroyed(c)
  BY <1>5, DestroyedMatches DEF Inv2, Inv, Fits
<1> QED
  BY <1>1, <1>2, <1>3, <1>4, <1>5 DEF RunOne

LEMMA StepMatches ==
    ASSUME Inv2, [Next]_vars
    PROVE  PollerMatches'
<1>0. Types /\ PollerMatches /\ Inv
  BY DEF Inv2, Inv
<1>1. CASE UNCHANGED <<state, poller>>
  BY <1>0, <1>1, SameMatches
<1>2. CASE HandleAccept
  BY <1>0, <1>2, AcceptMatches
<1>3. ASSUME NEW c \in Conns, ReadMessage(c)
      PROVE  PollerMatches'
  <2>1. onMessage /\ UNCHANGED state
    BY <1>3 DEF ReadMessage
  <2> QED
    BY <1>0, <1>1, <2>1, OnMessageWrites, BufferMatches
<1>4. ASSUME NEW c \in Conns, ReadEnd(c)
      PROVE  PollerMatches'
  BY <1>0, <1>4, CloseMatches DEF ReadEnd
<1>5. CASE WriteToHost
  <2>1. UNCHANGED state
    BY <1>5 DEF WriteToHost
  <2> QED
    BY <1>0, <1>1, <1>5, <2>1, WriteToHostWrites, BufferMatches
<1>6. ASSUME NEW c \in Conns, HandleWrite(c)
      PROVE  PollerMatches'
  BY <1>1, <1>6, HandleWriteWrites DEF HandleWrite
<1>7. CASE RunFunctor
  BY <1>7, First, RunMatches
<1>8. CASE EndPendingFunctors
  BY <1>8, EndMatches
<1>9. CASE \/ UNCHANGED vars \/ Clients \/ Poll \/ HandleWakeup \/ BeginPendingFunctors
           \/ \E c \in Conns : ReadError(c)
  <2>1. UNCHANGED <<state, poller>>
    BY <1>9, ClientsFrame
       DEF vars, serverVars, Poll, HandleWakeup, BeginPendingFunctors, ReadError
  <2> QED
    BY <1>1, <2>1
<1> QED
  BY <1>2, <1>3, <1>4, <1>5, <1>6, <1>7, <1>8, <1>9 DEF Next, Turn, Ended

LEMMA StepHost ==
    ASSUME Inv2, [Next]_vars
    PROVE  HostReady'
<1>0. Inv /\ HostReady /\ state \in [Conns -> States]
  BY DEF Inv2, Inv, Types
<1>1. \A c \in Conns :
         state[c] \notin {"none", "kConnecting"} => state'[c] \notin {"none", "kConnecting"}
  BY <1>0, StateOnward DEF Up
<1>2. CASE hostPtr' = hostPtr
  <2>1. hostPtr' # None => state'[hostPtr'] \notin {"none", "kConnecting"}
    BY <1>0, <1>1, <1>2 DEF HostReady, Inv, Types
  <2>2. CASE \E c \in Conns : ReadMessage(c)
    <3>1. UNCHANGED state /\ onMessage /\ pc = "events"
      BY <2>2 DEF ReadMessage, ReadEvent, Pick
    <3>2. pc' = "send" => Up(hostPtr)
      BY <3>1, OnMessageWrites
    <3> QED
      BY <1>2, <2>1, <3>1, <3>2 DEF HostReady, Up
  <2>3. CASE UNCHANGED <<state, pc>>
    BY <1>0, <1>2, <2>1, <2>3 DEF HostReady, Up
  <2>4. CASE pc' # "send"
    BY <2>1, <2>4 DEF HostReady
  <2>5. CASE \/ UNCHANGED vars \/ Clients
    BY <2>3, <2>5, ClientsFrame DEF vars, serverVars, loopVars
  <2>6. ASSUME NEW c \in Conns, ReadError(c) \/ ReadEnd(c) \/ HandleWrite(c)
        PROVE  pc' # "send"
    BY <2>6 DEF ReadError, ReadEnd, HandleWrite, ReadEvent, Pick
  <2>7. CASE Poll \/ HandleWakeup \/ HandleAccept \/ WriteToHost \/ BeginPendingFunctors
             \/ RunFunctor \/ EndPendingFunctors
    <3>1. pc' # "send"
      BY <2>7 DEF Poll, HandleWakeup, HandleAccept, WriteToHost, BeginPendingFunctors,
                  RunFunctor, EndPendingFunctors, Pick, connectEstablished, shutdownInLoop,
                  forceCloseInLoop, removeConnectionInLoop, connectDestroyed
    <3> QED
      BY <2>4, <3>1
  <2> QED
    BY <2>2, <2>4, <2>5, <2>6, <2>7 DEF Next, Turn, Ended
<1>3. CASE hostPtr' # hostPtr
  <2>1. RunFunctor
    BY <1>3, ClientsFrame
       DEF Next, Turn, Ended, vars, serverVars, Poll, HandleWakeup, HandleAccept, ReadMessage,
           ReadError, ReadEnd, HandleWrite, WriteToHost, BeginPendingFunctors, EndPendingFunctors
  <2> PICK f \in Functors : RunOne(f.op, f.conn) /\ Fits(f)
    BY <2>1, First
  <2> PICK c \in Conns : c = f.conn
    BY DEF Functors
  <2>2. connectEstablished(c) /\ state[c] = "kConnecting"
    BY <1>3 DEF RunOne, shutdownInLoop, forceCloseInLoop, removeConnectionInLoop,
                connectDestroyed, serverVars, Fits
  <2>3. hostPtr' = c /\ state'[c] = "kConnected" /\ pc' = pc /\ pc = "functors"
    BY <1>0, <1>3, <2>1, <2>2 DEF connectEstablished, RunFunctor
  <2> QED
    BY <2>3 DEF HostReady
<1> QED
  BY <1>2, <1>3

\* Only a connection that is up is in the kernel's interest list.
LEMMA RegisteredIsUp ==
    ASSUME Types, PollerMatches, NEW entry \in Registered
    PROVE  /\ entry.channel \in Conns /\ Up(entry.channel)
           /\ entry.events = poller.events[entry.channel]
<1> PICK fd \in Fds : entry = poller.epoll[fd] /\ entry # None
  BY DEF Registered
<1> PICK c \in Conns : Has(c, fd)
  BY DEF PollerMatches
<1>1. Live(c) /\ Placed(c) /\ poller.fd[c] = fd
  BY DEF Has, PollerMatches
<1>2. Up(c)
  BY <1>1 DEF Types, States, Live, Up, Placed, Unknown
<1> QED
  BY <1>1, <1>2 DEF Placed, Known

LEMMA PollMatches ==
    ASSUME Inv2, Poll
    PROVE  ActiveMatches'
<1>1. DOMAIN active' = Readable /\ pc' = "events" /\ state' = state
  BY DEF Poll, serverVars
<1>2. ASSUME NEW c \in Readable \cap Conns
      PROVE  Up(c)
  <2>1. \E entry \in Registered : c = entry.channel
    BY ConstantsAssumption DEF Readable
  <2> QED
    BY <2>1, RegisteredIsUp DEF Inv2, Inv
<1>3. \A c \in DOMAIN active' \cap Conns : Up(c)' /\ Live(c)'
  BY <1>1, <1>2 DEF Up, Live
<1> QED
  BY <1>1, <1>3 DEF ActiveMatches

LEMMA StepActive ==
    ASSUME Inv2, [Next]_vars
    PROVE  ActiveMatches'
<1>0. /\ pc \in {"poll", "functors"} => DOMAIN active = {}
      /\ \A c \in DOMAIN active \cap Conns : Live(c) /\ (Up(c) \/ InEvent(c))
      /\ Inv
  BY DEF Inv2, ActiveMatches
<1>1. CASE UNCHANGED <<state, active>> /\ (pc' = pc \/ pc' \notin {"poll", "functors"})
  BY <1>0, <1>1 DEF ActiveMatches, Live, Up, InEvent
<1>2. CASE \/ UNCHANGED vars \/ Clients \/ WriteToHost
  <2>1. UNCHANGED <<state, active>> /\ (pc' = pc \/ pc' \notin {"poll", "functors"})
    BY <1>2, ClientsFrame DEF vars, serverVars, loopVars, WriteToHost
  <2> QED
    BY <1>1, <2>1
<1>3. CASE BeginPendingFunctors \/ RunFunctor \/ EndPendingFunctors
  <2>1. DOMAIN active' = {}
    BY <1>0, <1>3 DEF BeginPendingFunctors, RunFunctor, EndPendingFunctors
  <2> QED
    BY <2>1 DEF ActiveMatches
<1>4. ASSUME NEW ch, active' = Without(ch), pc' \notin {"poll", "functors"},
             \A d \in Conns : Live(d) => state'[d] = state[d]
      PROVE  ActiveMatches'
  <2>1. ASSUME NEW d \in DOMAIN active' \cap Conns
        PROVE  d \in DOMAIN active \cap Conns /\ active'[d] = active[d]
    BY <1>4 DEF Without
  <2>2. ASSUME NEW d \in DOMAIN active' \cap Conns
        PROVE  Live(d)' /\ (Up(d) \/ InEvent(d))'
    <3>1. d \in Conns /\ Live(d) /\ (Up(d) \/ active'[d] = {"OUT"})
      BY <1>0, <2>1 DEF InEvent
    <3>2. state'[d] = state[d]
      BY <1>4, <3>1
    <3> QED
      BY <3>1, <3>2 DEF Live, Up, InEvent
  <2> QED
    BY <1>4, <2>2 DEF ActiveMatches
<1>5. CASE HandleWakeup
  BY <1>4, <1>5 DEF HandleWakeup, Pick, serverVars
<1>6. CASE HandleAccept
  <2>1. active' = Without(AcceptChannel) /\ pc' = "events"
    BY <1>6 DEF HandleAccept, Pick
  <2>2. \A d \in Conns : Live(d) => state'[d] = state[d]
    <3>1. CASE ~MayAccept
      BY <1>6, <3>1 DEF HandleAccept, serverVars
    <3>2. CASE MayAccept
      <4> PICK b \in Seq(Conns) : b = backlog /\ b # <<>>
        BY <1>0, <1>6 DEF Inv, Types, HandleAccept, Pick
      <4>1. Head(b) = b[1] /\ 1 \in 1 .. Len(b) /\ Head(b) \in Conns
        OBVIOUS
      <4>2. state[Head(b)] = "none"
        BY <1>0, <4>1 DEF Inv, BacklogIsFresh
      <4>3. state' = [state EXCEPT ![Head(b)] = "kConnecting"]
        BY <1>6, <3>2 DEF HandleAccept
      <4> QED
        BY <1>0, <4>1, <4>2, <4>3 DEF Live, Inv, Types
    <3> QED
      BY <3>1, <3>2
  <2> QED
    BY <1>4, <2>1, <2>2
<1>7. ASSUME NEW c \in Conns, HandleWrite(c)
      PROVE  ActiveMatches'
  <2>1. active' = Without(c) /\ state' = state /\ pc' \notin {"poll", "functors"}
    BY <1>7, HandleWriteWrites DEF HandleWrite, Pick
  <2> QED
    BY <1>4, <2>1
<1>8. ASSUME NEW c \in Conns, ReadMessage(c) \/ ReadError(c) \/ ReadEnd(c)
      PROVE  ActiveMatches'
  <2>1. c \in DOMAIN active /\ pc = "events" /\ AfterRead(c)
    BY <1>8 DEF ReadMessage, ReadError, ReadEnd, ReadEvent, Pick
  <2>2. pc' \notin {"poll", "functors"}
    BY <1>8, <2>1, OnMessageWrites DEF ReadMessage, ReadError, ReadEnd
  <2>3. Live(c)' /\ \A d \in Conns \ {c} : state'[d] = state[d]
    <3>1. Live(c) /\ state \in [Conns -> States]
      BY <1>0, <2>1 DEF Inv, Types
    <3>2. UNCHANGED state \/ handleClose(c)
      BY <1>8 DEF ReadMessage, ReadError, ReadEnd, serverVars
    <3>3. UNCHANGED state \/ state' = [state EXCEPT ![c] = "kDisconnected"]
      BY <3>2 DEF handleClose
    <3> QED
      BY <3>1, <3>3 DEF Live
  <2>4. \/ active' = [active EXCEPT ![c] = {"OUT"}]
        \/ active' = Without(c)
    BY <2>1 DEF AfterRead
  <2>5. /\ DOMAIN active' \subseteq DOMAIN active
        /\ \A d \in DOMAIN active' : active'[d] = IF d = c THEN {"OUT"} ELSE active[d]
    BY <2>1, <2>4 DEF Without
  <2>6. ASSUME NEW d \in DOMAIN active' \cap Conns
        PROVE  Live(d)' /\ (Up(d) \/ InEvent(d))'
    <3>1. CASE d = c
      BY <2>3, <2>5, <3>1 DEF InEvent
    <3>2. CASE d # c
      <4>1. state'[d] = state[d] /\ active'[d] = active[d] /\ d \in DOMAIN active \cap Conns
        BY <2>3, <2>5, <3>2
      <4> QED
        BY <1>0, <4>1 DEF Live, Up, InEvent
    <3> QED
      BY <3>1, <3>2
  <2> QED
    BY <2>2, <2>6 DEF ActiveMatches
<1> QED
  BY <1>2, <1>3, <1>5, <1>6, <1>7, <1>8, PollMatches DEF Next, Turn, Ended

(***************************************************************************)
(* The functors: gs are the new ones.                                      *)
(***************************************************************************)
LEMMA LiveStays ==
    ASSUME Types, [Next]_vars, ~EndPendingFunctors, NEW c \in Conns, Live(c), Inv
    PROVE  Live(c)'
<1>1. state'[c] # "destroyed" \/ state'[c] = state[c]
  <2>1. ASSUME NEW d \in Conns, handleClose(d)
        PROVE  state' = state \/ state' = [state EXCEPT ![d] = "kDisconnected"]
    BY <2>1 DEF handleClose
  <2>2. CASE RunFunctor
    <3> PICK d \in Conns : RunOne(Head(functors).op, d)
      <4> PICK a \in Seq(Functors) : a = functors /\ a # <<>>
        BY <2>2 DEF RunFunctor, Types
      <4>1. Head(a) \in Functors
        OBVIOUS
      <4> QED
        BY <2>2, <4>1 DEF RunFunctor, RunOne, Functors
    <3>1. \/ state' = state
          \/ \E s \in {"kDisconnected", "kConnected", "kDisconnecting"} :
                state' = [state EXCEPT ![d] = s]
      BY <2>1 DEF RunOne, connectEstablished, shutdownInLoop, forceCloseInLoop,
                  removeConnectionInLoop, connectDestroyed, serverVars
    <3> QED
      BY <3>1 DEF Types
  <2>3. CASE HandleAccept
    BY <2>3 DEF HandleAccept, Types, serverVars
  <2>4. ASSUME NEW d \in Conns, ReadEnd(d)
        PROVE  state'[c] # "destroyed" \/ state'[c] = state[c]
    BY <2>1, <2>4 DEF ReadEnd, Types
  <2>5. CASE \/ UNCHANGED vars \/ Clients \/ Poll \/ HandleWakeup \/ WriteToHost
             \/ BeginPendingFunctors
             \/ \E d \in Conns : ReadMessage(d) \/ ReadError(d) \/ HandleWrite(d)
    BY <2>5, ClientsFrame
       DEF vars, serverVars, Poll, HandleWakeup, WriteToHost, BeginPendingFunctors,
           ReadMessage, ReadError, HandleWrite
  <2> QED
    BY <2>2, <2>3, <2>4, <2>5 DEF Next, Turn, Ended
<1> QED
  BY <1>1, StateOnward DEF Live, Up

LEMMA QueueLivesOn ==
    ASSUME QueueLives, NEW gs, Waiting' \subseteq Waiting \cup gs,
           \A f \in Waiting : Live(f.conn) => Live(f.conn)',
           \A g \in gs : Live(g.conn)',
           Elements(pending') = Elements(pending) \cup gs,
           \A f \in gs : f.op = "shutdownInLoop" =>
              \E g \in gs : g.op = "forceCloseInLoop" /\ g.conn = f.conn
    PROVE  QueueLives'
<1>1. \A f \in Waiting' : Live(f.conn)'
  BY DEF QueueLives
<1>2. ASSUME NEW f \in Elements(pending'), f.op = "shutdownInLoop"
      PROVE  \E g \in Elements(pending') : g.op = "forceCloseInLoop" /\ g.conn = f.conn
  BY <1>2 DEF QueueLives
<1> QED
  BY <1>1, <1>2 DEF QueueLives, Elements

LEMMA OneQueued ==
    ASSUME Types, NEW op \in Ops, NEW c \in Conns, queueInLoop(<<Functor(op, c)>>)
    PROVE  Elements(pending') = Elements(pending) \cup {Functor(op, c)}
<1> DEFINE g == Functor(op, c)
<1>1. g \in Functors
  BY FunctorType
<1> HIDE DEF g
<1>2. <<g>> \in Seq(Functors) /\ Elements(<<g>>) = {g}
  BY <1>1, ElementsOfFew
<1>3. queueInLoop(<<g>>)
  BY DEF g
<1> QED
  BY <1>2, <1>3, QueueGrows DEF g

\* What closing a connection queues.
LEMMA CloseQueues ==
    ASSUME Types, NEW c \in Conns, handleClose(c)
    PROVE  Elements(pending') =
              Elements(pending) \cup
                 (IF Up(c) THEN {Functor("removeConnectionInLoop", c)} ELSE {})
<1>1. CASE Up(c)
  BY <1>1, OneQueued DEF handleClose, Ops
<1>2. CASE ~Up(c)
  BY <1>2 DEF handleClose
<1> QED
  BY <1>1, <1>2

\* What the first connection callback queues.
LEMMA EstablishQueues ==
    ASSUME Types, NEW c \in Conns, state[c] = "kConnecting", connectEstablished(c)
    PROVE  Elements(pending') =
              Elements(pending) \cup
                 (IF TooMany THEN {Functor("shutdownInLoop", c), Functor("forceCloseInLoop", c)}
                             ELSE {})
<1> DEFINE g == Functor("shutdownInLoop", c)
           h == Functor("forceCloseInLoop", c)
<1>1. g \in Functors /\ h \in Functors
  BY FunctorType DEF Ops
<1>2. queueInLoop(IF TooMany THEN <<g, h>> ELSE <<>>)
  BY DEF connectEstablished
<1> HIDE DEF g, h
<1>3. <<g, h>> \in Seq(Functors) /\ <<>> \in Seq(Functors)
  BY <1>1
<1>4. Elements(<<g, h>>) = {g, h} /\ Elements(<<>>) = {}
  BY ElementsOfFew
<1>5. CASE TooMany
  <2>1. queueInLoop(<<g, h>>)
    BY <1>2, <1>5
  <2>2. Elements(pending') = Elements(pending) \cup {g, h}
    BY <1>3, <1>4, <2>1, QueueGrows
  <2> QED
    BY <1>5, <2>2 DEF g, h
<1>6. CASE ~TooMany
  <2>1. queueInLoop(<<>>)
    BY <1>2, <1>6
  <2>2. Elements(pending') = Elements(pending) \cup {}
    BY <1>3, <1>4, <2>1, QueueGrows
  <2> QED
    BY <1>6, <2>2
<1> QED
  BY <1>5, <1>6

\* What each functor queues, and nothing else waits after it than before.
NewFunctors(f) ==
    CASE f.op = "connectEstablished" ->
           IF TooMany THEN {Functor("shutdownInLoop", f.conn), Functor("forceCloseInLoop", f.conn)}
                      ELSE {}
      [] f.op = "forceCloseInLoop" ->
           IF Up(f.conn) THEN {Functor("removeConnectionInLoop", f.conn)} ELSE {}
      [] f.op = "removeConnectionInLoop" -> {Functor("connectDestroyed", f.conn)}
      [] OTHER -> {}

LEMMA RunQueues ==
    ASSUME Types, NEW f \in Functors, RunOne(f.op, f.conn), Fits(f)
    PROVE  Elements(pending') = Elements(pending) \cup NewFunctors(f)
<1> PICK c \in Conns : c = f.conn
  BY DEF Functors
<1>1. CASE f.op = "connectEstablished" /\ connectEstablished(c)
  <2>1. state[c] = "kConnecting"
    BY <1>1 DEF Fits
  <2> QED
    BY <1>1, <2>1, EstablishQueues DEF NewFunctors
<1>2. CASE f.op = "shutdownInLoop" /\ shutdownInLoop(c)
  BY <1>2 DEF shutdownInLoop, NewFunctors
<1>3. CASE f.op = "forceCloseInLoop" /\ forceCloseInLoop(c)
  BY <1>3, CloseQueues DEF forceCloseInLoop, NewFunctors
<1>4. CASE f.op = "removeConnectionInLoop" /\ removeConnectionInLoop(c)
  BY <1>4, OneQueued DEF removeConnectionInLoop, NewFunctors, Ops
<1>5. CASE f.op = "connectDestroyed" /\ connectDestroyed(c)
  BY <1>5 DEF connectDestroyed, NewFunctors
<1> QED
  BY <1>1, <1>2, <1>3, <1>4, <1>5 DEF RunOne

\* The first functor goes; nothing else of what waited does.
LEMMA WaitingAfterRun ==
    ASSUME NEW f, NEW gs, Elements(functors) = {f} \cup Elements(functors'),
           Elements(pending') = Elements(pending) \cup gs
    PROVE  /\ Waiting' \subseteq Waiting \cup gs
           /\ Waiting \cup gs \subseteq Waiting' \cup {f}
           /\ gs \subseteq Waiting'
<1>1. Waiting' = Elements(functors') \cup Elements(pending')
  BY DEF Waiting, Elements
<1> QED
  BY <1>1 DEF Waiting

\* A step between two turns or outside of the functors.
LEMMA WaitingGrows ==
    ASSUME NEW gs, functors' = functors, Elements(pending') = Elements(pending) \cup gs
    PROVE  Waiting' = Waiting \cup gs
<1>1. Waiting' = Elements(functors') \cup Elements(pending')
  BY DEF Waiting, Elements
<1> QED
  BY <1>1 DEF Waiting

LEMMA WaitingAtSwap ==
    ASSUME Inv, BeginPendingFunctors
    PROVE  Waiting' = Waiting /\ Elements(pending') = {}
<1>1. functors = <<>>
  BY DEF BeginPendingFunctors, Inv, FunctorsAreRun, Ends
<1>2. functors' = pending /\ pending' = <<>>
  BY DEF BeginPendingFunctors
<1>3. Waiting' = Elements(pending) \cup Elements(<<>>) /\ Elements(pending') = Elements(<<>>)
  BY <1>2 DEF Waiting, Elements
<1>4. Waiting = Elements(<<>>) \cup Elements(pending)
  BY <1>1 DEF Waiting
<1> QED
  BY <1>3, <1>4, ElementsOfFew

LEMMA StepQueueLives ==
    ASSUME Inv2, [Next]_vars
    PROVE  QueueLives'
<1>0. Types /\ Inv /\ QueueLives
  BY DEF Inv2, Inv
<1>1. \A f \in Waiting : f.conn \in Conns /\ Live(f.conn)
  BY <1>0, WaitingFits DEF Functors, QueueLives
<1>2. ~EndPendingFunctors => \A f \in Waiting : Live(f.conn)'
  BY <1>0, <1>1, LiveStays
<1>3. CASE RunFunctor
  <2> PICK f \in Functors : /\ RunOne(f.op, f.conn) /\ Fits(f) /\ Live(f.conn)
                            /\ Elements(functors) = {f} \cup Elements(functors')
    BY <1>3, First
  <2>1. f.conn \in Conns /\ f \in Waiting
    BY DEF Functors, Waiting
  <2>2. Live(f.conn)'
    BY <1>2, <1>3, <2>1 DEF RunFunctor, EndPendingFunctors
  <2>3. Elements(pending') = Elements(pending) \cup NewFunctors(f)
    BY <1>0, RunQueues
  <2>4. \A g \in NewFunctors(f) : g.conn = f.conn
    BY DEF NewFunctors, Functor
  <2>5. \A g \in NewFunctors(f) : g.op = "shutdownInLoop" =>
           \E h \in NewFunctors(f) : h.op = "forceCloseInLoop" /\ h.conn = g.conn
    <3> DEFINE h == Functor("forceCloseInLoop", f.conn)
    <3>1. CASE f.op = "connectEstablished" /\ TooMany
      <4>1. h \in NewFunctors(f) /\ h.op = "forceCloseInLoop" /\ h.conn = f.conn
        BY <3>1 DEF NewFunctors, Functor
      <4> QED
        BY <2>4, <4>1
    <3>2. CASE ~(f.op = "connectEstablished" /\ TooMany)
      BY <3>2 DEF NewFunctors, Functor
    <3> QED
      BY <3>1, <3>2
  <2>6. Waiting' \subseteq Waiting \cup NewFunctors(f)
    BY <2>3, WaitingAfterRun
  <2>7. \A g \in NewFunctors(f) : Live(g.conn)'
    BY <2>2, <2>4
  <2>8. \A g \in Waiting : Live(g.conn)'
    BY <1>2, <1>3 DEF RunFunctor, EndPendingFunctors
  <2> DEFINE gs == NewFunctors(f)
  <2> HIDE DEF gs
  <2> QED
    BY <1>0, <2>3, <2>5, <2>6, <2>7, <2>8, QueueLivesOn
<1>4. CASE BeginPendingFunctors
  <2>1. Waiting' = Waiting /\ Elements(pending') = {}
    BY <1>0, <1>4, WaitingAtSwap
  <2>2. \A f \in Waiting' : Live(f.conn)'
    BY <1>2, <1>4, <2>1 DEF BeginPendingFunctors, EndPendingFunctors
  <2> QED
    BY <2>1, <2>2 DEF QueueLives, Elements
<1>5. CASE EndPendingFunctors
  <2> PICK q \in Seq(Functors) : q = pending
    BY <1>0 DEF Types
  <2>1. UNCHANGED <<pending, functors>> /\ functors = <<>>
    BY <1>5 DEF EndPendingFunctors
  <2>2. Waiting = Elements(q)
    BY <2>1, ElementsOfFew DEF Waiting
  <2>3. ASSUME NEW f \in Elements(q)
        PROVE  f.conn \notin Unreferenced
    <3>1. PICK i \in 1 .. Len(q) : f = q[i]
      BY <2>3 DEF Elements
    <3>2. CASE Shares(f)
      BY <3>1, <3>2 DEF Unreferenced
    <3>3. CASE ~Shares(f)
      <4> PICK g \in Elements(q) : g.op = "forceCloseInLoop" /\ g.conn = f.conn
        BY <1>0, <3>3 DEF QueueLives, Shares
      <4>1. PICK j \in 1 .. Len(q) : g = q[j]
        BY DEF Elements
      <4> QED
        BY <4>1 DEF Unreferenced, Shares
    <3> QED
      BY <3>2, <3>3
  <2>4. \A f \in Waiting : state'[f.conn] = state[f.conn]
    BY <1>1, <1>5, <2>2, <2>3 DEF EndPendingFunctors
  <2>5. Waiting' = Waiting /\ Elements(pending') = Elements(pending)
    BY <2>1 DEF Waiting, Elements
  <2>6. \A f \in Waiting' : Live(f.conn)'
    BY <1>1, <2>4, <2>5 DEF Live
  <2> QED
    BY <1>0, <2>5, <2>6 DEF QueueLives, Elements
<1>6. ASSUME NEW gs, functors' = functors, ~EndPendingFunctors,
             Elements(pending') = Elements(pending) \cup gs,
             \A g \in gs : g.conn \in Conns /\ Live(g.conn)' /\ g.op # "shutdownInLoop"
      PROVE  QueueLives'
  <2>1. Waiting' = Waiting \cup gs
    BY <1>6, WaitingGrows
  <2> QED
    BY <1>0, <1>2, <1>6, <2>1, QueueLivesOn
<1>7. CASE HandleAccept /\ MayAccept
  <2> PICK c \in Conns : c = Head(backlog)
    <3> PICK b \in Seq(Conns) : b = backlog /\ b # <<>>
      BY <1>0, <1>7 DEF Types, HandleAccept, Pick
    <3> QED
      OBVIOUS
  <2> DEFINE g == Functor("connectEstablished", c)
  <2>1. Elements(pending') = Elements(pending) \cup {g}
    BY <1>0, <1>7, OneQueued DEF HandleAccept, Ops
  <2>2. g.conn \in Conns /\ Live(g.conn)' /\ g.op # "shutdownInLoop"
    BY <1>0, <1>7 DEF HandleAccept, Functor, Live, Types
  <2>3. functors' = functors /\ ~EndPendingFunctors
    BY <1>7 DEF HandleAccept, Pick, EndPendingFunctors
  <2> HIDE DEF g
  <2> PICK gs : gs = {g}
    OBVIOUS
  <2> QED
    BY <1>6, <2>1, <2>2, <2>3
<1>8. ASSUME NEW c \in Conns, ReadEnd(c)
      PROVE  QueueLives'
  <2> PICK gs : gs = IF Up(c) THEN {Functor("removeConnectionInLoop", c)} ELSE {}
    OBVIOUS
  <2>1. Elements(pending') = Elements(pending) \cup gs
    BY <1>0, <1>8, CloseQueues DEF ReadEnd
  <2>2. functors' = functors /\ ~EndPendingFunctors
    BY <1>8 DEF ReadEnd, ReadEvent, Pick, EndPendingFunctors
  <2>3. \A g \in gs : g.conn \in Conns /\ Live(g.conn)' /\ g.op # "shutdownInLoop"
    <3>1. Up(c) => Live(c)'
      BY <1>0, <2>2, LiveStays DEF Up, Live
    <3> QED
      BY <3>1 DEF Functor
  <2> QED
    BY <1>6, <2>1, <2>2, <2>3
<1>9. CASE \/ UNCHANGED vars \/ Clients \/ Poll \/ HandleWakeup \/ WriteToHost
           \/ HandleAccept /\ ~MayAccept
           \/ \E c \in Conns : ReadMessage(c) \/ ReadError(c) \/ HandleWrite(c)
  <2>1. UNCHANGED <<state, functors, pending>>
    BY <1>9, ClientsFrame
       DEF vars, serverVars, loopVars, Poll, HandleWakeup, WriteToHost, HandleAccept,
           ReadMessage, ReadError, HandleWrite
  <2> QED
    BY <1>0, <2>1 DEF QueueLives, Waiting, Elements, Live
<1> QED
  BY <1>3, <1>4, <1>5, <1>7, <1>8, <1>9 DEF Next, Turn, Ended

(***************************************************************************)
(* Only c may lose its removal, or have its channel change what the poller *)
(* knows of it.                                                            *)
(***************************************************************************)
LEMMA LeavingOn ==
    ASSUME Leaving, NEW c,
           \A d \in Conns \ {c} : state'[d] = "kDisconnected" =>
              state[d] = "kDisconnected" /\ poller'.index[d] = poller.index[d],
           \A f \in Waiting : f.conn # c => f \in Waiting',
           c \in Conns /\ state'[c] = "kDisconnected" =>
              poller'.index[c] = "cNew" \/ \E f \in Waiting' : Leaves(f, c)
    PROVE  Leaving'
<1>1. ASSUME NEW d \in Conns, state'[d] = "kDisconnected"
      PROVE  poller'.index[d] = "cNew" \/ \E f \in Waiting' : Leaves(f, d)
  <2>1. CASE d = c
    BY <1>1, <2>1
  <2>2. CASE d # c
    <3>1. state[d] = "kDisconnected" /\ poller'.index[d] = poller.index[d]
      BY <1>1, <2>2
    <3>2. CASE poller.index[d] = "cNew"
      BY <3>1, <3>2
    <3>3. ASSUME NEW f \in Waiting, Leaves(f, d)
          PROVE  f \in Waiting'
      BY <2>2, <3>3 DEF Leaves
    <3> QED
      BY <3>1, <3>2, <3>3 DEF Leaving
  <2> QED
    BY <2>1, <2>2
<1> QED
  BY <1>1 DEF Leaving, Leaves

\* A connection that is closed has its removal queued.
LEMMA CloseLeaves ==
    ASSUME Types, PollerMatches, Leaving, NEW c \in Conns, handleClose(c),
           Elements(pending') \subseteq Waiting',
           \A f \in Waiting : f.op = "forceCloseInLoop" \/ f \in Waiting'
    PROVE  Leaving'
<1>0. \A f \in Waiting : f.op \in {"removeConnectionInLoop", "connectDestroyed"} => f \in Waiting'
  OBVIOUS
<1>1. CASE Up(c)
  <2> DEFINE g == Functor("removeConnectionInLoop", c)
  <2>1. g \in Waiting' /\ Leaves(g, c)
    BY <1>1, CloseQueues DEF Functor, Leaves
  <2>2. /\ \A d \in Conns \ {c} : state'[d] = state[d] /\ poller'.index[d] = poller.index[d]
    BY <1>1, CloseMatches DEF handleClose, Types, OnlyFor
  <2> HIDE DEF g
  <2>3. ASSUME NEW d \in Conns, state'[d] = "kDisconnected"
        PROVE  poller'.index[d] = "cNew" \/ \E f \in Waiting' : Leaves(f, d)
    <3>1. CASE d = c
      BY <2>1, <3>1
    <3>2. CASE d # c
      BY <1>0, <2>2, <2>3, <3>2 DEF Leaving, Leaves
    <3> QED
      BY <3>1, <3>2
  <2> QED
    BY <2>3 DEF Leaving, Leaves
<1>2. CASE ~Up(c)
  <2>1. UNCHANGED <<state, poller>>
    BY <1>2 DEF handleClose
  <2> QED
    BY <1>0, <2>1 DEF Leaving, Leaves
<1> QED
  BY <1>1, <1>2

LEMMA RunLeaves ==
    ASSUME Inv2, NEW f \in Functors, RunOne(f.op, f.conn), Fits(f),
           Elements(functors) = {f} \cup Elements(functors')
    PROVE  Leaving'
<1> PICK c \in Conns : c = f.conn
  BY DEF Functors
<1> PICK gs : gs = NewFunctors(f)
  OBVIOUS
<1>0. Types /\ PollerMatches /\ Leaving /\ state \in [Conns -> States]
  BY DEF Inv2, Inv, Types
<1>1. /\ Elements(pending') = Elements(pending) \cup gs
      /\ Waiting \cup gs \subseteq Waiting' \cup {f}
      /\ gs \subseteq Waiting'
  <2>1. Elements(pending') = Elements(pending) \cup gs
    BY <1>0, RunQueues
  <2> QED
    BY <2>1, WaitingAfterRun
<1>2. \A g \in Waiting : g.conn # c => g \in Waiting'
  BY <1>1
<1>3. CASE f.op = "connectEstablished" /\ connectEstablished(c)
  <2>1. state[c] = "kConnecting"
    BY <1>3 DEF Fits
  <2>2. /\ state'[c] # "kDisconnected" /\ \A d \in Conns \ {c} : state'[d] = state[d]
        /\ \A d \in Conns \ {c} : poller'.index[d] = poller.index[d]
    BY <1>0, <1>3, <2>1, EstablishMatches DEF connectEstablished, OnlyFor
  <2> QED
    BY <1>0, <1>2, <2>2, LeavingOn
<1>4. CASE f.op = "shutdownInLoop" /\ shutdownInLoop(c)
  <2>1. UNCHANGED <<state, poller>>
    BY <1>4 DEF shutdownInLoop, serverVars
  <2>2. \A g \in Waiting : g.op # "shutdownInLoop" => g \in Waiting'
    BY <1>1, <1>4
  <2> QED
    BY <1>0, <2>1, <2>2 DEF Leaving, Leaves
<1>5. CASE f.op = "forceCloseInLoop" /\ forceCloseInLoop(c)
  <2>1. handleClose(c)
    BY <1>5 DEF forceCloseInLoop
  <2>2. /\ Elements(pending') \subseteq Waiting'
        /\ \A g \in Waiting : g.op = "forceCloseInLoop" \/ g \in Waiting'
    BY <1>1, <1>5 DEF Waiting, Elements
  <2> QED
    BY <1>0, <2>1, <2>2, CloseLeaves
<1>6. CASE f.op = "removeConnectionInLoop" /\ removeConnectionInLoop(c)
  <2> DEFINE g == Functor("connectDestroyed", c)
  <2>1. UNCHANGED <<state, poller>>
    BY <1>6 DEF removeConnectionInLoop
  <2>2. g \in Waiting' /\ Leaves(g, c)
    BY <1>1, <1>6 DEF NewFunctors, Functor, Leaves
  <2> HIDE DEF g
  <2> QED
    BY <1>0, <1>2, <2>1, <2>2, LeavingOn
<1>7. CASE f.op = "connectDestroyed" /\ connectDestroyed(c)
  <2>1. state[c] = "kDisconnected" /\ state' = state
    BY <1>7 DEF Fits, connectDestroyed
  <2>2. poller'.index[c] = "cNew" /\ \A d \in Conns \ {c} : poller'.index[d] = poller.index[d]
    BY <1>0, <1>7, <2>1, DestroyedMatches DEF OnlyFor
  <2> QED
    BY <1>0, <1>2, <2>1, <2>2, LeavingOn
<1> QED
  BY <1>3, <1>4, <1>5, <1>6, <1>7 DEF RunOne

LEMMA StepLeaving ==
    ASSUME Inv2, [Next]_vars
    PROVE  Leaving'
<1>0. Types /\ PollerMatches /\ Leaving /\ Inv /\ state \in [Conns -> States]
  BY DEF Inv2, Inv, Types
<1>1. ASSUME \A d \in Conns : state'[d] = "kDisconnected" =>
                state[d] = "kDisconnected" /\ poller'.index[d] = poller.index[d],
             Waiting \subseteq Waiting'
      PROVE  Leaving'
  BY <1>0, <1>1 DEF Leaving, Leaves
<1>2. UNCHANGED <<functors, pending>> => Waiting' = Waiting
  BY DEF Waiting, Elements
<1>3. CASE RunFunctor
  BY <1>3, First, RunLeaves
<1>4. CASE BeginPendingFunctors
  BY <1>0, <1>1, <1>4, WaitingAtSwap DEF BeginPendingFunctors, serverVars
<1>5. CASE EndPendingFunctors
  <2>1. UNCHANGED <<functors, pending>> /\ poller'.index = poller.index
    BY <1>0, <1>5 DEF EndPendingFunctors, CloseFds, Types, Pollers
  <2>2. \A d \in Conns : state'[d] = "kDisconnected" => state[d] = "kDisconnected"
    BY <1>5 DEF EndPendingFunctors
  <2> QED
    BY <1>1, <1>2, <2>1, <2>2
<1>6. CASE HandleAccept
  <2>1. CASE ~MayAccept
    BY <1>1, <1>2, <1>6, <2>1 DEF HandleAccept, serverVars
  <2>2. CASE MayAccept
    <3> PICK c \in Conns : c = Head(backlog)
      <4> PICK b \in Seq(Conns) : b = backlog /\ b # <<>>
        BY <1>0, <1>6 DEF Types, HandleAccept, Pick
      <4> QED
        OBVIOUS
    <3>1. /\ state' = [state EXCEPT ![c] = "kConnecting"]
          /\ \A d \in Conns \ {c} : poller'.index[d] = poller.index[d]
      BY <1>0, <1>6, <2>2, AcceptedChannel DEF HandleAccept, MayAccept
    <3> PICK gs : gs = {Functor("connectEstablished", c)}
      OBVIOUS
    <3>2. Elements(pending') = Elements(pending) \cup gs
      BY <1>0, <1>6, <2>2, OneQueued DEF HandleAccept, Ops
    <3>3. Waiting \subseteq Waiting'
      BY <1>6, <3>2, WaitingGrows DEF HandleAccept
    <3> QED
      BY <1>0, <1>1, <3>1, <3>3
  <2> QED
    BY <2>1, <2>2
<1>7. ASSUME NEW c \in Conns, ReadEnd(c)
      PROVE  Leaving'
  <2> PICK gs : gs = IF Up(c) THEN {Functor("removeConnectionInLoop", c)} ELSE {}
    OBVIOUS
  <2>1. Elements(pending') = Elements(pending) \cup gs /\ functors' = functors /\ handleClose(c)
    BY <1>0, <1>7, CloseQueues DEF ReadEnd
  <2>2. Waiting' = Waiting \cup gs
    BY <2>1, WaitingGrows
  <2>3. Elements(pending') \subseteq Waiting'
    BY <2>1, <2>2 DEF Waiting
  <2> QED
    BY <1>0, <2>1, <2>2, <2>3, CloseLeaves
<1>8. ASSUME NEW c \in Conns, ReadMessage(c)
      PROVE  Leaving'
  <2>1. onMessage /\ UNCHANGED <<state, functors, pending>>
    BY <1>8 DEF ReadMessage
  <2>2. \A d \in Conns : poller'.index[d] = poller.index[d]
    BY <1>0, <2>1, OnMessageWrites, BufferMatches
  <2> QED
    BY <1>1, <1>2, <2>1, <2>2
<1>9. CASE WriteToHost
  <2>1. UNCHANGED <<state, functors, pending>>
    BY <1>9 DEF WriteToHost
  <2>2. \A d \in Conns : poller'.index[d] = poller.index[d]
    BY <1>0, <1>9, <2>1, WriteToHostWrites, BufferMatches
  <2> QED
    BY <1>1, <1>2, <2>1, <2>2
<1>10. ASSUME NEW c \in Conns, HandleWrite(c)
       PROVE  Leaving'
  BY <1>1, <1>2, <1>10, HandleWriteWrites DEF HandleWrite
<1>11. CASE \/ UNCHANGED vars \/ Clients \/ Poll \/ HandleWakeup \/ \E c \in Conns : ReadError(c)
  <2>1. UNCHANGED <<state, poller, functors, pending>>
    BY <1>11, ClientsFrame DEF vars, serverVars, loopVars, Poll, HandleWakeup, ReadError
  <2> QED
    BY <1>1, <1>2, <2>1
<1> QED
  BY <1>3, <1>4, <1>5, <1>6, <1>7, <1>8, <1>9, <1>10, <1>11 DEF Next, Turn, Ended

(***************************************************************************)
(* The clients that are lost.  Most steps change no client's end of the    *)
(* connection, and keep back data only for a client that is lost.          *)
(***************************************************************************)
SamePeers ==
    \A d \in Conns : /\ sock'[d].peer = sock[d].peer
                     /\ sock'[d].err \in {sock[d].err, "none"}

OutputForLost ==
    \A d \in Conns :
        isWriting(poller', d) \/ d \in outputBuffer' =>
            \/ isWriting(poller, d) \/ d \in outputBuffer
            \/ sock[d].peer = "lost" /\ state[d] # "none"

LEMMA LossesOn ==
    ASSUME Inv2, [Next]_vars, ~EndPendingFunctors, SamePeers, OutputForLost
    PROVE  Losses'
<1>0. Inv /\ Types /\ Losses
  BY DEF Inv2, Inv
<1>1. ASSUME NEW d \in Conns
      PROVE  /\ state'[d] = "destroyed" <=> state[d] = "destroyed"
             /\ state[d] # "none" => state'[d] # "none"
  BY <1>0, StateOnward, LiveStays DEF Live, Up
<1>2. ASSUME NEW d \in Conns
      PROVE  /\ sock[d].err = "ETIMEDOUT" => sock[d].peer = "lost"
             /\ sock[d].peer = "gone" <=> state[d] = "destroyed"
             /\ isWriting(poller, d) \/ d \in outputBuffer =>
                   sock[d].peer \in {"lost", "gone"} /\ state[d] # "none"
  BY <1>0 DEF Losses
<1>3. ASSUME NEW d \in Conns
      PROVE  /\ sock'[d].err = "ETIMEDOUT" => sock'[d].peer = "lost"
             /\ sock'[d].peer = "gone" <=> state'[d] = "destroyed"
             /\ isWriting(poller', d) \/ d \in outputBuffer' =>
                   sock'[d].peer \in {"lost", "gone"} /\ state'[d] # "none"
  BY <1>1, <1>2 DEF SamePeers, OutputForLost
<1> QED
  BY <1>3 DEF Losses, isWriting

LEMMA OneSocket ==
    ASSUME Types, NEW c \in Conns,
           \/ sock' = sock
           \/ \E n : sock' = [sock EXCEPT ![c].inq = n] \/ sock' = [sock EXCEPT ![c].outq = n]
           \/ sock' = [sock EXCEPT ![c].err = "none"]
           \/ sock' = [sock EXCEPT ![c].shutWr = TRUE]
    PROVE  SamePeers
<1>1. sock \in [Conns -> UnboundedSockets]
  BY DEF Types
<1> QED
  BY <1>1 DEF SamePeers, UnboundedSockets

LEMMA BufferForLost ==
    ASSUME Types, PollerMatches, NEW h \in Conns, Up(h), BufferOutput(h), UNCHANGED state,
           sock[h].peer = "lost"
    PROVE  OutputForLost
<1>1. \A d \in Conns \ {h} : poller'.events[d] = poller.events[d]
  BY BufferMatches
<1>2. \A d \in outputBuffer' : d = h \/ d \in outputBuffer
  BY DEF BufferOutput
<1> QED
  BY <1>1, <1>2 DEF OutputForLost, isWriting, Up

LEMMA CloseForLost ==
    ASSUME Types, PollerMatches, NEW c \in Conns, handleClose(c), UNCHANGED outputBuffer
    PROVE  OutputForLost
<1>1. CASE Up(c)
  <2>1. OnlyFor(c, poller, poller') /\ poller'.events[c] = {}
    BY <1>1, CloseMatches
  <2> QED
    BY <2>1 DEF OutputForLost, isWriting, OnlyFor
<1>2. CASE ~Up(c)
  BY <1>2 DEF handleClose, OutputForLost
<1> QED
  BY <1>1, <1>2

LEMMA ClientLosses ==
    ASSUME Inv2, Clients
    PROVE  Losses'
<1> PICK c \in Conns :
       Connect(c) \/ Send(c) \/ Receive(c) \/ Close(c) \/ Abort(c) \/ Refuse(c) \/ GiveUp(c)
  BY DEF Clients
<1>0. Types /\ Losses /\ sock \in [Conns -> UnboundedSockets] /\ sock[c] \in UnboundedSockets
  BY DEF Inv2, Inv, Types
<1>1. UNCHANGED <<state, poller, outputBuffer>>
  BY ClientsFrame DEF serverVars
<1>2. CASE Send(c) \/ Receive(c)
  <2>1. SamePeers
    BY <1>0, <1>2, OneSocket DEF Send, Receive
  <2>2. OutputForLost
    BY <1>1 DEF OutputForLost
  <2>3. [Next]_vars /\ ~EndPendingFunctors
    BY <1>1, <1>2 DEF Next, Clients, Send, Receive, EndPendingFunctors, loopVars
  <2> QED
    BY <2>1, <2>2, <2>3, LossesOn
<1>3. ASSUME \A d \in Conns \ {c} : sock'[d] = sock[d],
             sock[c].peer \in {"none", "connected", "closed"}, sock'[c].peer # "gone",
             sock'[c].err = "ETIMEDOUT" => sock'[c].peer = "lost"
      PROVE  Losses'
  <2>1. ASSUME NEW d \in Conns
        PROVE  /\ sock'[d].err = "ETIMEDOUT" => sock'[d].peer = "lost"
               /\ sock'[d].peer = "gone" <=> state'[d] = "destroyed"
               /\ isWriting(poller', d) \/ d \in outputBuffer' =>
                     sock'[d].peer \in {"lost", "gone"} /\ state'[d] # "none"
    <3>1. CASE d = c
      <4>1. state[c] # "destroyed" /\ ~isWriting(poller, c) /\ c \notin outputBuffer
        BY <1>0, <1>3 DEF Losses
      <4> QED
        BY <1>1, <1>3, <3>1, <4>1
    <3>2. CASE d # c
      BY <1>0, <1>1, <1>3, <3>2 DEF Losses
    <3> QED
      BY <3>1, <3>2
  <2> QED
    BY <2>1 DEF Losses, isWriting
<1>4. CASE Connect(c) \/ Close(c)
  <2>1. /\ \A d \in Conns \ {c} : sock'[d] = sock[d]
        /\ sock[c].peer \in {"none", "connected", "closed"}
        /\ sock'[c].peer \in {"connected", "closed"} /\ sock'[c].err = sock[c].err
    BY <1>0, <1>4 DEF Connect, Close, UnboundedSockets
  <2>2. sock[c].err # "ETIMEDOUT"
    BY <1>0, <2>1 DEF Losses
  <2> QED
    BY <1>3, <2>1, <2>2
<1>5. CASE Abort(c) \/ Refuse(c) \/ GiveUp(c)
  <2>1. PICK p \in {"reset", "lost"}, e \in {"ECONNRESET", "EPIPE", "ETIMEDOUT"} :
           /\ sock' = [sock EXCEPT ![c].peer = p, ![c].err = e, ![c].outq = 0]
           /\ e = "ETIMEDOUT" => p = "lost"
           /\ sock[c].peer \in {"connected", "closed"}
    BY <1>5 DEF Abort, Refuse, GiveUp
  <2>2. /\ \A d \in Conns \ {c} : sock'[d] = sock[d]
        /\ sock'[c].peer = p /\ sock'[c].err = e
    BY <1>0, <2>1 DEF UnboundedSockets
  <2> QED
    BY <1>3, <2>1, <2>2
<1> QED
  BY <1>2, <1>4, <1>5

LEMMA EndLosses ==
    ASSUME Inv2, EndPendingFunctors
    PROVE  Losses'
<1>0. Types /\ Losses /\ poller \in Pollers
  BY DEF Inv2, Inv, Types
<1>1. outputBuffer' = outputBuffer /\ poller'.events = poller.events
  BY <1>0 DEF EndPendingFunctors, CloseFds, Pollers
<1>2. ASSUME NEW d \in Conns
      PROVE  /\ sock'[d].err = "ETIMEDOUT" => sock'[d].peer = "lost"
             /\ sock'[d].peer = "gone" <=> state'[d] = "destroyed"
             /\ isWriting(poller', d) \/ d \in outputBuffer' =>
                   sock'[d].peer \in {"lost", "gone"} /\ state'[d] # "none"
  <2>1. CASE d \in Unreferenced
    <3>1. state'[d] = "destroyed" /\ sock'[d].peer = "gone" /\ sock'[d].err = "none"
      BY <2>1 DEF EndPendingFunctors, NewSocket
    <3> QED
      BY <3>1
  <2>2. CASE d \notin Unreferenced
    <3>1. state'[d] = state[d] /\ sock'[d] = sock[d]
      BY <2>2 DEF EndPendingFunctors
    <3> QED
      BY <1>0, <1>1, <3>1 DEF Losses, isWriting
  <2> QED
    BY <2>1, <2>2
<1> QED
  BY <1>2 DEF Losses, isWriting

LEMMA RunLosses ==
    ASSUME Inv2, NEW f \in Functors, RunOne(f.op, f.conn), Fits(f)
    PROVE  SamePeers /\ OutputForLost
<1> PICK c \in Conns : c = f.conn
  BY DEF Functors
<1>0. Types /\ PollerMatches
  BY DEF Inv2, Inv
<1>1. CASE f.op = "connectEstablished" /\ connectEstablished(c)
  <2>1. state[c] = "kConnecting"
    BY <1>1 DEF Fits
  <2>2. /\ OnlyFor(c, poller, poller') /\ poller'.events[c] = {"IN"}
        /\ UNCHANGED <<outputBuffer, sock>>
    BY <1>0, <1>1, <2>1, EstablishMatches DEF connectEstablished
  <2> QED
    BY <2>2 DEF SamePeers, OutputForLost, isWriting, OnlyFor
<1>2. CASE f.op = "shutdownInLoop" /\ shutdownInLoop(c)
  <2>1. SamePeers
    BY <1>0, <1>2, OneSocket DEF shutdownInLoop
  <2> QED
    BY <1>2, <2>1 DEF shutdownInLoop, serverVars, OutputForLost
<1>3. CASE f.op = "forceCloseInLoop" /\ forceCloseInLoop(c)
  BY <1>0, <1>3, CloseForLost DEF forceCloseInLoop, SamePeers
<1>4. CASE f.op = "removeConnectionInLoop" /\ removeConnectionInLoop(c)
  BY <1>4 DEF removeConnectionInLoop, SamePeers, OutputForLost
<1>5. CASE f.op = "connectDestroyed" /\ connectDestroyed(c)
  <2>1. state[c] = "kDisconnected"
    BY <1>5 DEF Fits
  <2>2. /\ OnlyFor(c, poller, poller') /\ poller'.events[c] = {}
        /\ UNCHANGED <<outputBuffer, sock>>
    BY <1>0, <1>5, <2>1, DestroyedMatches DEF connectDestroyed
  <2> QED
    BY <2>2 DEF SamePeers, OutputForLost, isWriting, OnlyFor
<1> QED
  BY <1>1, <1>2, <1>3, <1>4, <1>5 DEF RunOne

LEMMA StepLosses ==
    ASSUME Inv2, [Next]_vars
    PROVE  Losses'
<1>0. Types /\ PollerMatches /\ Losses
  BY DEF Inv2, Inv
<1>1. ASSUME pc # "functors" \/ functors # <<>>, SamePeers, OutputForLost
      PROVE  Losses'
  BY <1>1, LossesOn DEF EndPendingFunctors
<1>2. CASE RunFunctor
  <2>1. SamePeers /\ OutputForLost
    BY <1>2, First, RunLosses
  <2> QED
    BY <1>1, <1>2, <2>1 DEF RunFunctor
<1>3. CASE HandleAccept
  <2>1. SamePeers /\ pc # "functors"
    BY <1>3 DEF HandleAccept, Pick, SamePeers
  <2>2. CASE ~MayAccept
    BY <1>1, <1>3, <2>1, <2>2 DEF HandleAccept, serverVars, OutputForLost
  <2>3. CASE MayAccept
    <3> PICK c \in Conns : c = Head(backlog)
      <4> PICK b \in Seq(Conns) : b = backlog /\ b # <<>>
        BY <1>0, <1>3 DEF Types, HandleAccept, Pick
      <4> QED
        OBVIOUS
    <3>1. /\ poller'.events[c] = {}
          /\ \A d \in Conns \ {c} : poller'.events[d] = poller.events[d]
          /\ outputBuffer' = outputBuffer
      BY <1>0, <1>3, <2>3, AcceptedChannel DEF HandleAccept, MayAccept
    <3>2. OutputForLost
      BY <3>1 DEF OutputForLost, isWriting
    <3> QED
      BY <1>1, <2>1, <3>2
  <2> QED
    BY <2>2, <2>3
<1>4. ASSUME NEW c \in Conns, ReadEnd(c)
      PROVE  Losses'
  <2>1. handleClose(c) /\ UNCHANGED <<outputBuffer, sock>> /\ pc # "functors"
    BY <1>4 DEF ReadEnd, ReadEvent, Pick, netVars
  <2> QED
    BY <1>0, <1>1, <2>1, CloseForLost DEF SamePeers
<1>5. ASSUME NEW c \in Conns, ReadMessage(c)
      PROVE  Losses'
  <2>1. onMessage /\ state' = state /\ pc = "events"
    BY <1>5 DEF ReadMessage, ReadEvent, Pick
  <2>2. OutputForLost
    BY <1>0, <2>1, OnMessageWrites, BufferForLost DEF OutputForLost
  <2>3. SamePeers
    BY <1>0, <1>5, OneSocket DEF ReadMessage
  <2> QED
    BY <1>1, <2>1, <2>2, <2>3
<1>6. CASE WriteToHost
  <2>1. state' = state /\ pc = "send"
    BY <1>6 DEF WriteToHost
  <2>2. OutputForLost
    BY <1>0, <1>6, <2>1, WriteToHostWrites, BufferForLost DEF OutputForLost
  <2>3. SamePeers
    <3> PICK h \in Conns : h = hostPtr
      BY <1>6, WriteToHostWrites
    <3> QED
      BY <1>0, <1>6, OneSocket DEF WriteToHost
  <2> QED
    BY <1>1, <2>1, <2>2, <2>3
<1>7. ASSUME NEW c \in Conns, HandleWrite(c)
      PROVE  Losses'
  <2>1. UNCHANGED <<poller, outputBuffer>> /\ SamePeers /\ pc = "events"
    BY <1>0, <1>7, HandleWriteWrites, OneSocket DEF HandleWrite, Pick
  <2> QED
    BY <1>1, <2>1 DEF OutputForLost
<1>8. ASSUME NEW c \in Conns, ReadError(c)
      PROVE  Losses'
  <2>1. UNCHANGED <<poller, outputBuffer>> /\ SamePeers /\ pc = "events"
    BY <1>0, <1>8, OneSocket DEF ReadError, ReadEvent, Pick, serverVars
  <2> QED
    BY <1>1, <2>1 DEF OutputForLost
<1>9. CASE UNCHANGED vars
  BY <1>0, <1>9 DEF vars, serverVars, netVars, Losses
<1>10. CASE Poll \/ HandleWakeup \/ BeginPendingFunctors
  <2>1. UNCHANGED <<state, poller, outputBuffer, sock>>
    BY <1>10 DEF Poll, HandleWakeup, BeginPendingFunctors, serverVars, netVars
  <2> QED
    BY <1>0, <2>1 DEF Losses
<1> QED
  BY <1>2, <1>3, <1>4, <1>5, <1>6, <1>7, <1>8, <1>9, <1>10, ClientLosses, EndLosses
     DEF Next, Turn, Ended

(***************************************************************************)
(* The remaining types.                                                    *)
(***************************************************************************)
ActiveType ==
    /\ DOMAIN active \subseteq Conns \cup {AcceptChannel, WakeupChannel}
    /\ active \in [DOMAIN active -> SUBSET {"IN", "OUT", "HUP", "ERR"}]

SocketsBounded == \A c \in Conns : sock[c].inq <= MaxIn /\ sock[c].outq <= MaxOut

LEMMA StepActiveType ==
    ASSUME Types, ActiveType, [Next]_vars
    PROVE  ActiveType'
<1>1. CASE UNCHANGED active
  BY <1>1 DEF ActiveType
<1>2. CASE Poll
  <2>1. \A entry \in Registered : entry.channel \in Conns
    BY DEF Registered, Types, Pollers, Interest
  <2>2. Readable \subseteq Conns \cup {AcceptChannel, WakeupChannel}
    BY <2>1 DEF Readable
  <2>3. \A entry : Revents(entry) \subseteq {"IN", "OUT", "HUP", "ERR"}
    BY DEF Revents
  <2>4. \A ch : EventsOf(ch) \in SUBSET {"IN", "OUT", "HUP", "ERR"}
    BY <2>3 DEF EventsOf
  <2>5. active' = [ch \in Readable |-> EventsOf(ch)]
    BY <1>2 DEF Poll
  <2> QED
    BY <2>2, <2>4, <2>5 DEF ActiveType
<1>3. ASSUME NEW ch, active' = Without(ch)
      PROVE  ActiveType'
  BY <1>3 DEF ActiveType, Without
<1>4. ASSUME NEW c \in Conns, ReadMessage(c) \/ ReadError(c) \/ ReadEnd(c)
      PROVE  ActiveType'
  <2>1. active' = [active EXCEPT ![c] = {"OUT"}] \/ active' = Without(c)
    BY <1>4 DEF ReadMessage, ReadError, ReadEnd, AfterRead
  <2>2. CASE active' = [active EXCEPT ![c] = {"OUT"}]
    BY <2>2 DEF ActiveType
  <2> QED
    BY <1>3, <2>1, <2>2
<1>5. CASE \/ HandleWakeup \/ HandleAccept \/ \E c \in Conns : HandleWrite(c)
  BY <1>3, <1>5 DEF HandleWakeup, HandleAccept, HandleWrite
<1>6. CASE \/ UNCHANGED vars \/ Clients \/ WriteToHost \/ BeginPendingFunctors \/ RunFunctor
           \/ EndPendingFunctors
  <2>1. UNCHANGED active
    BY <1>6, ClientsFrame
       DEF vars, loopVars, WriteToHost, BeginPendingFunctors, RunFunctor, EndPendingFunctors
  <2> QED
    BY <1>1, <2>1
<1> QED
  BY <1>2, <1>4, <1>5, <1>6 DEF Next, Turn, Ended

LEMMA StepBounded ==
    ASSUME Inv2, [Next]_vars
    PROVE  SocketsBounded'
<1>0. /\ Types /\ SocketsBounded /\ sock \in [Conns -> UnboundedSockets]
      /\ MaxIn \in Nat /\ MaxOut \in Nat
  BY ConstantsAssumption DEF Inv2, Inv, Types, OtherTypes, SocketsBounded
<1>1. ASSUME NEW c \in Conns,
             \A d \in Conns \ {c} : sock'[d] = sock[d],
             sock'[c].inq <= MaxIn, sock'[c].outq <= MaxOut
      PROVE  SocketsBounded'
  BY <1>0, <1>1 DEF SocketsBounded
<1>2. CASE sock' = sock
  BY <1>0, <1>2 DEF SocketsBounded
<1>3. ASSUME NEW c \in Conns,
             \/ \E n \in Nat : n <= MaxIn /\ sock' = [sock EXCEPT ![c].inq = n]
             \/ \E n \in Nat : n <= MaxOut /\ sock' = [sock EXCEPT ![c].outq = n]
             \/ sock' = [sock EXCEPT ![c].err = "none"]
             \/ sock' = [sock EXCEPT ![c].shutWr = TRUE]
             \/ \E p \in {"connected", "closed"} : sock' = [sock EXCEPT ![c].peer = p]
             \/ \E p, e : sock' = [sock EXCEPT ![c].peer = p, ![c].err = e, ![c].outq = 0]
      PROVE  SocketsBounded'
  <2>1. \A d \in Conns \ {c} : sock'[d] = sock[d]
    BY <1>0, <1>3
  <2>2. sock[c] \in UnboundedSockets /\ sock[c].inq <= MaxIn /\ sock[c].outq <= MaxOut
    BY <1>0 DEF SocketsBounded
  <2>3. /\ sock'[c].inq = sock[c].inq \/ sock'[c].inq <= MaxIn
        /\ sock'[c].outq = sock[c].outq \/ sock'[c].outq <= MaxOut \/ sock'[c].outq = 0
    <3>1. ASSUME NEW n \in Nat, n <= MaxIn, sock' = [sock EXCEPT ![c].inq = n]
          PROVE  sock'[c].inq <= MaxIn /\ sock'[c].outq = sock[c].outq
      BY <1>0, <2>2, <3>1 DEF UnboundedSockets
    <3>2. ASSUME NEW n \in Nat, n <= MaxOut, sock' = [sock EXCEPT ![c].outq = n]
          PROVE  sock'[c].outq <= MaxOut /\ sock'[c].inq = sock[c].inq
      BY <1>0, <2>2, <3>2 DEF UnboundedSockets
    <3>3. ASSUME NEW p, NEW e, sock' = [sock EXCEPT ![c].peer = p, ![c].err = e, ![c].outq = 0]
          PROVE  sock'[c].outq = 0 /\ sock'[c].inq = sock[c].inq
      BY <1>0, <2>2, <3>3 DEF UnboundedSockets
    <3>4. ASSUME NEW p,
                 \/ sock' = [sock EXCEPT ![c].err = "none"]
                 \/ sock' = [sock EXCEPT ![c].shutWr = TRUE]
                 \/ sock' = [sock EXCEPT ![c].peer = p]
          PROVE  sock'[c].inq = sock[c].inq /\ sock'[c].outq = sock[c].outq
      BY <1>0, <2>2, <3>4 DEF UnboundedSockets
    <3> QED
      BY <1>3, <3>1, <3>2, <3>3, <3>4
  <2>4. sock'[c].inq <= MaxIn /\ sock'[c].outq <= MaxOut
    BY <1>0, <2>2, <2>3
  <2> QED
    BY <1>1, <2>1, <2>4
<1>4. ASSUME NEW c \in Conns
      PROVE  /\ sock[c].inq \in Nat /\ sock[c].outq \in Nat
             /\ sock[c].inq <= MaxIn /\ sock[c].outq <= MaxOut
  BY <1>0 DEF SocketsBounded, UnboundedSockets
<1>5. ASSUME NEW c \in Conns, Send(c) \/ Receive(c)
      PROVE  SocketsBounded'
  <2>1. CASE Send(c)
    <3> PICK n \in Nat : n = sock[c].inq + 1
      BY <1>4
    <3>1. n <= MaxIn /\ sock' = [sock EXCEPT ![c].inq = n]
      BY <1>0, <1>4, <2>1 DEF Send
    <3> QED
      BY <1>3, <3>1
  <2>2. CASE Receive(c)
    <3> PICK n \in Nat : n = sock[c].outq - 1 /\ n <= MaxOut
      BY <1>0, <1>4, <2>2 DEF Receive
    <3>1. sock' = [sock EXCEPT ![c].outq = n]
      BY <2>2 DEF Receive
    <3> QED
      BY <1>3, <3>1
  <2> QED
    BY <1>5, <2>1, <2>2
<1>6. ASSUME NEW c \in Conns, Connect(c) \/ Close(c) \/ Abort(c) \/ Refuse(c) \/ GiveUp(c)
      PROVE  SocketsBounded'
  BY <1>3, <1>6 DEF Connect, Close, Abort, Refuse, GiveUp
<1>7. ASSUME NEW c \in Conns, ReadMessage(c)
      PROVE  SocketsBounded'
  <2> PICK n \in Nat : n = sock[c].inq - 1 /\ n <= MaxIn
    BY <1>0, <1>4, <1>7 DEF ReadMessage
  <2>1. sock' = [sock EXCEPT ![c].inq = n]
    BY <1>7 DEF ReadMessage
  <2> QED
    BY <1>3, <2>1
<1>8. CASE WriteToHost
  <2> PICK h \in Conns : h = hostPtr
    BY <1>8, WriteToHostWrites
  <2>1. CASE sock' = sock \/ sock' = [sock EXCEPT ![h].err = "none"]
    BY <1>2, <1>3, <2>1
  <2>2. CASE sock[h].outq < MaxOut /\ sock' = [sock EXCEPT ![h].outq = @ + 1]
    <3> PICK n \in Nat : n = sock[h].outq + 1 /\ n <= MaxOut
      BY <1>0, <1>4, <2>2
    <3>1. sock' = [sock EXCEPT ![h].outq = n]
      BY <2>2
    <3> QED
      BY <1>3, <3>1
  <2> QED
    BY <1>8, <2>1, <2>2 DEF WriteToHost
<1>9. ASSUME NEW c \in Conns, HandleWrite(c) \/ ReadError(c)
      PROVE  SocketsBounded'
  BY <1>2, <1>3, <1>9, HandleWriteWrites DEF ReadError
<1>10. CASE RunFunctor
  <2> PICK f \in Functors : RunOne(f.op, f.conn)
    BY <1>10, First
  <2> PICK c \in Conns : c = f.conn
    BY DEF Functors
  <2>1. sock' = sock \/ sock' = [sock EXCEPT ![c].shutWr = TRUE]
    BY DEF RunOne, connectEstablished, shutdownInLoop, forceCloseInLoop,
           removeConnectionInLoop, connectDestroyed
  <2> QED
    BY <1>2, <1>3, <2>1
<1>11. CASE EndPendingFunctors
  <2>1. \A d \in Conns : \/ sock'[d] = sock[d]
                         \/ sock'[d].inq = 0 /\ sock'[d].outq = 0
    BY <1>11 DEF EndPendingFunctors, NewSocket
  <2>2. 0 <= MaxIn /\ 0 <= MaxOut
    BY <1>0
  <2> QED
    BY <1>0, <2>1, <2>2 DEF SocketsBounded
<1>12. CASE \/ UNCHANGED vars \/ Poll \/ HandleWakeup \/ HandleAccept \/ BeginPendingFunctors
            \/ \E c \in Conns : ReadEnd(c)
  <2>1. sock' = sock
    BY <1>12 DEF vars, netVars, Poll, HandleWakeup, HandleAccept, BeginPendingFunctors, ReadEnd
  <2> QED
    BY <1>2, <2>1
<1> QED
  BY <1>5, <1>6, <1>7, <1>8, <1>9, <1>10, <1>11, <1>12 DEF Next, Turn, Ended, Clients

LEMMA StepOtherTypes ==
    ASSUME Inv2, [Next]_vars
    PROVE  OtherTypes'
<1>0. Types /\ OtherTypes /\ ActiveType
  BY DEF Inv2, Inv, OtherTypes, ActiveType
<1>1. ActiveType' /\ SocketsBounded'
  BY <1>0, StepActiveType, StepBounded
<1>2. outputBuffer' \subseteq Conns
  <2>1. outputBuffer \subseteq Conns
    BY <1>0 DEF OtherTypes
  <2>2. ASSUME NEW h \in Conns, BufferOutput(h)
        PROVE  outputBuffer' \subseteq Conns
    BY <2>1, <2>2 DEF BufferOutput
  <2>3. ASSUME NEW c \in Conns, ReadMessage(c)
        PROVE  outputBuffer' \subseteq Conns
    BY <2>1, <2>2, <2>3, OnMessageWrites DEF ReadMessage
  <2>4. CASE WriteToHost
    BY <2>1, <2>2, <2>4, WriteToHostWrites
  <2>5. CASE RunFunctor
    <3>1. outputBuffer' = outputBuffer
      BY <2>5 DEF RunFunctor, connectEstablished, shutdownInLoop, forceCloseInLoop,
                  removeConnectionInLoop, connectDestroyed, serverVars
    <3> QED
      BY <2>1, <3>1
  <2>6. ASSUME NEW c \in Conns, HandleWrite(c)
        PROVE  outputBuffer' \subseteq Conns
    BY <2>1, <2>6, HandleWriteWrites
  <2>7. CASE \/ UNCHANGED vars \/ Clients \/ Poll \/ HandleWakeup \/ HandleAccept
             \/ BeginPendingFunctors \/ EndPendingFunctors
             \/ \E c \in Conns : ReadError(c) \/ ReadEnd(c)
    <3>1. outputBuffer' = outputBuffer
      BY <2>7, ClientsFrame
         DEF vars, serverVars, Poll, HandleWakeup, HandleAccept, BeginPendingFunctors,
             EndPendingFunctors, ReadError, ReadEnd
    <3> QED
      BY <2>1, <3>1
  <2> QED
    BY <2>3, <2>4, <2>5, <2>6, <2>7 DEF Next, Turn, Ended
<1>3. pc' \in {"poll", "events", "send", "functors"} \cup Ends
  <2>1. pc \in {"poll", "events", "send", "functors"} \cup Ends
    BY <1>0 DEF OtherTypes
  <2>2. ASSUME NEW c \in Conns, ReadMessage(c)
        PROVE  pc' \in {pc, "null host", "send"}
    BY <2>2, OnMessageWrites DEF ReadMessage
  <2>3. ASSUME NEW c \in Conns, HandleWrite(c)
        PROVE  pc' \in {pc, "SIGPIPE"}
    BY <2>3, HandleWriteWrites
  <2>4. CASE RunFunctor
    <3>1. pc' \in {pc, "assert"}
      BY <2>4 DEF RunFunctor, connectEstablished, shutdownInLoop, forceCloseInLoop,
                  removeConnectionInLoop, connectDestroyed
    <3> QED
      BY <2>1, <3>1 DEF Ends
  <2>5. CASE \/ UNCHANGED vars \/ Clients \/ Poll \/ HandleWakeup \/ HandleAccept \/ WriteToHost
             \/ BeginPendingFunctors \/ EndPendingFunctors
             \/ \E c \in Conns : ReadError(c) \/ ReadEnd(c)
    <3>1. pc' \in {pc, "events", "SIGPIPE", "functors", "poll"}
      BY <2>5, ClientsFrame
         DEF vars, loopVars, Poll, HandleWakeup, HandleAccept, WriteToHost,
             BeginPendingFunctors, EndPendingFunctors, ReadError, ReadEnd
    <3> QED
      BY <2>1, <3>1 DEF Ends
  <2> QED
    BY <2>1, <2>2, <2>3, <2>4, <2>5 DEF Next, Turn, Ended, Ends
<1>4. eventfd' \in BOOLEAN
  <2>1. eventfd \in BOOLEAN
    BY <1>0 DEF OtherTypes
  <2>2. ASSUME NEW fs, queueInLoop(fs)
        PROVE  eventfd' \in BOOLEAN
    BY <2>2 DEF queueInLoop
  <2>3. ASSUME NEW c, handleClose(c)
        PROVE  eventfd' \in BOOLEAN
    BY <2>1, <2>2, <2>3 DEF handleClose
  <2>4. CASE RunFunctor
    BY <2>1, <2>2, <2>3, <2>4
       DEF RunFunctor, connectEstablished, shutdownInLoop, forceCloseInLoop,
           removeConnectionInLoop, connectDestroyed
  <2>5. CASE HandleAccept \/ HandleWakeup
    BY <2>1, <2>2, <2>5 DEF HandleAccept, HandleWakeup
  <2>6. ASSUME NEW c \in Conns, ReadEnd(c)
        PROVE  eventfd' \in BOOLEAN
    BY <2>3, <2>6 DEF ReadEnd
  <2>7. CASE \/ UNCHANGED vars \/ Clients \/ Poll \/ WriteToHost
             \/ BeginPendingFunctors \/ EndPendingFunctors
             \/ \E c \in Conns : ReadError(c) \/ ReadMessage(c) \/ HandleWrite(c)
    <3>1. eventfd' = eventfd
      BY <2>7, ClientsFrame
         DEF vars, loopVars, Poll, WriteToHost, BeginPendingFunctors, EndPendingFunctors,
             ReadError, ReadMessage, HandleWrite
    <3> QED
      BY <2>1, <3>1
  <2> QED
    BY <2>4, <2>5, <2>6, <2>7 DEF Next, Turn, Ended
<1> QED
  BY <1>1, <1>2, <1>3, <1>4 DEF OtherTypes, ActiveType, SocketsBounded

-----------------------------------------------------------------------------
(***************************************************************************)
(* The theorems.                                                           *)
(***************************************************************************)
LEMMA Inv2Holds == Spec => []Inv2
<1>1. Init => Inv2
  BY InitInv2
<1>2. ASSUME Inv2, [Next]_vars
      PROVE  Inv2'
  <2>1. Inv'
    BY <1>2, StepInv DEF Inv2
  <2> QED
    BY <1>2, <2>1, StepOtherTypes, StepMatches, StepHost, StepActive, StepQueueLives,
       StepLeaving, StepLosses DEF Inv2
<1> QED
  BY <1>1, <1>2, PTL DEF Spec

\* The channel of each connection that exists, in DescriptorsMatch's words.
LEMMA InvDescriptorsMatch ==
    ASSUME Inv2
    PROVE  DescriptorsMatch
<1> SUFFICES ASSUME NEW c \in Conns, Live(c)
             PROVE  LET fd == poller.fd[c]
                        known == poller.channels[fd]
                        entry == poller.epoll[fd]
                    IN  /\ \A x \in Conns \ {c} : Live(x) => poller.fd[x] # fd
                        /\ CASE state[c] = "kConnecting" -> known = None /\ entry = None
                             [] Up(c) -> known = c /\ entry # None /\ entry.channel = c
                                         /\ entry.events = poller.events[c]
                                         /\ "IN" \in entry.events
                             [] OTHER -> known \in {c, None} /\ entry = None
  BY DEF DescriptorsMatch
<1> DEFINE fd == poller.fd[c]
           known == poller.channels[fd]
           entry == poller.epoll[fd]
<1>1. Placed(c) /\ poller.events[c] \in SUBSET {"IN", "OUT"} /\ state[c] \in States
  BY DEF Inv2, PollerMatches, Inv, Types, Pollers
<1>2. \A x \in Conns \ {c} : Live(x) => poller.fd[x] # fd
  BY DEF Inv2, PollerMatches, Has
<1>3. CASE state[c] = "kConnecting"
  BY <1>1, <1>2, <1>3 DEF Placed, Unknown
<1>4. CASE Up(c)
  <2>1. /\ known = c /\ entry = [channel |-> c, events |-> poller.events[c]]
        /\ "IN" \in poller.events[c] /\ state[c] # "kConnecting"
    BY <1>1, <1>4 DEF Placed, Known, Up
  <2>2. entry # None
    BY <1>1, <2>1, EntryIsNotNone
  <2> QED
    BY <1>2, <1>4, <2>1, <2>2
<1>5. CASE state[c] = "kDisconnected"
  <2>1. ~Up(c) /\ known \in {c, None} /\ entry = None
    BY <1>1, <1>5 DEF Placed, Up
  <2> QED
    BY <1>2, <1>5, <2>1
<1> QED
  BY <1>1, <1>3, <1>4, <1>5 DEF Live, Up, States

(***************************************************************************)
(* Poller's channels_ and the kernel's interest list have, for the         *)
(* descriptor of each connection, what that connection's channel wants, at *)
(* every point of its life, although descriptors are reused as soon as     *)
(* ~TcpConnection has closed them.                                         *)
(***************************************************************************)
THEOREM DescriptorsAlwaysMatch == Spec => []DescriptorsMatch
<1>1. Inv2 => DescriptorsMatch
  BY InvDescriptorsMatch
<1> QED
  BY <1>1, Inv2Holds, PTL

LEMMA InvNothingDangles ==
    ASSUME Inv2
    PROVE  NothingDangles
<1> PICK a \in Seq(Functors), p \in Seq(Functors) : a = functors /\ p = pending
  BY DEF Inv2, Inv, Types
<1>1. /\ \A i \in DOMAIN a : a[i] \in Waiting
      /\ \A i \in DOMAIN p : p[i] \in Waiting
  BY DEF Waiting, Elements
<1>2. /\ \A i \in DOMAIN functors : Live(functors[i].conn)
      /\ \A i \in DOMAIN pending : Live(pending[i].conn)
  BY <1>1 DEF Inv2, QueueLives
<1>3. \A c \in DOMAIN active \cap Conns : Live(c)
  BY DEF Inv2, ActiveMatches
<1>4. ASSUME NEW fd \in Fds
      PROVE  /\ poller.channels[fd] # None => Live(poller.channels[fd])
             /\ poller.epoll[fd] # None => Live(poller.epoll[fd].channel)
  <2>1. CASE \E c \in Conns : Has(c, fd)
    <3> PICK c \in Conns : Has(c, fd)
      BY <2>1
    <3>1. Live(c) /\ Placed(c) /\ poller.fd[c] = fd /\ state[c] \in States
      BY DEF Has, Inv2, PollerMatches, Inv, Types
    <3> QED
      BY <3>1 DEF Placed, Known, Unknown, States, Live, Up
  <2>2. CASE ~\E c \in Conns : Has(c, fd)
    BY <2>2 DEF Inv2, PollerMatches
  <2> QED
    BY <2>1, <2>2
<1> QED
  BY <1>2, <1>3, <1>4 DEF NothingDangles

(***************************************************************************)
(* What names a connection names one that exists: handleEvent's lock of    *)
(* tie_, the functors (that of shutdown() with its plain pointer too), and *)
(* the map logChannels walks through, whatever order connections are       *)
(* closed, removed and destroyed in.                                       *)
(***************************************************************************)
THEOREM NothingEverDangles == Spec => []NothingDangles
<1>1. Inv2 => NothingDangles
  BY InvNothingDangles
<1> QED
  BY <1>1, Inv2Holds, PTL

(***************************************************************************)
(* Every variable keeps its type.  The send buffers' bound needs the whole *)
(* invariant: handleWrite would overrun it if data ever waited for a       *)
(* client whose connection still stands.                                   *)
(***************************************************************************)
THEOREM ServerTypes == Spec => []TypeOK
<1>1. ASSUME Inv2
      PROVE  TypeOK
  <2>1. /\ state \in [Conns -> {"none", "kConnecting", "kConnected", "kDisconnecting",
                               "kDisconnected", "destroyed"}]
        /\ connections \subseteq Conns /\ poller \in Pollers /\ hostPtr \in Conns \cup {None}
        /\ pending \in Seq(Functors) /\ functors \in Seq(Functors) /\ backlog \in Seq(Conns)
    BY <1>1 DEF Inv2, Inv, Types, States
  <2>2. /\ outputBuffer \subseteq Conns /\ eventfd \in BOOLEAN
        /\ pc \in {"poll", "events", "send", "functors"} \cup Ends
        /\ \E chs \in SUBSET (Conns \cup {AcceptChannel, WakeupChannel}) :
              active \in [chs -> SUBSET {"IN", "OUT", "HUP", "ERR"}]
    BY <1>1 DEF Inv2, OtherTypes
  <2>3. numConnected \in Nat
    <3>1. {c \in Conns : Up(c)} \subseteq Conns /\ IsFiniteSet(Conns)
      BY ConstantsAssumption
    <3> QED
      BY <1>1, <3>1, FS_Subset, FS_CardinalityType DEF Inv2, Inv, CountIsExact
  <2>4. sock \in [Conns -> Sockets]
    <3>1. ASSUME NEW c \in Conns
          PROVE  sock[c] \in Sockets
      <4>1. sock[c] \in UnboundedSockets
        BY <1>1 DEF Inv2, Inv, Types
      <4>2. sock[c].inq \in 0 .. MaxIn /\ sock[c].outq \in 0 .. MaxOut
        BY <1>1, <4>1, ConstantsAssumption DEF Inv2, OtherTypes, UnboundedSockets
      <4> QED
        BY <4>1, <4>2 DEF UnboundedSockets, Sockets
    <3> QED
      BY <1>1, <3>1 DEF Inv2, Inv, Types
  <2> QED
    BY <2>1, <2>2, <2>3, <2>4 DEF TypeOK
<1> QED
  BY <1>1, Inv2Holds, PTL

(***************************************************************************)
(* TcpConnection::handleRead hands a message to MyServer::onMessage only   *)
(* between the two calls of onConnection: the events of a turn were        *)
(* reported before any of its handlers ran, and still none of them reads   *)
(* from a connection that another one has closed.                          *)
(***************************************************************************)
THEOREM MessagesComeWhileUp == Spec => MessagesOnlyWhileUp
<1>1. ASSUME Inv2, [Next]_vars, NEW c \in Conns,
             sock'[c].inq < sock[c].inq, sock'[c].peer # "gone"
      PROVE  Up(c)
  <2>0. /\ Types /\ sock \in [Conns -> UnboundedSockets]
        /\ \A d \in Conns : sock[d].inq \in Nat
    BY <1>1 DEF Inv2, Inv, Types, UnboundedSockets
  <2>1. sock'[c].inq # sock[c].inq
    BY <1>1, <2>0
  <2>2. ASSUME NEW d \in Conns, ReadMessage(d)
        PROVE  Up(c)
    <3>1. d = c
      BY <2>0, <2>1, <2>2 DEF ReadMessage
    <3>2. c \in DOMAIN active \cap Conns /\ ~InEvent(c)
      BY <2>2, <3>1 DEF ReadMessage, ReadEvent, Pick, InEvent
    <3> QED
      BY <1>1, <3>2 DEF Inv2, ActiveMatches
  <2>3. CASE Clients
    <3> PICK d \in Conns :
           \/ Connect(d) \/ Send(d) \/ Receive(d) \/ Close(d) \/ Abort(d) \/ Refuse(d) \/ GiveUp(d)
      BY <2>3 DEF Clients
    <3>1. CASE Send(d)
      <4>1. sock[d].inq \in Nat /\ sock' = [sock EXCEPT ![d].inq = sock[d].inq + 1]
        BY <2>0, <3>1 DEF Send
      <4>2. CASE c # d
        <5>1. sock'[c] = sock[c]
          BY <2>0, <4>1, <4>2
        <5> QED
          BY <2>1, <5>1
      <4>3. CASE c = d
        <5> PICK n \in Nat : n = sock[d].inq
          BY <4>1
        <5>1. sock'[c].inq = n + 1 /\ sock[c].inq = n
          BY <2>0, <4>1, <4>3 DEF UnboundedSockets
        <5> QED
          BY <1>1, <5>1
      <4> QED
        BY <4>2, <4>3
    <3>2. CASE Connect(d) \/ Receive(d) \/ Close(d)
      <4>1. \/ sock' = [sock EXCEPT ![d].peer = "connected"]
            \/ sock' = [sock EXCEPT ![d].peer = "closed"]
            \/ \E n : sock' = [sock EXCEPT ![d].outq = n]
        BY <3>2 DEF Connect, Receive, Close
      <4> QED
        BY <2>0, <2>1, <4>1 DEF UnboundedSockets
    <3>3. CASE Abort(d) \/ Refuse(d) \/ GiveUp(d)
      BY <2>0, <2>1, <3>3 DEF Abort, Refuse, GiveUp, UnboundedSockets
    <3> QED
      BY <3>1, <3>2, <3>3
  <2>4. CASE EndPendingFunctors
    BY <1>1, <2>1, <2>4 DEF EndPendingFunctors, NewSocket
  <2>5. ASSUME NEW d \in Conns, sock' = sock \/ sock' = [sock EXCEPT ![d].err = "none"]
                                \/ sock' = [sock EXCEPT ![d].shutWr = TRUE]
                                \/ \E n : sock' = [sock EXCEPT ![d].outq = n]
        PROVE  FALSE
    BY <2>0, <2>1, <2>5 DEF UnboundedSockets
  <2>6. CASE RunFunctor
    <3> PICK f \in Functors : RunOne(f.op, f.conn)
      BY <1>1, <2>6, First
    <3> PICK d \in Conns : d = f.conn
      BY DEF Functors
    <3> QED
      BY <2>5 DEF RunOne, connectEstablished, shutdownInLoop, forceCloseInLoop,
                  removeConnectionInLoop, connectDestroyed
  <2>7. CASE WriteToHost
    <3> PICK h \in Conns : h = hostPtr
      BY <1>1, <2>7, WriteToHostWrites
    <3> QED
      BY <2>5, <2>7 DEF WriteToHost
  <2>8. ASSUME NEW d \in Conns, HandleWrite(d) \/ ReadError(d) \/ ReadEnd(d)
        PROVE  FALSE
    BY <1>1, <2>5, <2>8, HandleWriteWrites DEF ReadError, ReadEnd, netVars
  <2>9. CASE \/ UNCHANGED vars \/ Poll \/ HandleWakeup \/ HandleAccept \/ BeginPendingFunctors
    <3>1. sock' = sock
      BY <2>9 DEF vars, netVars, Poll, HandleWakeup, HandleAccept, BeginPendingFunctors
    <3> QED
      BY <2>5, <3>1
  <2> QED
    BY <1>1, <2>2, <2>3, <2>4, <2>6, <2>7, <2>8, <2>9 DEF Next, Turn, Ended
<1>2. Inv2 /\ [Next]_vars =>
         [\A c \in Conns : sock'[c].inq < sock[c].inq /\ sock'[c].peer # "gone" => Up(c)]_vars
  BY <1>1
<1> QED
  BY <1>2, Inv2Holds, PTL DEF Spec, MessagesOnlyWhileUp
=============================================================================
