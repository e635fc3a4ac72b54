-------------------------- MODULE TcpServerProofs --------------------------
(***************************************************************************)
(* Proofs about TcpServerSocket, for any clients, maximums and             *)
(* descriptors.                                                            *)
(*                                                                         *)
(* The invariant has two parts.  Queues is about the accept queues: a      *)
(* client in a queue is of the right class, is there once and has no       *)
(* descriptor yet.  ListInv is about the lists of the FdManagers: open     *)
(* connections have different descriptors, each is in the list of its      *)
(* class, the lists are within their maximum, and only a class whose       *)
(* listening socket is open has connections.  Every step but an admission only closes          *)
(* connections and shortens lists (Shrinks); what Delete takes out of a    *)
(* list, and that it takes nothing else, is the lemma DeleteKeeps.  A      *)
(* third part, BatchInv, says what the events of a thread refer to; it     *)
(* holds when only one of the two servers is used.                         *)
(***************************************************************************)
EXTENDS TcpServerSocket, SequenceTheorems, FiniteSetTheorems, TLAPS

\* OpToRel(<, Nat), written out.
Less == {p \in Nat \X Nat : p[1] < p[2]}

LEMMA LessIsWellFounded == IsWellFoundedOn(Less, Nat)
BY NatLessThanWellFounded DEF OpToRel, Less

(***************************************************************************)
(* A set of naturals that is not empty has a least element.                *)
(***************************************************************************)
LEMMA LeastExists ==
    ASSUME NEW S \in SUBSET Nat, S # {}
    PROVE  \E n \in S : \A m \in S : n <= m
<1>1. PICK n \in S : \A m \in S : <<m, n>> \notin Less
  BY LessIsWellFounded, WFMin
<1>2. ASSUME NEW m \in S, ~(n <= m)
      PROVE  FALSE
  <2>1. m \in Nat /\ n \in Nat
    OBVIOUS
  <2>2. m < n
    BY <1>2, <2>1
  <2> QED
    BY <1>1, <2>1, <2>2 DEF Less
<1> QED
  BY <1>2

(***************************************************************************)
(* FdManager::Delete takes one entry out, and it is fd.                    *)
(***************************************************************************)
LEMMA DeleteTakesOne ==
    ASSUME NEW s \in Seq(Fds), NEW fd, NEW j \in 1 .. Len(s), s[j] = fd
    PROVE  \E i \in 1 .. Len(s) :
              s[i] = fd /\ Delete(s, fd) = SubSeq(s, 1, i - 1) \o SubSeq(s, i + 1, Len(s))
<1> DEFINE I == {i \in 1 .. Len(s) : s[i] = fd}
<1>1. I \in SUBSET Nat /\ I # {}
  OBVIOUS
<1>2. Min(I) \in I
  BY <1>1, LeastExists DEF Min
<1>3. SelectInSeq(s, LAMBDA v : v = fd) = Min(I)
  BY <1>1 DEF SelectInSeq
<1>4. RemoveFirst(s, fd) = RemoveAt(s, Min(I))
  BY <1>3 DEF RemoveFirst
<1> QED
  BY <1>2, <1>4 DEF Delete, RemoveAt

(***************************************************************************)
(* A sequence without its i-th element.                                    *)
(***************************************************************************)
LEMMA WithoutOne ==
    ASSUME NEW S, NEW s \in Seq(S), NEW i \in 1 .. Len(s)
    PROVE  LET d == SubSeq(s, 1, i - 1) \o SubSeq(s, i + 1, Len(s))
           IN  /\ d \in Seq(S)
               /\ Len(d) = Len(s) - 1
               /\ \A n \in 1 .. i - 1 : d[n] = s[n]
               /\ \A n \in i + 1 .. Len(s) : d[n - 1] = s[n]
<1> DEFINE a == SubSeq(s, 1, i - 1)
           b == SubSeq(s, i + 1, Len(s))
<1>1. /\ a \in Seq(S)
      /\ Len(a) = i - 1
      /\ \A n \in 1 .. i - 1 : a[n] = s[n]
  OBVIOUS
<1>2. /\ b \in Seq(S)
      /\ Len(b) = Len(s) - i
      /\ \A n \in 1 .. Len(s) - i : b[n] = s[i + n]
  OBVIOUS
<1> HIDE DEF a, b
<1>3. a \o b \in Seq(S) /\ Len(a \o b) = Len(s) - 1
  <2>1. a \o b \in Seq(S) /\ Len(a \o b) = Len(a) + Len(b)
    BY <1>1, <1>2, ConcatProperties
  <2> QED
    BY <1>1, <1>2, <2>1
<1>4. ASSUME NEW n \in 1 .. i - 1
      PROVE  (a \o b)[n] = s[n]
  BY <1>1, <1>2
<1>5. ASSUME NEW n \in i + 1 .. Len(s)
      PROVE  (a \o b)[n - 1] = s[n]
  <2>1. n - 1 \in 1 .. Len(a) + Len(b) /\ ~(n - 1 <= Len(a)) /\ n - i \in 1 .. Len(s) - i
    BY <1>1, <1>2
  <2>2. (a \o b)[n - 1] = b[n - 1 - Len(a)]
    BY <1>1, <1>2, <2>1
  <2>3. n - 1 - Len(a) = n - i /\ i + (n - i) = n
    BY <1>1
  <2> QED
    BY <1>2, <2>1, <2>2, <2>3
<1> QED
  BY <1>3, <1>4, <1>5 DEF a, b

(***************************************************************************)
(* Delete never makes the list longer, and takes no other descriptor out.  *)
(***************************************************************************)
LEMMA DeleteKeeps ==
    ASSUME NEW s \in Seq(Fds), NEW fd
    PROVE  /\ Delete(s, fd) \in Seq(Fds)
           /\ Len(Delete(s, fd)) <= Len(s)
           /\ \A g : g # fd /\ Find(s, g) => Find(Delete(s, fd), g)
<1>1. CASE ~ \E j \in 1 .. Len(s) : s[j] = fd
  <2>1. Delete(s, fd) = s
    BY <1>1 DEF Delete, RemoveFirst
  <2> QED
    BY <2>1
<1>2. CASE \E j \in 1 .. Len(s) : s[j] = fd
  <2>1. PICK i \in 1 .. Len(s) :
          s[i] = fd /\ Delete(s, fd) = SubSeq(s, 1, i - 1) \o SubSeq(s, i + 1, Len(s))
    BY <1>2, DeleteTakesOne
  <2> DEFINE d == SubSeq(s, 1, i - 1) \o SubSeq(s, i + 1, Len(s))
  <2>2. /\ d \in Seq(Fds)
        /\ Len(d) = Len(s) - 1
        /\ \A n \in 1 .. i - 1 : d[n] = s[n]
        /\ \A n \in i + 1 .. Len(s) : d[n - 1] = s[n]
    BY WithoutOne
  <2>3. Delete(s, fd) = d
    BY <2>1
  <2> HIDE DEF d
  <2>4. ASSUME NEW g, g # fd, NEW n \in 1 .. Len(s), s[n] = g
        PROVE  \E m \in 1 .. Len(d) : d[m] = g
    <3>0. n # i /\ Len(s) \in Nat
      BY <2>1, <2>4
    <3>1. CASE n < i
      <4>1. n \in 1 .. Len(d) /\ n \in 1 .. i - 1
        BY <2>2, <3>0, <3>1
      <4>2. d[n] = g
        BY <2>2, <2>4, <4>1
      <4> QED
        BY <4>1, <4>2
    <3>2. CASE n > i
      <4>1. n - 1 \in 1 .. Len(d) /\ n \in i + 1 .. Len(s)
        BY <2>2, <3>0, <3>2
      <4>2. d[n - 1] = g
        BY <2>2, <2>4, <4>1
      <4> QED
        BY <4>1, <4>2
    <3> QED
      BY <3>0, <3>1, <3>2
  <2>5. d \in Seq(Fds) /\ Len(d) <= Len(s)
    BY <2>2
  <2>6. ASSUME NEW g, g # fd, Find(s, g)
        PROVE  Find(d, g)
    <3>1. PICK n \in 1 .. Len(s) : s[n] = g
      BY <2>6 DEF Find, Contains
    <3> QED
      BY <2>4, <2>6, <3>1 DEF Find, Contains
  <2> QED
    BY <2>3, <2>5, <2>6
<1> QED
  BY <1>1, <1>2

-----------------------------------------------------------------------------
(***************************************************************************)
(* The classes of clients.                                                 *)
(***************************************************************************)
LEMMA KindOfClient ==
    ASSUME NEW c \in Clients
    PROVE  /\ Kind(c) \in Kinds
           /\ Kind(c) \in KindsOf(ServerOf(Kind(c)))
           /\ ServerOf(Kind(c)) \in Servers
BY ConstantsAssumption DEF Clients, Kind, Kinds, KindsOf, ServerOf

LEMMA ServerOfKind ==
    ASSUME NEW k \in Kinds
    PROVE  /\ k \in {"device", "interface", "host"}
           /\ ServerOf(k) \in Servers
           /\ \A s \in Servers : k \in KindsOf(s) <=> s = ServerOf(k)
BY ConstantsAssumption DEF Kinds, KindsOf, ServerOf

LEMMA KindOfServer ==
    ASSUME NEW s \in Servers, NEW k \in KindsOf(s)
    PROVE  k \in Kinds /\ ServerOf(k) = s
BY ConstantsAssumption DEF Kinds, KindsOf, ServerOf

LEMMA MaxIsNat ==
    ASSUME NEW k \in Kinds
    PROVE  maxConnections(k) \in Nat
BY ConstantsAssumption, ServerOfKind DEF maxConnections

LEMMA ClientsAreNotKinds == Clients \cap Kinds = {}
BY ConstantsAssumption, ServerOfKind DEF Clients

LEMMA ServersAreTwo == \A s \in Servers : s = "concurrent" \/ s = "config"
BY ConstantsAssumption

(***************************************************************************)
(* accept returns a descriptor that no connection has.                     *)
(***************************************************************************)
LEMMA LowestFreeIsFree ==
    ASSUME FreeFds # {}
    PROVE  LowestFree \in Fds /\ \A c \in Clients : fdOf[c] # LowestFree
<1>1. FreeFds \in SUBSET Nat
  BY ConstantsAssumption DEF FreeFds
<1>2. LowestFree \in FreeFds
  BY <1>1, LeastExists DEF LowestFree
<1> QED
  BY <1>2 DEF FreeFds

LEMMA FirstIsKind ==
    ASSUME NEW s \in Servers
    PROVE  FirstClosed(s) \in Kinds
BY ConstantsAssumption DEF FirstClosed, Kinds, KindsOf

LEMMA NextIsKind ==
    ASSUME NEW k \in Kinds
    PROVE  NextClosed(k) \in Kinds \cup {"ended"}
BY ConstantsAssumption DEF NextClosed, Kinds, KindsOf

(***************************************************************************)
(* The steps, one by one.                                                  *)
(***************************************************************************)
KindStep(k) == Accept(k) \/ AcceptFails(k) \/ CloseListed(k) \/ CloseListening(k)

ServerStep(s) ==
    \/ Start(s) \/ Stop(s) \/ Join(s)
    \/ Begin(s) \/ CheckRunning(s) \/ Wait(s) \/ LeaveLoop(s)
    \/ \E fd \in Fds : ReadFails(s, fd)
    \/ \E c \in Clients : ReadData(s, c) \/ ReadReset(s, c)

LEMMA Steps ==
    ASSUME Next
    PROVE  \/ \E s \in Servers : ServerStep(s)
           \/ \E k \in Kinds : KindStep(k)
           \/ \E c \in Clients : ReadEnd(c) /\ "concurrent" \in Servers
           \/ \E c \in Clients : HostReadEnd(c) /\ "config" \in Servers
           \/ ClientStep
<1>1. CASE ClientStep
  BY <1>1
<1>2. ASSUME NEW s \in Servers, ServerThread(s) \/ Start(s) \/ Stop(s) \/ Join(s)
      PROVE  \/ ServerStep(s)
             \/ \E k \in Kinds : KindStep(k)
             \/ \E c \in Clients : ReadEnd(c) /\ "concurrent" \in Servers
             \/ \E c \in Clients : HostReadEnd(c) /\ "config" \in Servers
  <2>1. CASE Loop(s)
    <3>1. \A k \in KindsOf(s) : k \in Kinds
      BY KindOfServer
    <3> QED
      BY <2>1, <3>1 DEF Loop, ServerStep, KindStep
  <2>2. CASE \E c \in Clients : ReadEnd(c) /\ s = "concurrent"
    BY <2>2
  <2>3. CASE \E c \in Clients : HostReadEnd(c) /\ s = "config"
    BY <2>3
  <2>4. CASE Start(s) \/ Stop(s) \/ Join(s)
    BY <2>4 DEF ServerStep
  <2> QED
    BY <1>2, <2>1, <2>2, <2>3, <2>4, ServersAreTwo
       DEF ServerThread, ConcurrentThread, NoneConcurrentThread
<1> QED
  BY <1>1, <1>2 DEF Next

-----------------------------------------------------------------------------
(***************************************************************************)
(* The types.  An event of a client waits only on an open connection:      *)
(* without that the events of Wait would have no descriptor.               *)
(***************************************************************************)
EdgesAreOpen == \A c \in Clients : c \in edge => Open(c)
Types == TypeOK /\ EdgesAreOpen

LEMMA InitTypes == Init => Types
<1> SUFFICES ASSUME Init PROVE Types
  OBVIOUS
<1>1. sock \in [Clients -> [peer : {"none", "connected", "closed", "reset"}, inq : 0 .. MaxIn]]
  BY ConstantsAssumption DEF Init, NewSocket
<1>2. slots \in [Kinds -> Seq(Fds)] /\ backlog \in [Kinds -> Seq(Clients)]
  BY DEF Init
<1> QED
  BY <1>1, <1>2 DEF Init, Types, TypeOK, EdgesAreOpen

LEMMA ClientTypes ==
    ASSUME Types, ClientStep
    PROVE  Types'
<1> USE DEF Types, TypeOK, EdgesAreOpen, Open
<1>1. ASSUME NEW c \in Clients, Connect(c)
      PROVE  Types'
  <2>1. sock' \in [Clients -> [peer : {"none", "connected", "closed", "reset"}, inq : 0 .. MaxIn]]
    BY <1>1 DEF Connect
  <2>2. backlog' \in [Kinds -> Seq(Clients)]
    BY <1>1, KindOfClient DEF Connect
  <2>3. edge' = edge \cup {Kind(c)} /\ Kind(c) \in Kinds
    BY <1>1, KindOfClient DEF Connect
  <2> QED
    BY <1>1, <2>1, <2>2, <2>3, ClientsAreNotKinds DEF Connect
<1>2. ASSUME NEW c \in Clients, Send(c) \/ Close(c) \/ Abort(c)
      PROVE  Types'
  <2>1. sock' \in [Clients -> [peer : {"none", "connected", "closed", "reset"}, inq : 0 .. MaxIn]]
    <3>1. \/ sock' = [sock EXCEPT ![c] = [sock[c] EXCEPT !.inq = sock[c].inq + 1]]
             /\ sock[c].inq < MaxIn
          \/ sock' = [sock EXCEPT ![c] = [sock[c] EXCEPT !.peer = "closed"]]
          \/ sock' = [sock EXCEPT ![c] = [sock[c] EXCEPT !.peer = "reset"]]
      BY <1>2 DEF Send, Close, Abort
    <3>2. PICK r \in [peer : {"none", "connected", "closed", "reset"}, inq : 0 .. MaxIn] :
            sock' = [sock EXCEPT ![c] = r]
      <4>1. sock[c].inq \in 0 .. MaxIn
        OBVIOUS
      <4>2. ASSUME sock[c].inq < MaxIn
            PROVE  [sock[c] EXCEPT !.inq = sock[c].inq + 1]
                     \in [peer : {"none", "connected", "closed", "reset"}, inq : 0 .. MaxIn]
        <5>1. sock[c].inq + 1 \in 0 .. MaxIn
          BY <4>1, <4>2, ConstantsAssumption
        <5>2. sock[c] \in [peer : {"none", "connected", "closed", "reset"}, inq : 0 .. MaxIn]
          OBVIOUS
        <5> QED
          BY <5>1, <5>2
      <4>3. /\ [sock[c] EXCEPT !.peer = "closed"]
                  \in [peer : {"none", "connected", "closed", "reset"}, inq : 0 .. MaxIn]
            /\ [sock[c] EXCEPT !.peer = "reset"]
                  \in [peer : {"none", "connected", "closed", "reset"}, inq : 0 .. MaxIn]
        OBVIOUS
      <4> QED
        BY <3>1, <4>2, <4>3
    <3> QED
      BY <3>2
  <2>2. edge' \subseteq edge \cup {c} /\ (c \in edge' => Open(c))
    BY <1>2 DEF Send, Close, Abort, Edge
  <2>3. UNCHANGED <<isThreadRunning, pc, slots, fdOf, backlog, batch>>
    BY <1>2 DEF Send, Close, Abort
  <2> QED
    BY <2>1, <2>2, <2>3
<1> QED
  BY <1>1, <1>2 DEF ClientStep

(***************************************************************************)
(* The end of one connection.                                              *)
(***************************************************************************)
LEMMA CloseTypes ==
    ASSUME Types, NEW c \in Clients, CloseConnection(c)
    PROVE  /\ fdOf' \in [Clients -> Fds \cup {None}]
           /\ edge' \subseteq Kinds \cup Clients
           /\ EdgesAreOpen'
           /\ sock' \in [Clients -> [peer : {"none", "connected", "closed", "reset"},
                                     inq : 0 .. MaxIn]]
BY ConstantsAssumption DEF Types, TypeOK, EdgesAreOpen, Open, CloseConnection, NewSocket

LEMMA HandleTypes ==
    ASSUME Types, NEW s \in Servers, NEW e, Handle(s, e)
    PROVE  batch' \in [Servers -> SUBSET Events]
BY DEF Types, TypeOK, Handle

LEMMA ServerTypes ==
    ASSUME Types, NEW s \in Servers, ServerStep(s)
    PROVE  Types'
<1> USE DEF Types, TypeOK, EdgesAreOpen
<1>1. CASE Start(s) \/ Stop(s) \/ Join(s) \/ Begin(s) \/ CheckRunning(s) \/ LeaveLoop(s)
  <2>1. UNCHANGED <<slots, fdOf, batch, netVars>>
    BY <1>1 DEF Start, Stop, Join, Begin, CheckRunning, LeaveLoop
  <2>2. isThreadRunning' \in [Servers -> BOOLEAN]
    BY <1>1 DEF Start, Stop, Join, Begin, CheckRunning, LeaveLoop
  <2>3. pc' \in [Servers -> {"idle", "starting", "loop", "wait", "ended"} \cup Kinds]
    <3>1. FirstClosed(s) \in Kinds
      BY FirstIsKind
    <3> QED
      BY <1>1, <3>1 DEF Start, Stop, Join, Begin, CheckRunning, LeaveLoop
  <2> QED
    BY <2>1, <2>2, <2>3 DEF netVars, Open
<1>2. CASE Wait(s)
  <2>1. ASSUME NEW c \in Clients, c \in edge
        PROVE  fdOf[c] \in Fds
    BY <2>1 DEF Open
  <2>2. {ReadEvent(fdOf[c]) : c \in {x \in edge : Registered(s, x) /\ Ready(x)} \cap Clients}
          \subseteq Events
    BY <2>1 DEF Events
  <2>3. {AcceptEvent(k) : k \in {x \in edge : Registered(s, x) /\ Ready(x)} \cap Kinds}
          \subseteq Events
    BY DEF Events
  <2>4. batch' \in [Servers -> SUBSET Events]
    BY <1>2, <2>2, <2>3 DEF Wait
  <2>5. edge' \subseteq edge
    BY <1>2 DEF Wait
  <2>6. pc' \in [Servers -> {"idle", "starting", "loop", "wait", "ended"} \cup Kinds]
    BY <1>2 DEF Wait
  <2> QED
    BY <1>2, <2>4, <2>5, <2>6 DEF Wait, Open
<1>3. ASSUME NEW fd \in Fds, ReadFails(s, fd)
      PROVE  Types'
  <2>1. batch' \in [Servers -> SUBSET Events]
    BY <1>3, HandleTypes DEF ReadFails
  <2> QED
    BY <1>3, <2>1 DEF ReadFails, netVars, Open
<1>4. ASSUME NEW c \in Clients, ReadData(s, c)
      PROVE  Types'
  <2>1. batch' \in [Servers -> SUBSET Events]
    BY <1>4, HandleTypes DEF ReadData
  <2>2. PICK n \in 1 .. sock[c].inq : sock' = [sock EXCEPT ![c].inq = @ - n]
    BY <1>4 DEF ReadData
  <2>3. sock[c].inq \in 0 .. MaxIn /\ sock[c].inq - n \in 0 .. MaxIn
    BY ConstantsAssumption
  <2> DEFINE r == [sock[c] EXCEPT !.inq = sock[c].inq - n]
  <2>4. r \in [peer : {"none", "connected", "closed", "reset"}, inq : 0 .. MaxIn]
    BY <2>3
  <2>5. sock' = [sock EXCEPT ![c] = r]
    BY <2>2
  <2> HIDE DEF r
  <2>6. sock' \in [Clients -> [peer : {"none", "connected", "closed", "reset"}, inq : 0 .. MaxIn]]
    BY <2>4, <2>5
  <2> QED
    BY <1>4, <2>1, <2>6 DEF ReadData, Open
<1>5. ASSUME NEW c \in Clients, ReadReset(s, c)
      PROVE  Types'
  <2>1. batch' \in [Servers -> SUBSET Events]
    BY <1>5, HandleTypes DEF ReadReset
  <2> QED
    BY <1>5, <2>1, CloseTypes DEF ReadReset
<1> QED
  BY <1>1, <1>2, <1>3, <1>4, <1>5 DEF ServerStep

LEMMA ClosingTypes ==
    ASSUME Types, NEW k \in Kinds, CloseListed(k) \/ CloseListening(k)
    PROVE  Types'
<1> USE DEF Types, TypeOK
<1>1. CASE CloseListed(k)
  <2>1. slots' \in [Kinds -> Seq(Fds)]
    <3>1. Tail(slots[k]) \in Seq(Fds)
      BY <1>1 DEF CloseListed
    <3> QED
      BY <1>1, <3>1 DEF CloseListed
  <2>2. UNCHANGED <<isThreadRunning, pc, backlog, batch>>
    BY <1>1 DEF CloseListed
  <2>3. CASE \E c \in Clients : CloseConnection(c)
    BY <2>1, <2>2, <2>3, CloseTypes
  <2>4. CASE UNCHANGED <<fdOf, sock, edge>>
    BY <2>1, <2>2, <2>4 DEF EdgesAreOpen, Open
  <2> QED
    BY <1>1, <2>3, <2>4 DEF CloseListed
<1>2. CASE CloseListening(k)
  <2>1. sock' \in [Clients -> [peer : {"none", "connected", "closed", "reset"}, inq : 0 .. MaxIn]]
    <3>1. NewSocket \in [peer : {"none", "connected", "closed", "reset"}, inq : 0 .. MaxIn]
      BY ConstantsAssumption DEF NewSocket
    <3> QED
      BY <1>2, <3>1 DEF CloseListening
  <2>2. pc' \in [Servers -> {"idle", "starting", "loop", "wait", "ended"} \cup Kinds]
    <3>1. NextClosed(k) \in {"idle", "starting", "loop", "wait", "ended"} \cup Kinds
      BY NextIsKind
    <3> QED
      BY <1>2, <3>1 DEF CloseListening
  <2>3. backlog' \in [Kinds -> Seq(Clients)]
    BY <1>2 DEF CloseListening
  <2>4. edge' \subseteq edge /\ UNCHANGED <<isThreadRunning, slots, fdOf, batch>>
    BY <1>2 DEF CloseListening
  <2> QED
    BY <2>1, <2>2, <2>3, <2>4 DEF EdgesAreOpen, Open
<1> QED
  BY <1>1, <1>2

LEMMA ReadEndTypes ==
    ASSUME Types, NEW c \in Clients,
           \/ ReadEnd(c) /\ "concurrent" \in Servers
           \/ HostReadEnd(c) /\ "config" \in Servers
    PROVE  Types'
<1> USE DEF Types, TypeOK
<1>1. batch' \in [Servers -> SUBSET Events]
  BY HandleTypes DEF ReadEnd, HostReadEnd, ReadsEnd
<1>2. UNCHANGED <<isThreadRunning, pc, backlog>>
  BY DEF ReadEnd, HostReadEnd, ReadsEnd
<1>3. slots' \in [Kinds -> Seq(Fds)]
  <2>1. ASSUME NEW k \in Kinds, NEW fd
        PROVE  CheckFd(k, fd) \in Seq(Fds) /\ Delete(slots[k], fd) \in Seq(Fds)
    BY DeleteKeeps DEF CheckFd
  <2>2. CASE ReadEnd(c) /\ "concurrent" \in Servers
    <3> DEFINE listed == {k \in Kinds \ {"host"} : Find(slots[k], fdOf[c])}
               found == IF "device" \in listed THEN "device" ELSE "interface"
    <3>1. found \in Kinds
      BY <2>2 DEF Kinds, KindsOf
    <3>2. slots' = slots \/ slots' = [slots EXCEPT ![found] = CheckFd(found, fdOf[c])]
      BY <2>2 DEF ReadEnd
    <3> HIDE DEF found
    <3>3. CheckFd(found, fdOf[c]) \in Seq(Fds)
      BY <2>1, <3>1
    <3> QED
      BY <3>1, <3>2, <3>3
  <2>3. CASE HostReadEnd(c) /\ "config" \in Servers
    <3>1. "host" \in Kinds
      BY <2>3, KindOfServer DEF KindsOf
    <3> QED
      BY <2>1, <2>3, <3>1 DEF HostReadEnd
  <2> QED
    BY <2>2, <2>3
<1>4. CASE CloseConnection(c)
  BY <1>1, <1>2, <1>3, <1>4, CloseTypes
<1>5. CASE UNCHANGED <<slots, fdOf, sock, edge>>
  BY <1>1, <1>2, <1>5 DEF EdgesAreOpen, Open
<1> QED
  BY <1>4, <1>5 DEF ReadEnd, HostReadEnd

LEMMA AcceptTypes ==
    ASSUME Types, NEW k \in Kinds, Accept(k) \/ AcceptFails(k)
    PROVE  Types'
<1> USE DEF Types, TypeOK
<1> DEFINE c == Head(backlog[k])
<1>1. batch' \in [Servers -> SUBSET Events]
  BY HandleTypes, ServerOfKind DEF Accept, AcceptFails, HandleAccept
<1>2. CASE AcceptFails(k)
  BY <1>1, <1>2 DEF AcceptFails, netVars, EdgesAreOpen, Open
<1>3. CASE Accept(k)
  <2>1. /\ c \in Clients
        /\ LowestFree \in Fds
        /\ UNCHANGED <<isThreadRunning, pc>>
    BY <1>3, LowestFreeIsFree DEF Accept
  <2>2. backlog' \in [Kinds -> Seq(Clients)]
    BY <1>3 DEF Accept
  <2>3. CASE Admit(k, c)
    <3>1. slots' \in [Kinds -> Seq(Fds)]
      BY <2>1, <2>3 DEF Admit, Insert
    <3>2. LowestFree # None
      BY <2>1, ConstantsAssumption
    <3>3. fdOf' = [fdOf EXCEPT ![c] = LowestFree]
      BY <2>3 DEF Admit
    <3>4. edge' \subseteq edge \cup {c}
      BY <2>3 DEF Admit
    <3>5. EdgesAreOpen'
      BY <2>1, <3>2, <3>3, <3>4 DEF EdgesAreOpen, Open
    <3> QED
      BY <1>1, <2>1, <2>2, <2>3, <3>1, <3>3, <3>4, <3>5 DEF Admit
  <2>4. CASE Refuse(k, c)
    <3>0. Delete(slots[k], LowestFree) \in Seq(Fds)
      BY DeleteKeeps
    <3>1. slots' \in [Kinds -> Seq(Fds)]
      BY <2>4, <3>0 DEF Refuse
    <3>2. NewSocket \in [peer : {"none", "connected", "closed", "reset"}, inq : 0 .. MaxIn]
      BY ConstantsAssumption DEF NewSocket
    <3>3. sock' \in [Clients -> [peer : {"none", "connected", "closed", "reset"}, inq : 0 .. MaxIn]]
      BY <2>1, <2>4, <3>2 DEF Refuse
    <3> QED
      BY <1>1, <2>1, <2>2, <2>4, <3>1, <3>3 DEF Refuse, EdgesAreOpen, Open
  <2> QED
    BY <1>3, <2>3, <2>4 DEF Accept
<1> QED
  BY <1>2, <1>3

LEMMA StepTypes == Types /\ [Next]_vars => Types'
<1> SUFFICES ASSUME Types, [Next]_vars
             PROVE  Types'
  OBVIOUS
<1>1. CASE UNCHANGED vars
  BY <1>1 DEF vars, Types, TypeOK, EdgesAreOpen, Open
<1>2. CASE Next
  BY <1>2, Steps, ServerTypes, AcceptTypes, ClosingTypes, ReadEndTypes, ClientTypes
     DEF KindStep
<1> QED
  BY <1>1, <1>2

-----------------------------------------------------------------------------
(***************************************************************************)
(* The accept queues.  A client waits in the queue of its own class, once, *)
(* and is not connected yet; a client that waits or is connected has made  *)
(* a connection.                                                           *)
(***************************************************************************)
QueueOf(k) ==
    /\ \A i \in 1 .. Len(backlog[k]) :
          /\ Kind(backlog[k][i]) = k
          /\ ~Open(backlog[k][i])
          /\ sock[backlog[k][i]].peer # "none"
    /\ \A i, j \in 1 .. Len(backlog[k]) : backlog[k][i] = backlog[k][j] => i = j
Queues ==
    /\ \A k \in Kinds : QueueOf(k)
    /\ \A c \in Clients : Open(c) => sock[c].peer # "none"

LEMMA InitQueues == Init => Queues
BY DEF Init, Queues, QueueOf, Open

(***************************************************************************)
(* A queue that stays as it is keeps its property when no client in it     *)
(* becomes connected or is forgotten.                                      *)
(***************************************************************************)
LEMMA SameQueue ==
    ASSUME Types, Queues, NEW k \in Kinds, backlog'[k] = backlog[k],
           \A c \in Clients :
              Kind(c) = k /\ ~Open(c) /\ sock[c].peer # "none"
                => ~Open(c)' /\ sock'[c].peer # "none"
    PROVE  QueueOf(k)'
<1>1. ASSUME NEW i \in 1 .. Len(backlog[k])
      PROVE  backlog[k][i] \in Clients
  BY DEF Types, TypeOK
<1> QED
  BY <1>1 DEF Queues, QueueOf, Open

LEMMA SameQueues ==
    ASSUME Types, Queues, backlog' = backlog,
           \A c \in Clients :
              /\ Open(c)' => Open(c)
              /\ sock'[c].peer = "none" =>
                    sock[c].peer = "none" \/ (Open(c) /\ ~Open(c)')
    PROVE  Queues'
<1>1. \A k \in Kinds : QueueOf(k)'
  BY SameQueue
<1>2. \A c \in Clients : Open(c)' => sock'[c].peer # "none"
  BY DEF Queues
<1> QED
  BY <1>1, <1>2 DEF Queues

LEMMA ConnectQueues ==
    ASSUME Types, Queues, NEW c \in Clients, Connect(c)
    PROVE  Queues'
<1> DEFINE k == Kind(c)
           q == backlog[k]
<1>1. /\ sock[c].peer = "none"
      /\ sock' = [sock EXCEPT ![c].peer = "connected"]
      /\ backlog' = [backlog EXCEPT ![k] = Append(q, c)]
      /\ fdOf' = fdOf
  BY DEF Connect
<1>2. k \in Kinds /\ q \in Seq(Clients)
  BY KindOfClient DEF Types, TypeOK
<1>3. \A d \in Clients : sock'[d].peer = IF d = c THEN "connected" ELSE sock[d].peer
  BY <1>1 DEF Types, TypeOK
<1>4. ~Open(c)
  BY <1>1 DEF Queues
<1>5. backlog'[k] = Append(q, c) /\ \A j \in Kinds : j # k => backlog'[j] = backlog[j]
  BY <1>1, <1>2 DEF Types, TypeOK
<1>6. ASSUME NEW j \in Kinds, j # k
      PROVE  QueueOf(j)'
  BY <1>1, <1>3, <1>5, <1>6, SameQueue DEF Open
<1>7. QueueOf(k)'
  <2>1. /\ Len(Append(q, c)) = Len(q) + 1
        /\ Append(q, c)[Len(q) + 1] = c
        /\ \A i \in 1 .. Len(q) : Append(q, c)[i] = q[i]
        /\ Len(q) \in Nat
    BY <1>2
  <2>2. ASSUME NEW i \in 1 .. Len(q)
        PROVE  /\ q[i] \in Clients /\ q[i] # c /\ Kind(q[i]) = k
               /\ ~Open(q[i]) /\ sock[q[i]].peer # "none"
    BY <1>1, <1>2 DEF Queues, QueueOf
  <2>3. \A i, j \in 1 .. Len(q) : q[i] = q[j] => i = j
    BY <1>2 DEF Queues, QueueOf
  <2> HIDE DEF q
  <2>4. ASSUME NEW i \in 1 .. Len(q) + 1
        PROVE  /\ i \in 1 .. Len(q) \/ i = Len(q) + 1
    BY <2>1
  <2>5. ASSUME NEW i \in 1 .. Len(q) + 1, NEW d, d = Append(q, c)[i]
        PROVE  Kind(d) = k /\ ~Open(d)' /\ sock'[d].peer # "none"
    <3>1. CASE i = Len(q) + 1
      BY <1>1, <1>3, <1>4, <2>1, <2>5, <3>1 DEF Open
    <3>2. CASE i \in 1 .. Len(q)
      <4>1. d = q[i]
        BY <2>1, <2>5, <3>2
      <4> QED
        BY <1>1, <1>3, <2>2, <3>2, <4>1 DEF Open
    <3> QED
      BY <2>4, <3>1, <3>2
  <2>6. \A i, j \in 1 .. Len(q) + 1 : Append(q, c)[i] = Append(q, c)[j] => i = j
    BY <2>1, <2>2, <2>3, <2>4
  <2> HIDE DEF k
  <2> QED
    BY <1>5, <2>1, <2>5, <2>6 DEF QueueOf
<1>8. \A d \in Clients : Open(d)' => sock'[d].peer # "none"
  BY <1>1, <1>3 DEF Queues, Open
<1> QED
  BY <1>6, <1>7, <1>8 DEF Queues

LEMMA AcceptQueues ==
    ASSUME Types, Queues, NEW k \in Kinds, Accept(k) \/ AcceptFails(k)
    PROVE  Queues'
<1> DEFINE q == backlog[k]
<1>1. CASE AcceptFails(k)
  BY <1>1, SameQueues DEF AcceptFails, netVars, Open
<1>2. CASE Accept(k)
  <2>1. /\ q \in Seq(Clients) /\ q # <<>>
        /\ backlog' = [backlog EXCEPT ![k] = Tail(q)]
    BY <1>2 DEF Accept, Types, TypeOK
  <2> PICK c \in Clients : c = Head(q)
    BY <2>1
  <2>2. /\ c \in Clients /\ c = q[1] /\ Len(q) \in Nat /\ Len(q) >= 1
        /\ Len(Tail(q)) = Len(q) - 1
        /\ \A i \in 1 .. Len(q) - 1 : Tail(q)[i] = q[i + 1]
    BY <2>1
  <2>3. /\ \A i \in 1 .. Len(q) :
               q[i] \in Clients /\ Kind(q[i]) = k /\ ~Open(q[i]) /\ sock[q[i]].peer # "none"
        /\ \A i, j \in 1 .. Len(q) : q[i] = q[j] => i = j
    BY <2>1 DEF Queues, QueueOf
  <2>4. backlog'[k] = Tail(q) /\ \A j \in Kinds : j # k => backlog'[j] = backlog[j]
    BY <2>1 DEF Types, TypeOK
  <2>5. /\ \A d \in Clients : d # c => (Open(d)' <=> Open(d)) /\ sock'[d] = sock[d]
        /\ Open(c)' => sock'[c].peer # "none"
    <3>1. CASE Admit(k, c)
      <4>1. fdOf' = [fdOf EXCEPT ![c] = LowestFree] /\ sock' = sock
        BY <3>1 DEF Admit
      <4>2. sock[c].peer # "none"
        BY <2>2, <2>3
      <4> QED
        BY <4>1, <4>2, <2>2 DEF Open, Types, TypeOK
    <3>2. CASE Refuse(k, c)
      <4>1. fdOf' = fdOf /\ sock' = [sock EXCEPT ![c] = NewSocket]
        BY <3>2 DEF Refuse
      <4>2. ~Open(c)
        BY <2>2, <2>3
      <4>3. ~Open(c)'
        BY <4>1, <4>2 DEF Open
      <4>4. \A d \in Clients : d # c => sock'[d] = sock[d]
        BY <4>1 DEF Types, TypeOK
      <4> QED
        BY <4>1, <4>3, <4>4 DEF Open
    <3> QED
      BY <1>2, <3>1, <3>2 DEF Accept
  <2>6. Kind(c) = k
    BY <2>2, <2>3
  <2>7. ASSUME NEW j \in Kinds, j # k
        PROVE  QueueOf(j)'
    BY <2>4, <2>5, <2>6, <2>7, SameQueue
  <2>8. QueueOf(k)'
    <3>1. ASSUME NEW i \in 1 .. Len(Tail(q))
          PROVE  /\ i + 1 \in 1 .. Len(q) /\ i + 1 # 1 /\ 1 \in 1 .. Len(q)
                 /\ Tail(q)[i] = q[i + 1]
      BY <2>2
    <3> HIDE DEF q
    <3>2. ASSUME NEW i \in 1 .. Len(Tail(q))
          PROVE  LET d == Tail(q)[i]
                 IN  d \in Clients /\ d # c /\ Kind(d) = k /\ ~Open(d) /\ sock[d].peer # "none"
      <4>1. q[i + 1] # c
        BY <2>2, <2>3, <3>1
      <4> QED
        BY <2>3, <3>1, <4>1
    <3>3. ASSUME NEW i \in 1 .. Len(Tail(q)), NEW j \in 1 .. Len(Tail(q)), Tail(q)[i] = Tail(q)[j]
          PROVE  i = j
      <4>1. i + 1 = j + 1
        BY <2>3, <3>1, <3>3
      <4> QED
        BY <2>2, <4>1
    <3>4. ASSUME NEW i \in 1 .. Len(Tail(q)), NEW d, d = Tail(q)[i]
          PROVE  Kind(d) = k /\ ~Open(d)' /\ sock'[d].peer # "none"
      <4>1. d \in Clients /\ d # c /\ Kind(d) = k /\ ~Open(d) /\ sock[d].peer # "none"
        BY <3>2, <3>4
      <4> QED
        BY <2>5, <4>1
    <3> QED
      BY <2>4, <3>3, <3>4 DEF QueueOf
  <2>9. \A d \in Clients : Open(d)' => sock'[d].peer # "none"
    <3>1. \A d \in Clients : Open(d) => sock[d].peer # "none"
      BY DEF Queues
    <3> QED
      BY <2>5, <3>1 DEF Open
  <2> QED
    BY <2>7, <2>8, <2>9 DEF Queues
<1> QED
  BY <1>1, <1>2

LEMMA ListeningQueues ==
    ASSUME Types, Queues, NEW k \in Kinds, CloseListening(k)
    PROVE  Queues'
<1>1. /\ fdOf' = fdOf
      /\ sock' = [c \in Clients |-> IF Contains(backlog[k], c) THEN NewSocket ELSE sock[c]]
      /\ backlog' = [backlog EXCEPT ![k] = <<>>]
      /\ backlog \in [Kinds -> Seq(Clients)]
  BY DEF CloseListening, Types, TypeOK
<1>2. ASSUME NEW c \in Clients, Contains(backlog[k], c)
      PROVE  Kind(c) = k /\ ~Open(c)
  <2>1. PICK i \in 1 .. Len(backlog[k]) : backlog[k][i] = c
    BY <1>2 DEF Contains
  <2> QED
    BY <2>1 DEF Queues, QueueOf
<1>3. ASSUME NEW j \in Kinds, j # k
      PROVE  QueueOf(j)'
  <2>1. backlog'[j] = backlog[j]
    BY <1>1, <1>3
  <2>2. ASSUME NEW c \in Clients, Kind(c) = j, ~Open(c), sock[c].peer # "none"
        PROVE  ~Open(c)' /\ sock'[c].peer # "none"
    BY <1>1, <1>2, <1>3, <2>2 DEF Open
  <2> QED
    BY <2>1, <2>2, SameQueue
<1>4. QueueOf(k)'
  <2>1. backlog'[k] = <<>>
    BY <1>1
  <2> QED
    BY <2>1 DEF QueueOf
<1>5. \A c \in Clients : Open(c)' => sock'[c].peer # "none"
  BY <1>1, <1>2 DEF Queues, Open
<1> QED
  BY <1>3, <1>4, <1>5 DEF Queues

LEMMA CloseQueues ==
    ASSUME Types, Queues, NEW c \in Clients, Open(c), CloseConnection(c), backlog' = backlog
    PROVE  Queues'
<1>1. /\ fdOf' = [fdOf EXCEPT ![c] = None] /\ fdOf \in [Clients -> Fds \cup {None}]
      /\ sock' = [sock EXCEPT ![c] = NewSocket]
      /\ \A d \in Clients : d # c => sock'[d] = sock[d] /\ fdOf'[d] = fdOf[d]
  BY DEF CloseConnection, Types, TypeOK
<1> QED
  BY <1>1, SameQueues DEF Open

LEMMA ListedQueues ==
    ASSUME Types, Queues, NEW k \in Kinds, CloseListed(k)
    PROVE  Queues'
<1>1. slots[k] \in Seq(Fds) /\ slots[k] # <<>> /\ backlog' = backlog
  BY DEF CloseListed, Types, TypeOK
<1>2. ASSUME NEW c \in Clients, fdOf[c] = Head(slots[k]), CloseConnection(c)
      PROVE  Queues'
  <2>1. Open(c)
    BY <1>1, <1>2, ConstantsAssumption DEF Open
  <2> QED
    BY <1>1, <1>2, <2>1, CloseQueues
<1>3. CASE UNCHANGED <<fdOf, sock, edge>>
  BY <1>1, <1>3, SameQueues DEF Open
<1> QED
  BY <1>2, <1>3 DEF CloseListed

LEMMA StepQueues ==
    ASSUME Types, Queues, [Next]_vars
    PROVE  Queues'
<1>1. CASE UNCHANGED vars
  BY <1>1, SameQueues DEF vars, Open
<1>2. ASSUME NEW s \in Servers, ServerStep(s)
      PROVE  Queues'
  <2>1. CASE Start(s) \/ Stop(s) \/ Join(s) \/ Begin(s) \/ CheckRunning(s) \/ Wait(s)
               \/ LeaveLoop(s) \/ \E fd \in Fds : ReadFails(s, fd)
    <3>1. UNCHANGED <<fdOf, backlog, sock>>
      BY <2>1 DEF Start, Stop, Join, Begin, CheckRunning, Wait, LeaveLoop, ReadFails, netVars
    <3> QED
      BY <3>1, SameQueues DEF Open
  <2>2. ASSUME NEW c \in Clients, ReadData(s, c)
        PROVE  Queues'
    <3>1. fdOf' = fdOf /\ backlog' = backlog /\ \A d \in Clients : sock'[d].peer = sock[d].peer
      BY <2>2 DEF ReadData, Types, TypeOK
    <3> QED
      BY <3>1, SameQueues DEF Open
  <2>3. ASSUME NEW c \in Clients, ReadReset(s, c)
        PROVE  Queues'
    BY <2>3, CloseQueues DEF ReadReset, Reads
  <2> QED
    BY <1>2, <2>1, <2>2, <2>3 DEF ServerStep
<1>3. ASSUME NEW c \in Clients, ReadEnd(c) \/ HostReadEnd(c)
      PROVE  Queues'
  <2>1. Open(c) /\ backlog' = backlog
    BY <1>3 DEF ReadEnd, HostReadEnd, ReadsEnd, Reads
  <2>2. CASE CloseConnection(c)
    BY <2>1, <2>2, CloseQueues
  <2>3. CASE UNCHANGED <<slots, fdOf, sock, edge>>
    BY <2>1, <2>3, SameQueues DEF Open
  <2> QED
    BY <1>3, <2>2, <2>3 DEF ReadEnd, HostReadEnd
<1>4. ASSUME NEW c \in Clients, Send(c) \/ Close(c) \/ Abort(c)
      PROVE  Queues'
  <2>1. fdOf' = fdOf /\ backlog' = backlog
    BY <1>4 DEF Send, Close, Abort
  <2>2. \A d \in Clients : sock'[d].peer = "none" => sock[d].peer = "none"
    BY <1>4 DEF Send, Close, Abort, Types, TypeOK
  <2> QED
    BY <2>1, <2>2, SameQueues DEF Open
<1> QED
  BY <1>1, <1>2, <1>3, <1>4, Steps, AcceptQueues, ListedQueues, ListeningQueues, ConnectQueues
     DEF ClientStep, KindStep

-----------------------------------------------------------------------------
(***************************************************************************)
(* The lists.  Two connections never have one descriptor, a list is never  *)
(* longer than its maximum (Insert would let it be), and only a class      *)
(* whose listening socket is open has connections.                         *)
(***************************************************************************)
FdsAreDistinct == \A c, d \in Clients : Open(c) /\ fdOf[c] = fdOf[d] => c = d
ListsFit == \A k \in Kinds : Len(slots[k]) <= maxConnections(k)
OpenIsServed == \A c \in Clients : Open(c) => Listening(Kind(c))

ListInv ==
    /\ Types
    /\ FdsAreDistinct
    /\ OpenHasSlot
    /\ ListsFit
    /\ OpenIsServed

LEMMA InitList == Init => ListInv
<1> SUFFICES ASSUME Init PROVE ListInv
  OBVIOUS
<1>1. \A c \in Clients : ~Open(c)
  BY DEF Init, Open
<1>2. ListsFit
  BY MaxIsNat DEF Init, ListsFit
<1> QED
  BY <1>1, <1>2, InitTypes DEF ListInv, FdsAreDistinct, OpenHasSlot, OpenIsServed

(***************************************************************************)
(* A step that opens no connection.                                        *)
(***************************************************************************)
Shrinks ==
    /\ \A c \in Clients : fdOf'[c] = fdOf[c] \/ fdOf'[c] = None
    /\ \A k \in Kinds : Len(slots'[k]) <= Len(slots[k])
    /\ OpenHasSlot'
    /\ OpenIsServed'

LEMMA ShrinksKeeps ==
    ASSUME ListInv, Types', Shrinks
    PROVE  ListInv'
<1>1. FdsAreDistinct'
  BY DEF ListInv, FdsAreDistinct, Shrinks, Open
<1>2. ListsFit'
  <2>1. ASSUME NEW k \in Kinds
        PROVE  Len(slots'[k]) <= maxConnections(k)
    <3>1. Len(slots'[k]) \in Nat /\ Len(slots[k]) \in Nat /\ maxConnections(k) \in Nat
      BY MaxIsNat DEF ListInv, Types, TypeOK
    <3> QED
      BY <3>1 DEF ListInv, ListsFit, Shrinks
  <2> QED
    BY <2>1 DEF ListsFit
<1> QED
  BY <1>1, <1>2 DEF ListInv, Shrinks

(***************************************************************************)
(* Lists and descriptors as they were, and a class that was listening and  *)
(* has connections still is.                                               *)
(***************************************************************************)
LEMMA SameShrinks ==
    ASSUME ListInv, UNCHANGED <<slots, fdOf>>,
           \A k \in Kinds : Listening(k) /\ OpenOf(k) # {} => Listening(k)'
    PROVE  Shrinks
<1>1. OpenHasSlot'
  BY DEF ListInv, OpenHasSlot, Open
<1>2. OpenIsServed'
  BY KindOfClient DEF ListInv, OpenIsServed, Open, OpenOf
<1>3. \A k \in Kinds : Len(slots'[k]) <= Len(slots[k])
  <2>1. \A k \in Kinds : Len(slots[k]) \in Nat
    BY DEF ListInv, Types, TypeOK
  <2> QED
    BY <2>1
<1> QED
  BY <1>1, <1>2, <1>3 DEF Shrinks

(***************************************************************************)
(* A descriptor is taken out of one list, and no connection has it then.   *)
(***************************************************************************)
LEMMA DeleteShrinks ==
    ASSUME ListInv, NEW k \in Kinds, NEW fd, NEW list,
           Len(list) <= Len(slots[k]),
           \A g : g # fd /\ Find(slots[k], g) => Find(list, g),
           slots' = [slots EXCEPT ![k] = list],
           \A c \in Clients : /\ fdOf'[c] = fdOf[c] \/ fdOf'[c] = None
                              /\ fdOf'[c] # None => fdOf'[c] # fd,
           pc' = pc
    PROVE  Shrinks
<1>1. \A j \in Kinds : Len(slots'[j]) <= Len(slots[j])
  <2>1. \A j \in Kinds : Len(slots[j]) \in Nat
    BY DEF ListInv, Types, TypeOK
  <2> QED
    BY <2>1 DEF ListInv, Types, TypeOK
<1>2. OpenHasSlot'
  <2>1. ASSUME NEW c \in Clients, fdOf'[c] # None
        PROVE  Find(slots'[Kind(c)], fdOf'[c])
    <3>1. fdOf'[c] = fdOf[c] /\ fdOf[c] # fd
      BY <2>1
    <3>2. Find(slots[Kind(c)], fdOf[c])
      BY <2>1, <3>1 DEF ListInv, OpenHasSlot, Open
    <3> QED
      BY <3>1, <3>2, KindOfClient DEF ListInv, Types, TypeOK
  <2> QED
    BY <2>1 DEF OpenHasSlot, Open
<1>3. OpenIsServed'
  BY DEF ListInv, OpenIsServed, Open, Listening
<1> QED
  BY <1>1, <1>2, <1>3 DEF Shrinks

(***************************************************************************)
(* The steps of the clients and of the threads.                            *)
(***************************************************************************)
LEMMA ServerStepList ==
    ASSUME ListInv, Types', NEW s \in Servers, ServerStep(s)
    PROVE  ListInv'
<1> SUFFICES Shrinks
  BY ShrinksKeeps
<1> USE DEF Listening
<1>1. pc \in [Servers -> {"idle", "starting", "loop", "wait", "ended"} \cup Kinds]
  BY DEF ListInv, Types, TypeOK
<1>2. CASE Start(s) \/ Stop(s) \/ Join(s) \/ Begin(s) \/ CheckRunning(s) \/ Wait(s)
             \/ LeaveLoop(s)
  <2>1. UNCHANGED <<slots, fdOf>>
    BY <1>2 DEF Start, Stop, Join, Begin, CheckRunning, Wait, LeaveLoop, netVars
  <2>2. ASSUME NEW k \in Kinds, Listening(k)
        PROVE  Listening(k)'
    <3>1. CASE LeaveLoop(s)
      <4>1. pc[s] = "loop" /\ pc' = [pc EXCEPT ![s] = FirstClosed(s)]
        BY <3>1 DEF LeaveLoop
      <4> QED
        BY <1>1, <2>2, <4>1, ServerOfKind DEF FirstClosed, ServerOf
    <3>2. CASE ~LeaveLoop(s)
      <4>1. k # "idle" /\ k # "starting" /\ k # "ended" /\ k # "loop" /\ k # "wait"
        BY ServerOfKind
      <4> QED
        BY <1>1, <1>2, <2>2, <3>2, <4>1, ServerOfKind
           DEF Start, Stop, Join, Begin, CheckRunning, Wait
    <3> QED
      BY <3>1, <3>2
  <2> QED
    BY <2>1, <2>2, SameShrinks
<1>3. CASE \/ \E fd \in Fds : ReadFails(s, fd)
           \/ \E c \in Clients : ReadData(s, c)
  <2>1. UNCHANGED <<slots, fdOf, pc>>
    BY <1>3 DEF ReadFails, ReadData
  <2> QED
    BY <2>1, SameShrinks
<1>4. ASSUME NEW c \in Clients, ReadReset(s, c)
      PROVE  Shrinks
  <2>1. UNCHANGED <<slots, pc>> /\ fdOf' = [fdOf EXCEPT ![c] = None]
    BY <1>4 DEF ReadReset, CloseConnection
  <2>2. /\ \A d \in Clients : fdOf'[d] = fdOf[d] \/ fdOf'[d] = None
        /\ \A k \in Kinds : Len(slots'[k]) <= Len(slots[k])
    <3>1. \A k \in Kinds : Len(slots[k]) \in Nat
      BY DEF ListInv, Types, TypeOK
    <3> QED
      BY <2>1, <3>1 DEF ListInv, Types, TypeOK
  <2>3. OpenHasSlot' /\ OpenIsServed'
    BY <2>1, <2>2 DEF ListInv, OpenHasSlot, OpenIsServed, Open
  <2> QED
    BY <2>2, <2>3 DEF Shrinks
<1> QED
  BY <1>2, <1>3, <1>4 DEF ServerStep

(***************************************************************************)
(* The end of a thread.  A class whose list is empty has no connection, so *)
(* its listening socket is the last to be closed.                          *)
(***************************************************************************)
LEMMA ClosingList ==
    ASSUME ListInv, Types', NEW k \in Kinds, CloseListed(k) \/ CloseListening(k)
    PROVE  ListInv'
<1> SUFFICES Shrinks
  BY ShrinksKeeps
<1>1. CASE CloseListed(k)
  <2>1. slots[k] \in Seq(Fds) /\ slots[k] # <<>> /\ pc' = pc
    BY <1>1 DEF CloseListed, ListInv, Types, TypeOK
  <2> DEFINE fd == Head(slots[k])
             list == Tail(slots[k])
  <2>2. Len(list) <= Len(slots[k]) /\ \A g : g # fd /\ Find(slots[k], g) => Find(list, g)
    <3>1. /\ Len(slots[k]) \in Nat /\ Len(list) = Len(slots[k]) - 1
          /\ \A i \in 1 .. Len(slots[k]) : i # 1 => i - 1 \in 1 .. Len(list)
          /\ \A i \in 1 .. Len(list) : list[i] = slots[k][i + 1]
          /\ fd = slots[k][1]
      BY <2>1
    <3> HIDE DEF fd, list
    <3>2. ASSUME NEW g, g # fd, NEW i \in 1 .. Len(slots[k]), slots[k][i] = g
          PROVE  \E j \in 1 .. Len(list) : list[j] = g
      <4>1. i - 1 \in 1 .. Len(list) /\ i - 1 + 1 = i
        BY <3>1, <3>2
      <4>2. list[i - 1] = slots[k][i]
        BY <3>1, <4>1
      <4> QED
        BY <3>2, <4>1, <4>2
    <3>3. Len(list) <= Len(slots[k])
      BY <3>1
    <3> QED
      BY <3>2, <3>3 DEF Find, Contains
  <2>3. slots' = [slots EXCEPT ![k] = list]
    BY <1>1 DEF CloseListed
  <2>4. ASSUME NEW d \in Clients
        PROVE  /\ fdOf'[d] = fdOf[d] \/ fdOf'[d] = None
               /\ fdOf'[d] # None => fdOf'[d] # fd
    <3>1. CASE UNCHANGED fdOf /\ \A c \in Clients : fdOf[c] # fd
      BY <3>1
    <3>2. ASSUME NEW c \in Clients, fdOf[c] = fd, CloseConnection(c)
          PROVE  /\ fdOf'[d] = fdOf[d] \/ fdOf'[d] = None
                 /\ fdOf'[d] # None => fdOf'[d] # fd
      <4>1. fdOf' = [fdOf EXCEPT ![c] = None] /\ fdOf \in [Clients -> Fds \cup {None}]
        BY <3>2 DEF CloseConnection, ListInv, Types, TypeOK
      <4>2. Open(c)
        BY <2>1, <3>2, ConstantsAssumption DEF Open
      <4> QED
        BY <3>2, <4>1, <4>2 DEF ListInv, FdsAreDistinct, Open
    <3> QED
      BY <1>1, <3>1, <3>2 DEF CloseListed
  <2> HIDE DEF fd, list
  <2> QED
    BY <2>1, <2>2, <2>3, <2>4, DeleteShrinks
<1>2. CASE CloseListening(k)
  <2>1. /\ UNCHANGED <<slots, fdOf>>
        /\ pc[ServerOf(k)] = k
        /\ slots[k] = <<>>
        /\ pc' = [pc EXCEPT ![ServerOf(k)] = NextClosed(k)]
        /\ pc \in [Servers -> {"idle", "starting", "loop", "wait", "ended"} \cup Kinds]
    BY <1>2 DEF CloseListening, ListInv, Types, TypeOK
  <2>2. OpenOf(k) = {}
    BY <2>1 DEF OpenOf, ListInv, OpenHasSlot, Find, Contains
  <2>3. ASSUME NEW j \in Kinds, Listening(j), OpenOf(j) # {}
        PROVE  Listening(j)'
    <3>1. j # k
      BY <2>2, <2>3
    <3>2. CASE ServerOf(j) # ServerOf(k)
      BY <2>1, <2>3, <3>2, ServerOfKind DEF Listening
    <3>3. CASE ServerOf(j) = ServerOf(k)
      <4>1. j = "device" /\ k = "interface"
        BY <2>1, <2>3, <3>1, <3>3, ServerOfKind DEF Listening, ServerOf
      <4> QED
        BY <2>1, <4>1, ServerOfKind DEF Listening, NextClosed, ServerOf
    <3> QED
      BY <3>2, <3>3
  <2> QED
    BY <2>1, <2>3, SameShrinks
<1> QED
  BY <1>1, <1>2

LEMMA ReadEndList ==
    ASSUME ListInv, Types', NEW c \in Clients,
           \/ ReadEnd(c) /\ "concurrent" \in Servers
           \/ HostReadEnd(c) /\ "config" \in Servers
    PROVE  ListInv'
<1> DEFINE fd == fdOf[c]
<1> SUFFICES Shrinks
  BY ShrinksKeeps
<1>1. pc' = pc /\ Open(c)
  BY DEF ReadEnd, HostReadEnd, ReadsEnd, Reads
<1>2. CASE UNCHANGED <<slots, fdOf>>
  BY <1>1, <1>2, SameShrinks DEF Listening
<1>3. CASE CloseConnection(c) /\ \E k \in Kinds :
             \/ slots' = [slots EXCEPT ![k] = Delete(slots[k], fd)]
             \/ slots' = [slots EXCEPT ![k] = Delete(Delete(slots[k], fd), fd)]
  <2>1. ASSUME NEW d \in Clients
        PROVE  /\ fdOf'[d] = fdOf[d] \/ fdOf'[d] = None
               /\ fdOf'[d] # None => fdOf'[d] # fd
    <3>1. fdOf' = [fdOf EXCEPT ![c] = None] /\ fdOf \in [Clients -> Fds \cup {None}]
      BY <1>3 DEF CloseConnection, ListInv, Types, TypeOK
    <3> QED
      BY <1>1, <3>1 DEF ListInv, FdsAreDistinct, Open
  <2>2. PICK k \in Kinds :
             \/ slots' = [slots EXCEPT ![k] = Delete(slots[k], fd)]
             \/ slots' = [slots EXCEPT ![k] = Delete(Delete(slots[k], fd), fd)]
    BY <1>3
  <2> DEFINE once == Delete(slots[k], fd)
             twice == Delete(once, fd)
  <2>3. slots[k] \in Seq(Fds)
    BY DEF ListInv, Types, TypeOK
  <2>4. /\ once \in Seq(Fds)
        /\ Len(once) <= Len(slots[k])
        /\ \A g : g # fd /\ Find(slots[k], g) => Find(once, g)
    BY <2>3, DeleteKeeps
  <2>5. /\ twice \in Seq(Fds)
        /\ Len(twice) <= Len(once)
        /\ \A g : g # fd /\ Find(once, g) => Find(twice, g)
    BY <2>4, DeleteKeeps
  <2>6. slots' = [slots EXCEPT ![k] = once] \/ slots' = [slots EXCEPT ![k] = twice]
    BY <2>2
  <2> HIDE DEF once, twice, fd
  <2>7. Len(twice) <= Len(slots[k])
    <3>1. Len(slots[k]) \in Nat /\ Len(once) \in Nat /\ Len(twice) \in Nat
      BY <2>3, <2>4, <2>5
    <3> QED
      BY <2>4, <2>5, <3>1
  <2>8. \A g : g # fd /\ Find(slots[k], g) => Find(twice, g)
    BY <2>4, <2>5
  <2>9. CASE slots' = [slots EXCEPT ![k] = once]
    BY <1>1, <2>1, <2>4, <2>9, DeleteShrinks
  <2>10. CASE slots' = [slots EXCEPT ![k] = twice]
    BY <1>1, <2>1, <2>7, <2>8, <2>10, DeleteShrinks
  <2> QED
    BY <2>6, <2>9, <2>10
<1>4. CASE ReadEnd(c) /\ "concurrent" \in Servers
  <2> DEFINE listed == {k \in Kinds \ {"host"} : Find(slots[k], fd)}
             found == IF "device" \in listed THEN "device" ELSE "interface"
  <2>1. found \in Kinds
    BY <1>4 DEF Kinds, KindsOf
  <2>2. \/ UNCHANGED <<slots, fdOf>>
        \/ slots' = [slots EXCEPT ![found] = CheckFd(found, fd)] /\ CloseConnection(c)
    BY <1>4 DEF ReadEnd
  <2> HIDE DEF found
  <2>3. CheckFd(found, fd) \in {Delete(slots[found], fd), Delete(Delete(slots[found], fd), fd)}
    BY DEF CheckFd
  <2> QED
    BY <1>2, <1>3, <2>1, <2>2, <2>3
<1>5. CASE HostReadEnd(c) /\ "config" \in Servers
  <2>1. "host" \in Kinds
    BY <1>5, KindOfServer DEF KindsOf
  <2>2. slots' = [slots EXCEPT !["host"] = Delete(slots["host"], fd)] /\ CloseConnection(c)
    BY <1>5 DEF HostReadEnd
  <2> QED
    BY <1>3, <2>1, <2>2
<1> QED
  BY <1>4, <1>5

(***************************************************************************)
(* Only Accept opens a connection, and only below the maximum.             *)
(***************************************************************************)
LEMMA AcceptList ==
    ASSUME ListInv, Queues, Types', NEW k \in Kinds, Accept(k) \/ AcceptFails(k)
    PROVE  ListInv'
<1>1. CASE AcceptFails(k)
  <2>1. UNCHANGED <<slots, fdOf, pc>>
    BY <1>1 DEF AcceptFails
  <2>2. Shrinks
    BY <2>1, SameShrinks DEF Listening
  <2> QED
    BY <2>2, ShrinksKeeps
<1>2. ASSUME Accept(k), NEW c, c = Head(backlog[k]), NEW fd, fd = LowestFree
      PROVE  ListInv'
  <2>1. /\ fd \in Fds /\ \A d \in Clients : fdOf[d] # fd
        /\ slots[k] \in Seq(Fds)
        /\ pc' = pc
        /\ c \in Clients
        /\ Listening(k)
        /\ fd # None
    BY <1>2, LowestFreeIsFree, ConstantsAssumption
       DEF Accept, Event, Listening, ListInv, Types, TypeOK
  <2>2. Kind(c) = k
    <3>1. backlog[k] \in Seq(Clients) /\ backlog[k] # <<>>
      BY <1>2 DEF Accept, ListInv, Types, TypeOK
    <3>2. 1 \in 1 .. Len(backlog[k]) /\ c = backlog[k][1]
      BY <1>2, <3>1
    <3> QED
      BY <3>2 DEF Queues, QueueOf
  <2>3. CASE Refuse(k, c)
    <3> DEFINE list == Delete(slots[k], fd)
    <3>1. Len(list) <= Len(slots[k]) /\ \A g : g # fd /\ Find(slots[k], g) => Find(list, g)
      BY <2>1, DeleteKeeps
    <3>2. slots' = [slots EXCEPT ![k] = list] /\ fdOf' = fdOf
      BY <1>2, <2>3 DEF Refuse
    <3> HIDE DEF list
    <3>3. Shrinks
      BY <2>1, <3>1, <3>2, DeleteShrinks
    <3> QED
      BY <3>3, ShrinksKeeps
  <2>4. CASE Admit(k, c)
    <3>1. Len(slots[k]) < maxConnections(k) /\ maxConnections(k) \in Nat
      BY <2>4, MaxIsNat DEF Admit, CheckConnections, GetTotalCount
    <3>2. /\ slots' = [slots EXCEPT ![k] = Append(slots[k], fd)]
          /\ fdOf' = [fdOf EXCEPT ![c] = fd]
      <4>1. Insert(slots[k], fd, maxConnections(k)) = Append(slots[k], fd)
        BY <2>1, <3>1 DEF Insert
      <4> QED
        BY <1>2, <2>4, <4>1 DEF Admit
    <3>3. /\ fdOf'[c] = fd /\ \A d \in Clients : d # c => fdOf'[d] = fdOf[d]
          /\ slots'[k] = Append(slots[k], fd)
          /\ \A j \in Kinds : j # k => slots'[j] = slots[j]
      BY <2>1, <3>2 DEF ListInv, Types, TypeOK
    <3>4. /\ Len(Append(slots[k], fd)) = Len(slots[k]) + 1
          /\ Find(Append(slots[k], fd), fd)
          /\ \A g : Find(slots[k], g) => Find(Append(slots[k], fd), g)
      <4>1. /\ Len(Append(slots[k], fd)) = Len(slots[k]) + 1 /\ Len(slots[k]) \in Nat
            /\ Append(slots[k], fd)[Len(slots[k]) + 1] = fd
            /\ \A i \in 1 .. Len(slots[k]) : Append(slots[k], fd)[i] = slots[k][i]
        BY <2>1
      <4> QED
        BY <4>1 DEF Find, Contains
    <3>5. FdsAreDistinct'
      <4>1. ASSUME NEW d \in Clients, NEW e \in Clients, fdOf'[d] # None, fdOf'[d] = fdOf'[e]
            PROVE  d = e
        BY <2>1, <3>3, <4>1 DEF ListInv, FdsAreDistinct, Open
      <4> QED
        BY <4>1 DEF FdsAreDistinct, Open
    <3>6. OpenHasSlot'
      <4>1. ASSUME NEW d \in Clients, fdOf'[d] # None
            PROVE  Find(slots'[Kind(d)], fdOf'[d])
        <5>1. CASE d = c
          BY <2>2, <3>3, <3>4, <5>1
        <5>2. CASE d # c
          <6>1. Find(slots[Kind(d)], fdOf[d]) /\ fdOf'[d] = fdOf[d]
            BY <3>3, <4>1, <5>2 DEF ListInv, OpenHasSlot, Open
          <6> QED
            BY <3>3, <3>4, <6>1, KindOfClient
        <5> QED
          BY <5>1, <5>2
      <4> QED
        BY <4>1 DEF OpenHasSlot, Open
    <3>7. ListsFit'
      <4>1. Len(slots[k]) + 1 <= maxConnections(k)
        BY <2>1, <3>1
      <4> QED
        BY <3>3, <3>4, <4>1 DEF ListInv, ListsFit
    <3>8. OpenIsServed'
      <4>1. ASSUME NEW d \in Clients, fdOf'[d] # None
            PROVE  Listening(Kind(d))
        BY <2>1, <2>2, <3>3, <4>1 DEF ListInv, OpenIsServed, Open
      <4> QED
        BY <2>1, <4>1 DEF OpenIsServed, Open, Listening
    <3> QED
      BY <3>5, <3>6, <3>7, <3>8 DEF ListInv
  <2> QED
    BY <1>2, <2>3, <2>4 DEF Accept
<1> QED
  BY <1>1, <1>2

LEMMA StepList ==
    ASSUME ListInv, Queues, [Next]_vars
    PROVE  ListInv'
<1>1. Types'
  BY StepTypes DEF ListInv
<1>2. CASE UNCHANGED vars
  <2>1. Shrinks
    BY <1>2, SameShrinks DEF vars, Listening
  <2> QED
    BY <1>1, <2>1, ShrinksKeeps
<1>3. CASE ClientStep
  <2>1. UNCHANGED <<slots, fdOf, pc>>
    BY <1>3 DEF ClientStep, Connect, Send, Close, Abort
  <2>2. Shrinks
    BY <2>1, SameShrinks DEF Listening
  <2> QED
    BY <1>1, <2>2, ShrinksKeeps
<1> QED
  BY <1>1, <1>2, <1>3, Steps, ServerStepList, AcceptList, ClosingList, ReadEndList
     DEF KindStep

-----------------------------------------------------------------------------
(***************************************************************************)
(* Only a thread in its loop has events to handle.                         *)
(***************************************************************************)
EventsInLoop == \A s \in Servers : pc[s] # "loop" => batch[s] = {}

LEMMA HandleInLoop ==
    ASSUME Types, EventsInLoop, NEW s \in Servers, NEW e, Handle(s, e), pc' = pc
    PROVE  EventsInLoop'
BY DEF Types, TypeOK, EventsInLoop, Handle

LEMMA StepInLoop ==
    ASSUME Types, EventsInLoop, [Next]_vars
    PROVE  EventsInLoop'
<1>1. CASE UNCHANGED <<pc, batch>>
  BY <1>1 DEF EventsInLoop
<1>2. ASSUME NEW s \in Servers, ServerStep(s)
      PROVE  EventsInLoop'
  <2>1. pc \in [Servers -> {"idle", "starting", "loop", "wait", "ended"} \cup Kinds]
    BY DEF Types, TypeOK
  <2>2. CASE Start(s) \/ Join(s) \/ Begin(s) \/ CheckRunning(s) \/ LeaveLoop(s)
    <3>1. batch' = batch /\ batch[s] = {} /\ \A t \in Servers : t # s => pc'[t] = pc[t]
      BY <2>1, <2>2 DEF Start, Join, Begin, CheckRunning, LeaveLoop, EventsInLoop
    <3> QED
      BY <3>1 DEF EventsInLoop
  <2>3. CASE Stop(s)
    BY <1>1, <2>3 DEF Stop
  <2>4. CASE Wait(s)
    <3>1. /\ pc'[s] = "loop"
          /\ \A t \in Servers : t # s => pc'[t] = pc[t] /\ batch'[t] = batch[t]
      BY <2>1, <2>4 DEF Wait, Types, TypeOK
    <3> QED
      BY <3>1 DEF EventsInLoop
  <2>5. CASE \/ \E fd \in Fds : ReadFails(s, fd)
             \/ \E c \in Clients : ReadData(s, c) \/ ReadReset(s, c)
    BY <2>5, HandleInLoop DEF ReadFails, ReadData, ReadReset
  <2> QED
    BY <1>2, <2>2, <2>3, <2>4, <2>5 DEF ServerStep
<1>3. ASSUME NEW k \in Kinds, KindStep(k)
      PROVE  EventsInLoop'
  <2>1. CASE Accept(k) \/ AcceptFails(k)
    BY <2>1, HandleInLoop, ServerOfKind DEF Accept, AcceptFails, HandleAccept
  <2>2. CASE CloseListed(k)
    BY <1>1, <2>2 DEF CloseListed
  <2>3. CASE CloseListening(k)
    <3>1. batch' = batch /\ batch[ServerOf(k)] = {}
      BY <2>3, ServerOfKind DEF CloseListening, EventsInLoop
    <3>2. \A t \in Servers : t # ServerOf(k) => pc'[t] = pc[t]
      BY <2>3 DEF CloseListening, Types, TypeOK
    <3> QED
      BY <3>1, <3>2 DEF EventsInLoop
  <2> QED
    BY <1>3, <2>1, <2>2, <2>3 DEF KindStep
<1>4. ASSUME NEW c \in Clients,
             \/ ReadEnd(c) /\ "concurrent" \in Servers
             \/ HostReadEnd(c) /\ "config" \in Servers
      PROVE  EventsInLoop'
  BY <1>4, HandleInLoop DEF ReadEnd, HostReadEnd, ReadsEnd
<1>5. CASE ClientStep
  BY <1>1, <1>5 DEF ClientStep, Connect, Send, Close, Abort
<1>6. CASE UNCHANGED vars
  BY <1>1, <1>6 DEF vars
<1>7. CASE Next
  <2>1. \/ \E s \in Servers : ServerStep(s)
        \/ \E k \in Kinds : KindStep(k)
        \/ \E c \in Clients : ReadEnd(c) /\ "concurrent" \in Servers
        \/ \E c \in Clients : HostReadEnd(c) /\ "config" \in Servers
        \/ ClientStep
    BY <1>7, Steps
  <2> QED
    BY <1>2, <1>3, <1>4, <1>5, <2>1
<1> QED
  BY <1>6, <1>7

(***************************************************************************)
(* The inductive invariant holds in every reachable state.                 *)
(***************************************************************************)
Inv == ListInv /\ Queues /\ EventsInLoop

LEMMA InitInv == Init => Inv
<1>1. Init => EventsInLoop
  BY DEF Init, EventsInLoop
<1> QED
  BY <1>1, InitList, InitQueues DEF Inv

LEMMA StepInv == Inv /\ [Next]_vars => Inv'
BY StepList, StepQueues, StepInLoop DEF Inv, ListInv

LEMMA InvHolds == Spec => []Inv
BY InitInv, StepInv, PTL DEF Spec

(***************************************************************************)
(* The open connections of a class are as many as descriptors in its list  *)
(* at most.                                                                *)
(***************************************************************************)
LEMMA InvWithinLimit == Inv => WithinLimit
<1> SUFFICES ASSUME Inv, NEW k \in Kinds
             PROVE  Cardinality(OpenOf(k)) <= maxConnections(k)
  BY DEF WithinLimit
<1> DEFINE n == Len(slots[k])
           place == [c \in OpenOf(k) |-> CHOOSE i \in 1 .. n : slots[k][i] = fdOf[c]]
<1>1. n \in Nat /\ maxConnections(k) \in Nat /\ n <= maxConnections(k)
  BY MaxIsNat DEF Inv, ListInv, Types, TypeOK, ListsFit
<1>2. ASSUME NEW c \in OpenOf(k)
      PROVE  place[c] \in 1 .. n /\ slots[k][place[c]] = fdOf[c]
  <2>1. \E i \in 1 .. n : slots[k][i] = fdOf[c]
    BY DEF OpenOf, Inv, ListInv, OpenHasSlot, Find, Contains
  <2> QED
    BY <2>1
<1> HIDE DEF place, n
<1>3. place \in [OpenOf(k) -> 1 .. n]
  BY <1>2 DEF place
<1>4. ASSUME NEW c \in OpenOf(k), NEW d \in OpenOf(k), place[c] = place[d]
      PROVE  c = d
  BY <1>2, <1>4 DEF OpenOf, Inv, ListInv, FdsAreDistinct
<1>5. place \in Injection(OpenOf(k), 1 .. n)
  BY <1>3, <1>4 DEF Injection, IsInjective
<1>6. IsFiniteSet(1 .. n) /\ Cardinality(1 .. n) = n
  BY <1>1, FS_Interval
<1>7. IsFiniteSet(OpenOf(k)) /\ Cardinality(OpenOf(k)) <= n
  BY <1>5, <1>6, FS_Injection
<1>8. Cardinality(OpenOf(k)) \in Nat
  BY <1>7, FS_CardinalityType
<1> QED
  BY <1>1, <1>7, <1>8

LEMMA InvEndClosesAll == Inv => EndClosesAll
<1> SUFFICES ASSUME Inv, NEW s \in Servers, pc[s] = "ended", NEW k \in KindsOf(s),
                    NEW c \in OpenOf(k)
             PROVE  FALSE
  BY DEF EndClosesAll
<1>1. ServerOf(Kind(c)) = s
  BY KindOfServer DEF OpenOf
<1>2. s # "ended" /\ Kind(c) # "ended"
  BY KindOfClient, ServerOfKind, ServersAreTwo DEF OpenOf
<1> QED
  BY <1>1, <1>2 DEF OpenOf, Inv, ListInv, OpenIsServed, Listening

(***************************************************************************)
(* The types of the variables are as TypeOK says.                          *)
(***************************************************************************)
THEOREM ServerTypesHold == Spec => []TypeOK
<1>1. Inv => TypeOK
  BY DEF Inv, ListInv, Types
<1> QED
  BY <1>1, InvHolds, PTL

(***************************************************************************)
(* Whatever the clients do, whichever of them reset and however the two    *)
(* servers share the descriptors, the descriptor of an open connection is  *)
(* in the list of its own class.                                           *)
(***************************************************************************)
THEOREM ConnectionsStayListed == Spec => []OpenHasSlot
<1>1. Inv => OpenHasSlot
  BY DEF Inv, ListInv
<1> QED
  BY <1>1, InvHolds, PTL

(***************************************************************************)
(* For every maximum, no class has more connections open than it allows.   *)
(***************************************************************************)
THEOREM ConnectionsStayWithinLimit == Spec => []WithinLimit
BY InvHolds, InvWithinLimit, PTL

(***************************************************************************)
(* A thread that has ended, or has not begun, has no connection open.      *)
(***************************************************************************)
THEOREM EndedThreadsHaveNone == Spec => []EndClosesAll
BY InvHolds, InvEndClosesAll, PTL

-----------------------------------------------------------------------------
(***************************************************************************)
(* The events of a thread.  Of two servers one may close a descriptor that *)
(* the other still has an event for, and get it again; the rest is about   *)
(* one of them.                                                            *)
(***************************************************************************)
OneServer == \A s, t \in Servers : s = t

\* An event is of the own listening socket or of a connection that has it.
BatchInv ==
    \A s \in Servers :
       /\ \A k \in Kinds : AcceptEvent(k) \in batch[s] => s = ServerOf(k) /\ backlog[k] # <<>>
       /\ \A fd \in Fds : ReadEvent(fd) \in batch[s] =>
             \E c \in Clients : fdOf[c] = fd /\ Readable(c)

LEMMA EventsDiffer ==
    /\ \A k \in Kinds, fd \in Fds : AcceptEvent(k) # ReadEvent(fd)
    /\ \A j, k \in Kinds : AcceptEvent(j) = AcceptEvent(k) => j = k
    /\ \A f, g \in Fds : ReadEvent(f) = ReadEvent(g) => f = g
BY ConstantsAssumption, ServerOfKind DEF AcceptEvent, ReadEvent

LEMMA InvCallsDoNotWait == Inv /\ BatchInv => CallsDoNotWait
<1> SUFFICES ASSUME Inv, BatchInv, NEW s \in Servers, NEW e \in batch[s]
             PROVE  /\ \A k \in Kinds : e = AcceptEvent(k) => backlog[k] # <<>>
                    /\ \A c \in Clients : Open(c) /\ e = ReadEvent(fdOf[c]) => Readable(c)
  BY DEF CallsDoNotWait
<1>1. ASSUME NEW c \in Clients, Open(c), e = ReadEvent(fdOf[c])
      PROVE  Readable(c)
  <2>1. fdOf[c] \in Fds
    BY <1>1 DEF Inv, ListInv, Types, TypeOK, Open
  <2>2. PICK d \in Clients : fdOf[d] = fdOf[c] /\ Readable(d)
    BY <1>1, <2>1 DEF BatchInv
  <2> QED
    BY <1>1, <2>2 DEF Inv, ListInv, FdsAreDistinct
<1> QED
  BY <1>1 DEF BatchInv

(***************************************************************************)
(* What keeps the events true: none is new, and what those that are left   *)
(* speak of is still there.                                                *)
(***************************************************************************)
LEMMA FewerEvents ==
    ASSUME Inv, BatchInv,
           \A s \in Servers : batch'[s] \subseteq batch[s],
           \A k \in Kinds : \/ AcceptEvent(k) \notin batch'[ServerOf(k)]
                            \/ backlog[k] # <<>> => backlog'[k] # <<>>,
           \A c \in Clients : \/ fdOf[c] \notin Fds
                              \/ \A s \in Servers : ReadEvent(fdOf[c]) \notin batch'[s]
                              \/ fdOf'[c] = fdOf[c] /\ (Readable(c) => Readable(c)')
    PROVE  BatchInv'
<1>1. ASSUME NEW s \in Servers, NEW k \in Kinds, AcceptEvent(k) \in batch'[s]
      PROVE  s = ServerOf(k) /\ backlog'[k] # <<>>
  BY <1>1 DEF BatchInv
<1>2. ASSUME NEW s \in Servers, NEW fd \in Fds, ReadEvent(fd) \in batch'[s]
      PROVE  \E c \in Clients : fdOf'[c] = fd /\ Readable(c)'
  <2>1. PICK c \in Clients : fdOf[c] = fd /\ Readable(c)
    BY <1>2 DEF BatchInv
  <2> QED
    BY <1>2, <2>1
<1> QED
  BY <1>1, <1>2 DEF BatchInv, AcceptEvent, ReadEvent, Readable

(***************************************************************************)
(* Nothing but the handled event changes.                                  *)
(***************************************************************************)
LEMMA HandledEvent ==
    ASSUME Inv, NEW s \in Servers, NEW e, Handle(s, e)
    PROVE  /\ \A t \in Servers : batch'[t] \subseteq batch[t]
           /\ e \notin batch'[s]
BY DEF Inv, ListInv, Types, TypeOK, Handle

LEMMA ReadBatches ==
    ASSUME OneServer, Inv, BatchInv, NEW s \in Servers, NEW c \in Clients,
           Open(c), Handle(s, ReadEvent(fdOf[c])), backlog' = backlog,
           \A d \in Clients : d # c => fdOf'[d] = fdOf[d] /\ sock'[d] = sock[d]
    PROVE  BatchInv'
<1>1. /\ \A t \in Servers : batch'[t] \subseteq batch[t]
      /\ \A t \in Servers : ReadEvent(fdOf[c]) \notin batch'[t]
  BY HandledEvent DEF OneServer
<1>2. \A d \in Clients : d # c => fdOf'[d] = fdOf[d] /\ (Readable(d) => Readable(d)')
  BY DEF Readable
<1> QED
  BY <1>1, <1>2, FewerEvents

LEMMA ServerBatches ==
    ASSUME OneServer, Inv, BatchInv, NEW s \in Servers, ServerStep(s)
    PROVE  BatchInv'
<1>1. CASE Start(s) \/ Stop(s) \/ Join(s) \/ Begin(s) \/ CheckRunning(s) \/ LeaveLoop(s)
  <2>1. UNCHANGED <<fdOf, backlog, sock, batch>>
    BY <1>1 DEF Start, Stop, Join, Begin, CheckRunning, LeaveLoop, netVars
  <2> QED
    BY <2>1 DEF BatchInv, Readable
<1>2. CASE Wait(s)
  <2> DEFINE found == {x \in edge : Registered(s, x) /\ Ready(x)}
  <2>1. /\ batch'[s] = {AcceptEvent(k) : k \in found \cap Kinds}
                         \cup {ReadEvent(fdOf[c]) : c \in found \cap Clients}
        /\ \A t \in Servers : t = s
        /\ UNCHANGED <<fdOf, backlog, sock>>
    BY <1>2 DEF Wait, OneServer, Inv, ListInv, Types, TypeOK
  <2>2. ASSUME NEW k \in found \cap Kinds
        PROVE  k \in KindsOf(s) /\ backlog[k] # <<>>
    BY DEF Registered, Ready
  <2>3. ASSUME NEW c \in found \cap Clients
        PROVE  fdOf[c] \in Fds /\ Readable(c)
    BY ClientsAreNotKinds DEF Ready, Inv, ListInv, Types, TypeOK, EdgesAreOpen, Open
  <2> HIDE DEF found
  <2>4. ASSUME NEW k \in Kinds, AcceptEvent(k) \in batch'[s]
        PROVE  s = ServerOf(k) /\ backlog'[k] # <<>>
    <3>1. k \in found
      BY <2>1, <2>3, <2>4, EventsDiffer
    <3> QED
      BY <2>1, <2>2, <3>1, ServerOfKind
  <2>5. ASSUME NEW fd \in Fds, ReadEvent(fd) \in batch'[s]
        PROVE  \E c \in Clients : fdOf'[c] = fd /\ Readable(c)'
    <3>1. PICK c \in found \cap Clients : fd = fdOf[c]
      BY <2>1, <2>3, <2>5, EventsDiffer
    <3> QED
      BY <2>1, <2>3, <3>1 DEF Readable
  <2> QED
    BY <2>1, <2>4, <2>5 DEF BatchInv, AcceptEvent, ReadEvent, Readable
<1>3. ASSUME NEW fd \in Fds, ReadFails(s, fd)
      PROVE  BatchInv'
  <2>1. UNCHANGED <<fdOf, backlog, sock>>
    BY <1>3 DEF ReadFails, netVars
  <2>2. \A t \in Servers : batch'[t] \subseteq batch[t]
    BY <1>3, HandledEvent DEF ReadFails
  <2> QED
    BY <2>1, <2>2, FewerEvents DEF Readable
<1>4. ASSUME NEW c \in Clients, ReadData(s, c) \/ ReadReset(s, c)
      PROVE  BatchInv'
  <2>1. Open(c) /\ Handle(s, ReadEvent(fdOf[c])) /\ backlog' = backlog
    BY <1>4 DEF ReadData, ReadReset, Reads
  <2>2. \A d \in Clients : d # c => fdOf'[d] = fdOf[d] /\ sock'[d] = sock[d]
    BY <1>4 DEF ReadData, ReadReset, CloseConnection, Inv, ListInv, Types, TypeOK
  <2> QED
    BY <2>1, <2>2, ReadBatches
<1> QED
  BY <1>1, <1>2, <1>3, <1>4 DEF ServerStep

LEMMA ReadEndBatches ==
    ASSUME OneServer, Inv, BatchInv, NEW c \in Clients,
           \/ ReadEnd(c) /\ "concurrent" \in Servers
           \/ HostReadEnd(c) /\ "config" \in Servers
    PROVE  BatchInv'
<1>1. PICK s \in Servers : ReadsEnd(s, c)
  BY DEF ReadEnd, HostReadEnd
<1>2. Open(c) /\ Handle(s, ReadEvent(fdOf[c])) /\ backlog' = backlog
  BY <1>1 DEF ReadsEnd, Reads
<1>3. CloseConnection(c) \/ UNCHANGED <<fdOf, sock>>
  BY DEF ReadEnd, HostReadEnd
<1>4. \A d \in Clients : d # c => fdOf'[d] = fdOf[d] /\ sock'[d] = sock[d]
  BY <1>3 DEF CloseConnection, Inv, ListInv, Types, TypeOK
<1> QED
  BY <1>2, <1>4, ReadBatches

LEMMA AcceptBatches ==
    ASSUME OneServer, Inv, BatchInv, NEW k \in Kinds, Accept(k) \/ AcceptFails(k)
    PROVE  BatchInv'
<1>1. /\ \A t \in Servers : batch'[t] \subseteq batch[t]
      /\ AcceptEvent(k) \notin batch'[ServerOf(k)]
  BY HandledEvent, ServerOfKind DEF Accept, AcceptFails, HandleAccept
<1>2. CASE AcceptFails(k)
  BY <1>1, <1>2, FewerEvents DEF AcceptFails, netVars, Readable
<1>3. ASSUME Accept(k), NEW c, c = Head(backlog[k])
      PROVE  BatchInv'
  <2>1. backlog[k] \in Seq(Clients) /\ backlog[k] # <<>>
    BY <1>3 DEF Accept, Inv, ListInv, Types, TypeOK
  <2>2. 1 \in 1 .. Len(backlog[k]) /\ c = backlog[k][1] /\ c \in Clients
    BY <1>3, <2>1
  <2>3. ~Open(c)
    BY <2>2 DEF Inv, Queues, QueueOf
  <2>4. \A j \in Kinds : j # k => backlog'[j] = backlog[j]
    BY <1>3 DEF Accept, Inv, ListInv, Types, TypeOK
  <2>5. \A d \in Clients : d # c => fdOf'[d] = fdOf[d] /\ sock'[d] = sock[d]
    BY <1>3 DEF Accept, Admit, Refuse, Inv, ListInv, Types, TypeOK
  <2>6. fdOf[c] \notin Fds
    BY <2>3, ConstantsAssumption DEF Open
  <2> QED
    BY <1>1, <2>4, <2>5, <2>6, FewerEvents DEF Readable
<1> QED
  BY <1>2, <1>3

LEMMA ClosingBatches ==
    ASSUME OneServer, Inv, NEW k \in Kinds, CloseListed(k) \/ CloseListening(k)
    PROVE  BatchInv'
<1>1. batch' = batch /\ batch[ServerOf(k)] = {}
  BY ServerOfKind DEF CloseListed, CloseListening, Inv, EventsInLoop
<1>2. \A s \in Servers : batch'[s] = {}
  BY <1>1, ServerOfKind DEF OneServer
<1> QED
  BY <1>2 DEF BatchInv

LEMMA ClientBatches ==
    ASSUME Inv, BatchInv, ClientStep
    PROVE  BatchInv'
<1>1. fdOf' = fdOf /\ batch' = batch
  BY DEF ClientStep, Connect, Send, Close, Abort
<1>2. ASSUME NEW c \in Clients, Connect(c)
      PROVE  BatchInv'
  <2>1. ~Open(c)
    BY <1>2 DEF Connect, Inv, Queues
  <2>2. fdOf[c] \notin Fds
    BY <2>1, ConstantsAssumption DEF Open
  <2>3. \A d \in Clients : d # c => sock'[d] = sock[d]
    BY <1>2 DEF Connect, Inv, ListInv, Types, TypeOK
  <2>4. \A k \in Kinds : backlog[k] # <<>> => backlog'[k] # <<>>
    <3>1. backlog' = [backlog EXCEPT ![Kind(c)] = Append(backlog[Kind(c)], c)]
      BY <1>2 DEF Connect
    <3>2. backlog \in [Kinds -> Seq(Clients)] /\ Kind(c) \in Kinds
      BY KindOfClient DEF Inv, ListInv, Types, TypeOK
    <3>3. Append(backlog[Kind(c)], c) # <<>>
      BY <3>2
    <3> QED
      BY <3>1, <3>2, <3>3
  <2> QED
    BY <1>1, <2>2, <2>3, <2>4, FewerEvents DEF Readable
<1>3. ASSUME NEW c \in Clients, Send(c) \/ Close(c) \/ Abort(c)
      PROVE  BatchInv'
  <2>1. \A d \in Clients : d # c => sock'[d] = sock[d]
    BY <1>3 DEF Send, Close, Abort, Inv, ListInv, Types, TypeOK
  <2>2. Readable(c)'
    <3>1. sock[c].inq \in Nat
      BY DEF Inv, ListInv, Types, TypeOK
    <3>2. sock'[c].inq = sock[c].inq + 1 \/ sock'[c].peer # "connected"
      BY <1>3 DEF Send, Close, Abort, Inv, ListInv, Types, TypeOK
    <3> QED
      BY <3>1, <3>2 DEF Readable
  <2>3. backlog' = backlog
    BY <1>3 DEF Send, Close, Abort
  <2> QED
    BY <1>1, <2>1, <2>2, <2>3, FewerEvents DEF Readable
<1> QED
  BY <1>2, <1>3 DEF ClientStep

LEMMA StepBatches ==
    ASSUME OneServer, Inv, BatchInv, [Next]_vars
    PROVE  BatchInv'
<1>1. CASE UNCHANGED vars
  BY <1>1 DEF vars, BatchInv, Readable
<1>2. CASE Next
  BY <1>2, Steps, ServerBatches, ReadEndBatches, AcceptBatches, ClosingBatches, ClientBatches
     DEF KindStep
<1> QED
  BY <1>1, <1>2

(***************************************************************************)
(* A server that is alone never calls accept or read when there is nothing *)
(* for it, although its sockets are in blocking mode: Stop can always join *)
(* its thread.                                                             *)
(***************************************************************************)
THEOREM OneServerNeverWaits == OneServer => (Spec => []CallsDoNotWait)
<1> SUFFICES ASSUME OneServer
             PROVE  Spec => []CallsDoNotWait
  OBVIOUS
<1>1. Init => BatchInv
  BY DEF Init, BatchInv
<1>2. Inv /\ BatchInv /\ [Next]_vars => BatchInv'
  BY StepBatches
<1> QED
  BY <1>1, <1>2, InvHolds, InvCallsDoNotWait, PTL DEF Spec
=============================================================================
