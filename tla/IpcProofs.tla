------------------------------ MODULE IpcProofs ------------------------------
(***************************************************************************)
(* Proofs about the IPC server, for any number of connections, children    *)
(* and descriptors.  The invariant is inductive together with the types:   *)
(* an accept takes a descriptor that nothing else has, and a connection    *)
(* that was closed never gets one again, so that a descriptor the console  *)
(* has loaded stays that of the connection it was loaded for, or of none   *)
(* that matters any more.                                                  *)
(***************************************************************************)
EXTENDS Ipc, WellFoundedInduction, TLAPS

\* OpToRel(<, Nat), written out.
Less == {p \in Nat \X Nat : p[1] < p[2]}

LEMMA LessIsWellFounded == IsWellFoundedOn(Less, Nat)
BY NatLessThanWellFounded DEF OpToRel, Less

(***************************************************************************)
(* The kernel gives the lowest free descriptor: it is one, and neither a   *)
(* connection nor a client of the parent has it.                           *)
(***************************************************************************)
LEMMA LowestFreeIsFree ==
    ASSUME FreeFds # {}
    PROVE  /\ LowestFree \in Fds
           /\ \A k \in Conns : fdOf[k] # LowestFree /\ ownFd[k] # LowestFree
<1>1. FreeFds \subseteq Nat
  BY IpcAssumption DEF FreeFds
<1>2. PICK fd \in FreeFds : \A other \in FreeFds : <<other, fd>> \notin Less
  BY <1>1, LessIsWellFounded, WFMin
<1>3. \A other \in FreeFds : fd <= other
  <2> SUFFICES ASSUME NEW other \in FreeFds, ~(fd <= other)
               PROVE  FALSE
    OBVIOUS
  <2>1. fd \in Nat /\ other \in Nat
    BY <1>1
  <2>2. other < fd
    BY <2>1
  <2>3. <<other, fd>> \in Less
    BY <2>1, <2>2 DEF Less
  <2> QED
    BY <1>2, <2>3
<1>4. LowestFree \in FreeFds
  BY <1>3 DEF LowestFree
<1> QED
  BY <1>4 DEF FreeFds

-----------------------------------------------------------------------------
(***************************************************************************)
(* The invariant.                                                          *)
(***************************************************************************)
Messages == {"text", "stop", None}
ConnRecords == [end : {"unused", "open", "shut", "closed"}, toClient : Seq(Messages),
                toServer : Nat, error : BOOLEAN]
Batches == SUBSET {"ipc", "device"}
ChildRecords == [pc : {"none", "forked", "loop", "write", "exited"},
                 conn : Conns \cup {None}, running : BOOLEAN, edge : BOOLEAN,
                 batch : Batches]
ConsoleRecords == [pc : {"idle", "load", "write"}, msg : Messages,
                   fd : Fds \cup {None}, aim : Conns \cup {None}]

Types ==
    /\ ipcFd \in Fds \cup {None}
    /\ latest \in Conns \cup {None}
    /\ fdOf \in [Conns -> Fds \cup {None}]
    /\ backlog \in Seq(Conns)
    /\ edge \subseteq Conns \cup {None}
    /\ conn \in [Conns -> ConnRecords]
    /\ mainConn \in Conns \cup {None}
    /\ ownFd \in [Conns -> Fds \cup {None}]
    /\ console \in ConsoleRecords
    /\ child \in [Children -> ChildRecords]

\* Those that wait to be accepted are waiting once, and have no descriptor.
QueueIsFresh ==
    \A i \in 1 .. Len(backlog) :
        /\ fdOf[backlog[i]] = None
        /\ conn[backlog[i]].end # "unused"
        /\ \A j \in 1 .. Len(backlog) : backlog[i] = backlog[j] => i = j

\* An accepted connection has a descriptor of its own.
FdsAreDistinct ==
    \A k \in Conns : fdOf[k] # None =>
        /\ conn[k].end # "unused"
        /\ \A j \in Conns : fdOf[j] = fdOf[k] => j = k

\* The events are of the listening socket and of accepted connections.
EventsAreKnown == batch \subseteq {None} \cup {fdOf[k] : k \in Conns}

EventsAreReady ==
    /\ None \in batch => backlog # <<>>
    /\ \A k \in Conns : Accepted(k) /\ fdOf[k] \in batch => Ready(k)

\* Only accepted connections are watched.
EdgesAreAccepted == \A k \in Conns : k \in edge => fdOf[k] # None

\* A child has a connection that no other child has.
ChildrenAreApart ==
    \A h \in Children :
        /\ child[h].pc \in {"loop", "write"} => child[h].conn # None
        /\ child[h].conn # None =>
              /\ conn[child[h].conn].end # "unused"
              /\ \A g \in Children : child[g].conn = child[h].conn => g = h

\* Also while the child waits in its write.
ReadsHaveData ==
    \A h \in Children :
        /\ child[h].pc \in {"none", "forked"} => child[h].batch = {}
        /\ "ipc" \in child[h].batch =>
              child[h].conn # None /\ conn[child[h].conn].toClient # <<>>

\* A descriptor of the parent's own client is no accepted connection's.
OwnIsDistinct == \A j \in Conns : ownFd[j] # None => \A k \in Conns : fdOf[k] # ownFd[j]

\* It has been accepted, and will not be again.
Past(k) == conn[k].end # "unused" /\ \A i \in 1 .. Len(backlog) : backlog[i] # k

LatestIsKnown ==
    /\ latest # None => Past(latest)
    /\ ipcFd # None => latest # None /\ fdOf[latest] \in {ipcFd, None}

AimIsKnown ==
    /\ console.aim # None => Past(console.aim)
    /\ console.fd # None => console.aim # None /\ fdOf[console.aim] \in {console.fd, None}

ServerInv ==
    /\ QueueIsFresh /\ FdsAreDistinct /\ EdgesAreAccepted
    /\ EventsAreKnown /\ EventsAreReady
AimInv == OwnIsDistinct /\ LatestIsKnown /\ AimIsKnown
ChildInv == ChildrenAreApart /\ ReadsHaveData

Inv == Types /\ ServerInv /\ AimInv /\ ChildInv

LEMMA InitInv == Init => Inv
<1> SUFFICES ASSUME Init
             PROVE  Inv
  OBVIOUS
<1>1. NewConn \in ConnRecords
  BY DEF NewConn, ConnRecords
<1>2. NoChild \in ChildRecords
  BY DEF NoChild, ChildRecords, Batches
<1>3. Idle \in ConsoleRecords
  BY DEF Idle, ConsoleRecords, Messages
<1>4. Types
  BY <1>1, <1>2, <1>3 DEF Init, Types
<1>5. ServerInv
  BY DEF Init, ServerInv, QueueIsFresh, FdsAreDistinct, EdgesAreAccepted, EventsAreKnown,
         EventsAreReady, Accepted
<1>6. AimInv
  BY DEF Init, AimInv, OwnIsDistinct, LatestIsKnown, AimIsKnown, Idle
<1>7. ChildInv
  BY DEF Init, ChildInv, ChildrenAreApart, ReadsHaveData, NoChild
<1> QED
  BY <1>4, <1>5, <1>6, <1>7 DEF Inv

-----------------------------------------------------------------------------
(***************************************************************************)
(* Everything that is not the thread leaves the thread's variables alone.  *)
(* It may add a new connection to the queue and an event of an accepted    *)
(* one, and makes no connection unused and none that is ready quiet.       *)
(***************************************************************************)
NothingIsTaken ==
    \A k \in Conns :
        /\ conn[k].end # "unused" => conn'[k].end # "unused"
        /\ conn[k].end # "unused" /\ Ready(k) => Ready(k)'
        /\ k \in edge' => k \in edge \/ fdOf[k] # None

LEMMA ServerFrame ==
    ASSUME Types, ServerInv, UNCHANGED <<threadVars, backlog>>, NothingIsTaken
    PROVE  ServerInv'
<1> USE DEF threadVars
<1>1. QueueIsFresh'
  <2>1. \A i \in 1 .. Len(backlog) : backlog[i] \in Conns
    BY DEF Types
  <2> QED
    BY <2>1 DEF ServerInv, QueueIsFresh, NothingIsTaken
<1>2. FdsAreDistinct'
  BY DEF ServerInv, FdsAreDistinct, NothingIsTaken
<1>3. EventsAreKnown'
  BY DEF ServerInv, EventsAreKnown
<1>4. EventsAreReady'
  BY DEF ServerInv, EventsAreReady, FdsAreDistinct, NothingIsTaken, Accepted
<1>5. EdgesAreAccepted'
  BY DEF ServerInv, EdgesAreAccepted, NothingIsTaken
<1> QED
  BY <1>1, <1>2, <1>3, <1>4, <1>5 DEF ServerInv

LEMMA AimFrame ==
    ASSUME Types, AimInv, \A k \in Conns : Past(k) => Past(k)',
           UNCHANGED <<threadVars, ownFd, console>>
    PROVE  AimInv'
<1> USE DEF threadVars
<1>1. console.aim \in Conns \cup {None} /\ latest \in Conns \cup {None}
  BY DEF Types, ConsoleRecords
<1>2. OwnIsDistinct'
  BY DEF AimInv, OwnIsDistinct
<1>3. LatestIsKnown'
  BY <1>1 DEF AimInv, LatestIsKnown
<1>4. AimIsKnown'
  BY <1>1 DEF AimInv, AimIsKnown
<1> QED
  BY <1>2, <1>3, <1>4 DEF AimInv

LEMMA StaysPast ==
    ASSUME NothingIsTaken, UNCHANGED backlog
    PROVE  \A k \in Conns : Past(k) => Past(k)'
BY DEF NothingIsTaken, Past

LEMMA ConnectFrame ==
    ASSUME Types, ServerInv, UNCHANGED threadVars, NEW k \in Conns, TryConnect(k)
    PROVE  /\ ServerInv'
           /\ \A j \in Conns : Past(j) => Past(j)'
           /\ conn[k].end = "unused"
           /\ conn' = [conn EXCEPT ![k].end = "open"]
           /\ conn' \in [Conns -> ConnRecords]
           /\ backlog' \in Seq(Conns)
           /\ edge' \subseteq Conns \cup {None}
           /\ NothingIsTaken
<1> USE DEF threadVars
<1>1. conn[k].end = "unused"
  <2>1. k \in k .. MaxConns
    BY IpcAssumption DEF Conns
  <2> QED
    BY <2>1 DEF TryConnect
<1>2. conn' = [conn EXCEPT ![k].end = "open"] /\ backlog' = Append(backlog, k)
  BY DEF TryConnect
<1>3. conn' \in [Conns -> ConnRecords]
  BY <1>2 DEF Types, ConnRecords
<1>4. /\ backlog' \in Seq(Conns)
      /\ Len(backlog') = Len(backlog) + 1
      /\ \A i \in 1 .. Len(backlog) : backlog'[i] = backlog[i] /\ backlog[i] \in Conns
      /\ backlog'[Len(backlog) + 1] = k
  BY <1>2 DEF Types
<1>5. \A j \in Conns : j # k => conn'[j] = conn[j]
  BY <1>2 DEF Types
<1>6. conn'[k].end # "unused"
  BY <1>2 DEF Types, ConnRecords
<1>7. QueueIsFresh'
  <2>1. fdOf[k] = None
    BY <1>1 DEF ServerInv, FdsAreDistinct
  <2>2. \A i \in 1 .. Len(backlog) : backlog[i] # k
    BY <1>1 DEF ServerInv, QueueIsFresh
  <2>3. Len(backlog) \in Nat
    BY DEF Types
  <2>4. ASSUME NEW i \in 1 .. Len(backlog')
        PROVE  fdOf[backlog'[i]] = None /\ conn'[backlog'[i]].end # "unused"
    BY <1>4, <1>5, <1>6, <2>1, <2>2, <2>3 DEF ServerInv, QueueIsFresh
  <2>5. ASSUME NEW i \in 1 .. Len(backlog'), NEW j \in 1 .. Len(backlog'),
               backlog'[i] = backlog'[j]
        PROVE  i = j
    BY <1>4, <2>2, <2>3, <2>5 DEF ServerInv, QueueIsFresh
  <2> QED
    BY <2>4, <2>5 DEF QueueIsFresh
<1>8. NothingIsTaken
  <2>1. ASSUME NEW j \in Conns, j # k, Ready(j)
        PROVE  Ready(j)'
    BY <1>4, <1>5, <2>1, IpcAssumption DEF Ready, Conns
  <2>2. \A j \in Conns : j \in edge' => j \in edge
    BY IpcAssumption DEF TryConnect, Conns
  <2> QED
    BY <1>1, <1>5, <1>6, <2>1, <2>2 DEF NothingIsTaken
<1>9. FdsAreDistinct'
  BY <1>8 DEF ServerInv, FdsAreDistinct, NothingIsTaken
<1>10. EventsAreKnown' /\ EdgesAreAccepted'
  BY <1>8 DEF ServerInv, EventsAreKnown, EdgesAreAccepted, NothingIsTaken
<1>11. EventsAreReady'
  <2>1. None \in batch => backlog' # <<>>
    BY <1>4
  <2> QED
    BY <1>8, <2>1 DEF ServerInv, EventsAreReady, FdsAreDistinct, NothingIsTaken, Accepted
<1>12. edge' \subseteq Conns \cup {None}
  BY DEF TryConnect, Types
<1>13. ASSUME NEW j \in Conns, Past(j)
       PROVE  Past(j)'
  <2>1. j # k /\ Len(backlog) \in Nat
    BY <1>1, <1>13 DEF Past, Types
  <2> QED
    BY <1>4, <1>5, <1>13, <2>1 DEF Past
<1> QED
  BY <1>1, <1>2, <1>3, <1>4, <1>7, <1>8, <1>9, <1>10, <1>11, <1>12, <1>13 DEF ServerInv

(***************************************************************************)
(* Whatever does not change the child processes, and takes no message from *)
(* a connection, keeps what is known of them.                              *)
(***************************************************************************)
LEMMA ChildFrame ==
    ASSUME Types, ChildInv, child' \in [Children -> ChildRecords],
           \A h \in Children : /\ child'[h].pc = child[h].pc /\ child'[h].conn = child[h].conn
                               /\ child'[h].batch = child[h].batch,
           \A k \in Conns :
               /\ conn[k].end # "unused" => conn'[k].end # "unused"
               /\ conn[k].toClient # <<>> => conn'[k].toClient # <<>>
    PROVE  ChildInv'
<1>1. \A h \in Children : child[h].conn \in Conns \cup {None}
  BY DEF Types, ChildRecords
<1>2. ChildrenAreApart'
  BY <1>1 DEF ChildInv, ChildrenAreApart
<1>3. ReadsHaveData'
  BY <1>1 DEF ChildInv, ReadsHaveData, ChildrenAreApart
<1> QED
  BY <1>2, <1>3 DEF ChildInv

-----------------------------------------------------------------------------
(***************************************************************************)
(* The console.                                                            *)
(***************************************************************************)
LEMMA EdgeIsOfAccepted ==
    ASSUME NEW k
    PROVE  \A j \in Edge(k) : j = k /\ fdOf[j] # None
BY DEF Edge, Accepted

LEMMA DisconnectFrame ==
    ASSUME Types, NEW k \in Conns, TryDisconnect(k), UNCHANGED backlog
    PROVE  /\ NothingIsTaken
           /\ conn' \in [Conns -> ConnRecords]
           /\ edge' \subseteq Conns \cup {None}
           /\ \A j \in Conns : conn'[j].toClient = conn[j].toClient
<1>1. conn' = [conn EXCEPT ![k].end = "shut"]
  BY DEF TryDisconnect
<1>2. conn' \in [Conns -> ConnRecords]
  BY <1>1 DEF Types, ConnRecords
<1>3. /\ conn'[k].end = "shut" /\ conn'[k].toClient = conn[k].toClient
      /\ \A j \in Conns : j # k => conn'[j] = conn[j]
  BY <1>1 DEF Types, ConnRecords
<1>4. k # None
  BY IpcAssumption DEF Conns
<1>5. NothingIsTaken
  BY <1>3, <1>4, EdgeIsOfAccepted DEF NothingIsTaken, Ready, TryDisconnect
<1>6. edge' \subseteq Conns \cup {None}
  BY EdgeIsOfAccepted DEF TryDisconnect, Types
<1> QED
  BY <1>2, <1>3, <1>5, <1>6

LEMMA WriteInv ==
    ASSUME Inv, Write
    PROVE  Inv'
<1> USE DEF Inv
<1>1. PICK reached \in SUBSET Conns, own \in SUBSET Conns :
        /\ conn' = [k \in Conns |->
                      [conn[k] EXCEPT
                         !.toClient = IF k \in reached THEN Append(@, console.msg) ELSE @,
                         !.toServer = IF k \in own THEN @ + 1 ELSE @]]
        /\ edge' = edge \cup UNION {Edge(k) : k \in own}
        /\ child' = [h \in Children |->
                      IF child[h].conn \in reached THEN [child[h] EXCEPT !.edge = TRUE]
                                                   ELSE child[h]]
  BY DEF Write
<1>2. console' = Idle /\ UNCHANGED <<serving, threadVars, backlog, mainConn, ownFd>>
  BY DEF Write
<1>3. Idle \in ConsoleRecords
  BY DEF Idle, ConsoleRecords, Messages
<1>4. ASSUME NEW k \in Conns
      PROVE  /\ conn'[k] \in ConnRecords
             /\ conn'[k].end = conn[k].end /\ conn'[k].error = conn[k].error
             /\ conn[k].toServer # 0 => conn'[k].toServer # 0
             /\ conn[k].toClient # <<>> => conn'[k].toClient # <<>>
  <2>1. conn[k] \in ConnRecords /\ console.msg \in Messages
    BY DEF Types, ConsoleRecords
  <2>2. /\ Append(conn[k].toClient, console.msg) \in Seq(Messages)
        /\ Append(conn[k].toClient, console.msg) # <<>>
    BY <2>1 DEF ConnRecords
  <2>3. conn[k].toServer + 1 \in Nat /\ conn[k].toServer + 1 # 0
    BY <2>1 DEF ConnRecords
  <2> QED
    BY <1>1, <2>1, <2>2, <2>3 DEF ConnRecords
<1>5. conn' \in [Conns -> ConnRecords]
  BY <1>1, <1>4
<1>6. ASSUME NEW x \in edge', x \notin edge
      PROVE  x \in Conns /\ fdOf[x] # None
  <2>1. PICK k \in own : x \in Edge(k)
    BY <1>1, <1>6
  <2> QED
    BY <2>1, EdgeIsOfAccepted
<1>7. NothingIsTaken
  <2>1. \A k \in Conns : k # None
    BY IpcAssumption DEF Conns
  <2> QED
    BY <1>2, <1>4, <1>6, <2>1 DEF NothingIsTaken, Ready
<1>8. ASSUME NEW h \in Children
      PROVE  /\ child'[h] \in ChildRecords /\ child'[h].batch = child[h].batch
             /\ child'[h].pc = child[h].pc /\ child'[h].conn = child[h].conn
  <2>1. child[h] \in ChildRecords
    BY DEF Types
  <2> QED
    BY <1>1, <2>1 DEF ChildRecords
<1>9. child' \in [Children -> ChildRecords]
  BY <1>1, <1>8
<1>10. edge' \subseteq Conns \cup {None}
  BY <1>6 DEF Types
<1>11. Types'
  BY <1>2, <1>3, <1>5, <1>9, <1>10 DEF Types, threadVars
<1>12. ServerInv'
  BY <1>2, <1>7, ServerFrame
<1>13. AimInv'
  <2>1. OwnIsDistinct'
    BY <1>2 DEF AimInv, OwnIsDistinct, threadVars
  <2>2. \A k \in Conns : Past(k) => Past(k)'
    BY <1>2, <1>7 DEF Past, NothingIsTaken
  <2>3. LatestIsKnown'
    BY <1>2, <2>2 DEF AimInv, LatestIsKnown, threadVars, Types
  <2>4. AimIsKnown'
    BY <1>2 DEF AimIsKnown, Idle
  <2> QED
    BY <2>1, <2>3, <2>4 DEF AimInv
<1>14. ChildInv'
  BY <1>4, <1>8, <1>9, ChildFrame
<1> QED
  BY <1>11, <1>12, <1>13, <1>14

\* IpcWrite up to its test, and the load that follows.
LEMMA ConsoleFrame ==
    ASSUME Inv, console' \in ConsoleRecords, AimIsKnown',
           UNCHANGED <<threadVars, backlog, edge, conn, mainConn, ownFd, child>>
    PROVE  Inv'
<1> USE DEF Inv
<1>1. Types'
  BY DEF Types, threadVars
<1>2. ServerInv'
  BY ServerFrame DEF NothingIsTaken, Ready
<1>3. AimInv'
  BY DEF AimInv, OwnIsDistinct, LatestIsKnown, Past, threadVars
<1>4. ChildInv'
  BY DEF ChildInv, ChildrenAreApart, ReadsHaveData
<1> QED
  BY <1>1, <1>2, <1>3, <1>4

LEMMA IpcWriteInv ==
    ASSUME Inv, NEW m \in Messages, IpcWrite(m)
    PROVE  Inv'
<1>1. [Idle EXCEPT !.pc = "load", !.msg = m] \in ConsoleRecords
  BY DEF Idle, ConsoleRecords
<1>2. console' \in ConsoleRecords
  BY <1>1 DEF IpcWrite, Inv, Types
<1>3. AimIsKnown'
  <2>1. CASE ipcFd = None
    BY <2>1 DEF IpcWrite, Inv, AimInv, AimIsKnown, Past, threadVars
  <2>2. CASE ipcFd # None
    <3>1. console'.aim = None /\ console'.fd = None
      BY <2>2 DEF IpcWrite, Idle
    <3> QED
      BY <3>1 DEF AimIsKnown
  <2> QED
    BY <2>1, <2>2
<1> QED
  BY <1>2, <1>3, ConsoleFrame DEF IpcWrite

LEMMA LoadInv ==
    ASSUME Inv, LoadIpcFd
    PROVE  Inv'
<1>1. console' = [console EXCEPT !.pc = "write", !.fd = ipcFd, !.aim = latest]
  BY DEF LoadIpcFd
<1>2. console' \in ConsoleRecords /\ console'.fd = ipcFd /\ console'.aim = latest
  BY <1>1 DEF Inv, Types, ConsoleRecords
<1>3. AimIsKnown'
  BY <1>2 DEF AimIsKnown, Inv, AimInv, LatestIsKnown, Past, LoadIpcFd, threadVars
<1> QED
  BY <1>2, <1>3, ConsoleFrame DEF LoadIpcFd

LEMMA ConsoleInv ==
    ASSUME Inv, Console
    PROVE  Inv'
<1> USE DEF Inv, threadVars
<1>1. ASSUME NEW k \in Conns, TryConnect(k), mainConn' = k, FreeFds # {},
             ownFd' = [ownFd EXCEPT ![k] = LowestFree],
             UNCHANGED <<status, serving, threadVars, console, child>>
      PROVE  Inv'
  <2>1. ServerInv' /\ NothingIsTaken /\ conn' = [conn EXCEPT ![k].end = "open"]
    BY <1>1, ConnectFrame
  <2>2. LowestFree \in Fds /\ \A j \in Conns : fdOf[j] # LowestFree
    BY <1>1, LowestFreeIsFree
  <2> DEFINE low == LowestFree
  <2>3. low \in Fds /\ ownFd' = [ownFd EXCEPT ![k] = low] /\ \A j \in Conns : fdOf[j] # low
    BY <1>1, <2>2
  <2> HIDE DEF low
  <2>4. Types'
    BY <1>1, <2>3, ConnectFrame DEF Types
  <2>5. OwnIsDistinct'
    BY <1>1, <2>3 DEF AimInv, OwnIsDistinct, Types
  <2>6. \A j \in Conns : Past(j) => Past(j)'
    BY <1>1, ConnectFrame
  <2>7. LatestIsKnown'
    BY <1>1, <2>6 DEF AimInv, LatestIsKnown, Types
  <2>8. AimIsKnown'
    <3>1. console.aim \in Conns \cup {None}
      BY DEF Types, ConsoleRecords
    <3> QED
      BY <1>1, <2>6, <3>1 DEF AimInv, AimIsKnown
  <2>9. \A j \in Conns : conn'[j].toClient = conn[j].toClient
    BY <2>1 DEF Types, ConnRecords
  <2>10. ChildInv'
    BY <1>1, <2>1, <2>4, <2>9, ChildFrame DEF NothingIsTaken, Types
  <2> QED
    BY <2>1, <2>4, <2>5, <2>7, <2>8, <2>10 DEF AimInv
<1>2. CASE ConsoleDisconnect
  <2>1. mainConn \in Conns
    BY <1>2 DEF ConsoleDisconnect, Types
  <2>2. /\ TryDisconnect(mainConn) /\ mainConn' = None
        /\ ownFd' = [ownFd EXCEPT ![mainConn] = None]
        /\ UNCHANGED <<status, serving, threadVars, backlog, console, child>>
    BY <1>2 DEF ConsoleDisconnect
  <2>3. /\ NothingIsTaken /\ conn' \in [Conns -> ConnRecords]
        /\ edge' \subseteq Conns \cup {None}
        /\ \A j \in Conns : conn'[j].toClient = conn[j].toClient
    BY <2>1, <2>2, DisconnectFrame
  <2>4. Types'
    BY <2>2, <2>3 DEF Types
  <2>5. ServerInv'
    BY <2>2, <2>3, ServerFrame
  <2>6. OwnIsDistinct'
    BY <2>1, <2>2 DEF AimInv, OwnIsDistinct, Types
  <2>7. \A j \in Conns : Past(j) => Past(j)'
    BY <2>2, <2>3 DEF Past, NothingIsTaken
  <2>8. LatestIsKnown'
    BY <2>2, <2>7 DEF AimInv, LatestIsKnown, Types
  <2>9. AimIsKnown'
    <3>1. console.aim \in Conns \cup {None}
      BY DEF Types, ConsoleRecords
    <3> QED
      BY <2>2, <2>7, <3>1 DEF AimInv, AimIsKnown
  <2>10. ChildInv'
    BY <2>2, <2>3, <2>4, ChildFrame DEF NothingIsTaken, Types
  <2> QED
    BY <2>4, <2>5, <2>6, <2>8, <2>9, <2>10 DEF AimInv
<1>3. ASSUME mainConn' = None,
             UNCHANGED <<ownFd, conn, backlog, edge, threadVars, console, child>>
      PROVE  Inv'
  <2>1. Types'
    BY <1>3 DEF Types
  <2>2. NothingIsTaken
    BY <1>3 DEF NothingIsTaken, Ready
  <2>3. ServerInv' /\ AimInv'
    BY <1>3, <2>2, ServerFrame, StaysPast, AimFrame
  <2>4. ChildInv'
    BY <1>3 DEF ChildInv, ChildrenAreApart, ReadsHaveData
  <2> QED
    BY <2>1, <2>3, <2>4
<1>4. CASE Start
  <2>1. PICK h \in Children :
          /\ child[h].pc = "none"
          /\ child' = [child EXCEPT ![h].pc = "forked", ![h].running = TRUE]
    BY <1>4 DEF Start
  <2>2. UNCHANGED <<threadVars, backlog, edge, conn, mainConn, ownFd, console>>
    BY <1>4 DEF Start
  <2>3. child' \in [Children -> ChildRecords]
    BY <2>1, ZenonT(60) DEF Types, ChildRecords
  <2>4. /\ child'[h].pc = "forked" /\ child'[h].batch = child[h].batch
        /\ \A g \in Children : child'[g].conn = child[g].conn /\ (g # h => child'[g] = child[g])
    BY <2>1 DEF Types, ChildRecords
  <2>5. Types'
    BY <2>2, <2>3 DEF Types
  <2>6. ServerInv' /\ AimInv'
    BY <2>2, ServerFrame, StaysPast, AimFrame DEF NothingIsTaken, Ready
  <2>7. ChildrenAreApart'
    <3>1. \A g \in Children : child'[g].pc \in {"loop", "write"} => child[g].pc = child'[g].pc
      BY <2>4
    <3>2. \A g \in Children : child'[g].conn = child[g].conn
      BY <2>4
    <3> QED
      BY <2>2, <3>1, <3>2 DEF ChildInv, ChildrenAreApart
  <2>8. ReadsHaveData'
    BY <2>1, <2>2, <2>4 DEF ChildInv, ReadsHaveData
  <2> QED
    BY <2>5, <2>6, <2>7, <2>8 DEF ChildInv
<1>5. "text" \in Messages /\ "stop" \in Messages
  BY DEF Messages
<1>6. ConsoleWrite => Inv'
  BY <1>5, IpcWriteInv DEF ConsoleWrite
<1>7. Stop => Inv'
  BY <1>5, IpcWriteInv DEF Stop
<1>8. ConsoleConnect => Inv'
  BY <1>1, <1>3 DEF ConsoleConnect
<1> QED
  BY <1>2, <1>4, <1>6, <1>7, <1>8, LoadInv, WriteInv DEF Console

-----------------------------------------------------------------------------
(***************************************************************************)
(* IPCThread.                                                              *)
(***************************************************************************)
LEMMA WaitInv ==
    ASSUME Inv, Wait
    PROVE  Inv'
<1> USE DEF Inv
<1>1. /\ thread = "loop"
      /\ batch' = {IF x = None THEN None ELSE fdOf[x] : x \in {y \in edge : Ready(y)}}
      /\ edge' = {}
      /\ UNCHANGED <<ipcFd, latest, thread, fdOf, backlog, conn, consoleVars, child>>
  BY DEF Wait
<1>2. Types'
  BY <1>1 DEF Types, consoleVars
<1>3. ChildInv' /\ AimInv'
  BY <1>1 DEF ChildInv, ChildrenAreApart, ReadsHaveData, AimInv, OwnIsDistinct,
              LatestIsKnown, AimIsKnown, Past, consoleVars
<1>4. QueueIsFresh' /\ FdsAreDistinct' /\ EdgesAreAccepted'
  BY <1>1 DEF ServerInv, QueueIsFresh, FdsAreDistinct, EdgesAreAccepted
<1>5. EventsAreKnown'
  BY <1>1 DEF EventsAreKnown, Types
<1>6. EventsAreReady'
  <2>1. \A k \in Conns : Ready(k)' <=> Ready(k)
    BY <1>1 DEF Ready
  <2>2. ASSUME None \in batch'
        PROVE  backlog # <<>>
    <3>1. PICK x \in edge : Ready(x) /\ None = IF x = None THEN None ELSE fdOf[x]
      BY <1>1, <2>2
    <3>2. CASE x = None
      BY <3>1, <3>2 DEF Ready
    <3>3. CASE x # None
      BY <3>1, <3>3 DEF Types, ServerInv, EdgesAreAccepted
    <3> QED
      BY <3>2, <3>3
  <2>3. ASSUME NEW k \in Conns, fdOf[k] # None, fdOf[k] \in batch'
        PROVE  Ready(k)
    <3>1. PICK x \in edge : Ready(x) /\ fdOf[k] = IF x = None THEN None ELSE fdOf[x]
      BY <1>1, <2>3
    <3>2. x \in Conns /\ fdOf[x] = fdOf[k]
      BY <2>3, <3>1 DEF Types
    <3>3. x = k
      BY <2>3, <3>2 DEF ServerInv, FdsAreDistinct
    <3> QED
      BY <3>1, <3>3
  <2> QED
    BY <1>1, <2>1, <2>2, <2>3 DEF EventsAreReady, Accepted
<1> QED
  BY <1>2, <1>3, <1>4, <1>5, <1>6 DEF ServerInv

LEMMA AcceptInv ==
    ASSUME Inv, Accept
    PROVE  Inv'
<1> USE DEF Inv
<1> DEFINE k == Head(backlog)
           fd == LowestFree
<1>1. /\ None \in batch /\ thread = "loop" /\ backlog # <<>>
      /\ fdOf' = [fdOf EXCEPT ![k] = fd]
      /\ latest' = k
      /\ edge' = IF Ready(k) THEN edge \cup {k} ELSE edge
      /\ ipcFd' = fd
      /\ backlog' = Tail(backlog)
      /\ batch' = batch \ {None}
      /\ UNCHANGED <<thread, conn, mainConn, ownFd, console, child>>
  BY DEF Accept, Event, HandleAccept, SetIpcFd, consoleVars
<1>2. fd \in Fds /\ \A j \in Conns : fdOf[j] # fd /\ ownFd[j] # fd
  BY LowestFreeIsFree DEF Accept
<1>3. fd # None
  BY <1>2, IpcAssumption
<1>4. /\ 1 \in 1 .. Len(backlog) /\ k = backlog[1] /\ k \in Conns
      /\ backlog' \in Seq(Conns) /\ Len(backlog') = Len(backlog) - 1
      /\ \A i \in 1 .. Len(backlog') :
            backlog'[i] = backlog[i + 1] /\ i + 1 \in 1 .. Len(backlog)
  BY <1>1 DEF Types
<1>5. fdOf[k] = None /\ conn[k].end # "unused"
  BY <1>4 DEF ServerInv, QueueIsFresh
<1> HIDE DEF k, fd
<1>6. fdOf'[k] = fd /\ \A j \in Conns : j # k => fdOf'[j] = fdOf[j]
  BY <1>1, <1>4 DEF Types
<1>7. Types'
  BY <1>1, <1>2, <1>4 DEF Types
<1>8. QueueIsFresh'
  <2>1. \A i \in 1 .. Len(backlog) : backlog[i] \in Conns /\ (i # 1 => backlog[i] # k)
    BY <1>4 DEF Types, ServerInv, QueueIsFresh
  <2>2. ASSUME NEW i \in 1 .. Len(backlog')
        PROVE  /\ fdOf'[backlog'[i]] = None /\ conn'[backlog'[i]].end # "unused"
               /\ \A j \in 1 .. Len(backlog') : backlog'[i] = backlog'[j] => i = j
    <3>1. i + 1 \in 1 .. Len(backlog) /\ i + 1 # 1 /\ backlog'[i] = backlog[i + 1]
      BY <1>4
    <3>2. fdOf'[backlog'[i]] = None /\ conn'[backlog'[i]].end # "unused"
      BY <1>1, <1>6, <2>1, <3>1 DEF ServerInv, QueueIsFresh
    <3>3. ASSUME NEW j \in 1 .. Len(backlog'), backlog'[i] = backlog'[j]
          PROVE  i = j
      <4>1. i + 1 = j + 1
        BY <1>4, <3>1, <3>3 DEF ServerInv, QueueIsFresh
      <4> QED
        BY <4>1
    <3> QED
      BY <3>2, <3>3
  <2> QED
    BY <2>2 DEF QueueIsFresh
<1>9. FdsAreDistinct'
  BY <1>1, <1>2, <1>4, <1>5, <1>6 DEF ServerInv, FdsAreDistinct
<1>10. EdgesAreAccepted'
  BY <1>1, <1>3, <1>4, <1>6 DEF ServerInv, EdgesAreAccepted
<1>11. EventsAreKnown'
  <2> SUFFICES ASSUME NEW x \in batch, x # None
               PROVE  \E j \in Conns : x = fdOf'[j]
    BY <1>1 DEF EventsAreKnown
  <2>1. PICK j \in Conns : x = fdOf[j]
    BY DEF ServerInv, EventsAreKnown
  <2> QED
    BY <1>5, <1>6, <2>1
<1>12. EventsAreReady'
  <2>1. None \notin batch'
    BY <1>1
  <2>2. fd \notin batch
    BY <1>2, <1>3 DEF ServerInv, EventsAreKnown
  <2>3. ASSUME NEW j \in Conns, fdOf'[j] # None, fdOf'[j] \in batch'
        PROVE  Ready(j)'
    <3>1. j # k
      BY <1>1, <1>6, <2>2, <2>3
    <3>2. fdOf[j] # None /\ fdOf[j] \in batch
      BY <1>1, <1>6, <2>3, <3>1
    <3>3. Ready(j) /\ j # None
      BY <3>2, IpcAssumption DEF ServerInv, EventsAreReady, Accepted, Conns
    <3> QED
      BY <1>1, <3>3 DEF Ready
  <2> QED
    BY <2>1, <2>3 DEF EventsAreReady, Accepted
<1>13. AimInv'
  <2>1. OwnIsDistinct'
    BY <1>1, <1>2, <1>6 DEF AimInv, OwnIsDistinct
  <2>2. ASSUME NEW j \in Conns, Past(j)
        PROVE  Past(j)' /\ j # k
    BY <1>1, <1>4, <2>2 DEF Past
  <2>3. Past(latest)'
    <3>1. ASSUME NEW i \in 1 .. Len(backlog')
          PROVE  backlog'[i] # k
      <4>1. i + 1 \in 1 .. Len(backlog) /\ i + 1 # 1 /\ backlog'[i] = backlog[i + 1]
        BY <1>4
      <4> QED
        BY <1>4, <4>1 DEF ServerInv, QueueIsFresh
    <3> QED
      BY <1>1, <1>5, <3>1 DEF Past
  <2>4. LatestIsKnown'
    BY <1>1, <1>4, <1>6, <2>3, IpcAssumption DEF LatestIsKnown, Conns
  <2>5. AimIsKnown'
    <3>1. console.aim \in Conns \cup {None}
      BY DEF Types, ConsoleRecords
    <3> QED
      BY <1>1, <1>6, <2>2, <3>1 DEF AimInv, AimIsKnown
  <2> QED
    BY <2>1, <2>4, <2>5 DEF AimInv
<1>14. ChildInv'
  BY <1>1 DEF ChildInv, ChildrenAreApart, ReadsHaveData
<1> QED
  BY <1>7, <1>8, <1>9, <1>10, <1>11, <1>12, <1>13, <1>14 DEF ServerInv

\* ReadData and ReadError: only the connection whose event is done changes.
LEMMA HandledInv ==
    ASSUME Inv, NEW k \in Conns, Reads(k), batch' = batch \ {fdOf[k]},
           conn' \in [Conns -> ConnRecords],
           \A j \in Conns : /\ conn'[j].end = conn[j].end
                            /\ conn'[j].toClient = conn[j].toClient
                            /\ j # k => conn'[j] = conn[j],
           UNCHANGED <<ipcFd, latest, thread, fdOf, backlog, edge, consoleVars, child>>
    PROVE  Inv'
<1> USE DEF Inv
<1>1. Types'
  BY DEF Types, consoleVars
<1>2. ChildInv'
  BY <1>1, ChildFrame DEF Types
<1>6. AimInv'
  <2>1. console.aim \in Conns \cup {None}
    BY DEF Types, ConsoleRecords
  <2> QED
    BY <2>1 DEF AimInv, OwnIsDistinct, LatestIsKnown, AimIsKnown, Past, consoleVars, Types
<1>3. QueueIsFresh'
  <2>1. \A i \in 1 .. Len(backlog) : backlog[i] \in Conns
    BY DEF Types
  <2> QED
    BY <2>1 DEF ServerInv, QueueIsFresh
<1>4. FdsAreDistinct' /\ EdgesAreAccepted' /\ EventsAreKnown'
  BY DEF ServerInv, FdsAreDistinct, EdgesAreAccepted, EventsAreKnown
<1>5. EventsAreReady'
  <2>1. ASSUME NEW j \in Conns, fdOf[j] # None, fdOf[j] \in batch'
        PROVE  Ready(j)'
    <3>1. j # k /\ fdOf[j] \in batch
      BY <2>1
    <3>2. Ready(j) /\ j # None
      BY <2>1, <3>1, IpcAssumption DEF ServerInv, EventsAreReady, Accepted, Conns
    <3> QED
      BY <3>1, <3>2 DEF Ready
  <2> QED
    BY <2>1 DEF ServerInv, EventsAreReady, Accepted
<1> QED
  BY <1>1, <1>2, <1>3, <1>4, <1>5, <1>6 DEF ServerInv

LEMMA ReadEndInv ==
    ASSUME Inv, NEW k \in Conns, ReadEnd(k)
    PROVE  Inv'
<1> USE DEF Inv
<1>1. /\ fdOf[k] # None
      /\ batch' = batch \ {fdOf[k]}
      /\ fdOf' = [fdOf EXCEPT ![k] = None]
      /\ edge' = edge \ {k}
      /\ thread' = "closing"
      /\ UNCHANGED <<ipcFd, latest, backlog, conn, mainConn, ownFd, console, child>>
  BY DEF ReadEnd, Reads, Accepted, consoleVars
<1>2. fdOf'[k] = None /\ \A j \in Conns : j # k => fdOf'[j] = fdOf[j]
  BY <1>1 DEF Types
<1>3. Types'
  BY <1>1 DEF Types
<1>4. ChildInv'
  BY <1>1 DEF ChildInv, ChildrenAreApart, ReadsHaveData
<1>9. AimInv'
  <2>1. console.aim \in Conns \cup {None} /\ latest \in Conns \cup {None}
    BY DEF Types, ConsoleRecords
  <2>2. OwnIsDistinct'
    BY <1>1, <1>2 DEF AimInv, OwnIsDistinct, Types
  <2>3. LatestIsKnown' /\ AimIsKnown'
    BY <1>1, <1>2, <2>1 DEF AimInv, LatestIsKnown, AimIsKnown, Past
  <2> QED
    BY <2>2, <2>3 DEF AimInv
<1>5. QueueIsFresh'
  <2>1. \A i \in 1 .. Len(backlog) : backlog[i] \in Conns
    BY DEF Types
  <2> QED
    BY <1>1, <1>2, <2>1 DEF ServerInv, QueueIsFresh
<1>6. FdsAreDistinct' /\ EdgesAreAccepted'
  BY <1>1, <1>2 DEF ServerInv, FdsAreDistinct, EdgesAreAccepted
<1>7. EventsAreKnown'
  <2> SUFFICES ASSUME NEW x \in batch, x # fdOf[k], x # None
               PROVE  \E j \in Conns : x = fdOf'[j]
    BY <1>1 DEF EventsAreKnown
  <2>1. PICK j \in Conns : x = fdOf[j]
    BY DEF ServerInv, EventsAreKnown
  <2> QED
    BY <1>2, <2>1
<1>8. EventsAreReady'
  <2>1. \A j \in Conns : Ready(j)' <=> Ready(j)
    BY <1>1 DEF Ready
  <2> QED
    BY <1>1, <1>2, <2>1 DEF ServerInv, EventsAreReady, Accepted
<1> QED
  BY <1>3, <1>4, <1>5, <1>6, <1>7, <1>8, <1>9 DEF ServerInv

\* What neither the invariant nor the children depend on.
LEMMA OtherInv ==
    ASSUME Inv, UNCHANGED <<latest, batch, fdOf, backlog, edge, conn, consoleVars, child>>,
           ipcFd' \in {ipcFd, None}
    PROVE  Inv'
<1> USE DEF Inv, consoleVars
<1>1. Types' /\ ChildInv'
  BY DEF Types, ChildInv, ChildrenAreApart, ReadsHaveData
<1>2. ServerInv'
  BY DEF ServerInv, QueueIsFresh, FdsAreDistinct, EdgesAreAccepted, EventsAreKnown,
         EventsAreReady, Accepted, Ready
<1>3. AimInv'
  BY DEF AimInv, OwnIsDistinct, LatestIsKnown, AimIsKnown, Past
<1> QED
  BY <1>1, <1>2, <1>3

LEMMA ThreadInv ==
    ASSUME Inv, IPCThread
    PROVE  Inv'
<1>1. CASE Begin
  BY <1>1, OtherInv DEF Begin
<1>2. CASE SetConnFd
  BY <1>2, OtherInv DEF SetConnFd
<1>3. CASE AcceptFails
  BY <1>3, OtherInv DEF AcceptFails, threadVars
<1>4. ASSUME NEW k \in Conns, ReadData(k)
      PROVE  Inv'
  <2>1. PICK n \in 1 .. conn[k].toServer : conn' = [conn EXCEPT ![k].toServer = @ - n]
    BY <1>4 DEF ReadData
  <2>3. conn[k].toServer - n \in Nat
    BY DEF Inv, Types, ConnRecords
  <2>2. /\ conn' \in [Conns -> ConnRecords]
        /\ \A j \in Conns : /\ conn'[j].end = conn[j].end
                            /\ conn'[j].toClient = conn[j].toClient
                            /\ j # k => conn'[j] = conn[j]
    BY <2>1, <2>3, ZenonT(60) DEF Inv, Types, ConnRecords
  <2> QED
    BY <1>4, <2>2, HandledInv DEF ReadData
<1>5. ASSUME NEW k \in Conns, ReadError(k)
      PROVE  Inv'
  <2>1. conn' = [conn EXCEPT ![k].error = FALSE]
    BY <1>5 DEF ReadError
  <2>2. /\ conn' \in [Conns -> ConnRecords]
        /\ \A j \in Conns : /\ conn'[j].end = conn[j].end
                            /\ conn'[j].toClient = conn[j].toClient
                            /\ j # k => conn'[j] = conn[j]
    BY <2>1, ZenonT(60) DEF Inv, Types, ConnRecords
  <2> QED
    BY <1>5, <2>2, HandledInv DEF ReadError
<1> QED
  BY <1>1, <1>2, <1>3, <1>4, <1>5, WaitInv, AcceptInv, ReadEndInv DEF IPCThread

-----------------------------------------------------------------------------
(***************************************************************************)
(* The children, and the last close of a client's end.                     *)
(***************************************************************************)
LEMMA ChildRecordsStay ==
    ASSUME NEW children \in [Children -> ChildRecords], NEW h \in Children,
           NEW rest \in Batches
    PROVE  [children EXCEPT ![h].pc = "loop", ![h].batch = rest] \in [Children -> ChildRecords]
<1>1. [children[h] EXCEPT !.pc = "loop", !.batch = rest] \in ChildRecords
  BY DEF ChildRecords
<1> QED
  BY <1>1

LEMMA ProcessInv ==
    ASSUME Inv, NEW h \in Children, ConcurrentProcess(h)
    PROVE  Inv'
<1> USE DEF Inv, parentVars, consoleVars, threadVars
<1>1. child[h] \in ChildRecords
  BY DEF Types
<1>2. CASE Connect(h)
  <2>1. PICK k \in Conns :
          /\ TryConnect(k)
          /\ child' = [child EXCEPT ![h].pc = "loop", ![h].conn = k]
    BY <1>2 DEF Connect
  <2>2. UNCHANGED parentVars
    BY <1>2 DEF Connect
  <2>13. child[h].batch = {}
    BY <1>2 DEF Connect, ChildInv, ReadsHaveData
  <2>3. /\ ServerInv' /\ NothingIsTaken
        /\ conn[k].end = "unused" /\ conn' = [conn EXCEPT ![k].end = "open"]
    BY <2>1, <2>2, ConnectFrame
  <2>4. child' \in [Children -> ChildRecords]
    BY <2>1, ZenonT(60) DEF Types, ChildRecords
  <2>5. Types'
    BY <2>1, <2>2, <2>4, ConnectFrame DEF Types
  <2>6. /\ child'[h].pc = "loop" /\ child'[h].conn = k /\ child'[h].batch = child[h].batch
        /\ \A g \in Children : g # h => child'[g] = child[g]
    BY <2>1 DEF Types, ChildRecords
  <2>7. /\ conn'[k].end # "unused"
        /\ \A j \in Conns : j # k => conn'[j] = conn[j]
    BY <2>3 DEF Types, ConnRecords
  <2>8. \A g \in Children : child[g].conn \in Conns \cup {None} /\ child[g].conn # k
    BY <2>3, IpcAssumption DEF Types, ChildRecords, ChildInv, ChildrenAreApart, Conns
  <2>9. k # None
    BY IpcAssumption DEF Conns
  <2>10. ChildrenAreApart'
    BY <2>6, <2>7, <2>8, <2>9 DEF ChildInv, ChildrenAreApart
  <2>11. ReadsHaveData'
    BY <2>6, <2>7, <2>8, <2>13 DEF ChildInv, ReadsHaveData
  <2>12. AimInv'
    BY <2>1, <2>2, ConnectFrame, AimFrame
  <2> QED
    BY <2>3, <2>5, <2>10, <2>11, <2>12 DEF ChildInv
<1>3. CASE WaitInChild(h)
  <2>1. UNCHANGED <<parentVars, backlog, edge, conn>>
    BY <1>3 DEF WaitInChild
  <2>2. child[h].pc = "loop" /\ child[h].conn \in Conns
    BY <1>1, <1>3 DEF WaitInChild, ChildInv, ChildrenAreApart, ChildRecords
  <2>3. PICK new \in Batches :
          /\ child' = [child EXCEPT ![h].batch = new, ![h].edge = FALSE]
          /\ "ipc" \in new => conn[child[h].conn].toClient # <<>>
    <3>1. PICK devices \in SUBSET {"device"} :
            LET ipc == IF child[h].edge /\ conn[child[h].conn].toClient # <<>>
                         THEN {"ipc"} ELSE {}
            IN  child' = [child EXCEPT ![h].batch = ipc \cup devices, ![h].edge = FALSE]
      BY <1>3 DEF WaitInChild
    <3>2. CASE child[h].edge /\ conn[child[h].conn].toClient # <<>>
      <4>1. {"ipc"} \cup devices \in Batches
        BY DEF Batches
      <4> QED
        BY <3>1, <3>2, <4>1
    <3>3. CASE ~(child[h].edge /\ conn[child[h].conn].toClient # <<>>)
      <4>1. {} \cup devices \in Batches /\ "ipc" \notin {} \cup devices
        BY DEF Batches
      <4> QED
        BY <3>1, <3>3, <4>1
    <3> QED
      BY <3>2, <3>3
  <2>4. child' \in [Children -> ChildRecords]
    BY <2>3, ZenonT(60) DEF Types, ChildRecords
  <2>5. /\ \A g \in Children : child'[g].conn = child[g].conn /\ child'[g].pc = child[g].pc
        /\ \A g \in Children : g # h => child'[g] = child[g]
        /\ child'[h].batch = new
    BY <2>3 DEF Types, ChildRecords
  <2>6. Types'
    BY <2>1, <2>4 DEF Types
  <2>7. NothingIsTaken
    BY <2>1 DEF NothingIsTaken, Ready
  <2>8. ServerInv' /\ AimInv'
    BY <2>1, <2>7, ServerFrame, StaysPast, AimFrame
  <2>9. ChildrenAreApart'
    BY <2>1, <2>5 DEF ChildInv, ChildrenAreApart
  <2>10. ReadsHaveData'
    <3>1. child[h].conn # None
      BY <2>2, IpcAssumption DEF Conns
    <3> QED
      BY <2>1, <2>2, <2>3, <2>5, <3>1 DEF ChildInv, ReadsHaveData
  <2> QED
    BY <2>6, <2>8, <2>9, <2>10 DEF ChildInv
<1>4. CASE ReadIpc(h)
  <2>1. UNCHANGED <<parentVars, backlog, edge>> /\ child[h].pc = "loop"
    BY <1>4 DEF ReadIpc, Handles
  <2>2. PICK k \in Conns : k = child[h].conn /\ k # None
    BY <1>1, <2>1 DEF ChildInv, ChildrenAreApart, ChildRecords
  <2>3. PICK goesOn \in BOOLEAN, rest \in Batches :
          /\ "ipc" \notin rest
          /\ child' = [child EXCEPT ![h].batch = rest, ![h].running = goesOn]
    <3>1. (child[h].running /\ ~SaysStop(conn[k].toClient)) \in BOOLEAN
      OBVIOUS
    <3>2. child[h].batch \ {"ipc"} \in Batches
      BY <1>1 DEF ChildRecords, Batches
    <3> QED
      BY <1>4, <2>2, <3>1, <3>2 DEF ReadIpc, Handles
  <2>4. PICK nothing \in Seq(Messages) :
          conn' = [conn EXCEPT ![k].toClient = nothing]
    <3>1. conn' = [conn EXCEPT ![k].toClient = <<>>]
      BY <1>4, <2>2 DEF ReadIpc
    <3>2. <<>> \in Seq(Messages)
      OBVIOUS
    <3> QED
      BY <3>1, <3>2
  <2>5. conn' \in [Conns -> ConnRecords]
    BY <2>4 DEF Types, ConnRecords
  <2>6. child' \in [Children -> ChildRecords]
    BY <2>3, ZenonT(60) DEF Types, ChildRecords
  <2>7. /\ \A g \in Children : child'[g].conn = child[g].conn /\ child'[g].pc = child[g].pc
        /\ \A g \in Children : g # h => child'[g] = child[g]
        /\ "ipc" \notin child'[h].batch
    BY <2>3 DEF Types, ChildRecords
  <2>8. \A j \in Conns : /\ conn'[j].end = conn[j].end /\ conn'[j].error = conn[j].error
                         /\ conn'[j].toServer = conn[j].toServer
                         /\ j # k => conn'[j] = conn[j]
    BY <2>4 DEF Types, ConnRecords
  <2>9. Types'
    BY <2>1, <2>5, <2>6 DEF Types
  <2>10. NothingIsTaken
    BY <2>1, <2>8, IpcAssumption DEF NothingIsTaken, Ready, Conns
  <2>11. ServerInv' /\ AimInv'
    BY <2>1, <2>10, ServerFrame, StaysPast, AimFrame
  <2>12. \A g \in Children : child[g].conn \in Conns \cup {None}
    BY DEF Types, ChildRecords
  <2>13. ChildrenAreApart'
    BY <2>2, <2>7, <2>8, <2>12 DEF ChildInv, ChildrenAreApart
  <2>14. ReadsHaveData'
    <3>1. ASSUME NEW g \in Children, "ipc" \in child'[g].batch
          PROVE  child'[g].conn # None /\ conn'[child'[g].conn].toClient # <<>>
      <4>1. g # h /\ "ipc" \in child[g].batch
        BY <2>7, <3>1
      <4>2. child[g].conn # None /\ conn[child[g].conn].toClient # <<>>
        BY <4>1 DEF ChildInv, ReadsHaveData
      <4>3. child[g].conn # k /\ child[g].conn \in Conns
        BY <2>2, <2>12, <4>1, <4>2 DEF ChildInv, ChildrenAreApart
      <4> QED
        BY <2>7, <2>8, <4>2, <4>3
    <3>2. \A g \in Children :
             child'[g].pc \in {"none", "forked"} => child'[g].batch = {}
      BY <2>1, <2>7 DEF ChildInv, ReadsHaveData
    <3> QED
      BY <3>1, <3>2 DEF ReadsHaveData
  <2> QED
    BY <2>9, <2>11, <2>13, <2>14 DEF ChildInv
<1>5. CASE Exit(h)
  <2>1. /\ child[h].pc = "loop" /\ TryDisconnect(child[h].conn)
        /\ child' = [child EXCEPT ![h].pc = "exited"]
        /\ UNCHANGED <<parentVars, backlog>>
    BY <1>5 DEF Exit
  <2>2. child[h].conn \in Conns
    BY <1>1, <2>1 DEF ChildInv, ChildrenAreApart, ChildRecords
  <2>3. /\ NothingIsTaken /\ conn' \in [Conns -> ConnRecords]
        /\ edge' \subseteq Conns \cup {None}
        /\ \A j \in Conns : conn'[j].toClient = conn[j].toClient
    BY <2>1, <2>2, DisconnectFrame
  <2>4. child' \in [Children -> ChildRecords]
    BY <2>1 DEF Types, ChildRecords
  <2>5. /\ child'[h].pc = "exited"
        /\ child'[h].batch = child[h].batch
        /\ \A g \in Children : child'[g].conn = child[g].conn /\ (g # h => child'[g] = child[g])
    BY <2>1 DEF Types, ChildRecords
  <2>6. Types'
    BY <2>1, <2>3, <2>4 DEF Types
  <2>7. ServerInv' /\ AimInv'
    BY <2>1, <2>3, ServerFrame, StaysPast, AimFrame
  <2>8. \A g \in Children : child[g].conn \in Conns \cup {None}
    BY DEF Types, ChildRecords
  <2>9. ChildrenAreApart'
    BY <2>3, <2>5, <2>8 DEF ChildInv, ChildrenAreApart, NothingIsTaken
  <2>10. ReadsHaveData'
    BY <2>3, <2>5, <2>8 DEF ChildInv, ReadsHaveData
  <2> QED
    BY <2>6, <2>7, <2>9, <2>10 DEF ChildInv
<1>6. CASE WriteWaits(h)
  <2>1. /\ child[h].pc = "loop"
        /\ child' = [child EXCEPT ![h].pc = "write"]
        /\ UNCHANGED <<parentVars, backlog, edge, conn>>
    BY <1>6 DEF WriteWaits, Handles
  <2>2. child' \in [Children -> ChildRecords]
    BY <2>1 DEF Types, ChildRecords
  <2>3. /\ child'[h].pc = "write" /\ child'[h].batch = child[h].batch
        /\ \A g \in Children : child'[g].conn = child[g].conn /\ (g # h => child'[g] = child[g])
    BY <2>1 DEF Types, ChildRecords
  <2>4. Types'
    BY <2>1, <2>2 DEF Types
  <2>5. NothingIsTaken
    BY <2>1 DEF NothingIsTaken, Ready
  <2>6. ServerInv' /\ AimInv'
    BY <2>1, <2>5, ServerFrame, StaysPast, AimFrame
  <2>7. ChildrenAreApart'
    BY <2>1, <2>3 DEF ChildInv, ChildrenAreApart
  <2>8. ReadsHaveData'
    BY <2>1, <2>3 DEF ChildInv, ReadsHaveData
  <2> QED
    BY <2>4, <2>6, <2>7, <2>8 DEF ChildInv
<1>7. ASSUME child[h].pc \in {"loop", "write"}, Forwarded(h), UNCHANGED <<parentVars, backlog>>
      PROVE  Inv'
  <2>1. PICK k \in Conns : k = child[h].conn /\ k # None
    BY <1>1, <1>7 DEF ChildInv, ChildrenAreApart, ChildRecords
  <2>2. PICK rest \in Batches :
          /\ "ipc" \in rest => "ipc" \in child[h].batch
          /\ child' = [child EXCEPT ![h].pc = "loop", ![h].batch = rest]
    <3>1. child[h].batch \ {"device"} \in Batches
      BY <1>1 DEF ChildRecords, Batches
    <3> QED
      BY <1>7, <3>1 DEF Forwarded
  <2>3. PICK n \in Nat : n # 0 /\ conn' = [conn EXCEPT ![k].toServer = n]
    <3>1. conn[k].toServer + 1 \in Nat /\ conn[k].toServer + 1 # 0
      BY DEF Types, ConnRecords
    <3> QED
      BY <1>7, <2>1, <3>1 DEF Forwarded
  <2>4. edge' = edge \cup Edge(k)
    BY <1>7, <2>1 DEF Forwarded
  <2>5. conn' \in [Conns -> ConnRecords]
    BY <2>3 DEF Types, ConnRecords
  <2>6. child' \in [Children -> ChildRecords]
    BY <2>2, ChildRecordsStay DEF Types
  <2>7. /\ conn'[k].toServer # 0
        /\ \A j \in Conns : /\ conn'[j].end = conn[j].end
                            /\ conn'[j].toClient = conn[j].toClient
                            /\ j # k => conn'[j] = conn[j]
    BY <2>3 DEF Types, ConnRecords
  <2>8. /\ \A g \in Children : child'[g].conn = child[g].conn
        /\ \A g \in Children : g # h => child'[g] = child[g]
        /\ child'[h].pc = "loop" /\ child'[h].batch = rest
    BY <2>2 DEF Types, ChildRecords
  <2>9. \A j \in Edge(k) : j = k /\ fdOf[j] # None
    BY EdgeIsOfAccepted
  <2>10. NothingIsTaken
    BY <1>7, <2>1, <2>4, <2>7, <2>9, IpcAssumption DEF NothingIsTaken, Ready, Conns
  <2>11. Types'
    BY <1>7, <2>1, <2>4, <2>5, <2>6, <2>9 DEF Types
  <2>12. ServerInv' /\ AimInv'
    BY <1>7, <2>10, ServerFrame, StaysPast, AimFrame
  <2>13. \A g \in Children : child[g].conn \in Conns \cup {None}
    BY DEF Types, ChildRecords
  <2>14. ChildrenAreApart'
    BY <2>1, <2>7, <2>8, <2>13 DEF ChildInv, ChildrenAreApart
  <2>15. ReadsHaveData'
    <3>1. ASSUME NEW g \in Children, "ipc" \in child'[g].batch
          PROVE  child'[g].conn # None /\ conn'[child'[g].conn].toClient # <<>>
      <4>1. "ipc" \in child[g].batch
        BY <2>2, <2>8, <3>1
      <4>2. child[g].conn # None /\ conn[child[g].conn].toClient # <<>>
        BY <4>1 DEF ChildInv, ReadsHaveData
      <4> QED
        BY <2>7, <2>8, <2>13, <4>2
    <3>2. \A g \in Children :
             child'[g].pc \in {"none", "forked"} => child'[g].batch = {}
      BY <2>8 DEF ChildInv, ReadsHaveData
    <3> QED
      BY <3>1, <3>2 DEF ReadsHaveData
  <2> QED
    BY <2>11, <2>12, <2>14, <2>15 DEF ChildInv
<1>8. HandleDevice(h) => Inv'
  BY <1>7 DEF HandleDevice, Handles
<1>9. WriteReturns(h) => Inv'
  BY <1>7 DEF WriteReturns
<1> QED
  BY <1>2, <1>3, <1>4, <1>5, <1>6, <1>8, <1>9 DEF ConcurrentProcess

LEMMA ReleaseInv ==
    ASSUME Inv, NEW k \in Conns, Release(k)
    PROVE  Inv'
<1> USE DEF Inv, threadVars, consoleVars
<1>1. /\ conn[k].end = "shut"
      /\ conn' = [conn EXCEPT ![k].end = "closed", ![k].error = conn[k].toClient # <<>>]
      /\ edge' = edge \cup Edge(k)
      /\ UNCHANGED <<threadVars, backlog, consoleVars, child>>
  BY DEF Release
<1>2. (conn[k].toClient # <<>>) \in BOOLEAN
  OBVIOUS
<1>3. conn' \in [Conns -> ConnRecords]
  BY <1>1, <1>2, ZenonT(60) DEF Types, ConnRecords
<1>4. /\ conn'[k].end = "closed" /\ conn'[k].toClient = conn[k].toClient
      /\ \A j \in Conns : j # k => conn'[j] = conn[j]
  BY <1>1 DEF Types, ConnRecords
<1>5. \A j \in Edge(k) : j = k /\ fdOf[j] # None
  BY EdgeIsOfAccepted
<1>6. NothingIsTaken
  BY <1>1, <1>4, <1>5, IpcAssumption DEF NothingIsTaken, Ready, Conns
<1>7. Types'
  BY <1>1, <1>3, <1>5 DEF Types
<1>8. ServerInv'
  BY <1>1, <1>6, ServerFrame
<1>9. \A j \in Conns : conn'[j].toClient = conn[j].toClient
  BY <1>4
<1>10. ChildInv'
  BY <1>1, <1>6, <1>9, ChildFrame DEF Types, NothingIsTaken
<1>11. AimInv'
  BY <1>1, <1>6, StaysPast, AimFrame
<1> QED
  BY <1>7, <1>8, <1>10, <1>11

-----------------------------------------------------------------------------
LEMMA StepInv ==
    ASSUME Inv, [Next]_vars
    PROVE  Inv'
<1>1. CASE Next
  BY <1>1, ConsoleInv, ThreadInv, ProcessInv, ReleaseInv DEF Next
<1>2. CASE UNCHANGED vars
  BY <1>2, OtherInv DEF vars, consoleVars
<1> QED
  BY <1>1, <1>2

LEMMA InvHolds == Spec => []Inv
<1>1. Init => Inv
  BY InitInv
<1>2. Inv /\ [Next]_vars => Inv'
  BY StepInv
<1> QED
  BY <1>1, <1>2, PTL DEF Spec

(***************************************************************************)
(* IPC::IpcWrite reaches the connection that was accepted last when it     *)
(* loaded the descriptor, or that connection has been closed, for any      *)
(* number of connections, children and descriptors.                        *)
(***************************************************************************)
THEOREM WritesAlwaysReachLatest == Spec => WritesReachLatest
<1> DEFINE Reached == console.pc = "write" /\ console' = Idle =>
                        \A k \in Conns :
                            conn'[k] # conn[k] => k = console.aim \/ ~Accepted(console.aim)
<1>1. ASSUME Inv, [Next]_vars
      PROVE  [Reached]_vars
  <2> SUFFICES ASSUME Next, console.pc = "write", console' = Idle,
                      NEW k \in Conns, conn'[k] # conn[k], Accepted(console.aim)
               PROVE  k = console.aim
    BY <1>1
  <2>1. console' # console
    BY DEF Idle
  <2>2. Write
    <3>1. Console
      BY <2>1 DEF Next, IPCThread, Begin, Wait, Accept, AcceptFails, ReadData, ReadError,
                  ReadEnd, SetConnFd, ConcurrentProcess, Connect, WaitInChild, ReadIpc,
                  HandleDevice, WriteWaits, WriteReturns, Exit, Release, parentVars, consoleVars
    <3> QED
      BY <2>1, <3>1 DEF Console, ConsoleConnect, ConsoleDisconnect, ConsoleWrite, Start, Stop,
                        IpcWrite, LoadIpcFd
  <2>3. \/ Accepted(k) /\ fdOf[k] = console.fd
        \/ ownFd[k] # None /\ ownFd[k] = console.fd
    <3>1. conn[k] \in ConnRecords
      BY <1>1 DEF Inv, Types
    <3> QED
      BY <2>2, <3>1 DEF Write, ConnRecords
  <2>4. console.fd # None
    BY <2>3 DEF Accepted
  <2>5. /\ console.aim \in Conns
        /\ fdOf[console.aim] = console.fd
    BY <1>1, <2>4 DEF Inv, Types, ConsoleRecords, AimInv, AimIsKnown, Accepted
  <2>6. CASE fdOf[k] = console.fd
    BY <1>1, <2>4, <2>5, <2>6 DEF Inv, ServerInv, FdsAreDistinct
  <2>7. CASE ownFd[k] = console.fd
    BY <1>1, <2>4, <2>5, <2>7 DEF Inv, AimInv, OwnIsDistinct
  <2> QED
    BY <2>3, <2>6, <2>7
<1>2. Spec => [][Reached]_vars
  BY <1>1, InvHolds, PTL DEF Spec
<1> QED
  BY <1>2 DEF WritesReachLatest

(***************************************************************************)
(* IPCThread and the children never wait in accept or read, although their *)
(* sockets are in blocking mode.                                           *)
(***************************************************************************)
THEOREM IpcReadsNeverWait == Spec => []IpcReadsDoNotWait
<1>1. Inv => IpcReadsDoNotWait
  BY DEF Inv, ServerInv, ChildInv, EventsAreReady, ReadsHaveData, IpcReadsDoNotWait, Handles
<1> QED
  BY <1>1, InvHolds, PTL
=============================================================================
