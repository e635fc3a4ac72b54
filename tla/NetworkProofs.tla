---------------------------- MODULE NetworkProofs ----------------------------
(***************************************************************************)
(* Proofs about Network, both older servers in one process, for any        *)
(* clients, maximums and descriptors.                                      *)
(*                                                                         *)
(* Every step of Network is one of the two servers or leaves them alone,   *)
(* so that what TcpServerProofs says of any use of them holds here too.    *)
(* The invariant adds the order of the calls: Agreed says which flags are  *)
(* set after each of them, ThreadsInv and ListenerInv that a thread exists *)
(* only while its flag is set or its join is the next call.                *)
(*                                                                         *)
(* EventsInv is about the one place at which the servers meet: a thread    *)
(* that ends closes descriptor after descriptor, and one of them may be    *)
(* the other server's by now, whose event is then Orphaned.  Only the      *)
(* concurrent server ends while the other runs, and the other one admits   *)
(* nobody before it has handled that event: its list, of one descriptor,   *)
(* still has the one that was closed.                                      *)
(***************************************************************************)
EXTENDS Network, TcpServerProofs

-----------------------------------------------------------------------------
(***************************************************************************)
(* What a command has still to do after one or two of its calls.           *)
(***************************************************************************)
StartsTwo == << <<"start", "config">>, <<"start", "listener">> >>
StartsOne == << <<"start", "listener">> >>
StopsTwo == << <<"stop", "concurrent">>, <<"stop", "config">> >>
StopsOne == << <<"stop", "config">> >>
ThenJoin(x, q) == << <<"join", x>> >> \o q

\* The flags that are set between one call and the next.
Agreed ==
    \/ /\ calls \in {<<>>, StartNetworkServer, StopNetworkServer}
       /\ \A s \in Servers : isThreadRunning[s] = listenerRunning
    \/ /\ calls = StartsTwo
       /\ \A s \in Servers : s = "concurrent" => isThreadRunning[s]
    \/ /\ calls = StartsOne
       /\ \A s \in Servers : isThreadRunning[s]
    \/ /\ calls \in {ThenJoin("listener", StopsTwo), StopsTwo}
       /\ ~listenerRunning
    \/ /\ calls \in {ThenJoin("concurrent", StopsOne), StopsOne}
       /\ ~listenerRunning
       /\ \A s \in Servers : s = "concurrent" => ~isThreadRunning[s]
    \/ /\ calls = ThenJoin("config", <<>>)
       /\ ~listenerRunning
       /\ \A s \in Servers : ~isThreadRunning[s]

ThreadsInv ==
    \A s \in Servers :
       /\ isThreadRunning[s] => pc[s] \in {"starting", "loop", "wait"}
       /\ ~isThreadRunning[s] /\ ~Calls("join", s) => pc[s] = "idle"
       /\ batch[s] # {} => pc[s] = "loop"

ListenerInv ==
    /\ listenerRunning \in BOOLEAN
    /\ listener \in {"none", "test", "enter", "waiting", "ended"}
    /\ listenerRunning => listener \in {"test", "enter", "waiting"}
    /\ ~listenerRunning /\ ~Calls("join", "listener") => listener = "none"

CallsInv == Agreed /\ ThreadsInv /\ ListenerInv

\* The thread has left its loop and was not started again.
Gone(s) == ~isThreadRunning[s] /\ pc[s] \in {"idle", "ended"} \cup Kinds

\* The connection of an event was closed by the other server.
Orphaned(s) ==
    /\ s = "config"
    /\ \A c \in Clients : Kind(c) = "host" => ~Open(c)
    /\ \A c \in Clients : ReadEvent(fdOf[c]) \notin batch[s]
    /\ \A t \in Servers : t = "concurrent" => Gone(t)
    /\ AcceptEvent("host") \in batch[s] => slots["host"] # <<>>

EventsInv ==
    \A s \in Servers :
       /\ \A k \in Kinds : AcceptEvent(k) \in batch[s] => s = ServerOf(k) /\ backlog[k] # <<>>
       /\ \A fd \in Fds : ReadEvent(fd) \in batch[s] =>
             \/ \E c \in Clients : fdOf[c] = fd /\ Readable(c) /\ ServerOf(Kind(c)) = s
             \/ Orphaned(s)

NetworkInv == Inv /\ CallsInv /\ EventsInv

-----------------------------------------------------------------------------
(***************************************************************************)
(* The next call, and what remains after it.                               *)
(***************************************************************************)
LEMMA CommandsAre ==
    /\ StartNetworkServer # <<>> /\ StopNetworkServer # <<>>
    /\ StartsTwo # <<>> /\ StartsOne # <<>> /\ StopsTwo # <<>> /\ StopsOne # <<>>
    /\ Head(StartNetworkServer) = <<"start", "concurrent">> /\ Tail(StartNetworkServer) = StartsTwo
    /\ Head(StartsTwo) = <<"start", "config">> /\ Tail(StartsTwo) = StartsOne
    /\ Head(StartsOne) = <<"start", "listener">> /\ Tail(StartsOne) = <<>>
    /\ Head(StopNetworkServer) = <<"stop", "listener">> /\ Tail(StopNetworkServer) = StopsTwo
    /\ Head(StopsTwo) = <<"stop", "concurrent">> /\ Tail(StopsTwo) = StopsOne
    /\ Head(StopsOne) = <<"stop", "config">> /\ Tail(StopsOne) = <<>>
<1>1. /\ Head(StartNetworkServer) = <<"start", "concurrent">>
      /\ Tail(StartNetworkServer) = StartsTwo
  BY DEF StartNetworkServer, StartsTwo
<1>2. /\ Head(StartsTwo) = <<"start", "config">> /\ Tail(StartsTwo) = StartsOne
  BY DEF StartsTwo, StartsOne
<1>3. /\ Head(StartsOne) = <<"start", "listener">> /\ Tail(StartsOne) = <<>>
  BY DEF StartsOne
<1>4. /\ Head(StopNetworkServer) = <<"stop", "listener">> /\ Tail(StopNetworkServer) = StopsTwo
  BY DEF StopNetworkServer, StopsTwo
<1>5. /\ Head(StopsTwo) = <<"stop", "concurrent">> /\ Tail(StopsTwo) = StopsOne
  BY DEF StopsTwo, StopsOne
<1>6. /\ Head(StopsOne) = <<"stop", "config">> /\ Tail(StopsOne) = <<>>
  BY DEF StopsOne
<1>7. /\ StartNetworkServer # <<>> /\ StopNetworkServer # <<>>
      /\ StartsTwo # <<>> /\ StartsOne # <<>> /\ StopsTwo # <<>> /\ StopsOne # <<>>
  BY DEF StartNetworkServer, StopNetworkServer, StartsTwo, StartsOne, StopsTwo, StopsOne
<1> QED
  BY <1>1, <1>2, <1>3, <1>4, <1>5, <1>6, <1>7

LEMMA JoinIsNext ==
    ASSUME NEW x, NEW q, q = StopsTwo \/ q = StopsOne \/ q = <<>>
    PROVE  ThenJoin(x, q) # <<>> /\ Head(ThenJoin(x, q)) = <<"join", x>> /\ Tail(ThenJoin(x, q)) = q
<1> DEFINE S == {<<"stop", "concurrent">>, <<"stop", "config">>, <<"join", x>>}
<1>1. q \in Seq(S)
  <2>1. StopsTwo \in Seq(S)
    BY DEF StopsTwo
  <2>2. StopsOne \in Seq(S)
    BY DEF StopsOne
  <2>3. <<>> \in Seq(S)
    OBVIOUS
  <2> HIDE DEF S
  <2> QED
    BY <2>1, <2>2, <2>3
<1>2. << <<"join", x>> >> \in Seq(S) /\ Len(<< <<"join", x>> >>) = 1
  OBVIOUS
<1>3. PICK j \in Seq(S) : j = << <<"join", x>> >> /\ Len(j) = 1 /\ j[1] = <<"join", x>>
  BY <1>2
<1> HIDE DEF S
<1>4. j \o q \in Seq(S) /\ Len(j \o q) = 1 + Len(q) /\ (j \o q)[1] = j[1]
  BY <1>1, <1>3, ConcatProperties
<1>5. j \o q # <<>> /\ Head(j \o q) = <<"join", x>>
  BY <1>1, <1>3, <1>4
<1>6. Tail(j \o q) = q
  <2>1. Len(Tail(j \o q)) = Len(q)
    BY <1>1, <1>3, <1>4
  <2>2. ASSUME NEW i \in 1 .. Len(q)
        PROVE  Tail(j \o q)[i] = q[i]
    <3>1. Len(q) \in Nat /\ i + 1 \in Len(j) + 1 .. Len(j) + Len(q) /\ i + 1 - Len(j) = i
      BY <1>1, <1>3
    <3>2. Tail(j \o q)[i] = (j \o q)[i + 1]
      BY <1>4, <1>5, <2>1, <3>1
    <3>3. (j \o q)[i + 1] = q[i + 1 - Len(j)]
      BY <1>1, <1>3, <3>1, ConcatProperties
    <3> QED
      BY <3>1, <3>2, <3>3
  <2>3. Tail(j \o q) \in Seq(S)
    BY <1>4, <1>5
  <2> QED
    BY <1>1, <2>1, <2>2, <2>3, SeqEqual
<1> QED
  BY <1>3, <1>5, <1>6 DEF ThenJoin

(***************************************************************************)
(* Which calls may be next, and what holds then.                           *)
(***************************************************************************)
LEMMA WhichCall ==
    ASSUME Agreed, NEW op, NEW x, Calls(op, x)
    PROVE  \/ /\ op = "start" /\ x = "concurrent" /\ Tail(calls) = StartsTwo
              /\ \A s \in Servers : isThreadRunning[s] = listenerRunning
           \/ /\ op = "start" /\ x = "config" /\ Tail(calls) = StartsOne
              /\ \A s \in Servers : s = "concurrent" => isThreadRunning[s]
           \/ /\ op = "start" /\ x = "listener" /\ Tail(calls) = <<>>
              /\ \A s \in Servers : isThreadRunning[s]
           \/ op = "stop" /\ x = "listener" /\ Tail(calls) = StopsTwo
           \/ op = "join" /\ x = "listener" /\ Tail(calls) = StopsTwo /\ ~listenerRunning
           \/ op = "stop" /\ x = "concurrent" /\ Tail(calls) = StopsOne /\ ~listenerRunning
           \/ /\ op = "join" /\ x = "concurrent" /\ Tail(calls) = StopsOne /\ ~listenerRunning
              /\ \A s \in Servers : s = "concurrent" => ~isThreadRunning[s]
           \/ /\ op = "stop" /\ x = "config" /\ Tail(calls) = <<>> /\ ~listenerRunning
              /\ \A s \in Servers : s = "concurrent" => ~isThreadRunning[s]
           \/ /\ op = "join" /\ x = "config" /\ Tail(calls) = <<>> /\ ~listenerRunning
              /\ \A s \in Servers : ~isThreadRunning[s]
<1>1. calls # <<>> /\ Head(calls) = <<op, x>>
  BY DEF Calls
<1>2. CASE calls \in {StartNetworkServer, StopNetworkServer}
           /\ \A s \in Servers : isThreadRunning[s] = listenerRunning
  BY <1>1, <1>2, CommandsAre
<1>3. CASE /\ calls = StartsTwo
           /\ \A s \in Servers : s = "concurrent" => isThreadRunning[s]
  BY <1>1, <1>3, CommandsAre
<1>4. CASE /\ calls = StartsOne
           /\ \A s \in Servers : isThreadRunning[s]
  BY <1>1, <1>4, CommandsAre
<1>5. CASE calls \in {ThenJoin("listener", StopsTwo), StopsTwo} /\ ~listenerRunning
  <2>1. CASE calls = StopsTwo
    BY <1>1, <1>5, <2>1, CommandsAre
  <2>2. CASE calls = ThenJoin("listener", StopsTwo)
    BY <1>1, <1>5, <2>2, JoinIsNext
  <2> QED
    BY <1>5, <2>1, <2>2
<1>6. CASE /\ calls \in {ThenJoin("concurrent", StopsOne), StopsOne}
           /\ ~listenerRunning
           /\ \A s \in Servers : s = "concurrent" => ~isThreadRunning[s]
  BY <1>1, <1>6, CommandsAre, JoinIsNext, SMTT(30)
<1>7. CASE /\ calls = ThenJoin("config", <<>>)
           /\ ~listenerRunning
           /\ \A s \in Servers : ~isThreadRunning[s]
  BY <1>1, <1>7, JoinIsNext
<1> QED
  BY <1>1, <1>2, <1>3, <1>4, <1>5, <1>6, <1>7 DEF Agreed

-----------------------------------------------------------------------------
(***************************************************************************)
(* The steps of the servers.                                               *)
(***************************************************************************)
LEMMA NetworkSteps ==
    ASSUME [NetworkNext]_networkVars
    PROVE  [Next]_vars
<1>1. CASE UNCHANGED networkVars
  BY <1>1 DEF networkVars
<1>2. CASE Command \/ StarThread \/ StopThread \/ JoinListener \/ NetworkListenerThread
  BY <1>2 DEF Command, StarThread, StopThread, JoinListener, NetworkListenerThread,
              TestFlag, EnterWait, WaitTimesOut
<1>3. ASSUME NEW s \in Servers, StartServer(s) \/ StopServer(s) \/ JoinServer(s)
      PROVE  [Next]_vars
  BY <1>3 DEF StartServer, StopServer, JoinServer, Next
<1>4. CASE (\E s \in Servers : ServerThread(s)) \/ ClientStep
  BY <1>4 DEF Next
<1> QED
  BY <1>1, <1>2, <1>3, <1>4 DEF NetworkNext, Owner

\* How far the thread of a server gets in one step.
LEMMA ThreadMoves ==
    ASSUME Types, NEW s \in Servers, ServerThread(s)
    PROVE  /\ isThreadRunning' = isThreadRunning
           /\ \A t \in Servers : t # s => pc'[t] = pc[t] /\ batch'[t] = batch[t]
           /\ \/ pc[s] = "starting" /\ pc'[s] = "loop" /\ batch'[s] = batch[s]
              \/ pc[s] = "loop" /\ pc'[s] = "wait" /\ batch[s] = {} /\ batch'[s] = {}
              \/ pc[s] = "wait" /\ pc'[s] = "loop"
              \/ pc[s] = "loop" /\ pc'[s] = "loop"
              \/ /\ pc[s] = "loop" /\ pc'[s] \in Kinds /\ batch[s] = {} /\ batch'[s] = {}
                 /\ ~isThreadRunning[s]
              \/ pc[s] \in Kinds /\ pc'[s] \in Kinds \cup {"ended"} /\ batch'[s] = batch[s]
<1> USE DEF Types, TypeOK
<1>1. CASE Begin(s) \/ CheckRunning(s) \/ Wait(s) \/ LeaveLoop(s)
  BY <1>1, FirstIsKind DEF Begin, CheckRunning, Wait, LeaveLoop
<1>2. CASE \/ \E c \in Clients : ReadData(s, c) \/ ReadReset(s, c)
           \/ \E fd \in Fds : ReadFails(s, fd)
  BY <1>2 DEF ReadData, ReadReset, ReadFails, Reads, Event, Handle
<1>3. ASSUME NEW k \in KindsOf(s), Accept(k) \/ AcceptFails(k)
      PROVE  /\ UNCHANGED <<isThreadRunning, pc>> /\ pc[s] = "loop"
             /\ \A t \in Servers : t # s => batch'[t] = batch[t]
  BY <1>3, KindOfServer DEF Accept, AcceptFails, Event, HandleAccept, Handle
<1>4. ASSUME NEW c \in Clients, ReadsEnd(s, c)
      PROVE  /\ UNCHANGED <<isThreadRunning, pc>> /\ pc[s] = "loop"
             /\ \A t \in Servers : t # s => batch'[t] = batch[t]
  BY <1>4 DEF ReadsEnd, Reads, Event, Handle
<1>5. ASSUME NEW k \in KindsOf(s), CloseListed(k) \/ CloseListening(k)
      PROVE  /\ UNCHANGED <<isThreadRunning, batch>>
             /\ pc[s] \in Kinds /\ pc'[s] \in Kinds \cup {"ended"}
             /\ \A t \in Servers : t # s => pc'[t] = pc[t]
  <2>1. k \in Kinds /\ ServerOf(k) = s
    BY KindOfServer
  <2> QED
    BY <1>5, <2>1, NextIsKind DEF CloseListed, CloseListening
<1>6. Loop(s) \/ \E c \in Clients : ReadsEnd(s, c)
  BY ServersAreTwo DEF ServerThread, ConcurrentThread, NoneConcurrentThread, ReadEnd, HostReadEnd
<1> QED
  BY <1>1, <1>2, <1>3, <1>4, <1>5, <1>6 DEF Loop

-----------------------------------------------------------------------------
(***************************************************************************)
(* The order of the calls, and what each leaves behind.                    *)
(***************************************************************************)
LEMMA InitCalls == NetworkInit => CallsInv
BY DEF NetworkInit, Init, CallsInv, Agreed, ThreadsInv, ListenerInv

LEMMA CommandCalls ==
    ASSUME CallsInv, Command
    PROVE  CallsInv'
<1>1. calls = <<>> /\ calls' \in {StartNetworkServer, StopNetworkServer}
      /\ UNCHANGED <<isThreadRunning, pc, batch, listenerRunning, listener>>
  BY DEF Command, vars
<1>2. \A s \in Servers : isThreadRunning[s] = listenerRunning
  BY <1>1, CommandsAre, JoinIsNext DEF CallsInv, Agreed
<1>3. Agreed'
  BY <1>1, <1>2 DEF Agreed
<1>4. \A x : ~Calls("join", x)
  BY <1>1 DEF Calls
<1>5. ThreadsInv' /\ ListenerInv'
  BY <1>1, <1>4 DEF CallsInv, ThreadsInv, ListenerInv
<1> QED
  BY <1>3, <1>5 DEF CallsInv

\* A call that returns is followed by no join.
LEMMA NoJoinAfter ==
    ASSUME Agreed, NEW op, NEW x, Calls(op, x), Returns, NEW y
    PROVE  ~Calls("join", y)'
<1>1. calls' = <<>> \/ calls' \in {StartsTwo, StartsOne, StopsTwo, StopsOne}
  BY WhichCall DEF Returns
<1>2. Head(calls') # <<"join", y>> \/ calls' = <<>>
  BY <1>1, CommandsAre
<1> QED
  BY <1>2 DEF Calls

LEMMA StartCalls ==
    ASSUME Types, CallsInv, NEW s \in Servers, StartServer(s)
    PROVE  CallsInv'
<1>1. /\ Calls("start", s) /\ Returns
      /\ UNCHANGED <<listenerRunning, listener, batch>>
  BY DEF StartServer, Start, vars
<1>2. \/ isThreadRunning[s] /\ isThreadRunning' = isThreadRunning /\ pc' = pc
      \/ /\ pc[s] = "idle"
         /\ isThreadRunning' = [isThreadRunning EXCEPT ![s] = TRUE]
         /\ pc' = [pc EXCEPT ![s] = "starting"]
  BY DEF StartServer, Start, vars
<1>3. isThreadRunning'[s] /\ \A t \in Servers : t # s => isThreadRunning'[t] = isThreadRunning[t]
  BY <1>2 DEF Types, TypeOK
<1>4. Agreed'
  <2>1. \/ s = "concurrent" /\ calls' = StartsTwo
        \/ /\ s = "config" /\ calls' = StartsOne
           /\ \A t \in Servers : t = "concurrent" => isThreadRunning[t]
    BY <1>1, WhichCall, ServersAreTwo DEF CallsInv, Returns
  <2> QED
    BY <1>3, <2>1, ServersAreTwo DEF Agreed
<1>5. ThreadsInv'
  <2>1. ASSUME NEW t \in Servers, t # s
        PROVE  ~Calls("join", t) /\ pc'[t] = pc[t]
    <3>1. ~Calls("join", t)
      BY <1>1 DEF Calls
    <3>2. pc'[t] = pc[t]
      BY <1>2, <2>1 DEF Types, TypeOK
    <3> QED
      BY <3>1, <3>2
  <2>2. pc'[s] \in {"starting", "loop", "wait"} /\ (batch[s] # {} => pc'[s] = "loop")
    BY <1>2 DEF CallsInv, ThreadsInv, Types, TypeOK
  <2> QED
    BY <1>1, <1>3, <2>1, <2>2 DEF CallsInv, ThreadsInv
<1>6. ListenerInv'
  <2>1. ~Calls("join", "listener")
    BY <1>1 DEF Calls
  <2> QED
    BY <1>1, <2>1 DEF CallsInv, ListenerInv
<1> QED
  BY <1>4, <1>5, <1>6 DEF CallsInv

LEMMA StopCalls ==
    ASSUME Types, CallsInv, NEW s \in Servers, StopServer(s)
    PROVE  CallsInv'
<1>1. /\ Calls("stop", s)
      /\ UNCHANGED <<listenerRunning, listener, batch, pc>>
  BY DEF StopServer, Stop, vars
<1>2. \A t : ~Calls("join", t)
  BY <1>1 DEF Calls
<1>3. \/ /\ isThreadRunning' = [isThreadRunning EXCEPT ![s] = FALSE]
         /\ calls' = ThenJoin(s, Tail(calls))
      \/ ~isThreadRunning[s] /\ isThreadRunning' = isThreadRunning /\ Returns
  BY DEF StopServer, Stop, GoesOnToJoin, ThenJoin, vars
<1>4. ~isThreadRunning'[s]
      /\ \A t \in Servers : t # s => isThreadRunning'[t] = isThreadRunning[t]
  BY <1>3 DEF Types, TypeOK
<1>5. \/ s = "concurrent" /\ Tail(calls) = StopsOne /\ ~listenerRunning
      \/ /\ s = "config" /\ Tail(calls) = <<>> /\ ~listenerRunning
         /\ \A t \in Servers : t = "concurrent" => ~isThreadRunning[t]
  BY <1>1, WhichCall, ServersAreTwo DEF CallsInv
<1>6. Agreed'
  <2>1. calls' = ThenJoin(s, Tail(calls)) \/ calls' = Tail(calls)
    BY <1>3 DEF Returns
  <2>2. CASE s = "concurrent"
    BY <1>1, <1>4, <1>5, <2>1, <2>2 DEF Agreed
  <2>3. CASE s = "config"
    <3>1. listenerRunning' = FALSE /\ \A t \in Servers : isThreadRunning'[t] = FALSE
      BY <1>1, <1>4, <1>5, <2>3, ServersAreTwo DEF CallsInv, ListenerInv, Types, TypeOK
    <3> QED
      BY <1>5, <2>1, <2>3, <3>1 DEF Agreed
  <2> QED
    BY <2>2, <2>3, ServersAreTwo
<1>7. ThreadsInv'
  <2>1. ~Calls("join", s)' => pc[s] = "idle"
    <3>1. CASE calls' = ThenJoin(s, Tail(calls))
      BY <1>5, <3>1, JoinIsNext DEF Calls
    <3>2. CASE ~isThreadRunning[s]
      BY <1>2, <3>2 DEF CallsInv, ThreadsInv
    <3> QED
      BY <1>3, <3>1, <3>2
  <2> QED
    BY <1>1, <1>2, <1>4, <2>1 DEF CallsInv, ThreadsInv
<1>8. ListenerInv'
  BY <1>1, <1>2 DEF CallsInv, ListenerInv
<1> QED
  BY <1>6, <1>7, <1>8 DEF CallsInv

LEMMA JoinCalls ==
    ASSUME Types, CallsInv, NEW s \in Servers, JoinServer(s)
    PROVE  CallsInv'
<1>1. /\ Calls("join", s) /\ Returns
      /\ ~isThreadRunning[s] /\ pc[s] = "ended" /\ pc' = [pc EXCEPT ![s] = "idle"]
      /\ UNCHANGED <<isThreadRunning, batch, listenerRunning, listener>>
  BY DEF JoinServer, Join
<1>2. \/ /\ Tail(calls) = StopsOne /\ ~listenerRunning
         /\ \A t \in Servers : t = "concurrent" => ~isThreadRunning[t]
      \/ Tail(calls) = <<>> /\ ~listenerRunning /\ \A t \in Servers : ~isThreadRunning[t]
  <2>1. s # "listener"
    BY ServersAreTwo
  <2> QED
    BY <1>1, <2>1, WhichCall DEF CallsInv
<1>3. Agreed'
  <2>1. listenerRunning \in BOOLEAN /\ isThreadRunning \in [Servers -> BOOLEAN]
    BY DEF CallsInv, ListenerInv, Types, TypeOK
  <2> QED
    BY <1>1, <1>2, <2>1 DEF Agreed, Returns
<1>4. ThreadsInv'
  <2>1. ASSUME NEW t \in Servers, t # s
        PROVE  ~Calls("join", t) /\ pc'[t] = pc[t]
    <3>1. ~Calls("join", t)
      BY <1>1, <2>1 DEF Calls
    <3>2. pc'[t] = pc[t]
      BY <1>1, <2>1 DEF Types, TypeOK
    <3> QED
      BY <3>1, <3>2
  <2>2. pc'[s] = "idle" /\ batch[s] = {}
    BY <1>1 DEF CallsInv, ThreadsInv, Types, TypeOK
  <2> QED
    BY <1>1, <2>1, <2>2 DEF CallsInv, ThreadsInv
<1>5. ListenerInv'
  <2>1. ~Calls("join", "listener")
    BY <1>1, ServersAreTwo DEF Calls
  <2> QED
    BY <1>1, <2>1 DEF CallsInv, ListenerInv
<1> QED
  BY <1>3, <1>4, <1>5 DEF CallsInv

LEMMA ListenerCalls ==
    ASSUME Types, CallsInv, StarThread \/ StopThread \/ JoinListener
    PROVE  CallsInv'
<1>1. UNCHANGED <<isThreadRunning, pc, batch>>
  BY DEF StarThread, StopThread, JoinListener, vars
<1>2. /\ listenerRunning \in BOOLEAN /\ isThreadRunning \in [Servers -> BOOLEAN]
      /\ \A s \in Servers : s # "listener"
  BY ServersAreTwo DEF CallsInv, ListenerInv, Types, TypeOK
<1>3. \A s \in Servers : ~Calls("join", s)
  BY <1>2 DEF StarThread, StopThread, JoinListener, Calls
<1>4. ThreadsInv'
  BY <1>1, <1>3 DEF CallsInv, ThreadsInv
<1>5. CASE StarThread
  <2>1. Calls("start", "listener") /\ calls' = Tail(calls) /\ listenerRunning' = TRUE
        /\ listener' = IF listenerRunning THEN listener ELSE "test"
    BY <1>5 DEF StarThread, Returns
  <2>2. calls' = <<>> /\ \A s \in Servers : isThreadRunning[s]
    BY <2>1, WhichCall DEF CallsInv
  <2>3. Agreed'
    BY <1>1, <1>2, <2>1, <2>2 DEF Agreed
  <2>4. ListenerInv'
    BY <2>1 DEF CallsInv, ListenerInv
  <2> QED
    BY <1>4, <2>3, <2>4 DEF CallsInv
<1>6. CASE StopThread
  <2>1. /\ Calls("stop", "listener") /\ listenerRunning' = FALSE
        /\ listener' = IF listenerRunning /\ listener = "waiting" THEN "test" ELSE listener
        /\ \/ listenerRunning /\ calls' = ThenJoin("listener", Tail(calls))
           \/ ~listenerRunning /\ calls' = Tail(calls)
    BY <1>6 DEF StopThread, Returns, GoesOnToJoin, ThenJoin
  <2>2. Tail(calls) = StopsTwo
    BY <2>1, <1>2, WhichCall DEF CallsInv
  <2>3. Agreed'
    BY <2>1, <2>2 DEF Agreed
  <2>4. ListenerInv'
    <3>1. CASE listenerRunning
      <4>1. Calls("join", "listener")'
        BY <2>1, <2>2, <3>1, JoinIsNext DEF Calls
      <4> QED
        BY <2>1, <4>1 DEF CallsInv, ListenerInv
    <3>2. CASE ~listenerRunning
      <4>1. ~Calls("join", "listener")
        BY <2>1 DEF Calls
      <4> QED
        BY <2>1, <3>2, <4>1 DEF CallsInv, ListenerInv
    <3> QED
      BY <3>1, <3>2
  <2> QED
    BY <1>4, <2>3, <2>4 DEF CallsInv
<1>7. CASE JoinListener
  <2>1. Calls("join", "listener") /\ Returns /\ listener' = "none"
        /\ listenerRunning' = listenerRunning
    BY <1>7 DEF JoinListener
  <2>2. Tail(calls) = StopsTwo /\ ~listenerRunning
    BY <2>1, <1>2, WhichCall DEF CallsInv
  <2>3. Agreed'
    BY <2>1, <2>2 DEF Agreed, Returns
  <2>4. ListenerInv'
    BY <2>1, <2>2 DEF CallsInv, ListenerInv
  <2> QED
    BY <1>4, <2>3, <2>4 DEF CallsInv
<1> QED
  BY <1>5, <1>6, <1>7

LEMMA ThreadCalls ==
    ASSUME Types, CallsInv,
           \/ NetworkListenerThread
           \/ (\E s \in Servers : ServerThread(s)) /\ UNCHANGED ownVars
           \/ ClientStep /\ UNCHANGED ownVars
    PROVE  CallsInv'
<1> USE DEF CallsInv
<1>1. calls' = calls /\ listenerRunning' = listenerRunning
  BY DEF NetworkListenerThread, TestFlag, EnterWait, WaitTimesOut, ownVars
<1>2. \A x : Calls("join", x)' <=> Calls("join", x)
  BY <1>1 DEF Calls
<1>3. CASE NetworkListenerThread
  <2>1. /\ UNCHANGED <<isThreadRunning, pc, batch>>
        /\ listener \in {"test", "enter", "waiting"}
        /\ listener' \in {"test", "enter", "waiting", "ended"}
        /\ listener' = "ended" => ~listenerRunning
    BY <1>3 DEF NetworkListenerThread, TestFlag, EnterWait, WaitTimesOut, vars
  <2>2. Agreed' /\ ThreadsInv'
    BY <1>1, <1>2, <2>1 DEF Agreed, ThreadsInv
  <2>3. ListenerInv'
    BY <1>1, <1>2, <2>1 DEF ListenerInv
  <2> QED
    BY <2>2, <2>3
<1>4. ASSUME NEW s \in Servers, ServerThread(s), UNCHANGED ownVars
      PROVE  CallsInv'
  <2>1. Agreed' /\ ListenerInv'
    BY <1>1, <1>2, <1>4, ThreadMoves DEF Agreed, ListenerInv, ownVars
  <2>2. \A k \in Kinds : k \notin {"idle", "starting", "loop", "wait"}
    BY ServerOfKind
  <2>3. ThreadsInv'
    BY <1>2, <1>4, <2>2, ThreadMoves DEF ThreadsInv
  <2> QED
    BY <2>1, <2>3
<1>5. CASE ClientStep /\ UNCHANGED ownVars
  <2>1. UNCHANGED <<isThreadRunning, pc, batch>>
    BY <1>5 DEF ClientStep, Connect, Send, Close, Abort
  <2> QED
    BY <1>1, <1>2, <1>5, <2>1 DEF Agreed, ThreadsInv, ListenerInv, ownVars
<1> QED
  BY <1>3, <1>4, <1>5

LEMMA StepCalls ==
    ASSUME Types, CallsInv, [NetworkNext]_networkVars
    PROVE  CallsInv'
<1>1. CASE UNCHANGED networkVars
  BY <1>1 DEF networkVars, vars, CallsInv, Agreed, ThreadsInv, ListenerInv, Calls
<1>2. CASE NetworkNext
  BY <1>2, CommandCalls, StartCalls, StopCalls, JoinCalls, ListenerCalls, ThreadCalls
     DEF NetworkNext, Owner
<1> QED
  BY <1>1, <1>2

LEMMA InvQuiet == Inv /\ CallsInv => QuietWhenStopped
<1> SUFFICES ASSUME Inv, CallsInv, calls = <<>>, ~listenerRunning
             PROVE  /\ listener = "none"
                    /\ \A s \in Servers : pc[s] = "idle"
                    /\ \A c \in Clients : ~Open(c)
  BY DEF QuietWhenStopped
<1>1. \A x : ~Calls("join", x)
  BY DEF Calls
<1>2. \A s \in Servers : ~isThreadRunning[s]
  BY CommandsAre, JoinIsNext DEF CallsInv, Agreed
<1>3. listener = "none" /\ \A s \in Servers : pc[s] = "idle"
  BY <1>1, <1>2 DEF CallsInv, ListenerInv, ThreadsInv
<1>4. ASSUME NEW c \in Clients
      PROVE  ~Open(c)
  <2>1. pc[ServerOf(Kind(c))] = "idle" /\ Kind(c) # "idle"
    BY <1>3, KindOfClient, ServerOfKind
  <2> QED
    BY <2>1 DEF Inv, ListInv, OpenIsServed, Listening
<1> QED
  BY <1>3, <1>4

-----------------------------------------------------------------------------
(***************************************************************************)
(* The events of both threads.  What keeps them true: none is new, what    *)
(* those that are left speak of is still there, and what was orphaned      *)
(* still is.                                                               *)
(***************************************************************************)
LEMMA FewerOfEither ==
    ASSUME Inv, EventsInv,
           \A s \in Servers : batch'[s] \subseteq batch[s],
           \A k \in Kinds : \/ AcceptEvent(k) \notin batch'[ServerOf(k)]
                            \/ backlog[k] # <<>> => backlog'[k] # <<>>,
           \A c \in Clients : \/ fdOf[c] \notin Fds
                              \/ ReadEvent(fdOf[c]) \notin batch'[ServerOf(Kind(c))]
                              \/ fdOf'[c] = fdOf[c] /\ (Readable(c) => Readable(c)'),
           \A s \in Servers : Orphaned(s) /\ batch'[s] # {} => Orphaned(s)'
    PROVE  EventsInv'
<1>1. ASSUME NEW s \in Servers, NEW k \in Kinds, AcceptEvent(k) \in batch'[s]
      PROVE  s = ServerOf(k) /\ backlog'[k] # <<>>
  BY <1>1 DEF EventsInv
<1>2. ASSUME NEW s \in Servers, NEW fd \in Fds, ReadEvent(fd) \in batch'[s]
      PROVE  \/ \E c \in Clients : fdOf'[c] = fd /\ Readable(c)' /\ ServerOf(Kind(c)) = s
             \/ Orphaned(s)'
  <2>1. \/ \E c \in Clients : fdOf[c] = fd /\ Readable(c) /\ ServerOf(Kind(c)) = s
        \/ Orphaned(s)
    BY <1>2 DEF EventsInv
  <2>2. ASSUME NEW c \in Clients, fdOf[c] = fd, Readable(c), ServerOf(Kind(c)) = s
        PROVE  fdOf'[c] = fd /\ Readable(c)'
    BY <1>2, <2>2
  <2> QED
    BY <1>2, <2>1, <2>2
<1> QED
  BY <1>1, <1>2 DEF EventsInv, AcceptEvent, ReadEvent, Readable, ServerOf, Kind

\* What keeps an event orphaned.
LEMMA StillOrphaned ==
    ASSUME Types, NEW s \in Servers, Orphaned(s), fdOf' = fdOf,
           \A t \in Servers : Gone(t) => Gone(t)',
           batch'[s] \subseteq batch[s],
           AcceptEvent("host") \in batch'[s] => AcceptEvent("host") \in batch[s] /\ slots' = slots
    PROVE  Orphaned(s)'
BY DEF Orphaned, Open, AcceptEvent, ReadEvent

\* A connection that is open is read by its own server.
LEMMA ReadsItsOwn ==
    ASSUME Inv, EventsInv, NEW s \in Servers, NEW c \in Clients, Reads(s, c)
    PROVE  /\ ServerOf(Kind(c)) = s
           /\ \A t \in Servers : ~Orphaned(t)
<1>1. Open(c) /\ ReadEvent(fdOf[c]) \in batch[s] /\ fdOf[c] \in Fds
  BY DEF Reads, Event, Inv, ListInv, Types, TypeOK, Open
<1>2. \A t \in Servers : ~Orphaned(t)
  <2>1. s = "concurrent" \/ s = "config"
    BY ServersAreTwo
  <2>2. pc[s] = "loop" /\ "loop" \notin Kinds
    BY ServerOfKind DEF Reads, Event
  <2> QED
    BY <1>1, <2>1, <2>2 DEF Orphaned, Gone
<1>3. PICK d \in Clients : fdOf[d] = fdOf[c] /\ ServerOf(Kind(d)) = s
  BY <1>1, <1>2 DEF EventsInv
<1> QED
  BY <1>1, <1>2, <1>3 DEF Inv, ListInv, FdsAreDistinct

LEMMA ReadEvents ==
    ASSUME Inv, EventsInv, NEW s \in Servers, NEW c \in Clients,
           Reads(s, c), Handle(s, ReadEvent(fdOf[c])), backlog' = backlog,
           \A d \in Clients : d # c => fdOf'[d] = fdOf[d] /\ sock'[d] = sock[d]
    PROVE  EventsInv'
<1>1. ServerOf(Kind(c)) = s /\ \A t \in Servers : ~Orphaned(t)
  BY ReadsItsOwn
<1>2. /\ \A t \in Servers : batch'[t] \subseteq batch[t]
      /\ ReadEvent(fdOf[c]) \notin batch'[s]
  BY HandledEvent
<1>3. \A d \in Clients : d # c => fdOf'[d] = fdOf[d] /\ (Readable(d) => Readable(d)')
  BY DEF Readable
<1> QED
  BY <1>1, <1>2, <1>3, FewerOfEither

LEMMA ReadFailsEvents ==
    ASSUME Inv, EventsInv, NEW s \in Servers, NEW fd \in Fds, ReadFails(s, fd)
    PROVE  EventsInv'
<1>1. UNCHANGED <<isThreadRunning, pc, slots, fdOf, backlog, sock>>
  BY DEF ReadFails, netVars
<1>2. \A t \in Servers : batch'[t] \subseteq batch[t]
  BY HandledEvent DEF ReadFails
<1>3. \A t \in Servers : Orphaned(t) => Orphaned(t)'
  BY <1>1, <1>2, StillOrphaned DEF Inv, ListInv, Gone
<1> QED
  BY <1>1, <1>2, <1>3, FewerOfEither DEF Readable

LEMMA WaitEvents ==
    ASSUME Inv, EventsInv, NEW s \in Servers, Wait(s)
    PROVE  EventsInv'
<1> DEFINE found == {x \in edge : Registered(s, x) /\ Ready(x)}
<1>1. /\ batch'[s] = {AcceptEvent(k) : k \in found \cap Kinds}
                       \cup {ReadEvent(fdOf[c]) : c \in found \cap Clients}
      /\ \A t \in Servers : t # s => batch'[t] = batch[t]
      /\ UNCHANGED <<isThreadRunning, slots, fdOf, backlog, sock>>
      /\ \A t \in Servers : Gone(t) => Gone(t)'
  <2>1. pc[s] = "wait" /\ "wait" \notin Kinds
    BY ServerOfKind DEF Wait
  <2>2. \A t \in Servers : Gone(t) => Gone(t)'
    BY <2>1 DEF Wait, Inv, ListInv, Types, TypeOK, Gone
  <2> QED
    BY <2>2 DEF Wait, Inv, ListInv, Types, TypeOK
<1>2. ASSUME NEW k \in found \cap Kinds
      PROVE  k \in KindsOf(s) /\ backlog[k] # <<>>
  BY DEF Registered, Ready
<1>3. ASSUME NEW c \in found \cap Clients
      PROVE  fdOf[c] \in Fds /\ Readable(c) /\ Kind(c) \in KindsOf(s)
  BY ClientsAreNotKinds DEF Ready, Registered, Inv, ListInv, Types, TypeOK, EdgesAreOpen, Open
<1> HIDE DEF found
<1>4. ASSUME NEW k \in Kinds, AcceptEvent(k) \in batch'[s]
      PROVE  s = ServerOf(k) /\ backlog'[k] # <<>>
  <2>1. k \in found
    BY <1>1, <1>3, <1>4, EventsDiffer
  <2> QED
    BY <1>1, <1>2, <2>1, ServerOfKind
<1>5. ASSUME NEW fd \in Fds, ReadEvent(fd) \in batch'[s]
      PROVE  \E c \in Clients : fdOf'[c] = fd /\ Readable(c)' /\ ServerOf(Kind(c)) = s
  <2>1. PICK c \in found \cap Clients : fd = fdOf[c]
    BY <1>1, <1>3, <1>5, EventsDiffer
  <2> QED
    BY <1>1, <1>3, <2>1, KindOfServer DEF Readable
<1>6. ASSUME NEW t \in Servers, t # s, Orphaned(t)
      PROVE  Orphaned(t)'
  BY <1>1, <1>6, StillOrphaned DEF Inv, ListInv
<1>7. ASSUME NEW t \in Servers, t # s
      PROVE  /\ \A k \in Kinds :
                   AcceptEvent(k) \in batch'[t] => t = ServerOf(k) /\ backlog'[k] # <<>>
             /\ \A fd \in Fds : ReadEvent(fd) \in batch'[t] =>
                   \/ \E c \in Clients : fdOf'[c] = fd /\ Readable(c)' /\ ServerOf(Kind(c)) = t
                   \/ Orphaned(t)'
  BY <1>1, <1>6, <1>7 DEF EventsInv, Readable
<1> QED
  BY <1>4, <1>5, <1>7 DEF EventsInv, AcceptEvent, ReadEvent, Readable, ServerOf, Kind

LEMMA AcceptEvents ==
    ASSUME Inv, EventsInv, NEW k \in Kinds, Accept(k) \/ AcceptFails(k)
    PROVE  EventsInv'
<1>1. /\ \A t \in Servers : batch'[t] \subseteq batch[t]
      /\ AcceptEvent(k) \notin batch'[ServerOf(k)]
  BY HandledEvent, ServerOfKind DEF Accept, AcceptFails, HandleAccept
<1>2. /\ UNCHANGED <<isThreadRunning, pc>>
      /\ pc[ServerOf(k)] = "loop" /\ AcceptEvent(k) \in batch[ServerOf(k)]
  BY DEF Accept, AcceptFails, Event
<1>3. ASSUME NEW t \in Servers, Orphaned(t)
      PROVE  /\ k = "host" /\ t = ServerOf(k) /\ ServerOf(k) \in Servers
             /\ slots[k] # <<>>
  <2>1. ServerOf(k) # "concurrent" /\ t = "config"
    <3>1. "loop" \notin Kinds
      BY ServerOfKind
    <3> QED
      BY <1>2, <1>3, <3>1, ServerOfKind DEF Orphaned, Gone
  <2>2. k = "host" /\ ServerOf(k) = "config"
    BY <2>1, ServerOfKind DEF ServerOf
  <2> QED
    BY <1>2, <1>3, <2>1, <2>2 DEF Orphaned
<1>4. CASE AcceptFails(k)
  <2>1. UNCHANGED <<slots, fdOf, backlog, sock>>
    BY <1>4 DEF AcceptFails, netVars
  <2>2. \A t \in Servers : Orphaned(t) => Orphaned(t)'
    BY <1>1, <1>2, <2>1, StillOrphaned DEF Inv, ListInv, Gone
  <2> QED
    BY <1>1, <2>1, <2>2, FewerOfEither DEF Readable
<1>5. ASSUME Accept(k), NEW c, c = Head(backlog[k])
      PROVE  EventsInv'
  <2>1. backlog[k] \in Seq(Clients) /\ backlog[k] # <<>>
    BY <1>5 DEF Accept, Inv, ListInv, Types, TypeOK
  <2>2. 1 \in 1 .. Len(backlog[k]) /\ c = backlog[k][1] /\ c \in Clients
    BY <1>5, <2>1
  <2>3. ~Open(c)
    BY <2>2 DEF Inv, Queues, QueueOf
  <2>4. \A j \in Kinds : j # k => backlog'[j] = backlog[j]
    BY <1>5 DEF Accept, Inv, ListInv, Types, TypeOK
  <2>5. \A d \in Clients : d # c => fdOf'[d] = fdOf[d] /\ sock'[d] = sock[d]
    BY <1>5 DEF Accept, Admit, Refuse, Inv, ListInv, Types, TypeOK
  <2>6. fdOf[c] \notin Fds
    BY <2>3, ConstantsAssumption DEF Open
  <2>7. ASSUME NEW t \in Servers, Orphaned(t)
        PROVE  Orphaned(t)'
    <3>1. ~CheckConnections(k)
      <4>1. k = "host" /\ maxConnections(k) = 1 /\ slots[k] \in Seq(Fds) /\ slots[k] # <<>>
        BY <1>3, <2>7 DEF maxConnections, Inv, ListInv, Types, TypeOK
      <4>2. Len(slots[k]) \in Nat /\ Len(slots[k]) # 0
        BY <4>1
      <4> QED
        BY <4>1, <4>2 DEF CheckConnections, GetTotalCount
    <3>2. fdOf' = fdOf
      BY <1>5, <3>1 DEF Accept, Admit, Refuse
    <3>3. AcceptEvent("host") \notin batch'[t]
      BY <1>1, <1>3, <2>7
    <3> QED
      <4>1. \A r \in Servers : Gone(r) => Gone(r)'
        BY <1>2 DEF Gone
      <4>2. Types /\ batch'[t] \subseteq batch[t]
        BY <1>1 DEF Inv, ListInv
      <4> QED
        BY <2>7, <3>2, <3>3, <4>1, <4>2, StillOrphaned
  <2> QED
    BY <1>1, <2>4, <2>5, <2>6, <2>7, FewerOfEither DEF Readable
<1> QED
  BY <1>4, <1>5

LEMMA OneElement ==
    ASSUME NEW S, NEW q \in Seq(S), Len(q) <= 1, NEW i \in 1 .. Len(q)
    PROVE  Len(q) = 1 /\ q # <<>>
<1>1. Len(q) \in Nat /\ i \in Nat /\ 1 <= i /\ i <= Len(q)
  OBVIOUS
<1>2. Len(q) = 1
  BY <1>1
<1> QED
  BY <1>2

\* The other server has one connection at most, and its list has it.
LEMMA OneHost ==
    ASSUME Inv, NEW c \in Clients, Open(c), Kind(c) = "host"
    PROVE  /\ slots["host"] # <<>>
           /\ \A d \in Clients : Open(d) /\ Kind(d) = "host" => d = c
<1>1. "host" \in Kinds /\ Find(slots["host"], fdOf[c])
  BY KindOfClient DEF Inv, ListInv, OpenHasSlot
<1> PICK q \in Seq(Fds) : q = slots["host"]
  BY <1>1 DEF Inv, ListInv, Types, TypeOK
<1>2. Len(q) \in Nat /\ Len(q) <= 1
  BY <1>1 DEF Inv, ListInv, ListsFit, maxConnections
<1>3. PICK i \in 1 .. Len(q) : q[i] = fdOf[c]
  BY <1>1 DEF Find, Contains
<1>4. q # <<>> /\ i = 1 /\ 1 .. Len(q) = {1}
  <2>1. Len(q) = 1 /\ q # <<>>
    BY <1>2, OneElement
  <2> QED
    BY <2>1
<1>5. ASSUME NEW d \in Clients, Open(d), Kind(d) = "host"
      PROVE  d = c
  <2>1. PICK j \in 1 .. Len(q) : q[j] = fdOf[d]
    BY <1>5 DEF Inv, ListInv, OpenHasSlot, Find, Contains
  <2>2. fdOf[d] = fdOf[c]
    BY <1>3, <1>4, <2>1
  <2> QED
    BY <2>2 DEF Inv, ListInv, FdsAreDistinct
<1> QED
  BY <1>4, <1>5

LEMMA ClosingEvents ==
    ASSUME Inv, CallsInv, EventsInv, NEW k \in Kinds, CloseListed(k) \/ CloseListening(k)
    PROVE  EventsInv'
<1> DEFINE s == ServerOf(k)
<1>1. /\ s \in Servers /\ pc[s] = k
      /\ batch' = batch /\ isThreadRunning' = isThreadRunning
      /\ pc \in [Servers -> {"idle", "starting", "loop", "wait", "ended"} \cup Kinds]
      /\ k \notin {"idle", "starting", "loop", "wait"}
  BY ServerOfKind DEF CloseListed, CloseListening, Inv, ListInv, Types, TypeOK
<1>2. batch[s] = {} /\ ~isThreadRunning[s] /\ Calls("join", s)
  BY <1>1 DEF CallsInv, ThreadsInv
<1>3. ASSUME s = "config", NEW t \in Servers, t # s
      PROVE  batch[t] = {}
  <2>1. ~isThreadRunning[t]
    BY <1>2, <1>3, WhichCall DEF CallsInv
  <2>2. ~Calls("join", t)
    BY <1>2, <1>3 DEF Calls
  <2> QED
    BY <2>1, <2>2 DEF CallsInv, ThreadsInv
<1>4. CASE s = "config"
  <2>1. \A t \in Servers : batch'[t] = {}
    BY <1>1, <1>2, <1>3, <1>4
  <2> QED
    BY <2>1 DEF EventsInv
<1>5. CASE s = "concurrent"
  <2>1. /\ \A j \in Kinds : j # k => slots'[j] = slots[j] /\ backlog'[j] = backlog[j]
        /\ k # "host"
        /\ \A t \in Servers : t = "concurrent" => t = s
    BY <1>5 DEF ServerOf, CloseListed, CloseListening, Inv, ListInv, Types, TypeOK
  <2>2. Gone(s)'
    BY <1>1, <1>2, NextIsKind DEF Gone, CloseListed, CloseListening
  <2>3. \A j \in Kinds : \/ AcceptEvent(j) \notin batch'[ServerOf(j)]
                         \/ backlog[j] # <<>> => backlog'[j] # <<>>
    BY <1>1, <1>2, <2>1
  <2>4. \/ fdOf' = fdOf /\ (sock' = sock \/ CloseListening(k))
        \/ \E c \in Clients : Open(c) /\ CloseConnection(c) /\ fdOf' = [fdOf EXCEPT ![c] = None]
    <3>1. CASE CloseListening(k)
      BY <3>1 DEF CloseListening
    <3>2. CASE CloseListed(k)
      <4>1. slots[k] \in Seq(Fds) /\ slots[k] # <<>>
        BY <3>2 DEF CloseListed, Inv, ListInv, Types, TypeOK
      <4>2. \A c \in Clients : fdOf[c] = Head(slots[k]) => Open(c)
        BY <4>1, ConstantsAssumption DEF Open
      <4> QED
        BY <3>2, <4>2 DEF CloseListed, CloseConnection
    <3> QED
      BY <3>1, <3>2
  <2>5. \A c \in Clients : fdOf'[c] = fdOf[c] \/ fdOf'[c] = None
    BY <2>4 DEF Inv, ListInv, Types, TypeOK
  <2>6. ASSUME NEW t \in Servers, Orphaned(t)
        PROVE  Orphaned(t)'
    <3>1. t = "config"
      BY <2>6 DEF Orphaned
    <3>2. \A c \in Clients : Kind(c) = "host" => ~Open(c)'
      BY <2>5, <2>6 DEF Orphaned, Open
    <3>3. \A c \in Clients : ReadEvent(fdOf'[c]) \notin batch'[t]
      <4>1. ReadEvent(None) \notin batch[t]
        <5>1. \A j \in Kinds : AcceptEvent(j) # ReadEvent(None)
          BY ServerOfKind DEF AcceptEvent, ReadEvent
        <5>2. \A fd \in Fds : ReadEvent(fd) # ReadEvent(None)
          BY ConstantsAssumption DEF ReadEvent
        <5>3. batch[t] \subseteq Events
          BY DEF Inv, ListInv, Types, TypeOK
        <5> QED
          BY <5>1, <5>2, <5>3 DEF Events
      <4> QED
        BY <1>1, <2>5, <2>6, <4>1 DEF Orphaned
    <3>4. AcceptEvent("host") \in batch'[t] => slots'["host"] # <<>>
      <4>1. AcceptEvent("host") \in batch[t] => "host" \in Kinds
        BY <3>1, ConstantsAssumption DEF Kinds, KindsOf
      <4> QED
        BY <1>1, <2>1, <2>6, <4>1 DEF Orphaned
    <3> QED
      BY <2>1, <2>2, <3>1, <3>2, <3>3, <3>4 DEF Orphaned, AcceptEvent, ReadEvent, Open
  <2>7. ASSUME NEW c \in Clients, ServerOf(Kind(c)) # s, Kind(c) # k, fdOf'[c] = fdOf[c]
        PROVE  Readable(c) => Readable(c)'
    <3>1. CASE CloseListening(k)
      <4>1. ~Contains(backlog[k], c)
        BY <2>7 DEF Contains, Inv, Queues, QueueOf
      <4>2. sock'[c] = sock[c]
        BY <3>1, <4>1 DEF CloseListening
      <4> QED
        BY <4>2 DEF Readable
    <3>2. CASE sock' = sock
      BY <3>2 DEF Readable
    <3>3. ASSUME NEW d \in Clients, CloseConnection(d), Open(d)
          PROVE  Readable(c) => Readable(c)'
      <4>1. d # c
        BY <2>7, <3>3 DEF CloseConnection, Open, Inv, ListInv, Types, TypeOK
      <4> QED
        BY <3>3, <4>1 DEF CloseConnection, Readable, Inv, ListInv, Types, TypeOK
    <3> QED
      BY <2>4, <3>1, <3>2, <3>3
  <2>8. CASE \A c \in Clients : Kind(c) = "host" => fdOf'[c] = fdOf[c]
    <3>1. ASSUME NEW c \in Clients
          PROVE  \/ ReadEvent(fdOf[c]) \notin batch'[ServerOf(Kind(c))]
                 \/ fdOf'[c] = fdOf[c] /\ (Readable(c) => Readable(c)')
      <4>1. CASE ServerOf(Kind(c)) = s
        BY <1>1, <1>2, <4>1
      <4>2. CASE Kind(c) = "host"
        <5>1. ServerOf(Kind(c)) # s
          BY <1>5, <4>2 DEF ServerOf
        <5> QED
          BY <2>1, <2>7, <2>8, <4>2, <5>1
      <4> QED
        BY <1>5, <4>1, <4>2 DEF ServerOf
    <3>2. \A t \in Servers : batch'[t] \subseteq batch[t]
      BY <1>1
    <3> HIDE DEF s
    <3> QED
      BY <2>3, <2>6, <3>1, <3>2, FewerOfEither
  <2>9. ASSUME NEW c \in Clients, Kind(c) = "host", fdOf'[c] # fdOf[c]
        PROVE  EventsInv'
    <3>1. Open(c) /\ fdOf' = [fdOf EXCEPT ![c] = None]
      BY <2>4, <2>9 DEF Inv, ListInv, Types, TypeOK
    <3>2. slots["host"] # <<>> /\ \A d \in Clients : Open(d) /\ Kind(d) = "host" => d = c
      BY <2>9, <3>1, OneHost
    <3>3. \A t \in Servers : ~Orphaned(t)
      BY <2>9, <3>1 DEF Orphaned
    <3>4. ASSUME NEW t \in Servers, t = "config", NEW fd \in Fds, ReadEvent(fd) \in batch[t]
          PROVE  \A d \in Clients : fdOf'[d] # fd
      <4>1. PICK d \in Clients : fdOf[d] = fd /\ ServerOf(Kind(d)) = t
        BY <3>3, <3>4 DEF EventsInv
      <4>2. d = c
        BY <3>2, <3>4, <4>1, ConstantsAssumption DEF ServerOf, Open
      <4> QED
        BY <3>1, <4>1, <4>2, ConstantsAssumption DEF Inv, ListInv, FdsAreDistinct, Types, TypeOK
    <3>5. ASSUME NEW t \in Servers, t = "config"
          PROVE  Orphaned(t)'
      <4>1. \A d \in Clients : Kind(d) = "host" => ~Open(d)'
        BY <3>1, <3>2 DEF Open, Inv, ListInv, Types, TypeOK
      <4>2. ASSUME NEW d \in Clients, ReadEvent(fdOf'[d]) \in batch'[t]
            PROVE  FALSE
        <5>1. batch[t] \subseteq Events /\ ReadEvent(fdOf'[d]) \in batch[t]
          BY <1>1, <4>2 DEF Inv, ListInv, Types, TypeOK
        <5>2. PICK fd \in Fds : ReadEvent(fdOf'[d]) = ReadEvent(fd)
          BY <5>1, ServerOfKind DEF Events, AcceptEvent, ReadEvent
        <5>3. fdOf'[d] = fd
          BY <5>2 DEF ReadEvent
        <5> QED
          BY <3>4, <3>5, <5>1, <5>3
      <4>3. slots'["host"] # <<>>
        BY <2>1, <2>9, <3>2, KindOfClient
      <4> QED
        BY <2>1, <2>2, <3>5, <4>1, <4>2, <4>3 DEF Orphaned, AcceptEvent, ReadEvent, Open
    <3>6. ASSUME NEW t \in Servers, NEW j \in Kinds, AcceptEvent(j) \in batch'[t]
          PROVE  t = ServerOf(j) /\ backlog'[j] # <<>>
      BY <1>1, <2>3, <3>6 DEF EventsInv
    <3>7. ASSUME NEW t \in Servers, NEW fd \in Fds, ReadEvent(fd) \in batch'[t]
          PROVE  Orphaned(t)'
      BY <1>1, <1>2, <1>5, <3>5, <3>7, ServersAreTwo
    <3> QED
      BY <3>6, <3>7 DEF EventsInv, AcceptEvent, ReadEvent, Readable, ServerOf, Kind
  <2> QED
    BY <2>8, <2>9
<1> QED
  BY <1>1, <1>4, <1>5, ServersAreTwo

LEMMA ClientEvents ==
    ASSUME Inv, EventsInv, ClientStep
    PROVE  EventsInv'
<1>1. UNCHANGED <<isThreadRunning, pc, slots, fdOf, batch>>
  BY DEF ClientStep, Connect, Send, Close, Abort
<1>2. \A t \in Servers : Orphaned(t) => Orphaned(t)'
  BY <1>1, StillOrphaned DEF Inv, ListInv, Gone
<1>3. ASSUME NEW c \in Clients, Connect(c)
      PROVE  EventsInv'
  <2>1. ~Open(c)
    BY <1>3 DEF Connect, Inv, Queues
  <2>2. fdOf[c] \notin Fds
    BY <2>1, ConstantsAssumption DEF Open
  <2>3. \A d \in Clients : d # c => sock'[d] = sock[d]
    BY <1>3 DEF Connect, Inv, ListInv, Types, TypeOK
  <2>4. \A k \in Kinds : backlog[k] # <<>> => backlog'[k] # <<>>
    <3>1. backlog' = [backlog EXCEPT ![Kind(c)] = Append(backlog[Kind(c)], c)]
      BY <1>3 DEF Connect
    <3>2. backlog \in [Kinds -> Seq(Clients)] /\ Kind(c) \in Kinds
      BY KindOfClient DEF Inv, ListInv, Types, TypeOK
    <3>3. Append(backlog[Kind(c)], c) # <<>>
      BY <3>2
    <3> QED
      BY <3>1, <3>2, <3>3
  <2> QED
    BY <1>1, <1>2, <2>2, <2>3, <2>4, FewerOfEither DEF Readable
<1>4. ASSUME NEW c \in Clients, Send(c) \/ Close(c) \/ Abort(c)
      PROVE  EventsInv'
  <2>1. \A d \in Clients : d # c => sock'[d] = sock[d]
    BY <1>4 DEF Send, Close, Abort, Inv, ListInv, Types, TypeOK
  <2>2. Readable(c)'
    <3>1. sock[c].inq \in Nat
      BY DEF Inv, ListInv, Types, TypeOK
    <3>2. sock'[c].inq = sock[c].inq + 1 \/ sock'[c].peer # "connected"
      BY <1>4 DEF Send, Close, Abort, Inv, ListInv, Types, TypeOK
    <3> QED
      BY <3>1, <3>2 DEF Readable
  <2>3. backlog' = backlog
    BY <1>4 DEF Send, Close, Abort
  <2> QED
    BY <1>1, <1>2, <2>1, <2>2, <2>3, FewerOfEither DEF Readable
<1> QED
  BY <1>3, <1>4 DEF ClientStep

\* A step that handles no event and closes nothing.
LEMMA SameEvents ==
    ASSUME EventsInv, UNCHANGED <<slots, fdOf, backlog, sock, batch>>,
           \A s, t \in Servers : Orphaned(s) /\ batch[s] # {} /\ t = "concurrent" => Gone(t)'
    PROVE  EventsInv'
<1>1. \A s \in Servers : Orphaned(s) /\ batch[s] # {} => Orphaned(s)'
  BY DEF Orphaned, Open, AcceptEvent, ReadEvent
<1> QED
  BY <1>1 DEF EventsInv, Readable

LEMMA OwnerEvents ==
    ASSUME Inv, CallsInv, EventsInv, NEW s \in Servers,
           StartServer(s) \/ StopServer(s) \/ JoinServer(s)
    PROVE  EventsInv'
<1>1. UNCHANGED <<slots, fdOf, backlog, sock, batch>>
  BY DEF StartServer, StopServer, JoinServer, Start, Stop, Join, vars, netVars
<1>2. ASSUME NEW r \in Servers, NEW t \in Servers,
             Orphaned(r), batch[r] # {}, t = "concurrent"
      PROVE  Gone(t)'
  <2>1. r = "config" /\ Gone(t)
    BY <1>2 DEF Orphaned
  <2>2. CASE UNCHANGED <<isThreadRunning, pc>>
    BY <2>1, <2>2 DEF Gone
  <2>3. CASE StartServer(s) /\ Start(s)
    <3>1. Calls("start", s) /\ isThreadRunning' = [isThreadRunning EXCEPT ![s] = TRUE]
          /\ pc' = [pc EXCEPT ![s] = "starting"]
      BY <2>3 DEF StartServer, Start
    <3>2. s # t
      <4>1. SUFFICES ASSUME s = t
                     PROVE  FALSE
        OBVIOUS
      <4>2. isThreadRunning[r] = isThreadRunning[t]
        BY <1>2, <3>1, <4>1, WhichCall DEF CallsInv
      <4>3. ~Calls("join", r)
        BY <3>1 DEF Calls
      <4> QED
        BY <1>2, <2>1, <4>2, <4>3 DEF CallsInv, ThreadsInv, Gone
    <3> QED
      BY <2>1, <3>1, <3>2 DEF Gone, Inv, ListInv, Types, TypeOK
  <2>4. CASE Stop(s)
    BY <2>1, <2>4 DEF Stop, Gone, Inv, ListInv, Types, TypeOK
  <2>5. CASE Join(s)
    BY <2>1, <2>5 DEF Join, Gone, Inv, ListInv, Types, TypeOK
  <2> QED
    BY <2>2, <2>3, <2>4, <2>5 DEF StartServer, StopServer, JoinServer, vars
<1> QED
  BY <1>1, <1>2, SameEvents

LEMMA ThreadEvents ==
    ASSUME Inv, CallsInv, EventsInv, NEW s \in Servers, ServerThread(s)
    PROVE  EventsInv'
<1>1. CASE Begin(s) \/ CheckRunning(s) \/ LeaveLoop(s)
  <2>1. UNCHANGED <<isThreadRunning, slots, fdOf, backlog, sock, batch>>
    BY <1>1 DEF Begin, CheckRunning, LeaveLoop, netVars
  <2>2. ASSUME NEW t \in Servers, Gone(t)
        PROVE  Gone(t)'
    <3>1. pc[s] # pc[t]
      BY <1>1, <2>2, ServerOfKind DEF Begin, CheckRunning, LeaveLoop, Gone
    <3>2. pc'[t] = pc[t]
      BY <1>1, <3>1 DEF Begin, CheckRunning, LeaveLoop, Inv, ListInv, Types, TypeOK
    <3> QED
      BY <2>1, <2>2, <3>2 DEF Gone
  <2> QED
    BY <2>1, <2>2, SameEvents DEF Orphaned
<1>2. ASSUME NEW c \in Clients, ReadData(s, c) \/ ReadReset(s, c)
      PROVE  EventsInv'
  <2>1. Reads(s, c) /\ Handle(s, ReadEvent(fdOf[c])) /\ backlog' = backlog
    BY <1>2 DEF ReadData, ReadReset
  <2>2. \A d \in Clients : d # c => fdOf'[d] = fdOf[d] /\ sock'[d] = sock[d]
    BY <1>2 DEF ReadData, ReadReset, CloseConnection, Inv, ListInv, Types, TypeOK
  <2> QED
    BY <2>1, <2>2, ReadEvents
<1>3. ASSUME NEW c \in Clients,
             (ReadEnd(c) /\ s = "concurrent") \/ (HostReadEnd(c) /\ s = "config")
      PROVE  EventsInv'
  <2>1. ReadsEnd(s, c) /\ (CloseConnection(c) \/ UNCHANGED <<fdOf, sock>>)
    BY <1>3 DEF ReadEnd, HostReadEnd
  <2>2. Reads(s, c) /\ Handle(s, ReadEvent(fdOf[c])) /\ backlog' = backlog
    BY <2>1 DEF ReadsEnd
  <2>3. \A d \in Clients : d # c => fdOf'[d] = fdOf[d] /\ sock'[d] = sock[d]
    BY <2>1 DEF CloseConnection, Inv, ListInv, Types, TypeOK
  <2> QED
    BY <2>2, <2>3, ReadEvents
<1>4. ASSUME NEW k \in KindsOf(s), Accept(k) \/ AcceptFails(k)
      PROVE  EventsInv'
  BY <1>4, AcceptEvents, KindOfServer
<1>5. ASSUME NEW k \in KindsOf(s), CloseListed(k) \/ CloseListening(k)
      PROVE  EventsInv'
  BY <1>5, ClosingEvents, KindOfServer
<1>6. CASE Loop(s)
  BY <1>1, <1>2, <1>4, <1>5, <1>6, WaitEvents, ReadFailsEvents DEF Loop
<1>7. \/ Loop(s)
      \/ \E c \in Clients : (ReadEnd(c) /\ s = "concurrent") \/ (HostReadEnd(c) /\ s = "config")
  BY ServersAreTwo DEF ServerThread, ConcurrentThread, NoneConcurrentThread
<1> QED
  BY <1>3, <1>6, <1>7

LEMMA StepEvents ==
    ASSUME Inv, CallsInv, EventsInv, [NetworkNext]_networkVars
    PROVE  EventsInv'
<1>1. CASE UNCHANGED vars
  <2>1. UNCHANGED <<isThreadRunning, pc, slots, fdOf, backlog, sock, batch>>
    BY <1>1 DEF vars
  <2> QED
    BY <2>1, SameEvents DEF Orphaned, Gone
<1>2. ASSUME NEW s \in Servers,
             ServerThread(s) \/ StartServer(s) \/ StopServer(s) \/ JoinServer(s)
      PROVE  EventsInv'
  BY <1>2, ThreadEvents, OwnerEvents
<1> QED
  BY <1>1, <1>2, ClientEvents
     DEF NetworkNext, networkVars, Owner, Command, StarThread, StopThread, JoinListener,
         NetworkListenerThread, TestFlag, EnterWait, WaitTimesOut

-----------------------------------------------------------------------------
LEMMA NetworkInvHolds == NetworkSpec => []NetworkInv
<1>1. NetworkInit => NetworkInv
  <2>1. NetworkInit => Inv
    BY InitInv DEF NetworkInit
  <2>2. NetworkInit => EventsInv
    BY DEF NetworkInit, Init, EventsInv
  <2> QED
    BY <2>1, <2>2, InitCalls DEF NetworkInv
<1>2. NetworkInv /\ [NetworkNext]_networkVars => NetworkInv'
  <2> SUFFICES ASSUME NetworkInv, [NetworkNext]_networkVars
               PROVE  NetworkInv'
    OBVIOUS
  <2>1. [Next]_vars
    BY NetworkSteps
  <2>2. Inv'
    BY <2>1, StepInv DEF NetworkInv
  <2>3. CallsInv' /\ EventsInv'
    BY StepCalls, StepEvents DEF NetworkInv, Inv, ListInv
  <2> QED
    BY <2>2, <2>3 DEF NetworkInv
<1> QED
  BY <1>1, <1>2, PTL DEF NetworkSpec

(***************************************************************************)
(* Network uses its servers as they may be used: whatever the console and  *)
(* the clients do, each step is one of TcpServerSocket or leaves it alone, *)
(* and what is proved of every use of the servers holds of this one.       *)
(***************************************************************************)
THEOREM NetworkUsesServers == NetworkSpec => Spec
<1>1. NetworkInit => Init
  BY DEF NetworkInit
<1>2. [NetworkNext]_networkVars => [Next]_vars
  BY NetworkSteps
<1> QED
  BY <1>1, <1>2, PTL DEF NetworkSpec, Spec

(***************************************************************************)
(* When StopNetworkServer has returned both threads are joined, the thread *)
(* of Network too, and no connection of either server is left, for any     *)
(* clients, maximums and descriptors: Start may be called again.           *)
(***************************************************************************)
THEOREM StoppedNetworkIsQuiet == NetworkSpec => []QuietWhenStopped
<1>1. NetworkInv => QuietWhenStopped
  BY InvQuiet DEF NetworkInv
<1> QED
  BY <1>1, NetworkInvHolds, PTL

(***************************************************************************)
(* Neither thread ever calls accept or read when there is nothing for it,  *)
(* on sockets in blocking mode, although a thread that ends closes every   *)
(* descriptor in its lists, and one of them may be the other server's by   *)
(* now.  Without the order of StopNetworkServer and the limit of one host  *)
(* it would not hold.                                                      *)
(***************************************************************************)
THEOREM NetworkNeverWaits == NetworkSpec => []CallsDoNotWait
<1>1. NetworkInv => CallsDoNotWait
  <2> SUFFICES ASSUME NetworkInv, NEW s \in Servers, NEW e \in batch[s]
               PROVE  /\ \A k \in Kinds : e = AcceptEvent(k) => backlog[k] # <<>>
                      /\ \A c \in Clients : Open(c) /\ e = ReadEvent(fdOf[c]) => Readable(c)
    BY DEF CallsDoNotWait
  <2>1. ASSUME NEW c \in Clients, Open(c), e = ReadEvent(fdOf[c])
        PROVE  Readable(c)
    <3>1. fdOf[c] \in Fds /\ ~Orphaned(s)
      BY <2>1 DEF NetworkInv, Inv, ListInv, Types, TypeOK, Open, Orphaned
    <3>2. PICK d \in Clients : fdOf[d] = fdOf[c] /\ Readable(d)
      BY <2>1, <3>1 DEF NetworkInv, EventsInv
    <3> QED
      BY <2>1, <3>2 DEF NetworkInv, Inv, ListInv, FdsAreDistinct
  <2> QED
    BY <2>1 DEF NetworkInv, EventsInv
<1> QED
  BY <1>1, NetworkInvHolds, PTL
=============================================================================
