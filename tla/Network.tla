------------------------------- MODULE Network -------------------------------
(***************************************************************************)
(* Network, the owner of the two older servers, and the console that       *)
(* starts and stops it.  StartNetworkServer and StopNetworkServer are the  *)
(* sequences of calls below; a stop joins its thread before the next call. *)
(* Network has a thread of its own, NetworkListenerThread, which waits on  *)
(* a condition variable; StopThread changes the flag it tests and notifies *)
(* without the mutex.                                                      *)
(***************************************************************************)
EXTENDS TcpServerSocket

VARIABLES
    calls,            \* what the console's thread has still to do
    listenerRunning,  \* Network::isThreadRunning
    listener          \* where NetworkListenerThread is

networkVars == <<vars, calls, listenerRunning, listener>>
ownVars == <<calls, listenerRunning, listener>>

\* Network::Start, then StarThread.
StartNetworkServer ==
    << <<"start", "concurrent">>, <<"start", "config">>, <<"start", "listener">> >>

\* Fault: Stop goes through the servers in the other order.
StopNetworkServerConfigFirst ==
    << <<"stop", "listener">>, <<"stop", "config">>, <<"stop", "concurrent">> >>

\* StopThread, then Network::Stop.
StopNetworkServer ==
    << <<"stop", "listener">>, <<"stop", "concurrent">>, <<"stop", "config">> >>

NetworkInit ==
    /\ Init
    /\ calls = <<>>
    /\ listenerRunning = FALSE
    /\ listener = "none"

\* The commands 3 and 4 of the console.
Command ==
    /\ calls = <<>>
    /\ calls' \in {StartNetworkServer, StopNetworkServer}
    /\ UNCHANGED <<vars, listenerRunning, listener>>

Calls(op, x) == calls # <<>> /\ Head(calls) = <<op, x>>
Returns == calls' = Tail(calls)
GoesOnToJoin(x) == calls' = << <<"join", x>> >> \o Tail(calls)

\* TcpServerSocket::Start, a second one too.
StartServer(s) ==
    /\ Calls("start", s)
    /\ Start(s) \/ (isThreadRunning[s] /\ UNCHANGED vars)
    /\ Returns
    /\ UNCHANGED <<listenerRunning, listener>>

\* TcpServerSocket::Stop, of a server that was not started too.
StopServer(s) ==
    /\ Calls("stop", s)
    /\ \/ Stop(s) /\ GoesOnToJoin(s)
       \/ ~isThreadRunning[s] /\ Returns /\ UNCHANGED vars
    /\ UNCHANGED <<listenerRunning, listener>>

JoinServer(s) ==
    /\ Calls("join", s)
    /\ Join(s)
    /\ Returns
    /\ UNCHANGED <<listenerRunning, listener>>

StarThread ==
    /\ Calls("start", "listener")
    /\ listenerRunning' = TRUE
    /\ listener' = IF listenerRunning THEN listener ELSE "test"
    /\ Returns
    /\ UNCHANGED vars

\* StopThread up to its join.  A notification reaches a waiting thread only.
StopThread ==
    /\ Calls("stop", "listener")
    /\ listenerRunning' = FALSE
    /\ listener' = IF listenerRunning /\ listener = "waiting" THEN "test" ELSE listener
    /\ IF listenerRunning THEN GoesOnToJoin("listener") ELSE Returns
    /\ UNCHANGED vars

\* Fault: the thread is detached instead.
JoinListenerAtOnce ==
    /\ Calls("join", "listener")
    /\ listener' = IF listener = "ended" THEN "none" ELSE listener
    /\ Returns
    /\ UNCHANGED <<vars, listenerRunning>>

JoinListener ==
    /\ Calls("join", "listener")
    /\ listener = "ended"
    /\ listener' = "none"
    /\ Returns
    /\ UNCHANGED <<vars, listenerRunning>>

Owner ==
    \/ \E s \in Servers : StartServer(s) \/ StopServer(s) \/ JoinServer(s)
    \/ StarThread
    \/ StopThread
    \/ JoinListener

\* while (isThreadRunning)
TestFlag ==
    /\ listener = "test"
    /\ listener' = IF listenerRunning THEN "enter" ELSE "ended"
    /\ UNCHANGED <<vars, calls, listenerRunning>>

\* From the test to the wait: a notification in between is lost.
EnterWait ==
    /\ listener = "enter"
    /\ listener' = "waiting"
    /\ UNCHANGED <<vars, calls, listenerRunning>>

\* Fault: wait without a time limit.
WaitForNotification == FALSE /\ UNCHANGED networkVars

\* wait_for returns after five seconds, or without a reason before.
WaitTimesOut ==
    /\ listener = "waiting"
    /\ listener' = "test"
    /\ UNCHANGED <<vars, calls, listenerRunning>>

NetworkListenerThread == TestFlag \/ EnterWait \/ WaitTimesOut

NetworkNext ==
    \/ Command
    \/ Owner
    \/ NetworkListenerThread
    \/ (\E s \in Servers : ServerThread(s)) /\ UNCHANGED ownVars
    \/ ClientStep /\ UNCHANGED ownVars

(***************************************************************************)
(* Every thread that can run does: no thread of the process has a priority *)
(* that could starve another.  The console and the clients may stop.       *)
(***************************************************************************)
NetworkSpec ==
    /\ NetworkInit /\ [][NetworkNext]_networkVars
    /\ WF_networkVars(Owner)
    /\ WF_networkVars(NetworkListenerThread)
    /\ \A s \in Servers : WF_networkVars(ServerThread(s) /\ UNCHANGED ownVars)

-----------------------------------------------------------------------------
(***************************************************************************)
(* Properties.                                                             *)
(*                                                                         *)
(* CallsDoNotWait of TcpServerSocket is checked here as well, with two     *)
(* servers in one process.  A thread that ends closes every descriptor in  *)
(* its lists, and one that a reset left there may be the other server's by *)
(* now; if that one goes on accepting, the number comes back while an      *)
(* event of its former owner waits in the batch.  It holds because the     *)
(* server that has room for a second connection is the first to stop.      *)
(***************************************************************************)

(***************************************************************************)
(* StartNetworkServer and StopNetworkServer return, whatever the clients   *)
(* do or leave undone, although the notification of StopThread may be lost *)
(* and each thread may be in the middle of a batch of events.              *)
(***************************************************************************)
CommandsReturn == []<>(calls = <<>>)

(***************************************************************************)
(* After StopNetworkServer has returned no thread is left and no           *)
(* connection is open, so that the next StartNetworkServer, which assigns  *)
(* to the same std::thread members, finds them joined.                     *)
(***************************************************************************)
QuietWhenStopped ==
    calls = <<>> /\ ~listenerRunning =>
        /\ listener = "none"
        /\ \A s \in Servers : pc[s] = "idle"
        /\ \A c \in Clients : ~Open(c)
=============================================================================
