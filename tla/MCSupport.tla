------------------------------ MODULE MCSupport -------------------------------
(***************************************************************************)
(* What the network code rests on: the buffer of a connection, and the     *)
(* libraries OSAL, Logging and Tools.  They share no state, so each        *)
(* behaviour is one of one of them and leaves the others alone.            *)
(***************************************************************************)
EXTENDS Buffer, Timeout, TimerCallback, Realtime, Logging, Bmp

VARIABLE part  \* the library that runs

vars == <<part, bufferVars, timeoutVars, timerVars, realtimeVars, loggingVars, bmpVars>>

Init ==
    /\ part \in {"buffer", "timeout", "timer", "realtime", "logging", "bmp"}
    /\ BufferInit /\ TimeoutInit /\ TimerInit /\ RealtimeInit /\ LoggingInit /\ BmpInit

Next ==
    /\ UNCHANGED part
    /\ \/ /\ part = "buffer" /\ BufferNext
          /\ UNCHANGED <<timeoutVars, timerVars, realtimeVars, loggingVars, bmpVars>>
       \/ /\ part = "timeout" /\ TimeoutNext
          /\ UNCHANGED <<bufferVars, timerVars, realtimeVars, loggingVars, bmpVars>>
       \/ /\ part = "timer" /\ TimerNext
          /\ UNCHANGED <<bufferVars, timeoutVars, realtimeVars, loggingVars, bmpVars>>
       \/ /\ part = "realtime" /\ RealtimeNext
          /\ UNCHANGED <<bufferVars, timeoutVars, timerVars, loggingVars, bmpVars>>
       \/ /\ part = "logging" /\ LoggingNext
          /\ UNCHANGED <<bufferVars, timeoutVars, timerVars, realtimeVars, bmpVars>>
       \/ /\ part = "bmp" /\ BmpNext
          /\ UNCHANGED <<bufferVars, timeoutVars, timerVars, realtimeVars, loggingVars>>

\* RealtimeFairness with the fairness of a step that leaves the rest alone.
Spec == Init /\ [][Next]_vars /\ RealtimeFairness

MCBytes == {0, 1}

\* Pieces of at most three bytes.
MCData == BoundedSeq(MCBytes, 3)

\* A letter in both cases.
MCLetters == {"a", "A"}
MCLower == [letter \in MCLetters |-> "a"]

MCWidths == {1, 3, 4, 7, 8, 9, 12, 31, 32, 33, 40, 64}
=============================================================================
