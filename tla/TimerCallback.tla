----------------------------- MODULE TimerCallback ----------------------------
(***************************************************************************)
(* OSAL/include/timeout.h, TimerCallback: Start disarms the previous timer *)
(* through the pointer it kept and detaches a thread that sleeps, runs the *)
(* task if its flag is still set, deletes the flag and counts itself off.  *)
(*                                                                         *)
(* One thread owns the object and calls Start and Stop.  A flag stands for *)
(* the atomic<bool> of one Start and for the thread that owns it.  Stop    *)
(* may write through lastEnable after the thread has deleted the flag: the *)
(* write changes memory that is no longer a flag, and nothing here.        *)
(***************************************************************************)
EXTENDS Naturals

CONSTANT MaxTimers  \* bound: calls of Start

ASSUME TimerAssumption == MaxTimers \in Nat \ {0}

Flags == 1 .. MaxTimers

VARIABLES
    owner,       \* idle, in Stop for a caller, or about to arm
    lastEnable,  \* a flag, or 0 for NULL
    nThread,
    enable,      \* flag -> armed, disarmed, or gone: not yet made or deleted
    timer,       \* flag -> where its thread is
    stopped      \* history: a Stop has returned since the last Start

timerVars == <<owner, lastEnable, nThread, enable, timer, stopped>>

TimerInit ==
    /\ owner = "idle"
    /\ lastEnable = 0
    /\ nThread = 0
    /\ enable = [f \in Flags |-> "gone"]
    /\ timer = [f \in Flags |-> "none"]
    /\ stopped = FALSE

StopReturns(caller) ==
    /\ owner' = IF caller = "Start" THEN "arm" ELSE "idle"
    /\ stopped' = TRUE

\* Start, which begins with Stop(), or Stop itself: the test at 182.
Call(caller) ==
    /\ owner = "idle"
    /\ caller = "Start" => lastEnable < MaxTimers
    /\ IF lastEnable # 0 /\ nThread > 0
       THEN owner' = caller /\ UNCHANGED stopped
       ELSE StopReturns(caller)
    /\ UNCHANGED <<lastEnable, nThread, enable, timer>>

\* The write at 183.
Disarm ==
    /\ owner \in {"Start", "Stop"}
    /\ StopReturns(owner)
    /\ enable' = [enable EXCEPT ![lastEnable] = IF @ = "gone" THEN @ ELSE "disarmed"]
    /\ UNCHANGED <<lastEnable, nThread, timer>>

\* Start from 168: no other thread sees the steps up to the new one.
Arm ==
    /\ owner = "arm"
    /\ owner' = "idle"
    /\ lastEnable' = lastEnable + 1
    /\ nThread' = nThread + 1
    /\ enable' = [enable EXCEPT ![lastEnable'] = "armed"]
    /\ timer' = [timer EXCEPT ![lastEnable'] = "sleep"]
    /\ stopped' = FALSE

\* Fault: the thread counts itself off as soon as it wakes up.
AfterCountsFirst == [sleep |-> "count", count |-> "read", task |-> "delete",
                     delete |-> "ended"]

\* The order of the statements of a thread.
After == [sleep |-> "read", task |-> "delete", delete |-> "count",
          count |-> "ended"]

Sleep(f) ==
    /\ timer[f] = "sleep"
    /\ timer' = [timer EXCEPT ![f] = After[@]]
    /\ UNCHANGED <<owner, lastEnable, nThread, enable, stopped>>

ReadFlag(f) ==
    /\ timer[f] = "read"
    /\ timer' = [timer EXCEPT ![f] = IF enable[f] = "armed" THEN "task" ELSE "delete"]
    /\ UNCHANGED <<owner, lastEnable, nThread, enable, stopped>>

RunTask(f) ==
    /\ timer[f] = "task"
    /\ timer' = [timer EXCEPT ![f] = After[@]]
    /\ UNCHANGED <<owner, lastEnable, nThread, enable, stopped>>

DeleteFlag(f) ==
    /\ timer[f] = "delete"
    /\ timer' = [timer EXCEPT ![f] = After[@]]
    /\ enable' = [enable EXCEPT ![f] = "gone"]
    /\ UNCHANGED <<owner, lastEnable, nThread, stopped>>

CountOff(f) ==
    /\ timer[f] = "count"
    /\ timer' = [timer EXCEPT ![f] = After[@]]
    /\ nThread' = nThread - 1
    /\ UNCHANGED <<owner, lastEnable, enable, stopped>>

TimerNext ==
    \/ Call("Start") \/ Call("Stop") \/ Disarm \/ Arm
    \/ \E f \in Flags :
        Sleep(f) \/ ReadFlag(f) \/ RunTask(f) \/ DeleteFlag(f) \/ CountOff(f)

-----------------------------------------------------------------------------
(***************************************************************************)
(* Once a Stop has returned, also the one at the beginning of Start, no    *)
(* thread reads its flag and goes on to its task, until the next Start,    *)
(* whose timer alone may.  A thread that read the flag before may still be *)
(* running its task.  Stop skips its write when it reads nThread = 0 while *)
(* another thread counts itself off: that is safe only because a thread is *)
(* counted from before its flag is published until after it is deleted.    *)
(* (timeout.h:165 "disable previous timer if exist", 175 - 177, 182)       *)
(***************************************************************************)
StoppedStaysSilent ==
    [][\A f \in Flags :
          timer[f] = "read" /\ timer'[f] = "task"
              => f = lastEnable /\ ~stopped]_timerVars
=============================================================================
