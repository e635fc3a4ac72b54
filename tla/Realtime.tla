------------------------------- MODULE Realtime -------------------------------
(***************************************************************************)
(* OSAL/src/realtime.cpp: set_sched_fifo asks the kernel for a priority    *)
(* and, refused with EPERM, raises the soft limit RLIMIT_RTPRIO of the     *)
(* process to it and tries again.                                          *)
(*                                                                         *)
(* A limit of PolicyMax stands for RLIM_INFINITY too, which the code reads *)
(* as the maximum of the policy.  The kernel may refuse with EPERM because *)
(* of the limit or for reasons of its own (a control group without         *)
(* real-time run time), now or every time.                                 *)
(***************************************************************************)
EXTENDS Naturals

CONSTANT PolicyMax  \* sched_get_priority_max(SCHED_FIFO)

ASSUME RealtimeAssumption == PolicyMax \in Nat \ {0}

Limits == 0 .. PolicyMax
Priorities == 0 .. PolicyMax + 1

VARIABLES
    limit,  \* [soft, hard]: RLIMIT_RTPRIO
    sched   \* [pc, prio]: the call under way, or returned

realtimeVars == <<limit, sched>>

RealtimeInit ==
    /\ limit = [soft |-> 0, hard |-> PolicyMax]
    /\ sched = [pc |-> "returned", prio |-> 0]

\* Somebody sets the limits of the process between two calls.
SetLimits(soft, hard) ==
    /\ sched.pc = "returned"
    /\ soft <= hard
    /\ limit' = [soft |-> soft, hard |-> hard]
    /\ UNCHANGED sched

set_sched_fifo(prio) ==
    /\ sched.pc = "returned"
    /\ sched' = [pc |-> "try", prio |-> prio]
    /\ UNCHANGED limit

\* sched_setscheduler: no error (a privileged process is not held to the
\* limit), or one that is not EPERM.
Answered ==
    /\ sched.pc = "try"
    /\ sched' = [sched EXCEPT !.pc = "returned"]
    /\ UNCHANGED limit

Refused ==
    /\ sched.pc = "try"
    /\ sched.prio \in 1 .. PolicyMax
    /\ sched' = [sched EXCEPT !.pc = "raise"]
    /\ UNCHANGED limit

\* Fault: no look at the soft limit.
MayRaiseToAny(prio) == prio <= limit.hard

MayRaise(prio) == prio > limit.soft /\ prio <= limit.hard

\* raise_soft_prio; setrlimit, like the calls before it, may fail.
raise_soft_prio ==
    /\ sched.pc = "raise"
    /\ \/ /\ MayRaise(sched.prio)
          /\ limit' = [limit EXCEPT !.soft = sched.prio]
          /\ sched' = [sched EXCEPT !.pc = "try"]
       \/ /\ sched' = [sched EXCEPT !.pc = "returned"]
          /\ UNCHANGED limit

RealtimeNext ==
    \/ \E soft, hard \in Limits : SetLimits(soft, hard)
    \/ \E prio \in Priorities : set_sched_fifo(prio)
    \/ Answered \/ Refused \/ raise_soft_prio

-----------------------------------------------------------------------------
\* The calling thread and the kernel go on.
RealtimeFairness == WF_realtimeVars(Answered \/ Refused \/ raise_soft_prio)

(***************************************************************************)
(* set_sched_fifo returns, whatever the kernel answers: the loop back to   *)
(* try_again ends because a limit that was raised once is not raised       *)
(* again.  (setscheduler, realtime.cpp:79 - 89, with raise_soft_prio)      *)
(***************************************************************************)
SchedulerReturns == sched.pc # "returned" ~> sched.pc = "returned"
=============================================================================
