------------------------------ MODULE EventLoop ------------------------------
(***************************************************************************)
(* The reactor of Network/src/EventLoop.cpp: one thread that polls, calls  *)
(* the handlers of the channels that are ready and then runs the functors  *)
(* that any thread queued, and the threads that queue functors and ask the *)
(* loop to quit.                                                           *)
(*                                                                         *)
(* threadId_ is the thread that CONSTRUCTED the loop (a static object, so  *)
(* the main thread), while loop() starts loopthread() on a new thread.     *)
(* isInLoopThread() therefore answers TRUE to the constructing thread,     *)
(* Owner, and FALSE to the thread that really polls, LoopThread.           *)
(*                                                                         *)
(* quit_ and callingPendingFunctors_ are plain booleans that the threads   *)
(* read and write without the mutex.  The build compiles every access to a *)
(* single load or store, so each is an atomic step here and the order of   *)
(* the steps of two threads is arbitrary.                                  *)
(*                                                                         *)
(* A definition whose comment begins with "Fault" is not part of the       *)
(* specification: it is a plausible mistake in the definition after it,    *)
(* kept to show that the properties below notice it.                       *)
(***************************************************************************)
EXTENDS Naturals, Sequences

CONSTANTS
    Threads,     \* every thread that touches the loop
    Owner,       \* threadId_: the thread that constructed the loop
    LoopThread,  \* the thread loop() starts; it executes loopthread()
    Functors,    \* the functors handed to the loop, each handed over once
    Channels,    \* the channels other than the wakeup channel
    Wakeup       \* wakeupChannel_, the channel of the eventfd

ASSUME ThreadsAssumption ==
    /\ Owner \in Threads
    /\ LoopThread \in Threads
    /\ Owner # LoopThread

ASSUME ChannelsAssumption == Wakeup \notin Channels

VARIABLES
    pc,          \* where loopthread() is
    quitters,    \* the threads that wrote quit_ since it was last cleared
    calling,     \* callingPendingFunctors_
    wakeups,     \* the counter of the eventfd wakeupFd_
    ready,       \* the channels whose descriptor is readable
    active,      \* activeChannels_ still to be handled
    pending,     \* pendingFunctors_
    functors,    \* the local vector of doPendingFunctors, still to be run
    caller,      \* where each thread is in queueInLoop or quitLoop
    submitted,   \* history: the functors handed over so far
    ran          \* history: the executions so far, each with its thread

vars == <<pc, quitters, calling, wakeups, ready, active, pending, functors,
          caller, submitted, ran>>

\* What the other threads share with the loop's thread.
callerVars == <<caller, submitted, pending, quitters>>

Entry == [task : Functors, by : Threads]
Execution == [task : Functors, on : Threads]

\* loopthread() has been started and has cleared quit_.
Running == pc \notin {"idle", "spawned"}

\* The loop's thread is inside a handler or a functor.
InCallback == pc \in {"handler", "functor"}

TypeOK ==
    /\ pc \in {"idle", "spawned", "check", "poll", "events", "handler",
               "swap", "run", "functor", "stopped"}
    /\ quitters \subseteq Threads
    /\ calling \in BOOLEAN
    /\ wakeups \in Nat
    /\ ready \subseteq Channels
    /\ active \subseteq Channels \cup {Wakeup}
    /\ pending \in Seq(Entry)
    /\ functors \in Seq(Entry)
    /\ caller \in [Threads -> {"idle", "queued", "quitting"}]
    /\ submitted \subseteq Functors
    /\ ran \in Seq(Execution)

Init ==
    /\ pc = "idle"
    /\ quitters = {}
    /\ calling = FALSE
    /\ wakeups = 0
    /\ ready = {}
    /\ active = {}
    /\ pending = <<>>
    /\ functors = <<>>
    /\ caller = [t \in Threads |-> "idle"]
    /\ submitted = {}
    /\ ran = <<>>

-----------------------------------------------------------------------------
(***************************************************************************)
(* The threads that use the loop.                                          *)
(***************************************************************************)

\* EventLoop::isInLoopThread, evaluated by thread t.
isInLoopThread(t) == t = Owner

\* t may make a call: the loop's own thread only from a handler or functor.
MayCall(t) ==
    /\ caller[t] = "idle"
    /\ t = LoopThread => InCallback

\* Fault: the functor joins the vector that is being run.
queueInLoopJoinsTurn(t, f) ==
    /\ MayCall(t)
    /\ f \notin submitted
    /\ IF calling
         THEN functors' = Append(functors, [task |-> f, by |-> t]) /\ UNCHANGED pending
         ELSE pending' = Append(pending, [task |-> f, by |-> t]) /\ UNCHANGED functors
    /\ submitted' = submitted \cup {f}
    /\ caller' = [caller EXCEPT ![t] = "queued"]
    /\ UNCHANGED <<pc, quitters, calling, wakeups, ready, active, ran>>

\* The locked half of queueInLoop: the functor joins pendingFunctors_.
queueInLoop(t, f) ==
    /\ MayCall(t)
    /\ f \notin submitted
    /\ pending' = Append(pending, [task |-> f, by |-> t])
    /\ submitted' = submitted \cup {f}
    /\ caller' = [caller EXCEPT ![t] = "queued"]
    /\ UNCHANGED <<pc, quitters, calling, wakeups, ready, active, functors, ran>>

\* runInLoop on the thread the loop takes for its own: the functor is called
\* at once, whatever the polling thread is doing.  On any other thread
\* runInLoop is queueInLoop.
runInLoop(t, f) ==
    /\ MayCall(t)
    /\ isInLoopThread(t)
    /\ f \notin submitted
    /\ submitted' = submitted \cup {f}
    /\ ran' = Append(ran, [task |-> f, on |-> t])
    /\ UNCHANGED <<pc, quitters, calling, wakeups, ready, active, pending,
                   functors, caller>>

\* quitLoop up to the store to quit_.
quitLoop(t) ==
    /\ MayCall(t)
    /\ t \notin quitters
    /\ quitters' = quitters \cup {t}
    /\ caller' = [caller EXCEPT ![t] = "quitting"]
    /\ UNCHANGED <<pc, calling, wakeups, ready, active, pending, functors,
                   submitted, ran>>

\* Fault: the test "am I the loop's thread" is left out.
NeedsWakeupWhileCalling(t) == caller[t] = "queued" /\ calling

\* Whether the call t is in the middle of ends with a write to the eventfd.
NeedsWakeup(t) ==
    \/ ~isInLoopThread(t)
    \/ caller[t] = "queued" /\ calling

\* The end of queueInLoop and quitLoop: test, wakeup(), return.
wakeup(t) ==
    /\ caller[t] # "idle"
    /\ wakeups' = IF NeedsWakeup(t) THEN wakeups + 1 ELSE wakeups
    /\ caller' = [caller EXCEPT ![t] = "idle"]
    /\ UNCHANGED <<pc, quitters, calling, ready, active, pending, functors,
                   submitted, ran>>

\* loop(): the owner starts the polling thread.
loop ==
    /\ pc = "idle"
    /\ caller[Owner] = "idle"
    /\ pc' = "spawned"
    /\ UNCHANGED <<quitters, calling, wakeups, ready, active, pending, functors,
                   caller, submitted, ran>>

\* Data arrives on a channel.
Arrive(ch) ==
    /\ ch \notin ready
    /\ ready' = ready \cup {ch}
    /\ UNCHANGED <<pc, quitters, calling, wakeups, active, pending, functors,
                   caller, submitted, ran>>

-----------------------------------------------------------------------------
(***************************************************************************)
(* The polling thread.                                                     *)
(***************************************************************************)

\* loopthread() begins: quit_ = false, whatever was asked before.
Begin ==
    /\ pc = "spawned"
    /\ quitters' = {}
    /\ pc' = "check"
    /\ UNCHANGED <<calling, wakeups, ready, active, pending, functors, caller,
                   submitted, ran>>

\* while (!quit_): leave, or clear activeChannels_ and poll.
CheckQuit ==
    /\ pc = "check"
    /\ pc' = IF quitters = {} THEN "poll" ELSE "stopped"
    /\ active' = IF quitters = {} THEN {} ELSE active
    /\ UNCHANGED <<quitters, calling, wakeups, ready, pending, functors, caller,
                   submitted, ran>>

\* The descriptors epoll_wait would report now.
Readable == ready \cup (IF wakeups > 0 THEN {Wakeup} ELSE {})

\* Fault: entries of events_ beyond numEvents, left by earlier polls, are
\* taken for events of this one.
PollReturnsStale ==
    /\ pc = "poll"
    /\ Readable # {}
    /\ active' \in {chs \in SUBSET (Channels \cup {Wakeup}) : chs # {}}
    /\ pc' = "events"
    /\ UNCHANGED <<quitters, calling, wakeups, ready, pending, functors, caller,
                   submitted, ran>>

\* epoll_wait reports some of what is readable (at most events_.size()).
PollReturns ==
    /\ pc = "poll"
    /\ \E chs \in SUBSET Readable :
          /\ chs # {}
          /\ active' = chs
    /\ pc' = "events"
    /\ UNCHANGED <<quitters, calling, wakeups, ready, pending, functors, caller,
                   submitted, ran>>

\* Fault: a poll that reports nothing is retried without finishing the turn.
PollTimeoutRetries ==
    /\ pc = "poll"
    /\ UNCHANGED vars

\* epoll_wait ends with nothing: kPollTimeMs have passed, or a signal.
PollTimeout ==
    /\ pc = "poll"
    /\ active' = {}
    /\ pc' = "events"
    /\ UNCHANGED <<quitters, calling, wakeups, ready, pending, functors, caller,
                   submitted, ran>>

\* handleEvent of the wakeup channel: handleRead empties the eventfd.
handleRead ==
    /\ pc = "events"
    /\ Wakeup \in active
    /\ active' = active \ {Wakeup}
    /\ wakeups' = 0
    /\ UNCHANGED <<pc, quitters, calling, ready, pending, functors, caller,
                   submitted, ran>>

\* handleEvent of another channel; its callback need not read everything.
HandleEvent(ch) ==
    /\ pc = "events"
    /\ ch \in active
    /\ active' = active \ {ch}
    /\ ready' \in {ready, ready \ {ch}}
    /\ pc' = "handler"
    /\ UNCHANGED <<quitters, calling, wakeups, pending, functors, caller,
                   submitted, ran>>

\* doPendingFunctors: callingPendingFunctors_ is set before the lock.
BeginPendingFunctors ==
    /\ pc = "events"
    /\ active = {}
    /\ calling' = TRUE
    /\ pc' = "swap"
    /\ UNCHANGED <<quitters, wakeups, ready, active, pending, functors, caller,
                   submitted, ran>>

\* Fault: the queue is copied and not emptied.
SwapByCopy ==
    /\ pc = "swap"
    /\ functors' = pending
    /\ pc' = "run"
    /\ UNCHANGED <<quitters, calling, wakeups, ready, active, pending, caller,
                   submitted, ran>>

\* The swap under the lock.
Swap ==
    /\ pc = "swap"
    /\ functors' = pending
    /\ pending' = <<>>
    /\ pc' = "run"
    /\ UNCHANGED <<quitters, calling, wakeups, ready, active, caller, submitted,
                   ran>>

\* functors[i]() begins.
RunFunctor ==
    /\ pc = "run"
    /\ functors # <<>>
    /\ ran' = Append(ran, [task |-> Head(functors).task, on |-> LoopThread])
    /\ functors' = Tail(functors)
    /\ pc' = "functor"
    /\ UNCHANGED <<quitters, calling, wakeups, ready, active, pending, caller,
                   submitted>>

\* A handler or a functor returns.
Return ==
    /\ InCallback
    /\ caller[LoopThread] = "idle"
    /\ pc' = IF pc = "handler" THEN "events" ELSE "run"
    /\ UNCHANGED <<quitters, calling, wakeups, ready, active, pending, functors,
                   caller, submitted, ran>>

\* Fault: pendingFunctors_ is cleared, as if the turn had run all of it.
EndPendingFunctorsClears ==
    /\ pc = "run"
    /\ functors = <<>>
    /\ calling' = FALSE
    /\ pending' = <<>>
    /\ pc' = "check"
    /\ UNCHANGED <<quitters, wakeups, ready, active, functors, caller, submitted, ran>>

\* The end of doPendingFunctors and of the turn.
EndPendingFunctors ==
    /\ pc = "run"
    /\ functors = <<>>
    /\ calling' = FALSE
    /\ pc' = "check"
    /\ UNCHANGED <<quitters, wakeups, ready, active, pending, functors, caller,
                   submitted, ran>>

\* The turn of the loop, without the two ways out of epoll_wait.
Turn ==
    \/ Begin
    \/ CheckQuit
    \/ handleRead
    \/ \E ch \in Channels : HandleEvent(ch)
    \/ BeginPendingFunctors
    \/ Swap
    \/ RunFunctor
    \/ Return
    \/ EndPendingFunctors

Callers ==
    \/ \E t \in Threads, f \in Functors : queueInLoop(t, f) \/ runInLoop(t, f)
    \/ \E t \in Threads : quitLoop(t) \/ wakeup(t)
    \/ loop

\* The loop has ended and nobody is left inside a call.
Finished ==
    /\ pc = "stopped"
    /\ \A t \in Threads : caller[t] = "idle"
    /\ UNCHANGED vars

Next ==
    \/ Turn
    \/ PollReturns
    \/ PollTimeout
    \/ Callers
    \/ \E ch \in Channels : Arrive(ch)
    \/ Finished

Spec == Init /\ [][Next]_vars

(***************************************************************************)
(* The operating system schedules both the polling thread and a thread     *)
(* that is in the middle of queueInLoop or quitLoop; handlers and functors *)
(* return.  Nothing is said of PollTimeout: epoll_wait may sleep for as    *)
(* long as nothing is readable.                                            *)
(***************************************************************************)
Fairness ==
    /\ WF_vars(Turn)
    /\ WF_vars(PollReturns)
    /\ \A t \in Threads : WF_vars(wakeup(t))

FairSpec == Spec /\ Fairness

\* epoll_wait does not sleep for longer than kPollTimeMs.
PollTimesOut == WF_vars(PollTimeout)

-----------------------------------------------------------------------------
(***************************************************************************)
(* Properties.                                                             *)
(***************************************************************************)

Foreign == Threads \ {Owner}

\* Some functor in the queue was put there by a thread other than the owner.
ForeignPending == \E i \in DOMAIN pending : pending[i].by # Owner

\* The eventfd is readable, or a thread is about to make it so.
WakeupComing(where) ==
    \/ wakeups > 0
    \/ \E t \in Foreign : caller[t] = where

(***************************************************************************)
(* No lost wakeup: the loop never sleeps in epoll_wait over a functor that *)
(* a thread other than the owner queued, unless the eventfd is readable or *)
(* that thread is on its way to write it.  The store to pendingFunctors_,  *)
(* the write to the eventfd, the read that empties it and the swap happen  *)
(* in four different steps of two threads.                                 *)
(***************************************************************************)
NoLostWakeup == pc = "poll" /\ ForeignPending => WakeupComing("queued")

(***************************************************************************)
(* The same of quitLoop: the loop never sleeps over a request to quit that *)
(* came from a thread other than the owner.                                *)
(***************************************************************************)
NoLostQuit ==
    pc = "poll" /\ quitters \cap Foreign # {} => WakeupComing("quitting")

(***************************************************************************)
(* handleRead never finds the non-blocking eventfd empty: the error        *)
(* branch of EventLoop.cpp lines 198 to 201 is not taken, although the     *)
(* counter is written between poll and handler by any thread.              *)
(***************************************************************************)
EventfdReadSucceeds == Wakeup \in active => wakeups > 0

(***************************************************************************)
(* The invariant behind the three.  Outside the part of a turn that runs   *)
(* from the handlers to the swap, a foreign functor in the queue always    *)
(* has a wakeup in the eventfd or on its way; inside that part the swap    *)
(* itself is still ahead and will take the functor.                        *)
(***************************************************************************)
BeforeSwap == pc \in {"events", "handler", "swap"}

WakeupInv ==
    /\ ~BeforeSwap /\ ForeignPending => WakeupComing("queued")
    /\ NoLostQuit
    /\ EventfdReadSucceeds

(***************************************************************************)
(* A functor that is queued while the functors of a turn are running waits *)
(* for a later turn, after the events of another poll: functors that queue *)
(* functors cannot starve the channels.                                    *)
(***************************************************************************)
BatchIsClosed ==
    [][calling /\ calling' /\ pc # "swap"
          => \/ functors' = functors
             \/ functors # <<>> /\ functors' = Tail(functors)]_vars

\* The local vector of doPendingFunctors exists only while it is being run.
FunctorsAreLocal == pc \notin {"run", "functor"} => functors = <<>>

\* The functors are the tasks of an abstract queue.
Tasks == INSTANCE TaskQueue WITH queue <- functors \o pending

(***************************************************************************)
(* Every functor handed to queueInLoop runs exactly once, on the polling   *)
(* thread, in the order of the calls, through the swap and whatever the    *)
(* functors queue themselves.                                              *)
(***************************************************************************)
ImplementsTaskQueue == Tasks!Spec

\* Each of the functors of s is in the queue q or in the executions r, once.
Once(q, r, s) ==
    /\ \A i, j \in 1 .. Len(r) : r[i].task = r[j].task => i = j
    /\ \A i, j \in 1 .. Len(q) : q[i].task = q[j].task => i = j
    /\ \A i \in 1 .. Len(r), j \in 1 .. Len(q) : r[i].task # q[j].task
    /\ \A i \in 1 .. Len(r) : r[i].task \in s
    /\ \A j \in 1 .. Len(q) : q[j].task \in s
    /\ \A f \in s : \/ \E i \in 1 .. Len(r) : r[i].task = f
                    \/ \E j \in 1 .. Len(q) : q[j].task = f

(***************************************************************************)
(* A functor that was handed over is never dropped and never runs twice,   *)
(* whatever queueInLoop, the swap and the functors of doPendingFunctors    *)
(* do in between: at any time it either waits, at one place of the two     *)
(* vectors, or has been executed, once.                                    *)
(***************************************************************************)
RunsOnce == Once(functors \o pending, ran, submitted)

Executed(f) == \E i \in DOMAIN ran : ran[i].task = f

Queued(f, by) == \E i \in DOMAIN pending :
                    pending[i].task = f /\ pending[i].by \in by

(***************************************************************************)
(* What a thread other than the owner asks for takes effect even if        *)
(* epoll_wait had no timeout: a functor it queued is executed, unless the  *)
(* loop is told to quit, and its quitLoop ends the loop once the polling   *)
(* thread has started.                                                     *)
(***************************************************************************)
ForeignRequestsTakeEffect ==
    /\ \A f \in Functors :
          Running /\ Queued(f, Foreign) ~> Executed(f) \/ pc = "stopped"
    /\ Running /\ quitters \cap Foreign # {} ~> pc = "stopped"

(***************************************************************************)
(* What the owner asks for takes effect too, although nobody writes the    *)
(* eventfd for it, but only because epoll_wait times out.                  *)
(***************************************************************************)
OwnerRequestsTakeEffect ==
    PollTimesOut =>
        /\ \A f \in Functors :
              Running /\ Queued(f, {Owner}) ~> Executed(f) \/ pc = "stopped"
        /\ Running /\ Owner \in quitters ~> pc = "stopped"

(***************************************************************************)
(* EventLoop.h lines 36 to 40 ask that the loop runs in the thread that    *)
(* created it, which is what makes runInLoop call functors on the thread   *)
(* of the loop and nowhere else.                                           *)
(***************************************************************************)
RunsInLoopThread == \A i \in DOMAIN ran : ran[i].on = LoopThread
=============================================================================
