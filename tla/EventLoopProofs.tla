--------------------------- MODULE EventLoopProofs ---------------------------
(***************************************************************************)
(* Theorems about the event loop for every set of threads, functors and    *)
(* channels: its types, that no wakeup is lost, that the eventfd is never  *)
(* read empty, that the loop implements the abstract task queue, and that  *)
(* each functor runs once.                                                 *)
(***************************************************************************)
EXTENDS EventLoop, SequenceTheorems, TLAPS

(***************************************************************************)
(* The type invariant: every step of the polling thread and of its callers *)
(* keeps every variable in its type.                                       *)
(***************************************************************************)
THEOREM TypeCorrect == Spec => []TypeOK
<1>1. Init => TypeOK
  <2> SUFFICES ASSUME Init PROVE TypeOK
    OBVIOUS
  <2>1. pending \in Seq(Entry) /\ functors \in Seq(Entry) /\ ran \in Seq(Execution)
    BY Zenon, EmptySeq DEF Init
  <2>2. caller \in [Threads -> {"idle", "queued", "quitting"}]
    BY DEF Init
  <2>3. /\ pc = "idle" /\ calling \in BOOLEAN /\ wakeups \in Nat
        /\ quitters \subseteq Threads /\ submitted \subseteq Functors
        /\ ready \subseteq Channels /\ active \subseteq Channels \cup {Wakeup}
    BY DEF Init
  <2> QED
    BY <2>1, <2>2, <2>3, Zenon DEF TypeOK
<1>2. TypeOK /\ [Next]_vars => TypeOK'
  <2> SUFFICES ASSUME TypeOK, [Next]_vars
               PROVE  TypeOK'
    OBVIOUS
  <2> USE ThreadsAssumption DEF TypeOK
  <2>1. CASE Turn
    <3>1. CASE Begin
      BY <3>1 DEF Begin
    <3>2. CASE CheckQuit
      BY <3>2 DEF CheckQuit
    <3>3. CASE handleRead
      BY <3>3 DEF handleRead
    <3>4. ASSUME NEW ch \in Channels, HandleEvent(ch)
          PROVE  TypeOK'
      BY <3>4 DEF HandleEvent
    <3>5. CASE BeginPendingFunctors
      BY <3>5 DEF BeginPendingFunctors
    <3>6. CASE Swap
      BY <3>6 DEF Swap
    <3>7. CASE RunFunctor
      <4>1. Head(functors) \in Entry /\ Tail(functors) \in Seq(Entry)
        BY <3>7 DEF RunFunctor
      <4>2. Head(functors).task \in Functors
        BY <4>1 DEF Entry
      <4>3. [task |-> Head(functors).task, on |-> LoopThread] \in Execution
        BY <4>2 DEF Execution
      <4>4. ran' \in Seq(Execution)
        BY <3>7, <4>3 DEF RunFunctor
      <4> QED
        BY <3>7, <4>1, <4>4 DEF RunFunctor
    <3>8. CASE Return
      BY <3>8 DEF Return
    <3>9. CASE EndPendingFunctors
      BY <3>9 DEF EndPendingFunctors
    <3> QED
      BY <2>1, <3>1, <3>2, <3>3, <3>4, <3>5, <3>6, <3>7, <3>8, <3>9 DEF Turn
  <2>2. CASE PollReturns
    BY <2>2 DEF PollReturns, Readable
  <2>3. CASE PollTimeout
    BY <2>3 DEF PollTimeout
  <2>4. CASE Callers
    <3>1. ASSUME NEW t \in Threads, NEW f \in Functors, queueInLoop(t, f)
          PROVE  TypeOK'
      <4>1. [task |-> f, by |-> t] \in Entry
        BY DEF Entry
      <4>2. pending' \in Seq(Entry)
        BY <3>1, <4>1 DEF queueInLoop
      <4> QED
        BY <3>1, <4>2 DEF queueInLoop
    <3>2. ASSUME NEW t \in Threads, NEW f \in Functors, runInLoop(t, f)
          PROVE  TypeOK'
      <4>1. [task |-> f, on |-> t] \in Execution
        BY DEF Execution
      <4>2. ran' \in Seq(Execution)
        BY <3>2, <4>1 DEF runInLoop
      <4> QED
        BY <3>2, <4>2 DEF runInLoop
    <3>3. ASSUME NEW t \in Threads, quitLoop(t)
          PROVE  TypeOK'
      BY <3>3 DEF quitLoop
    <3>4. ASSUME NEW t \in Threads, wakeup(t)
          PROVE  TypeOK'
      BY <3>4 DEF wakeup
    <3>5. CASE loop
      BY <3>5 DEF loop
    <3> QED
      BY <2>4, <3>1, <3>2, <3>3, <3>4, <3>5 DEF Callers
  <2>5. ASSUME NEW ch \in Channels, Arrive(ch)
        PROVE  TypeOK'
    BY <2>5 DEF Arrive
  <2>6. CASE UNCHANGED vars
    BY <2>6 DEF vars
  <2> QED
    BY <2>1, <2>2, <2>3, <2>4, <2>5, <2>6 DEF Next, Finished
<1> QED
  BY <1>1, <1>2, PTL DEF Spec

-----------------------------------------------------------------------------

(***************************************************************************)
(* Every step keeps the wakeup invariant: a thread that queues a functor   *)
(* or asks to quit is itself the wakeup to come, its write to the eventfd  *)
(* takes over from it, and only handleRead takes the write away, at a time *)
(* when the swap or the test of quit_ is still ahead.                      *)
(***************************************************************************)
LEMMA WakeupInvInductive ==
  ASSUME TypeOK, WakeupInv, [Next]_vars
  PROVE  WakeupInv'
<1> USE ThreadsAssumption, ChannelsAssumption
<1> USE DEF BeforeSwap, Foreign, WakeupInv, NoLostQuit, EventfdReadSucceeds,
            WakeupComing, ForeignPending
<1>1. CASE Turn
  <2>1. CASE Begin
    BY <2>1 DEF Begin
  <2>2. CASE CheckQuit
    BY <2>2 DEF CheckQuit
  <2>3. CASE handleRead
    BY <2>3 DEF handleRead
  <2>4. ASSUME NEW ch \in Channels, HandleEvent(ch)
        PROVE  WakeupInv'
    BY <2>4 DEF HandleEvent
  <2>5. CASE BeginPendingFunctors
    BY <2>5 DEF BeginPendingFunctors
  <2>6. CASE Swap
    BY <2>6 DEF Swap
  <2>7. CASE RunFunctor
    BY <2>7 DEF RunFunctor
  <2>8. CASE Return
    BY <2>8 DEF Return, InCallback
  <2>9. CASE EndPendingFunctors
    BY <2>9 DEF EndPendingFunctors
  <2> QED
    BY <1>1, <2>1, <2>2, <2>3, <2>4, <2>5, <2>6, <2>7, <2>8, <2>9 DEF Turn
<1>2. CASE PollReturns
  BY <1>2 DEF PollReturns, Readable, TypeOK
<1>3. CASE PollTimeout
  BY <1>3 DEF PollTimeout
<1>4. ASSUME NEW t \in Threads, NEW f \in Functors, queueInLoop(t, f)
      PROVE  WakeupInv'
  <2>1. caller' = [caller EXCEPT ![t] = "queued"] /\ caller[t] = "idle"
    BY <1>4 DEF queueInLoop, MayCall
  <2>2. \A s \in Threads : caller[s] # "idle" => caller'[s] = caller[s]
    BY <2>1 DEF TypeOK
  <2>3. CASE t = Owner
    <3>1. [task |-> f, by |-> t] \in Entry
      BY DEF Entry
    <3>2. ForeignPending' => ForeignPending
      BY <1>4, <2>3, <3>1, AppendProperties DEF queueInLoop, TypeOK
    <3> QED
      BY <1>4, <2>2, <3>2 DEF queueInLoop
  <2>4. CASE t # Owner
    <3>1. caller'[t] = "queued"
      BY <2>1 DEF TypeOK
    <3> QED
      BY <1>4, <2>2, <2>4, <3>1 DEF queueInLoop
  <2> QED
    BY <2>3, <2>4
<1>5. ASSUME NEW t \in Threads, NEW f \in Functors, runInLoop(t, f)
      PROVE  WakeupInv'
  BY <1>5 DEF runInLoop
<1>6. ASSUME NEW t \in Threads, quitLoop(t)
      PROVE  WakeupInv'
  <2>1. \A s \in Threads : caller[s] # "idle" => caller'[s] = caller[s]
    BY <1>6 DEF quitLoop, MayCall, TypeOK
  <2>2. caller'[t] = "quitting"
    BY <1>6 DEF quitLoop, TypeOK
  <2> QED
    BY <1>6, <2>1, <2>2 DEF quitLoop
<1>7. ASSUME NEW t \in Threads, wakeup(t)
      PROVE  WakeupInv'
  <2>1. CASE t = Owner
    <3>1. \A s \in Foreign : caller'[s] = caller[s]
      BY <1>7, <2>1 DEF wakeup, TypeOK
    <3>2. wakeups > 0 => wakeups' > 0
      BY <1>7 DEF wakeup, TypeOK
    <3> QED
      BY <1>7, <3>1, <3>2 DEF wakeup
  <2>2. CASE t # Owner
    <3>1. wakeups' > 0
      BY <1>7, <2>2 DEF wakeup, NeedsWakeup, isInLoopThread, TypeOK
    <3> QED
      BY <1>7, <3>1 DEF wakeup
  <2> QED
    BY <2>1, <2>2
<1>8. CASE loop
  BY <1>8 DEF loop
<1>9. ASSUME NEW ch \in Channels, Arrive(ch)
      PROVE  WakeupInv'
  BY <1>9 DEF Arrive
<1>10. CASE UNCHANGED vars
  BY <1>10 DEF vars
<1> QED
  BY <1>1, <1>2, <1>3, <1>4, <1>5, <1>6, <1>7, <1>8, <1>9, <1>10
     DEF Next, Callers, Finished

(***************************************************************************)
(* The wakeup invariant holds in every state the loop reaches.             *)
(***************************************************************************)
LEMMA WakeupInvariant == Spec => []WakeupInv
<1>1. Init => WakeupInv
  BY DEF Init, WakeupInv, ForeignPending, NoLostQuit, EventfdReadSucceeds
<1>2. TypeOK /\ WakeupInv /\ [Next]_vars => WakeupInv'
  BY WakeupInvInductive
<1> QED
  BY <1>1, <1>2, TypeCorrect, PTL DEF Spec

(***************************************************************************)
(* No wakeup is lost between queueInLoop and epoll_wait, for any number of *)
(* threads and functors.                                                   *)
(***************************************************************************)
THEOREM WakeupIsNeverLost == Spec => []NoLostWakeup
<1>1. WakeupInv => NoLostWakeup
  BY DEF WakeupInv, BeforeSwap, NoLostWakeup
<1> QED
  BY <1>1, WakeupInvariant, PTL

(***************************************************************************)
(* No request to quit from another thread is slept over once the loop      *)
(* polls.                                                                  *)
(***************************************************************************)
THEOREM QuitIsNeverLost == Spec => []NoLostQuit
<1>1. WakeupInv => NoLostQuit
  BY DEF WakeupInv
<1> QED
  BY <1>1, WakeupInvariant, PTL

(***************************************************************************)
(* handleRead always reads the eight bytes it asks the eventfd for.        *)
(***************************************************************************)
THEOREM EventfdIsNeverReadEmpty == Spec => []EventfdReadSucceeds
<1>1. WakeupInv => EventfdReadSucceeds
  BY DEF WakeupInv
<1> QED
  BY <1>1, WakeupInvariant, PTL

-----------------------------------------------------------------------------

(***************************************************************************)
(* The functors of a turn are taken from the queue before they run, so     *)
(* what a running functor queues cannot join the turn.                     *)
(***************************************************************************)
THEOREM TurnIsClosed == Spec => BatchIsClosed
<1>1. [Next]_vars /\ calling /\ calling' /\ pc # "swap"
        => \/ functors' = functors
           \/ functors # <<>> /\ functors' = Tail(functors)
  BY DEF Next, Turn, Callers, vars, Begin, CheckQuit, handleRead, HandleEvent,
         BeginPendingFunctors, Swap, RunFunctor, Return, EndPendingFunctors,
         PollReturns, PollTimeout, queueInLoop, runInLoop, quitLoop, wakeup,
         loop, Arrive, Finished
<1>2. [Next]_vars
        => [calling /\ calling' /\ pc # "swap"
              => \/ functors' = functors
                 \/ functors # <<>> /\ functors' = Tail(functors)]_vars
  BY <1>1
<1> QED
  BY <1>2, PTL DEF Spec, BatchIsClosed

-----------------------------------------------------------------------------

(***************************************************************************)
(* doPendingFunctors starts with an empty local vector.                    *)
(***************************************************************************)
LEMMA FunctorsAreLocalInvariant == Spec => []FunctorsAreLocal
<1>1. Init => FunctorsAreLocal
  BY DEF Init, FunctorsAreLocal
<1>2. FunctorsAreLocal /\ [Next]_vars => FunctorsAreLocal'
  BY DEF FunctorsAreLocal, Next, Turn, Callers, vars, Begin, CheckQuit,
         handleRead, HandleEvent, BeginPendingFunctors, Swap, RunFunctor,
         Return, EndPendingFunctors, InCallback, PollReturns, PollTimeout,
         queueInLoop, runInLoop, quitLoop, wakeup, loop, Arrive, Finished
<1> QED
  BY <1>1, <1>2, PTL DEF Spec

(***************************************************************************)
(* queueInLoop puts its entry at the end of the abstract queue.            *)
(***************************************************************************)
LEMMA AppendToQueue ==
  ASSUME TypeOK, NEW e \in Entry
  PROVE  functors \o Append(pending, e) = Append(functors \o pending, e)
<1>1. Append(pending, e) = pending \o <<e>>
  BY AppendIsConcat DEF TypeOK
<1>2. functors \o pending \in Seq(Entry)
  BY ConcatProperties DEF TypeOK
<1>3. Append(functors \o pending, e) = (functors \o pending) \o <<e>>
  BY <1>2, AppendIsConcat
<1>4. (functors \o pending) \o <<e>> = functors \o (pending \o <<e>>)
  <2>1. <<e>> \in Seq(Entry)
    OBVIOUS
  <2> QED
    BY <2>1, ConcatAssociative DEF TypeOK
<1> QED
  BY <1>1, <1>3, <1>4

(***************************************************************************)
(* The functor that runs next is the head of the abstract queue.           *)
(***************************************************************************)
LEMMA HeadOfQueue ==
  ASSUME TypeOK, functors # <<>>
  PROVE  /\ functors \o pending # <<>>
         /\ Head(functors \o pending) = Head(functors)
         /\ Tail(functors \o pending) = Tail(functors) \o pending
<1> DEFINE q == functors \o pending
<1>1. /\ q \in Seq(Entry) /\ Len(q) = Len(functors) + Len(pending)
      /\ \A i \in 1 .. Len(q) : q[i] = IF i <= Len(functors) THEN functors[i]
                                       ELSE pending[i - Len(functors)]
  BY ConcatProperties DEF TypeOK
<1>2. Len(functors) \in Nat \ {0} /\ Len(pending) \in Nat
  BY DEF TypeOK
<1>3. q # <<>>
  BY <1>1, <1>2
<1>4. Head(q) = Head(functors)
  BY <1>1, <1>2, <1>3 DEF TypeOK
<1>5. Tail(q) = Tail(functors) \o pending
  <2>1. /\ Tail(q) \in Seq(Entry) /\ Len(Tail(q)) = Len(q) - 1
        /\ \A i \in 1 .. Len(Tail(q)) : Tail(q)[i] = q[i + 1]
    BY <1>1, <1>3, HeadTailProperties
  <2>2. /\ Tail(functors) \in Seq(Entry)
        /\ Len(Tail(functors)) = Len(functors) - 1
        /\ \A i \in 1 .. Len(Tail(functors)) : Tail(functors)[i] = functors[i + 1]
    BY HeadTailProperties DEF TypeOK
  <2> DEFINE r == Tail(functors) \o pending
  <2>3. /\ r \in Seq(Entry) /\ Len(r) = Len(Tail(functors)) + Len(pending)
        /\ \A i \in 1 .. Len(r) : r[i] = IF i <= Len(Tail(functors))
                                         THEN Tail(functors)[i]
                                         ELSE pending[i - Len(Tail(functors))]
    BY <2>2, ConcatProperties DEF TypeOK
  <2> HIDE DEF q, r
  <2>4. Len(Tail(q)) = Len(r)
    BY <1>1, <1>2, <2>1, <2>2, <2>3
  <2>5. \A i \in 1 .. Len(r) : Tail(q)[i] = r[i]
    BY <1>1, <1>2, <2>1, <2>2, <2>3, <2>4, SMTT(30)
  <2>6. Tail(q) = r
    BY <2>1, <2>3, <2>4, <2>5, SeqEqual
  <2> QED
    BY <2>6 DEF q, r
<1> QED
  BY <1>3, <1>4, <1>5

(***************************************************************************)
(* A step that leaves the queue, the history and the set of functors       *)
(* handed over as they are is a stutter of the task queue.                 *)
(***************************************************************************)
LEMMA QueueStutters ==
  ASSUME UNCHANGED <<pending, functors, submitted, ran>>
  PROVE  UNCHANGED Tasks!vars
BY DEF Tasks!vars

(***************************************************************************)
(* Every step of the loop is a step of the task queue or a stutter.        *)
(***************************************************************************)
LEMMA StepRefinement ==
  ASSUME TypeOK, FunctorsAreLocal, [Next]_vars
  PROVE  [Tasks!Next]_(Tasks!vars)
<1>1. CASE Turn
  <2>1. CASE Swap
    <3>1. functors = <<>> /\ functors' = pending /\ pending' = <<>>
      BY <2>1 DEF Swap, FunctorsAreLocal
    <3>2. <<>> \o pending = pending \o <<>>
      BY ConcatEmptySeq DEF TypeOK
    <3>3. functors' \o pending' = functors \o pending
      BY <3>1, <3>2
    <3>4. submitted' = submitted /\ ran' = ran
      BY <2>1 DEF Swap
    <3> QED
      BY <3>3, <3>4 DEF Tasks!vars
  <2>2. CASE RunFunctor
    BY <2>2, HeadOfQueue DEF RunFunctor, Tasks!Next, Tasks!Execute
  <2> QED
    BY <1>1, <2>1, <2>2, QueueStutters
       DEF Turn, Begin, CheckQuit, handleRead, HandleEvent,
           BeginPendingFunctors, Return, EndPendingFunctors
<1>2. CASE PollReturns \/ PollTimeout
  BY <1>2, QueueStutters DEF PollReturns, PollTimeout
<1>3. ASSUME NEW t \in Threads, NEW f \in Functors, queueInLoop(t, f)
      PROVE  Tasks!Next
  <2>1. [task |-> f, by |-> t] \in Entry
    BY DEF Entry
  <2>2. Tasks!Submit(t, f)
    BY <1>3, <2>1, AppendToQueue DEF queueInLoop, Tasks!Submit
  <2> QED
    BY <2>2 DEF Tasks!Next
<1>4. ASSUME NEW t \in Threads, NEW f \in Functors, runInLoop(t, f)
      PROVE  Tasks!Next
  <2>1. Tasks!Inline(f)
    BY <1>4 DEF runInLoop, isInLoopThread, Tasks!Inline
  <2> QED
    BY <2>1 DEF Tasks!Next
<1>5. ASSUME NEW t \in Threads, quitLoop(t) \/ wakeup(t)
      PROVE  UNCHANGED Tasks!vars
  BY <1>5, QueueStutters DEF quitLoop, wakeup
<1>6. CASE loop
  BY <1>6, QueueStutters DEF loop
<1>7. ASSUME NEW ch \in Channels, Arrive(ch)
      PROVE  UNCHANGED Tasks!vars
  BY <1>7, QueueStutters DEF Arrive
<1>8. CASE UNCHANGED vars
  BY <1>8, QueueStutters DEF vars
<1> QED
  BY <1>1, <1>2, <1>3, <1>4, <1>5, <1>6, <1>7, <1>8
     DEF Next, Callers, Finished

(***************************************************************************)
(* The event loop implements the task queue: whatever the interleaving of  *)
(* callers, swaps and functors that queue functors, each functor runs once *)
(* and in the order of the calls.                                          *)
(***************************************************************************)
THEOREM LoopImplementsTaskQueue == Spec => ImplementsTaskQueue
<1>1. Init => Tasks!Init
  BY ConcatEmptySeq, EmptySeq DEF Init, Tasks!Init
<1>2. TypeOK /\ FunctorsAreLocal /\ [Next]_vars => [Tasks!Next]_(Tasks!vars)
  BY StepRefinement
<1> QED
  BY <1>1, <1>2, TypeCorrect, FunctorsAreLocalInvariant, PTL DEF Spec, ImplementsTaskQueue, Tasks!Spec

-----------------------------------------------------------------------------
(***************************************************************************)
(* What the refinement is worth.  The three ways in which the queue and    *)
(* the executions change keep Once.                                        *)
(***************************************************************************)
LEMMA SubmitOnce ==
    ASSUME NEW q \in Seq(Entry), NEW r \in Seq(Execution), NEW s, Once(q, r, s),
           NEW e \in Entry, e.task \notin s
    PROVE  Once(Append(q, e), r, s \cup {e.task})
<1>1. PICK n, p : n = Len(q) /\ p = Append(q, e)
  OBVIOUS
<1>2. /\ n \in Nat /\ n = Len(q) /\ Len(p) = n + 1
      /\ p[n + 1] = e /\ \A i \in 1 .. n : p[i] = q[i]
  BY <1>1, AppendProperties, LenProperties
<1>3. \A i, j \in 1 .. Len(p) : p[i].task = p[j].task => i = j
  BY <1>2 DEF Once
<1>4. \A i \in 1 .. Len(r), j \in 1 .. Len(p) : r[i].task # p[j].task
  BY <1>2 DEF Once
<1>5. \A j \in 1 .. Len(p) : p[j].task \in s \cup {e.task}
  BY <1>2 DEF Once
<1>6. ASSUME NEW f \in s \cup {e.task}
      PROVE  \/ \E i \in 1 .. Len(r) : r[i].task = f
             \/ \E j \in 1 .. Len(p) : p[j].task = f
  <2>1. CASE f \in s
    BY <1>2, <2>1 DEF Once
  <2>2. CASE f = e.task
    <3>1. n + 1 \in 1 .. Len(p) /\ p[n + 1].task = f
      BY <1>2, <2>2
    <3> QED
      BY <3>1
  <2> QED
    BY <2>1, <2>2
<1>7. Once(p, r, s \cup {e.task})
  BY <1>3, <1>4, <1>5, <1>6 DEF Once
<1> QED
  BY <1>1, <1>7

LEMMA InlineOnce ==
    ASSUME NEW q \in Seq(Entry), NEW r \in Seq(Execution), NEW s, Once(q, r, s),
           NEW x \in Execution, x.task \notin s
    PROVE  Once(q, Append(r, x), s \cup {x.task})
<1>1. PICK n, p : n = Len(r) /\ p = Append(r, x)
  OBVIOUS
<1>2. /\ n \in Nat /\ n = Len(r) /\ Len(p) = n + 1
      /\ p[n + 1] = x /\ \A i \in 1 .. n : p[i] = r[i]
  BY <1>1, AppendProperties, LenProperties
<1>3. \A i, j \in 1 .. Len(p) : p[i].task = p[j].task => i = j
  BY <1>2 DEF Once
<1>4. \A i \in 1 .. Len(p), j \in 1 .. Len(q) : p[i].task # q[j].task
  BY <1>2 DEF Once
<1>5. \A i \in 1 .. Len(p) : p[i].task \in s \cup {x.task}
  BY <1>2 DEF Once
<1>6. ASSUME NEW f \in s \cup {x.task}
      PROVE  \/ \E i \in 1 .. Len(p) : p[i].task = f
             \/ \E j \in 1 .. Len(q) : q[j].task = f
  <2>1. CASE f \in s
    BY <1>2, <2>1 DEF Once
  <2>2. CASE f = x.task
    <3>1. n + 1 \in 1 .. Len(p) /\ p[n + 1].task = f
      BY <1>2, <2>2
    <3> QED
      BY <3>1
  <2> QED
    BY <2>1, <2>2
<1>7. Once(q, p, s \cup {x.task})
  BY <1>3, <1>4, <1>5, <1>6 DEF Once
<1> QED
  BY <1>1, <1>7

LEMMA ExecuteOnce ==
    ASSUME NEW q \in Seq(Entry), NEW r \in Seq(Execution), NEW s, Once(q, r, s),
           q # <<>>, NEW x \in Execution, x.task = Head(q).task
    PROVE  Once(Tail(q), Append(r, x), s)
<1>1. PICK n, p : n = Len(r) /\ p = Append(r, x)
  OBVIOUS
<1>2. /\ n \in Nat /\ n = Len(r) /\ Len(p) = n + 1
      /\ p[n + 1] = x /\ \A i \in 1 .. n : p[i] = r[i]
  BY <1>1, AppendProperties, LenProperties
<1>3. PICK m, t : m = Len(q) /\ t = Tail(q)
  OBVIOUS
<1>4. /\ m \in Nat \ {0} /\ m = Len(q) /\ Len(t) = m - 1
      /\ \A i \in 1 .. m - 1 : t[i] = q[i + 1]
      /\ x.task = q[1].task
  <2>1. m \in Nat \ {0} /\ m = Len(q)
    BY <1>3, EmptySeq
  <2>2. Len(t) = m - 1 /\ \A i \in 1 .. Len(t) : t[i] = q[i + 1]
    BY <1>3, HeadTailProperties
  <2>3. x.task = q[1].task
    OBVIOUS
  <2> QED
    BY <2>1, <2>2, <2>3
<1>5. \A i, j \in 1 .. Len(p) : p[i].task = p[j].task => i = j
  BY <1>2, <1>4 DEF Once
<1>6. ASSUME NEW i \in 1 .. Len(t), NEW j \in 1 .. Len(t), t[i].task = t[j].task
      PROVE  i = j
  <2>1. i + 1 \in 1 .. m /\ j + 1 \in 1 .. m /\ q[i + 1].task = q[j + 1].task
    BY <1>4, <1>6
  <2> QED
    BY <1>4, <2>1 DEF Once
<1>7. ASSUME NEW j \in 1 .. Len(t)
      PROVE  /\ j + 1 \in 1 .. m /\ t[j] = q[j + 1]
             /\ t[j].task \in s /\ \A i \in 1 .. Len(p) : p[i].task # t[j].task
  <2>1. j + 1 \in 1 .. m /\ t[j] = q[j + 1] /\ j + 1 # 1 /\ 1 \in 1 .. m
    BY <1>4
  <2>2. t[j].task \in s /\ t[j].task # x.task
    BY <1>4, <2>1 DEF Once
  <2>3. \A i \in 1 .. n : r[i].task # t[j].task
    BY <1>2, <1>4, <2>1 DEF Once
  <2> QED
    BY <1>2, <2>1, <2>2, <2>3
<1>8. \A i \in 1 .. Len(p) : p[i].task \in s
  BY <1>2, <1>4 DEF Once
<1>9. ASSUME NEW f \in s
      PROVE  \/ \E i \in 1 .. Len(p) : p[i].task = f
             \/ \E j \in 1 .. Len(t) : t[j].task = f
  <2>1. CASE \E i \in 1 .. n : r[i].task = f
    BY <1>2, <2>1
  <2>2. CASE f = x.task
    <3>1. n + 1 \in 1 .. Len(p) /\ p[n + 1].task = f
      BY <1>2, <2>2
    <3> QED
      BY <3>1
  <2>3. ASSUME NEW j \in 2 .. m, q[j].task = f
        PROVE  \E k \in 1 .. Len(t) : t[k].task = f
    <3>1. j - 1 \in 1 .. Len(t) /\ j - 1 \in 1 .. m - 1 /\ (j - 1) + 1 = j
      BY <1>4
    <3>2. t[j - 1] = q[j]
      BY <1>4, <3>1
    <3> QED
      BY <2>3, <3>1, <3>2
  <2>4. (\E i \in 1 .. n : r[i].task = f) \/ (\E j \in 1 .. m : q[j].task = f)
    BY <1>2, <1>4 DEF Once
  <2>5. \A j \in 1 .. m : j = 1 \/ j \in 2 .. m
    OBVIOUS
  <2> QED
    BY <1>4, <2>1, <2>2, <2>3, <2>4, <2>5
<1>10. Once(t, p, s)
  BY <1>5, <1>6, <1>7, <1>8, <1>9 DEF Once
<1> QED
  BY <1>1, <1>3, <1>10

(***************************************************************************)
(* A functor that was handed over is never dropped and never runs twice,   *)
(* whatever queueInLoop, the swap and the functors of doPendingFunctors    *)
(* do in between: at any time it either waits, at one place of the queue,  *)
(* or has been executed, once.                                             *)
(***************************************************************************)
THEOREM FunctorsRunOnce == Spec => []RunsOnce
<1>1. Init => RunsOnce
  <2> SUFFICES ASSUME Init PROVE RunsOnce
    OBVIOUS
  <2>1. functors \o pending = <<>> /\ ran = <<>> /\ submitted = {}
    BY ConcatEmptySeq, EmptySeq DEF Init
  <2> QED
    BY <2>1 DEF RunsOnce, Once
<1>2. TypeOK /\ TypeOK' /\ FunctorsAreLocal /\ RunsOnce /\ [Next]_vars => RunsOnce'
  <2> SUFFICES ASSUME TypeOK, TypeOK', FunctorsAreLocal, RunsOnce, [Next]_vars
               PROVE  RunsOnce'
    OBVIOUS
  <2>1. [Tasks!Next]_(Tasks!vars)
    BY StepRefinement
  <2>2. PICK q, q2 : q = functors \o pending /\ q2 = (functors \o pending)'
    OBVIOUS
  <2>3. q \in Seq(Entry) /\ ran \in Seq(Execution)
    BY <2>2, ConcatProperties DEF TypeOK
  <2>4. ASSUME NEW t \in Threads, NEW f \in Functors, Tasks!Submit(t, f)
        PROVE  RunsOnce'
    <3>1. /\ f \notin submitted /\ submitted' = submitted \cup {f} /\ ran' = ran
          /\ q2 = Append(q, [task |-> f, by |-> t])
      BY <2>2, <2>4 DEF Tasks!Submit
    <3>2. [task |-> f, by |-> t] \in Entry
      BY DEF Entry
    <3>3. Once(q, ran, submitted)
      BY <2>2 DEF RunsOnce
    <3>4. Once(q2, ran, submitted \cup {f})
      BY <2>3, <3>1, <3>2, <3>3, SubmitOnce
    <3> QED
      BY <2>2, <3>1, <3>4 DEF RunsOnce
  <2>5. CASE Tasks!Execute
    <3>1. PICK x : x = [task |-> Head(q).task, on |-> LoopThread]
      OBVIOUS
    <3>2. q # <<>> /\ q2 = Tail(q) /\ ran' = Append(ran, x) /\ submitted' = submitted
      BY <2>2, <2>5, <3>1 DEF Tasks!Execute
    <3>3. x \in Execution /\ x.task = Head(q).task
      <4>1. Head(q) \in Entry
        BY <2>3, <3>2, HeadTailProperties
      <4> QED
        BY <3>1, <4>1, ThreadsAssumption DEF Entry, Execution
    <3>4. Once(q, ran, submitted)
      BY <2>2 DEF RunsOnce
    <3>5. Once(q2, ran', submitted)
      BY <2>3, <3>2, <3>3, <3>4, ExecuteOnce
    <3> QED
      BY <2>2, <3>2, <3>5 DEF RunsOnce
  <2>6. ASSUME NEW f \in Functors, Tasks!Inline(f)
        PROVE  RunsOnce'
    <3>1. PICK x : x = [task |-> f, on |-> Owner]
      OBVIOUS
    <3>2. /\ f \notin submitted /\ submitted' = submitted \cup {f} /\ q2 = q
          /\ ran' = Append(ran, x)
      BY <2>2, <2>6, <3>1 DEF Tasks!Inline
    <3>3. x \in Execution /\ x.task = f
      BY <3>1, ThreadsAssumption DEF Execution
    <3>4. Once(q, ran, submitted)
      BY <2>2 DEF RunsOnce
    <3>5. Once(q, ran', submitted \cup {f})
      BY <2>3, <3>2, <3>3, <3>4, InlineOnce
    <3> QED
      BY <2>2, <3>2, <3>5 DEF RunsOnce
  <2>7. CASE UNCHANGED Tasks!vars
    BY <2>7 DEF Tasks!vars, RunsOnce
  <2> QED
    BY <2>1, <2>4, <2>5, <2>6, <2>7 DEF Tasks!Next
<1> QED
  BY <1>1, <1>2, TypeCorrect, FunctorsAreLocalInvariant, PTL DEF Spec
=============================================================================
