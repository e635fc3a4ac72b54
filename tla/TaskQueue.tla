------------------------------ MODULE TaskQueue ------------------------------
(***************************************************************************)
(* What EventLoop::queueInLoop and EventLoop::runInLoop promise their      *)
(* callers, with no thread, poller or wakeup in sight: a task that was     *)
(* handed over runs exactly once, on the thread of the loop, in the order  *)
(* in which the tasks were handed over.  The one exception the code makes  *)
(* is the thread that constructed the loop: runInLoop takes it for the     *)
(* loop's thread and calls the task on the spot, ahead of the queue.       *)
(***************************************************************************)
EXTENDS Sequences

CONSTANTS
    Functors,    \* the tasks that are ever handed over
    Threads,     \* the threads that hand tasks over
    Owner,       \* the thread that constructed the loop
    LoopThread   \* the thread that executes the queue

VARIABLES
    submitted,   \* the tasks handed over so far
    queue,       \* the tasks not yet executed, oldest first
    ran          \* the executions so far, oldest first

vars == <<submitted, queue, ran>>

Init ==
    /\ submitted = {}
    /\ queue = <<>>
    /\ ran = <<>>

\* A thread hands over a task.
Submit(t, f) ==
    /\ f \notin submitted
    /\ submitted' = submitted \cup {f}
    /\ queue' = Append(queue, [task |-> f, by |-> t])
    /\ UNCHANGED ran

\* The loop executes the oldest task.
Execute ==
    /\ queue # <<>>
    /\ queue' = Tail(queue)
    /\ ran' = Append(ran, [task |-> Head(queue).task, on |-> LoopThread])
    /\ UNCHANGED submitted

\* The constructing thread executes a task itself.
Inline(f) ==
    /\ f \notin submitted
    /\ submitted' = submitted \cup {f}
    /\ ran' = Append(ran, [task |-> f, on |-> Owner])
    /\ UNCHANGED queue

Next ==
    \/ \E t \in Threads, f \in Functors : Submit(t, f)
    \/ Execute
    \/ \E f \in Functors : Inline(f)

Spec == Init /\ [][Next]_vars
=============================================================================
