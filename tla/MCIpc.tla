-------------------------------- MODULE MCIpc --------------------------------
(***************************************************************************)
(* The IPC server with its children, in two sizes: two children with one   *)
(* message at a time on a connection, and one child with MaxQueue.         *)
(***************************************************************************)
EXTENDS Ipc

CONSTANTS h1, h2

MCChildren == {h1, h2}
MCFds == {5, 6, 7}

VARIABLE size  \* [children, queue]: does not change

MCInit ==
    /\ Init
    /\ size \in {[children |-> {h1, h2}, queue |-> 1], [children |-> {h1}, queue |-> MaxQueue]}

\* Only the console, which nothing makes run, is held back.
WithinSize ==
    /\ \A h \in Children \ size.children : child'[h].pc = "none"
    /\ console.pc = "idle" /\ console'.pc # "idle" =>
          \A k \in Conns : Len(conn[k].toClient) < size.queue

MCNext == Next /\ WithinSize /\ UNCHANGED size

MCSpec == MCInit /\ [][MCNext]_<<vars, size>> /\ Fairness
=============================================================================
