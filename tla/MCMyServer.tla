------------------------------ MODULE MCMyServer ------------------------------
(***************************************************************************)
(* The server with two or three clients on two or three descriptors.       *)
(***************************************************************************)
EXTENDS MyServer, TLC

CONSTANTS c1, c2, c3, acceptor, wakeup

MCConns == {c1, c2, c3}
MCConns2 == {c1, c2}
MCFds == {7, 8}
MCFds3 == {7, 8, 9}

\* The clients are interchangeable.
Interchangeable == Permutations(MCConns)
=============================================================================
