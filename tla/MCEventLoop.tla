----------------------------- MODULE MCEventLoop -----------------------------
(***************************************************************************)
(* The event loop with its owner, its polling thread and one more thread.  *)
(***************************************************************************)
EXTENDS EventLoop

CONSTANTS main, poller, worker, f1, f2, conn, eventfd

MCThreads == {main, poller, worker}
MCFunctors == {f1, f2}
MCChannels == {conn}
=============================================================================
