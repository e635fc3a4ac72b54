-------------------------- MODULE MCTcpServerSocket --------------------------
(***************************************************************************)
(* The older server with two devices and one interface.                    *)
(***************************************************************************)
EXTENDS TcpServerSocket

CONSTANTS d1, d2, i1

MCDevices == {d1, d2}
MCInterfaces == {i1}
MCFds == {7, 8}
MCServers == {"concurrent"}
=============================================================================
