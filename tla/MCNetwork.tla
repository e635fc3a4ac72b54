------------------------------ MODULE MCNetwork ------------------------------
(***************************************************************************)
(* Both older servers, for one client of each class, and one descriptor    *)
(* that goes from one to the other.                                        *)
(***************************************************************************)
EXTENDS Network

CONSTANTS d1, i1, h1

MCDevices == {d1}
MCInterfaces == {i1}
MCHosts == {h1}
MCFds == {7}
MCServers == {"concurrent", "config"}
=============================================================================
