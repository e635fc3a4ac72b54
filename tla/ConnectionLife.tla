---------------------------- MODULE ConnectionLife ----------------------------
(***************************************************************************)
(* What TcpServer and MyServer promise about connections, with no queue of *)
(* functors, poller, socket or counter in sight.  A connection is entered  *)
(* in the server's map when it is accepted; it comes up once, served as    *)
(* long as fewer than the limit are up and refused otherwise; it goes down *)
(* once, is then taken out of the map, and only then is destroyed.  A      *)
(* connection is never closed before it came up.                           *)
(***************************************************************************)
EXTENDS Naturals, FiniteSets

CONSTANTS
    Conns,   \* the connections there may ever be
    Limit    \* how many may be up for the next one to be served

VARIABLES
    life,    \* how far each connection has come
    listed   \* the connections in the server's map

vars == <<life, listed>>

Init ==
    /\ life = [c \in Conns |-> "none"]
    /\ listed = {}

IsUp(c) == life[c] \in {"kConnected", "kDisconnecting"}

Advance(c, from, to) ==
    /\ life[c] = from
    /\ life' = [life EXCEPT ![c] = to]

Accept(c) ==
    /\ Advance(c, "none", "kConnecting")
    /\ listed' = listed \cup {c}

Serve(c) ==
    /\ Cardinality({x \in Conns : IsUp(x)}) < Limit
    /\ Advance(c, "kConnecting", "kConnected")
    /\ UNCHANGED listed

Refuse(c) ==
    /\ Cardinality({x \in Conns : IsUp(x)}) >= Limit
    /\ Advance(c, "kConnecting", "kDisconnecting")
    /\ UNCHANGED listed

GoDown(c) ==
    /\ IsUp(c)
    /\ c \in listed
    /\ life' = [life EXCEPT ![c] = "kDisconnected"]
    /\ UNCHANGED listed

Forget(c) ==
    /\ c \in listed
    /\ life[c] = "kDisconnected"
    /\ listed' = listed \ {c}
    /\ UNCHANGED life

\* Several connections may lose their last references at once.
Destroy(cs) ==
    /\ \A c \in cs : c \notin listed /\ life[c] = "kDisconnected"
    /\ life' = [c \in Conns |-> IF c \in cs THEN "destroyed" ELSE life[c]]
    /\ UNCHANGED listed

Next ==
    \/ \E c \in Conns : Accept(c) \/ Serve(c) \/ Refuse(c) \/ GoDown(c) \/ Forget(c)
    \/ \E cs \in SUBSET Conns : Destroy(cs)

Spec == Init /\ [][Next]_vars
=============================================================================
