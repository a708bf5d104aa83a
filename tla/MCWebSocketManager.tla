------------------------- MODULE MCWebSocketManager -------------------------
(***************************************************************************)
(* Instances of WebSocketManager.  Two clients; the connections Foreign    *)
(* belong to the one that owns no tunnel.                                  *)
(***************************************************************************)
EXTENDS WebSocketManager, TLC
CONSTANTS clientA, clientB, Foreign, t1
MaxConnected == 2   \* bound: the connections that are made in a behaviour

MCClientOf == [c \in Conns |-> IF c \in Foreign THEN clientB ELSE clientA]
MCOwnerOf == [t \in Tunnels |-> clientA]
MCTarget == [q \in Requests |-> t1]

\* Any two of the connections: a client that reconnects, or two clients.
FewConnected == Cardinality({c \in Conns : pc[c] # "none"}) <= MaxConnected

\* While there is a request the tunnels Others are neither registered for nor
\* removed: connections that register for two tunnels, or that forward.
Others == Tunnels \ {t1}
FewTunnels ==
    \/ \A q \in Requests : rpc[q] = "new"
    \/ Others \subseteq live /\ \A c \in Conns : {want[c], tunnelID[c]} \cap Others = {}

MCNext == Next /\ FewConnected' /\ FewTunnels'
MCSpec == Init /\ [][MCNext]_vars

\* The requests are interchangeable, and so are the connections of a client.
MCSymmetry == Permutations(Requests) \cup Permutations(Conns \ Foreign)
=============================================================================
