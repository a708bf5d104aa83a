----------------------------- MODULE ServerTcp -----------------------------
(***************************************************************************)
(* The server's TCPTunnel (internal/server/tcp.go).  Its connections have  *)
(* no WebSocket yet: conn.wsConn is never set, so that a connection ends   *)
(* with the first thing it reads.                                          *)
(***************************************************************************)
EXTENDS Listener

\* StartTCPListener, for a tunnel that is registered.
StartTCPListener ==
    /\ known /\ loop = "none"
    /\ listener' = "open" /\ loop' = "accept"
    /\ UNCHANGED <<kind, sock, gone, taken, stop, proc, tableVars, metricVars, known>>

\* acceptConnections: a connection is accepted, ...
Take(c) ==
    /\ loop = "accept" /\ listener = "open" /\ sock[c] = "queued"
    /\ sock' = [sock EXCEPT ![c] = "open"]
    /\ taken' = {c} /\ loop' = "store"
    /\ UNCHANGED <<kind, listener, gone, stop, proc, tableVars, metricVars, known>>

\* ... and stored under the lock, whether or not Close has been there.
Store(c) ==
    /\ loop = "store" /\ c \in taken
    /\ table' = table \cup {c}
    /\ taken' = {} /\ loop' = "accept"
    /\ Goto(HandlerOf(c), "begin")
    /\ UNCHANGED <<kind, netVars, stop, flagged, closing, metricVars, known>>

\* handleConnection looks the tunnel up.  Without one it closes the connection
\* and leaves its entry.
LookUp(c) ==
    /\ proc[HandlerOf(c)] = "begin"
    /\ IF known THEN Goto(HandlerOf(c), "read") /\ UNCHANGED sock
       ELSE Goto(HandlerOf(c), "ended") /\ sock' = Closed({c})
    /\ UNCHANGED <<kind, listener, gone, loopVars, stop, tableVars, metricVars, known>>

\* Read returns with data or an error; either ends the loop.
ReadFirst(c) ==
    /\ proc[HandlerOf(c)] = "read"
    /\ Goto(HandlerOf(c), "close")
    /\ UNCHANGED <<kind, netVars, loopVars, stop, tableVars, metricVars, known>>

CloseConn(c) ==
    /\ proc[HandlerOf(c)] = "close"
    /\ sock' = Closed({c})
    /\ Goto(HandlerOf(c), "remove")
    /\ UNCHANGED <<kind, listener, gone, loopVars, stop, tableVars, metricVars, known>>

RemoveConn(c) ==
    /\ proc[HandlerOf(c)] = "remove"
    /\ table' = table \ {c}
    /\ Goto(HandlerOf(c), "ended")
    /\ UNCHANGED <<kind, netVars, loopVars, stop, flagged, closing, metricVars, known>>

\* Close takes the connections out of the table under the lock, ...
Close ==
    /\ ~Stopping /\ loop # "none"
    /\ stop' = "closing"
    /\ Unlisten({})
    /\ closing' = table /\ table' = {}
    /\ UNCHANGED <<kind, gone, loopVars, proc, flagged, metricVars, known>>

\* ... and closes them outside of it.
CloseOne(c) ==
    /\ c \in closing
    /\ closing' = closing \ {c}
    /\ sock' = Closed({c})
    /\ UNCHANGED <<kind, listener, gone, loopVars, stop, proc, table, flagged, metricVars, known>>

EndClose ==
    /\ stop = "closing" /\ closing = {}
    /\ stop' = "done"
    /\ UNCHANGED <<kind, netVars, loopVars, proc, tableVars, metricVars, known>>

\* The registry removes the tunnel.
Forget ==
    /\ known
    /\ known' = FALSE
    /\ UNCHANGED <<kind, netVars, loopVars, stop, proc, tableVars, metricVars>>

ServerHandler(c) == LookUp(c) \/ CloseConn(c) \/ RemoveConn(c)

ServerStep(c) == Take(c) \/ Store(c) \/ ServerHandler(c) \/ ReadFirst(c) \/ CloseOne(c)

ServerNext ==
    /\ kind = "server"
    /\ \/ StartTCPListener \/ EndLoop \/ Close \/ EndClose \/ Forget
       \/ \E c \in Conns : ServerStep(c)
=============================================================================
