----------------------------- MODULE ClientTcp -----------------------------
(***************************************************************************)
(* The client's TCPTunnel (internal/tunnel/tcp.go).  Two goroutines work   *)
(* on a connection: forwardLocalToRemote reads it, and HandleRemoteData    *)
(* writes to it.  Either may close it, while Stop closes all.              *)
(*                                                                         *)
(* Nothing in the program calls HandleRemoteData: the reader of the        *)
(* WebSocket only logs a tcp_data message (tunnel.go:1112).  It is         *)
(* modelled all the same, as the operation of the package it is, for one   *)
(* call per connection at a time; the program does no more than that.      *)
(***************************************************************************)
EXTENDS Listener

\* Start, unless the tunnel was stopped before: Tunnel.Stop may find the
\* TCPTunnel as soon as startTCPProxy has stored it.
StartTunnel ==
    /\ loop = "none" /\ ~Stopping
    /\ listener' = "open" /\ loop' = "check"
    /\ UNCHANGED <<kind, sock, gone, taken, stop, proc, tableVars, metricVars, known>>

\* Faulty: Stop marks the connections and leaves it to their goroutines to close
\* them.
StopTunnel_MarksOnly ==
    /\ ~Stopping
    /\ stop' = "done"
    /\ Unlisten({})
    /\ flagged' = flagged \cup table
    /\ table' = {}
    /\ UNCHANGED <<kind, gone, loopVars, proc, closing, metricVars, known>>

\* Stop holds the lock throughout: it closes what nobody has begun to close,
\* and empties the table.
StopTunnel ==
    /\ ~Stopping
    /\ stop' = "done"
    /\ Unlisten(table \ flagged)
    /\ flagged' = flagged \cup table
    /\ table' = {}
    /\ UNCHANGED <<kind, gone, loopVars, proc, closing, metricVars, known>>

\* handleConnection turns the connection away, or enters it in the table, also
\* after Stop.
Register(c) ==
    /\ proc[HandlerOf(c)] = "begin"
    /\ IF Cardinality(table) >= MaxConnections
       THEN /\ sock' = Closed({c}) /\ Goto(HandlerOf(c), "ended")
            /\ UNCHANGED table
       ELSE /\ table' = table \cup {c} /\ Goto(HandlerOf(c), "check")
            /\ UNCHANGED sock
    /\ UNCHANGED <<kind, listener, gone, loopVars, stop, flagged, closing, metricVars, known>>

\* Faulty: the goroutine does not look at stopCh.
CheckStopCh_Never(c) ==
    /\ proc[HandlerOf(c)] = "check"
    /\ Goto(HandlerOf(c), "read")
    /\ UNCHANGED <<kind, netVars, loopVars, stop, tableVars, metricVars, known>>

\* forwardLocalToRemote looks at stopCh, ...
CheckStopCh(c) ==
    /\ proc[HandlerOf(c)] = "check"
    /\ Goto(HandlerOf(c), IF Stopping THEN "drop" ELSE "read")
    /\ UNCHANGED <<kind, netVars, loopVars, stop, tableVars, metricVars, known>>

\* Faulty: returns at the end of the input without closing the connection.
ReadLocal_KeepsEntry(c) ==
    /\ proc[HandlerOf(c)] = "read"
    /\ \/ ~Ended(c) /\ Goto(HandlerOf(c), "send")
       \/ Ended(c) /\ Goto(HandlerOf(c), "ended")
    /\ UNCHANGED <<kind, netVars, loopVars, stop, tableVars, metricVars, known>>

\* ... reads, ...
ReadLocal(c) ==
    /\ proc[HandlerOf(c)] = "read"
    /\ \/ ~Ended(c) /\ Goto(HandlerOf(c), "send")
       \/ Ended(c) /\ Goto(HandlerOf(c), "drop")
    /\ UNCHANGED <<kind, netVars, loopVars, stop, tableVars, metricVars, known>>

\* ... and sends over the WebSocket, which may fail.
Send(c) ==
    /\ proc[HandlerOf(c)] = "send"
    /\ \E s \in {"check", "drop"} : Goto(HandlerOf(c), s)
    /\ UNCHANGED <<kind, netVars, loopVars, stop, tableVars, metricVars, known>>

\* HandleRemoteData finds the connection in the table, ...
Find(c) ==
    /\ c \in table /\ proc[RemoteOf(c)] = "none"
    /\ Goto(RemoteOf(c), "found")
    /\ UNCHANGED <<kind, netVars, loopVars, stop, tableVars, metricVars, known>>

\* ... looks at closed under the connection's own lock, ...
CheckClosed(c) ==
    /\ proc[RemoteOf(c)] = "found"
    /\ Goto(RemoteOf(c), IF c \in flagged THEN "none" ELSE "write")
    /\ UNCHANGED <<kind, netVars, loopVars, stop, tableVars, metricVars, known>>

\* ... and writes without it.
WriteLocal(c) ==
    /\ proc[RemoteOf(c)] = "write"
    /\ \/ ~Ended(c) /\ Goto(RemoteOf(c), "none")
       \/ Ended(c) /\ Goto(RemoteOf(c), "drop")
    /\ UNCHANGED <<kind, netVars, loopVars, stop, tableVars, metricVars, known>>

Return(p) == IF p[2] = "handler" THEN "ended" ELSE "none"

\* closeConnection, by either goroutine: the first marks the connection, ...
MarkClosed(p) ==
    /\ proc[p] = "drop"
    /\ flagged' = flagged \cup {ConnOf(p)}
    /\ Goto(p, IF ConnOf(p) \in flagged THEN Return(p) ELSE "shut")
    /\ UNCHANGED <<kind, netVars, loopVars, stop, table, closing, metricVars, known>>

\* ... closes it, ...
Shut(p) ==
    /\ proc[p] = "shut"
    /\ sock' = Closed({ConnOf(p)})
    /\ Goto(p, "remove")
    /\ UNCHANGED <<kind, listener, gone, loopVars, stop, tableVars, metricVars, known>>

\* Faulty: who finds the connection marked takes it for removed.
Remove_BeforeStop(p) ==
    /\ proc[p] = "remove"
    /\ table' = IF Stopping THEN table ELSE table \ {ConnOf(p)}
    /\ Goto(p, Return(p))
    /\ UNCHANGED <<kind, netVars, loopVars, stop, flagged, closing, metricVars, known>>

\* ... and takes it out of the table.
Remove(p) ==
    /\ proc[p] = "remove"
    /\ table' = table \ {ConnOf(p)}
    /\ Goto(p, Return(p))
    /\ UNCHANGED <<kind, netVars, loopVars, stop, flagged, closing, metricVars, known>>

CloseConnection(p) == MarkClosed(p) \/ Shut(p) \/ Remove(p)

ClientHandler(c) == Register(c) \/ CheckStopCh(c) \/ Send(c)

HandleRemoteData(c) == CheckClosed(c) \/ WriteLocal(c)

ClientNext ==
    /\ kind = "client"
    /\ \/ StartTunnel \/ StopTunnel \/ EndLoop \/ CheckStop
       \/ \E c \in Conns : Accept(c, "check") \/ ClientHandler(c) \/ ReadLocal(c)
                           \/ Find(c) \/ HandleRemoteData(c)
       \/ \E p \in Procs : CloseConnection(p)
=============================================================================
