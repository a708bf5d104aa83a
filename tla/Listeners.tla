----------------------------- MODULE Listeners -----------------------------
(***************************************************************************)
(* The listeners of the program, one of which a behaviour looks at,        *)
(* and what they promise.                                                  *)
(***************************************************************************)
EXTENDS ServerTcp, ClientTcp, ProtocolHandlers

Network == \E c \in Conns : Connect(c) \/ HangUp(c)

Next == Network \/ ServerNext \/ ClientNext \/ TcpNext \/ HttpNext

Spec == Init /\ [][Next]_vars

When(k) == kind = k

\* Goroutines run when they can, and calls that are not up to a peer return.  A
\* Read returns when the peer has hung up or the socket is closed, and need not
\* before.  The local service ends its answer after the request's end.  Nobody
\* has to connect, to hang up or to stop anything.
Fairness ==
    /\ WF_vars(EndLoop \/ CheckStop)
    /\ \A c \in Conns :
           /\ WF_vars(When("server") /\ (ServerHandler(c) \/ Store(c) \/ CloseOne(c)))
           /\ WF_vars(When("server") /\ Ended(c) /\ ReadFirst(c))
           /\ WF_vars(When("client") /\ ClientHandler(c))
           /\ WF_vars(When("client") /\ HandleRemoteData(c))
           /\ WF_vars(When("client") /\ Ended(c) /\ ReadLocal(c))
           /\ WF_vars(When("handler") /\ TcpHandling(c))
           /\ WF_vars(When("handler") /\ Ended(c) /\ EndCopy(c, "in"))
           /\ WF_vars(When("handler") /\ "in" \notin halves[c] /\ EndCopy(c, "out"))
           /\ WF_vars(When("http") /\ HttpHandling(c))
    /\ \A p \in Procs : WF_vars(When("client") /\ CloseConnection(p))
    /\ WF_vars(When("server") /\ EndClose)
    /\ WF_vars(When("handler") /\ (StopListener \/ StopConns))
    /\ WF_vars(When("http") /\ (ListenAndServe \/ EndShutdown))

-----------------------------------------------------------------------------
(* Properties.                                                             *)

Idle(p) == proc[p] \in {"none", "ended"}

\* An entry of the table has somebody who will take it out: its goroutine, or
\* the one that has marked the connection before it.  The exception is the
\* server's goroutine that finds no tunnel: its entry stays until Close
\* (server/tcp.go:141).
EntryHasOwner ==
    \A c \in table :
        \/ ~Idle(HandlerOf(c)) \/ proc[RemoteOf(c)] \in {"shut", "remove"}
        \/ kind = "server" /\ ~known

\* A connection that was accepted is closed by somebody, on every path: who
\* returns without closing it leaves that to the one who has marked it
\* (tunnel/tcp.go:301), or to Close.
SocketHasOwner ==
    \A c \in Conns :
        sock[c] = "open" =>
            \/ c \in taken \/ c \in closing
            \/ ~Idle(HandlerOf(c)) \/ proc[RemoteOf(c)] = "shut"

\* The client's table keeps to its limit, although the connections register in
\* goroutines of their own (tunnel/tcp.go:173).  Proved only.
LimitKept == kind = "client" => Cardinality(table) <= MaxConnections

\* Once every connection is over the metric is back at zero, but for requests
\* that ended in a panic: they stay counted (protocol.go:225).
CountReturns ==
    (\A p \in Procs : Idle(p)) => active = Cardinality(aborted)

\* The connections that Stop or Close answers for: what Close has taken out of
\* the server's table, what is in TCPHandler's while Stop is on its way to it,
\* and on the client whatever is in the table, even if it got there later.
Answered(c) ==
    \/ kind = "server" /\ c \in closing
    \/ kind = "handler" /\ c \in table /\ stop \in {"signalled", "unlistened"}
    \/ kind = "client" /\ c \in table /\ Stopping

\* Those are closed in the end, whoever else is about to close them and though
\* their peers may never hang up.  What the server and TCPHandler store after
\* Close or Stop has been to the table stays open for as long as its peer likes
\* (server/tcp.go:113, protocol.go:527).
TableIsClosed ==
    \A c \in Conns : Answered(c) ~> sock[c] = "closed"

\* After Stop the client ends up with no connection open and none in the table,
\* also those that were accepted and had not registered: their goroutines look
\* at stopCh (tunnel/tcp.go:198).
ClientIsQuiet ==
    kind = "client" /\ Stopping ~> table = {} /\ \A c \in Conns : sock[c] # "open"

\* A connection whose peer has hung up gives back its place in the table, so
\* that the client's limit is about connections that live
\* (tunnel/tcp.go:173, 190): whoever closes it, somebody removes it.  The
\* exception is the server's that finds no tunnel (server/tcp.go:141).  For
\* TCPHandler it is assumed that the local service reads on to the end of the
\* request and ends its answer: its copies have no deadline (protocol.go:559,
\* 577), and one that does not keeps the entry.
SlotIsFreed ==
    \A c \in Conns :
        c \in table \cap gone ~> c \notin table \/ (kind = "server" /\ ~known)

\* Stop ends the accept loop, and comes to its own end, also the Stop of a
\* TCPHandler that comes before Start: that loop ends at its first look, and its
\* listener is left open for good (protocol.go:624).  The Stop of an HTTPHandler
\* before Start is not meant: it stops nothing (protocol.go:296).
StopEnds == Stopping ~> loop \in {"none", "ended"} /\ stop \in {"done", "late"}
=============================================================================
