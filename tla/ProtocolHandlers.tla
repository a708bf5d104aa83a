-------------------------- MODULE ProtocolHandlers --------------------------
(***************************************************************************)
(* The handlers of internal/protocol: TCPHandler, which copies both ways   *)
(* between a connection and the local service, and HTTPHandler, also as    *)
(* part of HTTPSHandler, which leaves listening and shutting down to       *)
(* http.Server and counts the requests under way.  A connection of the     *)
(* model is, for HTTPHandler, one request.                                 *)
(***************************************************************************)
EXTENDS Listener

(* TCPHandler.                                                             *)

StartTCP ==
    /\ loop = "none"
    /\ listener' = "open" /\ loop' = "check"
    /\ UNCHANGED <<kind, sock, gone, taken, stop, proc, tableVars, metricVars, known>>

\* Where it looks at stopCh the loop also looks at the context the handler was
\* made with, which may be done at any time: the listener stays open.
ContextDone ==
    /\ loop = "check"
    /\ loop' = "ended"
    /\ UNCHANGED <<kind, netVars, taken, stop, proc, tableVars, metricVars, known>>

\* Accept returns after a second with nothing.
AcceptTimesOut ==
    /\ loop = "accept" /\ listener = "open"
    /\ loop' = "check"
    /\ UNCHANGED <<kind, netVars, taken, stop, proc, tableVars, metricVars, known>>

\* Forward hands in a connection from elsewhere, at any time.
Forward(c) ==
    /\ sock[c] = "none"
    /\ sock' = [sock EXCEPT ![c] = "open"]
    /\ Goto(HandlerOf(c), "begin")
    /\ UNCHANGED <<kind, listener, gone, loopVars, stop, tableVars, metricVars, known>>

\* handleConnection stores the connection, counts it, ...
StoreClient(c) ==
    /\ proc[HandlerOf(c)] = "begin"
    /\ table' = table \cup {c}
    /\ Goto(HandlerOf(c), "count")
    /\ UNCHANGED <<kind, netVars, loopVars, stop, flagged, closing, metricVars, known>>

Count(c, next) ==
    /\ proc[HandlerOf(c)] = "count"
    /\ active' = active + 1
    /\ Goto(HandlerOf(c), next)
    /\ UNCHANGED <<kind, netVars, loopVars, stop, tableVars, halves, aborted, known>>

\* Faulty: a service that does not answer leaves the count up.
Dial_KeepsCount(c) ==
    /\ proc[HandlerOf(c)] = "dial"
    /\ \/ /\ halves' = [halves EXCEPT ![c] = {"in", "out"}]
          /\ Goto(HandlerOf(c), "copy")
          /\ UNCHANGED active
       \/ /\ Goto(HandlerOf(c), "shut")
          /\ UNCHANGED <<active, halves>>
    /\ UNCHANGED <<kind, netVars, loopVars, stop, tableVars, aborted, known>>

\* ... dials the local service, ...
Dial(c) ==
    /\ proc[HandlerOf(c)] = "dial"
    /\ \/ /\ halves' = [halves EXCEPT ![c] = {"in", "out"}]
          /\ Goto(HandlerOf(c), "copy")
          /\ UNCHANGED active
       \/ /\ active' = active - 1
          /\ Goto(HandlerOf(c), "shut")
          /\ UNCHANGED halves
    /\ UNCHANGED <<kind, netVars, loopVars, stop, tableVars, aborted, known>>

\* ... and copies until both directions have come to their end.
EndCopy(c, h) ==
    /\ proc[HandlerOf(c)] = "copy" /\ h \in halves[c]
    /\ halves' = [halves EXCEPT ![c] = @ \ {h}]
    /\ UNCHANGED <<kind, netVars, loopVars, stop, proc, tableVars, active, aborted, known>>

\* Faulty: after a failed dial, too, the connection is counted down at the end.
CloseClient_Twice(c) ==
    /\ \/ proc[HandlerOf(c)] = "copy" /\ halves[c] = {}
       \/ proc[HandlerOf(c)] = "shut"
    /\ Goto(HandlerOf(c), "uncount")
    /\ sock' = Closed({c})
    /\ UNCHANGED <<kind, listener, gone, loopVars, stop, tableVars, metricVars, known>>

\* Then it closes the connection, counts it down and removes it; after a failed
\* dial it has counted it down before.
CloseClient(c) ==
    /\ \/ proc[HandlerOf(c)] = "copy" /\ halves[c] = {} /\ Goto(HandlerOf(c), "uncount")
       \/ proc[HandlerOf(c)] = "shut" /\ Goto(HandlerOf(c), "remove")
    /\ sock' = Closed({c})
    /\ UNCHANGED <<kind, listener, gone, loopVars, stop, tableVars, metricVars, known>>

Uncount(c) ==
    /\ proc[HandlerOf(c)] = "uncount"
    /\ active' = active - 1
    /\ Goto(HandlerOf(c), "remove")
    /\ UNCHANGED <<kind, netVars, loopVars, stop, tableVars, halves, aborted, known>>

RemoveClient(c) ==
    /\ proc[HandlerOf(c)] = "remove"
    /\ table' = table \ {c}
    /\ Goto(HandlerOf(c), "ended")
    /\ UNCHANGED <<kind, netVars, loopVars, stop, flagged, closing, metricVars, known>>

\* Stop signals, closes the listener if there is one, and closes what is in the
\* table.  It may come before Start, which then opens a listener.
StopTCP ==
    /\ ~Stopping
    /\ stop' = "signalled"
    /\ UNCHANGED <<kind, netVars, loopVars, proc, tableVars, metricVars, known>>

StopListener ==
    /\ stop = "signalled"
    /\ stop' = "unlistened"
    /\ Unlisten({})
    /\ UNCHANGED <<kind, gone, loopVars, proc, tableVars, metricVars, known>>

\* Faulty: the table is emptied, the connections are left to their copies.
StopConns_TableOnly ==
    /\ stop = "unlistened"
    /\ stop' = "done"
    /\ table' = {}
    /\ UNCHANGED <<kind, netVars, loopVars, proc, flagged, closing, metricVars, known>>

StopConns ==
    /\ stop = "unlistened"
    /\ stop' = "done"
    /\ sock' = Closed(table)
    /\ table' = {}
    /\ UNCHANGED <<kind, listener, gone, loopVars, proc, flagged, closing, metricVars, known>>

TcpHandling(c) ==
    \/ StoreClient(c) \/ Count(c, "dial") \/ Dial(c) \/ CloseClient(c) \/ Uncount(c)
    \/ RemoveClient(c)

TcpNext ==
    /\ kind = "handler"
    /\ \/ StartTCP \/ EndLoop \/ CheckStop \/ ContextDone \/ AcceptTimesOut
       \/ StopTCP \/ StopListener \/ StopConns
       \/ \E c \in Conns : Accept(c, "check") \/ Forward(c) \/ TcpHandling(c)
       \/ \E c \in Conns, h \in {"in", "out"} : EndCopy(c, h)

-----------------------------------------------------------------------------
(* HTTPHandler.                                                            *)

\* Start leaves it to a goroutine to listen, ...
StartHTTP ==
    /\ loop = "none"
    /\ loop' = "listen"
    /\ UNCHANGED <<kind, netVars, taken, stop, proc, tableVars, metricVars, known>>

\* ... which http.Server refuses once it shuts down, and the system if the port
\* is taken.
ListenAndServe ==
    /\ loop = "listen"
    /\ \/ ~Stopping /\ loop' = "accept" /\ listener' = "open"
       \/ loop' = "ended" /\ UNCHANGED listener
    /\ UNCHANGED <<kind, sock, gone, taken, stop, proc, tableVars, metricVars, known>>

\* The wrapper counts a request, ...
BeginRequest(c) ==
    /\ proc[HandlerOf(c)] = "begin"
    /\ active' = active + 1
    /\ Goto(HandlerOf(c), "serve")
    /\ UNCHANGED <<kind, netVars, loopVars, stop, tableVars, halves, aborted, known>>

\* ... the proxy serves it, and the wrapper counts it down, ...
EndRequest(c) ==
    /\ proc[HandlerOf(c)] = "serve"
    /\ active' = active - 1
    /\ sock' = Closed({c})
    /\ Goto(HandlerOf(c), "ended")
    /\ UNCHANGED <<kind, listener, gone, loopVars, stop, tableVars, halves, aborted, known>>

\* ... unless the service breaks off its answer: then the proxy panics, and
\* http.Server ends the request.
AbortRequest(c) ==
    /\ proc[HandlerOf(c)] = "serve"
    /\ aborted' = aborted \cup {c}
    /\ sock' = Closed({c})
    /\ Goto(HandlerOf(c), "ended")
    /\ UNCHANGED <<kind, listener, gone, loopVars, stop, tableVars, halves, active, known>>

\* Stop does nothing before Start has made the server, ...
StopUnstarted ==
    /\ stop = "none" /\ loop = "none"
    /\ stop' = "early"
    /\ UNCHANGED <<kind, netVars, loopVars, proc, tableVars, metricVars, known>>

\* ... and waits 15 s for the requests under way after that.
Shutdown ==
    /\ ~Stopping /\ loop # "none"
    /\ stop' = "waiting"
    /\ Unlisten({})
    /\ UNCHANGED <<kind, gone, loopVars, proc, tableVars, metricVars, known>>

EndShutdown ==
    /\ stop = "waiting"
    /\ \/ stop' = "done" /\ \A c \in Conns : proc[HandlerOf(c)] \in {"none", "ended"}
       \/ stop' = "late"
    /\ UNCHANGED <<kind, netVars, loopVars, proc, tableVars, metricVars, known>>

HttpHandling(c) == BeginRequest(c) \/ EndRequest(c) \/ AbortRequest(c)

HttpNext ==
    /\ kind = "http"
    /\ \/ StartHTTP \/ ListenAndServe \/ EndLoop
       \/ StopUnstarted \/ Shutdown \/ EndShutdown
       \/ \E c \in Conns : Accept(c, "accept") \/ HttpHandling(c)
=============================================================================
