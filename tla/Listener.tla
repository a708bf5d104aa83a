------------------------------ MODULE Listener ------------------------------
(***************************************************************************)
(* What the program's four listeners have in common: a socket that         *)
(* listens, a loop that accepts connections, a goroutine or two for each   *)
(* connection, and a table of connections that Stop goes through.          *)
(*                                                                         *)
(* The modules that extend this one say what each of them does:            *)
(* ServerTcp (the server's TCPTunnel), ClientTcp (the client's TCPTunnel)  *)
(* and ProtocolHandlers (TCPHandler, HTTPHandler and HTTPSHandler).        *)
(* Listeners puts them together.  An action is a critical section or a     *)
(* call that blocks; peers connect, send and hang up as they like.         *)
(***************************************************************************)
EXTENDS Integers, FiniteSets

CONSTANTS
    Conns,              \* the connections peers may make
    MaxConnections,     \* the limit of the client's TCPTunnel
    Kinds               \* the listeners looked at

ASSUME ListenerAssumption ==
    /\ IsFiniteSet(Conns)
    /\ MaxConnections \in Nat
    /\ Kinds \subseteq {"server", "client", "handler", "http", "callback"}

VARIABLES
    kind,       \* which listener this is
    listener,   \* the listening socket
    loop,       \* where the accept loop is
    taken,      \* connections it has accepted and not yet stored
    stop,       \* where Stop, or Close, is
    sock,       \* sock[c]: this end of the connection
    gone,       \* the connections whose peer has hung up
    proc,       \* proc[p]: where the goroutine p of a connection is
    table,      \* the keys of t.connections
    flagged,    \* the connections whose closed flag is set
    closing,    \* the connections Close has taken out of the table
    halves,     \* halves[c]: the copies that go on, "in" and "out"
    active,     \* metrics.activeConnections
    aborted,    \* requests whose handler ended in a panic
    known       \* the server still has the tunnel in its registry

netVars == <<listener, sock, gone>>
loopVars == <<loop, taken>>
tableVars == <<table, flagged, closing>>
metricVars == <<halves, active, aborted>>
vars == <<kind, netVars, loopVars, stop, proc, tableVars, metricVars, known>>

\* A connection has its handler; the client's also a call of HandleRemoteData.
Roles == {"handler", "remote"}
Procs == Conns \X Roles
HandlerOf(c) == <<c, "handler">>
RemoteOf(c) == <<c, "remote">>
ConnOf(p) == p[1]

Places == {"none", "begin", "check", "read", "send", "found", "write", "drop", "shut",
           "remove", "count", "dial", "copy", "close", "uncount", "serve", "ended"}

TypeOK ==
    /\ kind \in Kinds
    /\ listener \in {"none", "open", "closed"}
    /\ loop \in {"none", "listen", "check", "accept", "store", "ended"}
    /\ taken \subseteq Conns /\ (taken # {} <=> loop = "store")
    /\ stop \in {"none", "early", "closing", "signalled", "unlistened", "waiting", "done", "late"}
    /\ sock \in [Conns -> {"none", "queued", "open", "closed"}]
    /\ gone \subseteq Conns
    /\ proc \in [Procs -> Places]
    /\ table \subseteq Conns /\ flagged \subseteq Conns /\ closing \subseteq Conns
    /\ halves \in [Conns -> SUBSET {"in", "out"}]
    /\ active \in Nat /\ aborted \subseteq Conns
    /\ known \in BOOLEAN

Init ==
    /\ kind \in Kinds
    /\ listener = "none" /\ loop = "none" /\ taken = {} /\ stop = "none"
    /\ sock = [c \in Conns |-> "none"] /\ gone = {}
    /\ proc = [p \in Procs |-> "none"]
    /\ table = {} /\ flagged = {} /\ closing = {}
    /\ halves = [c \in Conns |-> {}]
    /\ active = 0 /\ aborted = {}
    /\ known = TRUE

Goto(p, s) == proc' = [proc EXCEPT ![p] = s]

\* "early": Stop has been called, and has found nothing to stop.
Stopping == stop \notin {"none", "early"}

\* What Read returns of: the peer's end, or this one's.
Ended(c) == c \in gone \/ sock[c] = "closed"

\* The sockets of S are closed.
Closed(S) == [c \in Conns |-> IF c \in S THEN "closed" ELSE sock[c]]

\* Faulty: the listener stays open.
Unlisten_Not(S) ==
    /\ UNCHANGED listener
    /\ sock' = Closed(S)

\* The listening socket is closed, if there is one, and with it what is still
\* in its queue.
Unlisten(S) ==
    /\ listener' = IF listener = "open" THEN "closed" ELSE listener
    /\ sock' = Closed(S \cup {c \in Conns : sock[c] = "queued"})

\* The accept loop ends when Accept says that the listener is closed.
EndLoop ==
    /\ loop = "accept" /\ listener = "closed"
    /\ loop' = "ended"
    /\ UNCHANGED <<kind, netVars, taken, stop, proc, tableVars, metricVars, known>>

\* Where the loop looks at stopCh, before it accepts.
CheckStop ==
    /\ loop = "check"
    /\ loop' = IF Stopping THEN "ended" ELSE "accept"
    /\ UNCHANGED <<kind, netVars, taken, stop, proc, tableVars, metricVars, known>>

\* A connection leaves the queue and is given to its handler.
Accept(c, next) ==
    /\ loop = "accept" /\ listener = "open" /\ sock[c] = "queued"
    /\ sock' = [sock EXCEPT ![c] = "open"]
    /\ Goto(HandlerOf(c), "begin")
    /\ loop' = next
    /\ UNCHANGED <<kind, listener, gone, taken, stop, tableVars, metricVars, known>>

\* The network: a peer connects, a peer hangs up.
Connect(c) ==
    /\ listener = "open" /\ sock[c] = "none"
    /\ sock' = [sock EXCEPT ![c] = "queued"]
    /\ UNCHANGED <<kind, listener, gone, loopVars, stop, proc, tableVars, metricVars, known>>

HangUp(c) ==
    /\ sock[c] \in {"queued", "open"} /\ c \notin gone
    /\ gone' = gone \cup {c}
    /\ UNCHANGED <<kind, listener, sock, loopVars, stop, proc, tableVars, metricVars, known>>
=============================================================================
