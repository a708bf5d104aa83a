-------------------------- MODULE WebSocketManager --------------------------
(***************************************************************************)
(* The server's WebSocket side: the read loop of every client connection   *)
(* (handleConnection), the registration of a connection for its tunnel,    *)
(* the forwarding of HTTP requests over it and the routing of the answers, *)
(* the removal of a tunnel by an admin or a sweep, and CloseAll.           *)
(*                                                                         *)
(* Two kinds of locks matter: m.mu, the manager's, and t.mu, one for each  *)
(* connection.  A critical section of m.mu is one action, except CloseAll's*)
(* two halves; t.mu is held over several actions by a handler or a read    *)
(* loop whose Send has not returned and by a read loop that cleans up (see *)
(* ConnLockFree).                                                          *)
(***************************************************************************)
EXTENDS Naturals, FiniteSets

CONSTANTS
    Conns,          \* WebSocket connections, each used once
    Tunnels,        \* tunnels created before
    Requests,       \* HTTP requests to the tunnels' subdomains
    ClientOf,       \* ClientOf[c]: the client_id connection c was opened with
    OwnerOf,        \* OwnerOf[t]: the ClientID of tunnel t
    Target,         \* Target[q]: the tunnel whose subdomain q names
    NoConn, NoTunnel, NoRequest

ASSUME NamesAssumption ==
    /\ NoConn \notin Conns /\ NoTunnel \notin Tunnels /\ NoRequest \notin Requests
    /\ Conns \cap Tunnels = {}
    /\ Target \in [Requests -> Tunnels]

VARIABLES
    live,       \* the keys of s.tunnels.tunnels
    entry,      \* entry[t]: m.tunnels[t], NoConn when absent
    waiting,    \* the keys of m.requests
    buf,        \* buf[q]: what the response channel of q (capacity 1) holds
    rpc,        \* rpc[q]: how far the handler of q has come
    via,        \* via[q]: the connection the handler of q looked up
    outcome,    \* outcome[q]: how q ended
    pc,         \* pc[c]: where the read loop of c is
    open,       \* connections over which bytes still travel
    closed,     \* connections whose t.closed is set
    want,       \* want[c]: the tunnel c is about to be entered for
    tunnelID,   \* tunnelID[c]: t.TunnelID
    inbox,      \* inbox[c]: answers on their way to the read loop of c
    hand,       \* hand[c]: the request whose answer c's read loop is routing
    asked,      \* history: requests the client has been sent
    answered,   \* history: requests the client has answered
    removing,   \* tunnels out of the registry and not yet unregistered here
    victim,     \* victim[x]: the connection x is about to close
    closer,     \* how far CloseAll has come
    toClose     \* the connections CloseAll collected

requestVars == <<rpc, via, outcome>>
channelVars == <<waiting, buf>>
loopVars == <<pc, hand, want, tunnelID>>
clientVars == <<inbox, asked, answered>>
removalVars == <<live, removing>>
closerVars == <<closer, toClose>>
vars == <<live, entry, waiting, buf, rpc, via, outcome, pc, open, closed, want, tunnelID,
          inbox, hand, asked, answered, removing, victim, closer, toClose>>

-----------------------------------------------------------------------------
RequestStages == {"new", "route", "body", "register", "lock", "sending", "wait", "leave", "done"}
Outcomes == {"none", "answered", "not_forwarded", "failed", "timeout", "cancelled"}
LoopStages == {"none", "reading", "enter", "reply", "replying", "deliver", "forget",
               "cleanup", "hangup", "ended"}

TypeOK ==
    /\ live \subseteq Tunnels /\ removing \subseteq Tunnels
    /\ entry \in [Tunnels -> Conns \cup {NoConn}]
    /\ waiting \subseteq Requests
    /\ buf \in [Requests -> {"empty", "response", "nil"}]
    /\ rpc \in [Requests -> RequestStages]
    /\ via \in [Requests -> Conns \cup {NoConn}]
    /\ outcome \in [Requests -> Outcomes]
    /\ \A q \in Requests :
           /\ rpc[q] \in {"body", "register", "lock", "sending", "wait"} => via[q] # NoConn
           /\ outcome[q] # "none" <=> rpc[q] \in {"leave", "done"}
    /\ pc \in [Conns -> LoopStages]
    /\ open \subseteq Conns /\ closed \subseteq Conns /\ toClose \subseteq Conns
    /\ want \in [Conns -> Tunnels \cup {NoTunnel}]
    /\ tunnelID \in [Conns -> Tunnels \cup {NoTunnel}]
    /\ inbox \in [Conns -> SUBSET Requests]
    /\ hand \in [Conns -> Requests \cup {NoRequest}]
    /\ \A c \in Conns :
           /\ pc[c] \in {"deliver", "forget"} <=> hand[c] # NoRequest
           /\ pc[c] = "enter" <=> want[c] # NoTunnel
           /\ pc[c] = "cleanup" => tunnelID[c] # NoTunnel
    /\ asked \subseteq Requests /\ answered \subseteq asked
    /\ victim \in [Conns \cup Tunnels -> Conns \cup {NoConn}]
    /\ closer \in {"idle", "cancelling", "closing", "done"}

Init ==
    /\ live = Tunnels
    /\ entry = [t \in Tunnels |-> NoConn]
    /\ waiting = {}
    /\ buf = [q \in Requests |-> "empty"]
    /\ rpc = [q \in Requests |-> "new"]
    /\ via = [q \in Requests |-> NoConn]
    /\ outcome = [q \in Requests |-> "none"]
    /\ pc = [c \in Conns |-> "none"]
    /\ open = {} /\ closed = {}
    /\ want = [c \in Conns |-> NoTunnel]
    /\ tunnelID = [c \in Conns |-> NoTunnel]
    /\ inbox = [c \in Conns |-> {}]
    /\ hand = [c \in Conns |-> NoRequest]
    /\ asked = {} /\ answered = {}
    /\ removing = {}
    /\ victim = [x \in Conns \cup Tunnels |-> NoConn]
    /\ closer = "idle" /\ toClose = {}

-----------------------------------------------------------------------------
(* The locks.                                                              *)

\* Faulty: CloseAll releases m.mu only when it returns.
ManagerLockFree_Deferred == closer \notin {"cancelling", "closing"}
\* m.mu, outside CloseAll.
ManagerLockFree == closer # "cancelling"

\* c's t.mu: held by the cleanup of its read loop and around a Send.
ConnLockFree(c) ==
    /\ pc[c] \notin {"replying", "cleanup", "hangup"}
    /\ \A q \in Requests : ~(rpc[q] = "sending" /\ via[q] = c)

-----------------------------------------------------------------------------
(* handleTunnelRequest and sendHTTPRequest, the handler of request q.      *)

\* The listeners take no request once Stop has come to CloseAll.  A request
\* is forwarded if the registry has its tunnel, and unless the scheme asks
\* for a redirect or the tunnel is a TCP one.
Lookup(q) ==
    /\ rpc[q] = "new" /\ closer = "idle"
    /\ \/ /\ Target[q] \in live
          /\ rpc' = [rpc EXCEPT ![q] = "route"]
          /\ UNCHANGED outcome
       \/ /\ rpc' = [rpc EXCEPT ![q] = "done"]
          /\ outcome' = [outcome EXCEPT ![q] = "not_forwarded"]
    /\ UNCHANGED <<via, channelVars, entry, loopVars, open, closed, clientVars,
                   removalVars, victim, closerVars>>

\* Faulty: does not look at the second result of GetWebSocketTunnel.
Pick_Unchecked(q) ==
    /\ rpc[q] = "route" /\ ManagerLockFree
    /\ via' = [via EXCEPT ![q] = entry[Target[q]]]
    /\ rpc' = [rpc EXCEPT ![q] = "body"]
    /\ UNCHANGED <<outcome, channelVars, entry, loopVars, open, closed, clientVars,
                   removalVars, victim, closerVars>>

\* GetWebSocketTunnel: the connection found is used without another look.
Pick(q) ==
    /\ rpc[q] = "route" /\ ManagerLockFree
    /\ IF entry[Target[q]] # NoConn
       THEN /\ via' = [via EXCEPT ![q] = entry[Target[q]]]
            /\ rpc' = [rpc EXCEPT ![q] = "body"]
            /\ UNCHANGED outcome
       ELSE /\ rpc' = [rpc EXCEPT ![q] = "done"]
            /\ outcome' = [outcome EXCEPT ![q] = "not_forwarded"]
            /\ UNCHANGED via
    /\ UNCHANGED <<channelVars, entry, loopVars, open, closed, clientVars,
                   removalVars, victim, closerVars>>

\* sendHTTPRequest reads the body, for as long as the HTTP user takes to send
\* it, and encodes the request; either may fail, with nothing registered yet.
ReadBody(q) ==
    /\ rpc[q] = "body"
    /\ \/ rpc' = [rpc EXCEPT ![q] = "register"] /\ UNCHANGED outcome
       \/ /\ rpc' = [rpc EXCEPT ![q] = "done"]
          /\ outcome' = [outcome EXCEPT ![q] = "failed"]
    /\ UNCHANGED <<via, channelVars, entry, loopVars, open, closed, clientVars,
                   removalVars, victim, closerVars>>

RegisterRequest(q) ==
    /\ rpc[q] = "register" /\ ManagerLockFree
    /\ waiting' = waiting \cup {q}
    /\ rpc' = [rpc EXCEPT ![q] = "lock"]
    /\ UNCHANGED <<buf, via, outcome, entry, loopVars, open, closed, clientVars,
                   removalVars, victim, closerVars>>

\* Leave the select, or give up before it, with outcome o.
End(q, o) ==
    /\ rpc' = [rpc EXCEPT ![q] = "leave"]
    /\ outcome' = [outcome EXCEPT ![q] = o]

\* t.mu.Lock() and the look at t.closed.
LockConn(q) ==
    /\ rpc[q] = "lock" /\ ConnLockFree(via[q])
    /\ IF via[q] \in closed
       THEN End(q, "failed")
       ELSE rpc' = [rpc EXCEPT ![q] = "sending"] /\ UNCHANGED outcome
    /\ UNCHANGED <<via, channelVars, entry, loopVars, open, closed, clientVars,
                   removalVars, victim, closerVars>>

\* websocket.JSON.Send returns and t.mu is released.
SendReturns(q) ==
    /\ rpc[q] = "sending"
    /\ \/ /\ via[q] \in open
          /\ asked' = asked \cup {q}
          /\ rpc' = [rpc EXCEPT ![q] = "wait"]
          /\ UNCHANGED outcome
       \/ End(q, "failed") /\ UNCHANGED asked
    /\ UNCHANGED <<via, channelVars, entry, loopVars, open, closed, inbox, answered,
                   removalVars, victim, closerVars>>

\* The select's first branch: the channel holds an answer, or nil.
TakeAnswer(q) ==
    /\ rpc[q] = "wait" /\ buf[q] # "empty"
    /\ buf' = [buf EXCEPT ![q] = "empty"]
    /\ End(q, IF buf[q] = "nil" THEN "cancelled" ELSE "answered")
    /\ UNCHANGED <<waiting, via, entry, loopVars, open, closed, clientVars,
                   removalVars, victim, closerVars>>

\* Faulty: waits for the channel only.
GiveUp_Never(q) == FALSE /\ UNCHANGED vars

\* The select's second branch, after 30 s; also when an answer is there too.
GiveUp(q) ==
    /\ rpc[q] = "wait"
    /\ End(q, "timeout")
    /\ UNCHANGED <<via, channelVars, entry, loopVars, open, closed, clientVars,
                   removalVars, victim, closerVars>>

\* Faulty: unregisters nothing.
Leave_KeepsChannel(q) ==
    /\ rpc[q] = "leave"
    /\ rpc' = [rpc EXCEPT ![q] = "done"]
    /\ UNCHANGED <<waiting, buf, via, outcome, entry, loopVars, open, closed, clientVars,
                   removalVars, victim, closerVars>>

\* The deferred UnregisterRequest, then the answer to the HTTP client.
Leave(q) ==
    /\ rpc[q] = "leave" /\ ManagerLockFree
    /\ waiting' = waiting \ {q}
    /\ rpc' = [rpc EXCEPT ![q] = "done"]
    /\ UNCHANGED <<buf, via, outcome, entry, loopVars, open, closed, clientVars,
                   removalVars, victim, closerVars>>

\* What the handler does of itself: all but the read of the body, which is up
\* to the HTTP user.
HandleRequest(q) ==
    \/ Pick(q) \/ RegisterRequest(q) \/ LockConn(q) \/ SendReturns(q)
    \/ TakeAnswer(q) \/ GiveUp(q) \/ Leave(q)
-----------------------------------------------------------------------------
(* handleConnection, the read loop of connection c.                        *)

\* handleWebSocket and handleWebSocketConnection, up to the welcome message.
Connect(c) ==
    /\ pc[c] = "none" /\ closer = "idle"
    /\ open' = open \cup {c}
    /\ pc' = [pc EXCEPT ![c] = "reading"]
    /\ UNCHANGED <<requestVars, channelVars, entry, closed, hand, want, tunnelID,
                   clientVars, removalVars, victim, closerVars>>

\* Faulty: takes the client's word for the tunnel.
MayRegister_AnyClient(c, t) == t \in live
MayRegister(c, t) == t \in live /\ ClientOf[c] = OwnerOf[t]

\* register_tunnel: the two checks; the registry's lock is released again.
\* A connection may register again, for the same tunnel or for another one.
CheckRegistration(c) ==
    /\ pc[c] = "reading" /\ c \in open
    /\ \E t \in Tunnels :
           IF MayRegister(c, t)
           THEN /\ want' = [want EXCEPT ![c] = t]
                /\ pc' = [pc EXCEPT ![c] = "enter"]
           ELSE pc' = [pc EXCEPT ![c] = "reply"] /\ UNCHANGED want
    /\ UNCHANGED <<requestVars, channelVars, entry, open, closed, hand, tunnelID,
                   clientVars, removalVars, victim, closerVars>>

\* RegisterWebSocketTunnel: an older connection of the tunnel is overwritten,
\* and left open; so is, with its entry, an older tunnel of the connection.
Enter(c) ==
    /\ pc[c] = "enter" /\ ManagerLockFree
    /\ tunnelID' = [tunnelID EXCEPT ![c] = want[c]]
    /\ entry' = [entry EXCEPT ![want[c]] = c]
    /\ want' = [want EXCEPT ![c] = NoTunnel]
    /\ pc' = [pc EXCEPT ![c] = "reply"]
    /\ UNCHANGED <<requestVars, channelVars, open, closed, hand, clientVars,
                   removalVars, victim, closerVars>>

\* A ping of the client is answered with a pong.
ReceivePing(c) ==
    /\ pc[c] = "reading" /\ c \in open
    /\ pc' = [pc EXCEPT ![c] = "reply"]
    /\ UNCHANGED <<requestVars, channelVars, entry, open, closed, hand, want, tunnelID,
                   clientVars, removalVars, victim, closerVars>>

\* sendMessage takes t.mu; it sends nothing on a connection closed meanwhile.
LockForReply(c) ==
    /\ pc[c] = "reply" /\ ConnLockFree(c)
    /\ pc' = [pc EXCEPT ![c] = IF c \in closed THEN "reading" ELSE "replying"]
    /\ UNCHANGED <<requestVars, channelVars, entry, open, closed, hand, want, tunnelID,
                   clientVars, removalVars, victim, closerVars>>

\* Its Send returns and t.mu is released; the read loop goes on either way.
Reply(c) ==
    /\ pc[c] = "replying"
    /\ pc' = [pc EXCEPT ![c] = "reading"]
    /\ UNCHANGED <<requestVars, channelVars, entry, open, closed, hand, want, tunnelID,
                   clientVars, removalVars, victim, closerVars>>

\* http_response: HandleResponse looks the channel up under the read lock.
ReceiveAnswer(c) ==
    /\ pc[c] = "reading" /\ c \in open /\ ManagerLockFree
    /\ \E q \in inbox[c] :
           /\ inbox' = [inbox EXCEPT ![c] = @ \ {q}]
           /\ IF q \in waiting
              THEN /\ hand' = [hand EXCEPT ![c] = q]
                   /\ pc' = [pc EXCEPT ![c] = "deliver"]
              ELSE UNCHANGED <<hand, pc>>
    /\ UNCHANGED <<requestVars, channelVars, entry, open, closed, want, tunnelID,
                   asked, answered, removalVars, victim, closerVars>>

\* Faulty: unregisters the request before it has sent the answer.
Deliver_Late(c) ==
    /\ pc[c] = "deliver" /\ ManagerLockFree
    /\ waiting' = waiting \ {hand[c]}
    /\ pc' = [pc EXCEPT ![c] = "forget"]
    /\ UNCHANGED <<requestVars, buf, entry, open, closed, hand, want, tunnelID,
                   clientVars, removalVars, victim, closerVars>>

\* ... then sends on it without the lock, and without blocking.
Deliver(c) ==
    /\ pc[c] = "deliver"
    /\ IF buf[hand[c]] = "empty"
       THEN /\ buf' = [buf EXCEPT ![hand[c]] = "response"]
            /\ pc' = [pc EXCEPT ![c] = "forget"]
            /\ UNCHANGED hand
       ELSE /\ pc' = [pc EXCEPT ![c] = "reading"]
            /\ hand' = [hand EXCEPT ![c] = NoRequest]
            /\ UNCHANGED buf
    /\ UNCHANGED <<requestVars, waiting, entry, open, closed, want, tunnelID,
                   clientVars, removalVars, victim, closerVars>>

\* ... and unregisters the request if that worked.
Forget(c) ==
    /\ pc[c] = "forget" /\ ManagerLockFree
    /\ waiting' = waiting \ {hand[c]}
    /\ pc' = [pc EXCEPT ![c] = "reading"]
    /\ hand' = [hand EXCEPT ![c] = NoRequest]
    /\ UNCHANGED <<requestVars, buf, entry, open, closed, want, tunnelID,
                   clientVars, removalVars, victim, closerVars>>

\* The loop ends and takes t.mu for the cleanup.  When handleConnection returns
\* the websocket library closes the connection.
StopReading(c) ==
    /\ pc[c] = "reading" /\ ConnLockFree(c)
    /\ closed' = closed \cup {c}
    /\ IF c \in closed \/ tunnelID[c] = NoTunnel
       THEN pc' = [pc EXCEPT ![c] = "ended"] /\ open' = open \ {c}
       ELSE pc' = [pc EXCEPT ![c] = "cleanup"] /\ UNCHANGED open
    /\ UNCHANGED <<requestVars, channelVars, entry, hand, want, tunnelID,
                   clientVars, removalVars, victim, closerVars>>

\* Receive fails because the connection is gone ...
EndLoop(c) == c \notin open /\ StopReading(c)

\* ... or because what has arrived over it is no JSON.
ReceiveGarbage(c) == c \in open /\ StopReading(c)

\* UnregisterWebSocketTunnel(t), called by x: the entry is deleted whichever
\* connection it names, and that connection is closed after the unlock.
Unregister(x, t) ==
    /\ ManagerLockFree
    /\ victim' = [victim EXCEPT ![x] = entry[t]]
    /\ entry' = [entry EXCEPT ![t] = NoConn]

\* Faulty: leaves the entry in the manager.
CleanUp_KeepsEntry(c) ==
    /\ pc[c] = "cleanup"
    /\ pc' = [pc EXCEPT ![c] = "hangup"]
    /\ UNCHANGED <<requestVars, channelVars, entry, open, closed, hand, want, tunnelID,
                   clientVars, removalVars, victim, closerVars>>

CleanUp(c) ==
    /\ pc[c] = "cleanup"
    /\ Unregister(c, tunnelID[c])
    /\ pc' = [pc EXCEPT ![c] = "hangup"]
    /\ UNCHANGED <<requestVars, channelVars, open, closed, hand, want, tunnelID,
                   clientVars, removalVars, closerVars>>

\* wsTunnel.Conn.Close() on the deleted entry, t.mu is released, and with the
\* return c's own connection is closed.
HangUp(c) ==
    /\ pc[c] = "hangup"
    /\ open' = open \ {c, victim[c]}
    /\ victim' = [victim EXCEPT ![c] = NoConn]
    /\ pc' = [pc EXCEPT ![c] = "ended"]
    /\ UNCHANGED <<requestVars, channelVars, entry, closed, hand, want, tunnelID,
                   clientVars, removalVars, closerVars>>

\* What the read loop does of itself, with no message to read.
LoopStep(c) ==
    \/ Enter(c) \/ LockForReply(c) \/ Reply(c) \/ Deliver(c) \/ Forget(c)
    \/ EndLoop(c) \/ CleanUp(c) \/ HangUp(c)

-----------------------------------------------------------------------------
(* The client and the network.                                             *)

\* The client answers a request it was sent, over any connection of its own.
Answer(q, c) ==
    /\ q \in asked \ answered
    /\ c \in open /\ ClientOf[c] = ClientOf[via[q]]
    /\ answered' = answered \cup {q}
    /\ inbox' = [inbox EXCEPT ![c] = @ \cup {q}]
    /\ UNCHANGED <<requestVars, channelVars, entry, loopVars, open, closed, asked,
                   removalVars, victim, closerVars>>

\* The connection breaks, or the client closes it.
Break(c) ==
    /\ c \in open
    /\ open' = open \ {c}
    /\ inbox' = [inbox EXCEPT ![c] = {}]
    /\ UNCHANGED <<requestVars, channelVars, entry, loopVars, closed, asked, answered,
                   removalVars, victim, closerVars>>

-----------------------------------------------------------------------------
(* Removal of a tunnel, and CloseAll.                                      *)

\* KillTunnel or a sweep: out of the registry first ...
Remove(t) ==
    /\ t \in live
    /\ live' = live \ {t}
    /\ removing' = removing \cup {t}
    /\ UNCHANGED <<requestVars, channelVars, entry, loopVars, open, closed,
                   clientVars, victim, closerVars>>

\* ... then out of the manager ...
UnregisterRemoved(t) ==
    /\ t \in removing
    /\ Unregister(t, t)
    /\ removing' = removing \ {t}
    /\ UNCHANGED <<requestVars, channelVars, loopVars, open, closed, clientVars,
                   live, closerVars>>

\* ... and the connection found there is closed.
HangUpRemoved(t) ==
    /\ victim[t] # NoConn
    /\ open' = open \ {victim[t]}
    /\ victim' = [victim EXCEPT ![t] = NoConn]
    /\ UNCHANGED <<requestVars, channelVars, entry, loopVars, closed, clientVars,
                   removalVars, closerVars>>

\* CloseAll, first half of its critical section: the entries are collected
\* and the map is replaced.
Collect ==
    /\ closer = "idle"
    /\ toClose' = {c \in Conns : \E t \in Tunnels : entry[t] = c}
    /\ entry' = [t \in Tunnels |-> NoConn]
    /\ closer' = "cancelling"
    /\ UNCHANGED <<requestVars, channelVars, loopVars, open, closed, clientVars,
                   removalVars, victim>>

\* Second half: nil for every request that has no answer yet.
CancelAll ==
    /\ closer = "cancelling"
    /\ buf' = [q \in Requests |->
                  IF q \in waiting /\ buf[q] = "empty" THEN "nil" ELSE buf[q]]
    /\ waiting' = {}
    /\ closer' = "closing"
    /\ UNCHANGED <<requestVars, entry, loopVars, open, closed, clientVars,
                   removalVars, victim, toClose>>

\* tunnel.Close() takes t.mu; outside m.mu.
CloseConn(c) ==
    /\ closer = "closing" /\ c \in toClose
    /\ ConnLockFree(c)
    /\ toClose' = toClose \ {c}
    /\ closed' = closed \cup {c}
    /\ open' = IF c \in closed THEN open ELSE open \ {c}
    /\ UNCHANGED <<requestVars, channelVars, entry, loopVars, clientVars,
                   removalVars, victim, closer>>

CloseAllReturns ==
    /\ closer = "closing" /\ toClose = {}
    /\ closer' = "done"
    /\ UNCHANGED <<requestVars, channelVars, entry, loopVars, open, closed, clientVars,
                   removalVars, victim, toClose>>

CloseAllStep == CancelAll \/ (\E c \in Conns : CloseConn(c)) \/ CloseAllReturns

-----------------------------------------------------------------------------
Next ==
    \/ \E q \in Requests : Lookup(q) \/ ReadBody(q) \/ HandleRequest(q)
    \/ \E c \in Conns : Connect(c) \/ CheckRegistration(c) \/ ReceivePing(c)
                          \/ ReceiveGarbage(c) \/ ReceiveAnswer(c) \/ LoopStep(c) \/ Break(c)
    \/ \E q \in Requests, c \in Conns : Answer(q, c)
    \/ \E t \in Tunnels : Remove(t) \/ UnregisterRemoved(t) \/ HangUpRemoved(t)
    \/ Collect
    \/ CloseAllStep

Spec == Init /\ [][Next]_vars

\* A goroutine that can run runs on; Send returns, for the peer reads or the
\* transport gives it up.  Nothing is asked of the client, nor of the HTTP
\* user, who may never send the rest of a body: ReadBody has no fairness.  A
\* read loop that answers ping after ping releases t.mu in between, and then a
\* goroutine that waits gets it, since a sync.Mutex is handed to one that has
\* waited for a millisecond: strong fairness for those that compete with it.
Fairness ==
    /\ \A q \in Requests : SF_vars(HandleRequest(q))
    /\ \A c \in Conns : WF_vars(LoopStep(c))
    /\ \A t \in Tunnels : WF_vars(UnregisterRemoved(t) \/ HangUpRemoved(t))
    /\ SF_vars(CloseAllStep)

FairSpec == Spec /\ Fairness

-----------------------------------------------------------------------------
(* Properties.                                                             *)

\* A request travels only over a connection of the tunnel's own client, the
\* one that passed the check of handleRegisterTunnel, however connections,
\* removals and requests interleave.
TrafficStaysWithOwner ==
    \A q \in Requests : via[q] # NoConn => ClientOf[via[q]] = OwnerOf[Target[q]]

\* Until the shutdown, a connection the manager names for the tunnel it is
\* registered for is one somebody reads: its clean-up, a removal and another
\* registration never leave a dead one to route requests to, where they would
\* fail or wait for nothing.  What the code does leave, and this says nothing
\* of, is the entry of a tunnel whose connection has since registered for
\* another one: the clean-up takes only the last.
EntryHasReader ==
    closer = "idle" =>
        \A t \in Tunnels : LET c == entry[t] IN
            c # NoConn /\ tunnelID[c] = t => pc[c] \notin {"none", "hangup", "ended"}

\* A tunnel that is served is taken from its connection by the shutdown, by the
\* removal of that tunnel, or by a read loop of its own client, one that
\* registers for it or cleans up; a late clean-up of another client's, or one
\* for another tunnel, does not reach it.
EvictedByOwner ==
    \A t \in Tunnels : entry[t] # NoConn /\ entry'[t] # entry[t] =>
        \/ closer # closer'
        \/ t \in removing /\ t \notin removing'
        \/ \E c \in Conns : /\ ClientOf[c] = OwnerOf[t]
                           /\ \/ pc[c] = "enter" /\ want[c] = t
                              \/ pc[c] = "cleanup" /\ tunnelID[c] = t
                           /\ pc'[c] # pc[c]
OnlyOwnerEvicts == [][EvictedByOwner]_vars

\* m.requests holds no request whose handler is gone.
TableHasHandlers ==
    \A q \in waiting : rpc[q] \in {"lock", "sending", "wait", "leave"}

\* Nobody takes the channel of a waiting handler out of the table, or fills
\* it, without leaving something in it for the handler: neither the router,
\* nor CloseAll's replacement of the table, nor a late answer to another
\* request.  It is not a promise of an answer: a handler that registers its
\* request when CloseAll has been through the table waits for its timeout.
NoForgottenHandler ==
    \A q \in Requests : rpc[q] \in {"lock", "sending", "wait"} =>
        q \in waiting \/ buf[q] # "empty"

\* The handlers, the router, the timeout and CloseAll together keep the
\* promise of RequestForwarding: a request received whole comes to an end.
Stage(q) ==
    IF rpc[q] = "new" THEN "absent"
    ELSE IF rpc[q] \in {"route", "body"} THEN "arriving"
    ELSE IF rpc[q] = "done" THEN outcome[q]
    ELSE "pending"
Forwarding == INSTANCE RequestForwarding
                  WITH stage <- [q \in Requests |-> Stage(q)], stopping <- closer # "idle"
KeepsPromise == Forwarding!FairSpec

\* "Close tunnels outside the lock to avoid ABBA deadlock": CloseAll and the
\* cleanup of a read loop take the two locks in opposite orders, and both
\* come to an end.
ShutdownEnds == closer # "idle" ~> closer = "done"
BrokenConnectionCleanedUp ==
    \A c \in Conns : pc[c] # "none" /\ c \notin open ~> pc[c] = "ended"

(* What the documentation says and the code does not keep.                 *)

\* site/docs/index.md: "Keep the tunnel alive with automatic reconnection":
\* the connection a tunnel is served by is taken out by the end of that very
\* connection, by the removal of the tunnel or by the shutdown.
StaysServed ==
    \A t \in Tunnels, c \in Conns : entry[t] = c /\ entry'[t] = NoConn =>
        pc[c] = "cleanup" \/ t \notin live \/ closer # closer'
ReconnectedStaysServed == [][StaysServed]_vars

=============================================================================
