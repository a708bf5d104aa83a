---------------------------- MODULE ClientTunnel ----------------------------
(***************************************************************************)
(* The client's side of one tunnel: StartTunnel and Start, which connect   *)
(* and register, the goroutine that reads the messages of the server       *)
(* (handleMessages) and reconnects when it cannot, the monitors            *)
(* (handleWebSocketErrors), which reconnect as well, the proxy of a TCP    *)
(* tunnel, and Stop.  The heartbeats send and change nothing.  Start is    *)
(* called by StartTunnel, which repeats it and exits with the program when *)
(* it fails, or by the TunnelManager, which does neither.                  *)
(*                                                                         *)
(* All of them work on the fields of one Tunnel.  One action is a critical *)
(* section of t.mu, or a blocking call, with the unlocked reads of running *)
(* and registered as steps of their own.                                   *)
(***************************************************************************)
EXTENDS Naturals

CONSTANTS
    MaxConns,       \* bound: the WebSocket connections that may be dialled
    MaxTries,       \* maxRetries of Start and StartTunnel
    MaxRetries      \* maxRetries of handleWebSocketErrors

ASSUME BoundsAssumption ==
    MaxConns \in Nat \ {0} /\ MaxTries \in Nat \ {0} /\ MaxRetries \in Nat \ {0}

\* Connections are numbered in the order they are dialled in.
Conns == 1..MaxConns
NoConn == 0

\* A goroutine and the connection whose dialling started it.  A reader is
\* named for whoever registered the tunnel, and keeps its name when the
\* goroutine that reconnects starts handleMessages again.
Main == <<"main", NoConn>>
Monitor(c) == <<"monitor", c>>
Monitors == {Monitor(c) : c \in Conns}
Readers == {<<"reader", x>> : x \in Conns \cup {NoConn}}
\* ConnOf is the connection of a monitor.
ConnOf(p) == p[2]
ReaderOf(p) == <<"reader", ConnOf(p)>>
Procs == {Main} \cup Monitors \cup Readers

VARIABLES
    running,        \* t.running
    registered,     \* t.registered
    stopped,        \* t.stopCh is closed
    managed,        \* Start is called by the TunnelManager, not StartTunnel
    proxy,          \* t.tcpTunnel, which StartProxy makes and OpenProxy starts
    wsConn,         \* t.wsConn, NoConn for nil
    conn,           \* conn[c]: the state of connection c; "served" once the
                    \* server has registered the tunnel for it
    pc,             \* pc[p]: where goroutine p is
    at,             \* at[p]: the connection p has dialled or reads from
    tries,          \* attempts of the loop Start is in
    starts,         \* calls of Start by StartTunnel
    retries         \* retries[c]: retryCount of the monitor of c

flagVars == <<running, registered, stopped, managed, proxy>>
countVars == <<tries, starts, retries>>
vars == <<flagVars, wsConn, conn, pc, at, countVars>>

ConnStates == {"unused", "open", "served", "dead"}
Stages == {"none", "start", "dial", "store", "check", "listen", "greet", "ask",
           "await", "confirm", "proxy", "open", "wait", "stop", "watch", "probe", "backoff",
           "drop", "top", "read", "serve", "lost", "resume", "ended"}
\* "http": an HTTP tunnel has none.  The proxy of a TCP tunnel is not there,
\* made, or open: its goroutine accepts connections.  One that is made when
\* stopCh is closed already is "late", and an "orphan" once it is open.
Proxies == {"http", "none", "made", "open", "late", "orphan"}

TypeOK ==
    /\ running \in BOOLEAN /\ registered \in BOOLEAN /\ stopped \in BOOLEAN
    /\ managed \in BOOLEAN /\ proxy \in Proxies
    /\ wsConn \in Conns \cup {NoConn}
    /\ conn \in [Conns -> ConnStates]
    /\ pc \in [Procs -> Stages]
    /\ at \in [Procs -> Conns \cup {NoConn}]
    /\ \A p \in Procs : pc[p] \in {"store", "greet", "confirm", "read"} <=> at[p] # NoConn
    /\ tries \in 0..(MaxTries - 1) /\ starts \in 0..MaxTries
    /\ retries \in [Conns -> 0..MaxRetries]

Init ==
    /\ running = FALSE /\ registered = FALSE /\ stopped = FALSE
    /\ managed \in BOOLEAN /\ proxy \in {"http", "none"}
    /\ wsConn = NoConn
    /\ conn = [c \in Conns |-> "unused"]
    /\ pc = [p \in Procs |-> IF p = Main THEN "start" ELSE "none"]
    /\ at = [p \in Procs |-> NoConn]
    /\ tries = 0 /\ starts = 0
    /\ retries = [c \in Conns |-> 0]

\* p goes on at s, holding no connection, or holding c.
Goto(p, s) == pc' = [pc EXCEPT ![p] = s] /\ at' = [at EXCEPT ![p] = NoConn]
GotoWith(p, s, c) == pc' = [pc EXCEPT ![p] = s] /\ at' = [at EXCEPT ![p] = c]

\* t.wsConn.Close(), whichever connection it is by now, and t.wsConn = nil.
CloseCurrent ==
    /\ conn' = [c \in Conns |-> IF c = wsConn THEN "dead" ELSE conn[c]]
    /\ wsConn' = NoConn

\* Connection c has not failed, and nobody has closed it.
Live(c) == conn[c] \in {"open", "served"}

\* What is sent on t.wsConn goes out.
Sendable == wsConn # NoConn /\ Live(wsConn)

-----------------------------------------------------------------------------
(* StartTunnel, or the TunnelManager's startTunnel, and Start.             *)

\* Start marks the tunnel as running before it connects.
BeginStart ==
    /\ pc[Main] = "start"
    /\ ~running
    /\ running' = TRUE
    /\ tries' = 0 /\ starts' = starts + 1
    /\ Goto(Main, "dial")
    /\ UNCHANGED <<registered, stopped, managed, proxy, wsConn, conn, retries>>

\* Start returns an error.  It closes no connection and ends no goroutine that
\* was started meanwhile: StartTunnel may call it again over them, and exits
\* with all of them after the last error; the manager's goroutine returns.
StartFails ==
    /\ running' = FALSE
    /\ \/ /\ ~managed /\ starts = MaxTries
          /\ pc' = [p \in Procs |-> IF pc[p] = "none" THEN "none" ELSE "ended"]
          /\ at' = [p \in Procs |-> NoConn]
          /\ conn' = [c \in Conns |-> IF conn[c] = "unused" THEN "unused" ELSE "dead"]
          /\ wsConn' = NoConn
       \/ /\ managed \/ starts < MaxTries
          /\ Goto(Main, IF managed THEN "ended" ELSE "start")
          /\ UNCHANGED <<wsConn, conn>>
    /\ UNCHANGED <<registered, stopped, managed, proxy, countVars>>

\* Faulty: makes one attempt too many.
TryFails_OneMore(again) ==
    \/ /\ tries < MaxTries
       /\ tries' = tries + 1
       /\ Goto(Main, again)
       /\ UNCHANGED <<flagVars, wsConn, conn, starts, retries>>
    \/ (tries = MaxTries \/ stopped) /\ StartFails

\* An attempt of one of Start's two loops has failed: it waits and tries
\* again, or returns for it was the last or the tunnel was stopped meanwhile.
TryFails(again) ==
    \/ /\ tries + 1 < MaxTries
       /\ tries' = tries + 1
       /\ Goto(Main, again)
       /\ UNCHANGED <<flagVars, wsConn, conn, starts, retries>>
    \/ (tries + 1 = MaxTries \/ stopped) /\ StartFails

\* The proxy of an HTTP tunnel is for debugging.  That of a TCP tunnel is
\* stored in t.tcpTunnel, without a look at stopCh, ...
StartProxy ==
    /\ pc[Main] = "proxy"
    /\ IF proxy = "http"
       THEN /\ Goto(Main, "wait")
            /\ UNCHANGED proxy
       ELSE /\ Goto(Main, "open")
            /\ proxy' = IF stopped THEN "late" ELSE "made"
    /\ UNCHANGED <<running, registered, stopped, managed, wsConn, conn, countVars>>

\* ... and started: a goroutine accepts until this proxy is stopped.  It fails
\* when the port is taken, and does when Stop has been to it before.
OpenProxy ==
    /\ pc[Main] = "open"
    /\ \/ /\ proxy # "none"
          /\ proxy' = IF proxy = "made" THEN "open" ELSE "orphan"
          /\ Goto(Main, "wait")
          /\ UNCHANGED <<running, registered, stopped, managed, wsConn, conn, countVars>>
       \/ StartFails

\* StartTunnel waits for a signal of the user, startTunnel for the removal of
\* the tunnel, and both for stopCh.
EndWait ==
    /\ pc[Main] = "wait"
    /\ Goto(Main, "stop")
    /\ UNCHANGED <<flagVars, wsConn, conn, countVars>>

\* What Stop does, one critical section, to a tunnel that it acts on.
StopTunnel ==
    /\ stopped' = TRUE /\ running' = FALSE /\ registered' = FALSE
    /\ proxy' = IF proxy \in {"made", "open"} THEN "none" ELSE proxy
    /\ CloseCurrent
    /\ UNCHANGED managed

\* Faulty: looks at stopCh only.
Stop_NotRunning(p) ==
    /\ pc[p] = "stop"
    /\ Goto(p, "ended")
    /\ \/ ~stopped /\ StopTunnel
       \/ stopped /\ UNCHANGED <<flagVars, wsConn, conn>>
    /\ UNCHANGED countVars

\* Called by who has started the tunnel, or for a monitor that has used up its
\* retries.
Stop(p) ==
    /\ pc[p] = "stop"
    /\ Goto(p, "ended")
    /\ \/ running /\ ~stopped /\ StopTunnel
       \/ (~running \/ stopped) /\ UNCHANGED <<flagVars, wsConn, conn>>
    /\ UNCHANGED countVars

\* The manager's callers and its routines call Stop at any moment.
StopByManager ==
    /\ managed /\ running /\ ~stopped
    /\ StopTunnel
    /\ UNCHANGED <<pc, at, countVars>>

-----------------------------------------------------------------------------
(* connectWebSocket, called by StartTunnel, a monitor or a reader p.       *)

\* A monitor that has failed looks again after its next sleep.
RetryLater(p) ==
    /\ retries' = [retries EXCEPT ![ConnOf(p)] = @ + 1]
    /\ Goto(p, "watch")

\* What becomes of p when it could not connect or register: Start tries
\* again, a monitor counts, a reader is not restarted.
Fails(p, again) ==
    \/ p = Main /\ TryFails(again)
    \/ /\ p \in Monitors
       /\ RetryLater(p)
       /\ UNCHANGED <<flagVars, wsConn, conn, tries, starts>>
    \/ /\ p \in Readers
       /\ Goto(p, "ended")
       /\ UNCHANGED <<flagVars, wsConn, conn, countVars>>

\* All the addresses it tries stand for one attempt.
Dial(p) ==
    /\ pc[p] = "dial"
    /\ \/ \E c \in Conns :
              /\ conn[c] = "unused" /\ \A d \in 1..(c - 1) : conn[d] # "unused"
              /\ conn' = [conn EXCEPT ![c] = "open"]
              /\ GotoWith(p, "store", c)
              /\ UNCHANGED <<flagVars, wsConn, countVars>>
       \/ Fails(p, "dial")

\* Faulty: starts no monitor for a connection made after a failure.
Store_Unwatched(p) ==
    /\ pc[p] = "store"
    /\ wsConn' = at[p]
    /\ pc' = IF p = Main
             THEN [pc EXCEPT ![p] = "check", ![Monitor(at[p])] = "watch"]
             ELSE [pc EXCEPT ![p] = "check"]
    /\ at' = [at EXCEPT ![p] = NoConn]
    /\ tries' = IF p = Main THEN 0 ELSE tries
    /\ retries' = IF p \in Monitors THEN [retries EXCEPT ![ConnOf(p)] = 0] ELSE retries
    /\ UNCHANGED <<flagVars, conn, starts>>

\* The new connection takes the place of the one stored before, which is not
\* closed, and gets a monitor of its own.
Store(p) ==
    /\ pc[p] = "store"
    /\ wsConn' = at[p]
    /\ pc' = [pc EXCEPT ![p] = "check", ![Monitor(at[p])] = "watch"]
    /\ at' = [at EXCEPT ![p] = NoConn]
    /\ tries' = IF p = Main THEN 0 ELSE tries
    /\ retries' = IF p \in Monitors THEN [retries EXCEPT ![ConnOf(p)] = 0] ELSE retries
    /\ UNCHANGED <<flagVars, conn, starts>>

-----------------------------------------------------------------------------
(* registerTunnel, called by the same.                                     *)

\* Where p goes on once registerTunnel has returned nil.
Resume(p) == IF p = Main THEN "proxy" ELSE IF p \in Monitors THEN "watch" ELSE "top"

\* t.registered is read without the lock, and survives a reconnection.
Check(p) ==
    /\ pc[p] = "check"
    /\ Goto(p, IF registered THEN Resume(p) ELSE "listen")
    /\ UNCHANGED <<flagVars, wsConn, conn, countVars>>

\* The goroutine that waits for the next message takes the connection that is
\* stored now.
Listen(p) ==
    /\ pc[p] \in {"listen", "await"}
    /\ IF wsConn = NoConn
       THEN Fails(p, "check")
       ELSE /\ GotoWith(p, IF pc[p] = "listen" THEN "greet" ELSE "confirm", wsConn)
            /\ UNCHANGED <<flagVars, wsConn, conn, countVars>>

\* The welcome message arrives, or another, or an error, or 30 s have passed.
Greet(p) ==
    /\ pc[p] = "greet"
    /\ \/ /\ Live(at[p])
          /\ Goto(p, "ask")
          /\ UNCHANGED <<flagVars, wsConn, conn, countVars>>
       \/ Fails(p, "check")

\* register_tunnel goes out on the connection stored by now; the server may
\* refuse it.
Ask(p) ==
    /\ pc[p] = "ask"
    /\ \/ /\ Sendable
          /\ \E state \in {conn[wsConn], "served"} : conn' = [conn EXCEPT ![wsConn] = state]
          /\ Goto(p, "await")
          /\ UNCHANGED <<flagVars, wsConn, countVars>>
       \/ Fails(p, "check")

\* The answer arrives, and handleMessages is started; it returns at once if
\* the tunnel has been stopped.
Confirm(p) ==
    /\ pc[p] = "confirm"
    /\ \/ /\ conn[at[p]] = "served"
          /\ registered' = TRUE
          /\ pc' = [q \in Procs |-> IF q = p THEN Resume(p)
                                    ELSE IF q = ReaderOf(p) /\ ~stopped THEN "top"
                                    ELSE pc[q]]
          /\ at' = [at EXCEPT ![p] = NoConn]
          /\ UNCHANGED <<running, stopped, managed, proxy, wsConn, conn, countVars>>
       \/ Fails(p, "check")

-----------------------------------------------------------------------------
(* handleMessages, the reader p.                                           *)

\* Faulty: does not look at stopCh.
TakeConn_Unstoppable(p) ==
    /\ pc[p] = "top"
    /\ IF wsConn = NoConn
       THEN Goto(p, "ended")
       ELSE GotoWith(p, "read", wsConn)
    /\ UNCHANGED <<flagVars, wsConn, conn, countVars>>

\* The top of the loop: a reader that finds no connection ends for good.
TakeConn(p) ==
    /\ pc[p] = "top"
    /\ IF stopped \/ wsConn = NoConn
       THEN Goto(p, "ended")
       ELSE GotoWith(p, "read", wsConn)
    /\ UNCHANGED <<flagVars, wsConn, conn, countVars>>

\* A ping or an HTTP request arrives; or nothing does for two minutes, or the
\* connection has failed.
Read(p) ==
    /\ pc[p] = "read"
    /\ \/ Live(at[p]) /\ (Goto(p, "top") \/ Goto(p, "serve"))
       \/ Goto(p, "lost")
    /\ UNCHANGED <<flagVars, wsConn, conn, countVars>>

\* The local service has answered: the response goes out on t.wsConn, read
\* without the lock.  When it is nil the goroutine panics and recovers.
Serve(p) ==
    /\ pc[p] = "serve"
    /\ Goto(p, IF wsConn = NoConn THEN "lost" ELSE "top")
    /\ UNCHANGED <<flagVars, wsConn, conn, countVars>>

\* The clean-up after a failed Receive or a panic.
Lose(p) ==
    /\ pc[p] = "lost"
    /\ CloseCurrent
    /\ Goto(p, "resume")
    /\ UNCHANGED <<flagVars, countVars>>

\* t.running is read without the lock; then a goroutine reconnects.
TryAgain(p) ==
    /\ pc[p] = "resume"
    /\ Goto(p, IF running THEN "dial" ELSE "ended")
    /\ UNCHANGED <<flagVars, wsConn, conn, countVars>>

-----------------------------------------------------------------------------
(* handleWebSocketErrors, the monitor p.                                   *)

Watch(p) ==
    /\ pc[p] = "watch"
    /\ Goto(p, IF stopped \/ wsConn = NoConn THEN "ended" ELSE "probe")
    /\ UNCHANGED <<flagVars, wsConn, conn, countVars>>

\* Faulty: leaves a connection that has failed to its reader.
Probe_Trusting(p) ==
    /\ pc[p] = "probe"
    /\ Goto(p, IF wsConn # NoConn /\ Sendable THEN "watch" ELSE "ended")
    /\ UNCHANGED <<flagVars, wsConn, conn, countVars>>

\* After 45 s a message is sent on the connection stored by then.  t.running
\* is read without the lock before the Stop of a monitor that gives up.
Probe(p) ==
    /\ pc[p] = "probe"
    /\ Goto(p, IF wsConn = NoConn THEN "ended"
               ELSE IF Sendable THEN "watch"
               ELSE IF retries[ConnOf(p)] < MaxRetries THEN "backoff"
               ELSE IF running THEN "stop" ELSE "ended")
    /\ retries' = IF Sendable THEN [retries EXCEPT ![ConnOf(p)] = 0] ELSE retries
    /\ UNCHANGED <<flagVars, wsConn, conn, tries, starts>>

\* The delay is over, or stopCh is closed.
BackOff(p) ==
    /\ pc[p] = "backoff"
    /\ Goto(p, "drop") \/ (stopped /\ Goto(p, "ended"))
    /\ UNCHANGED <<flagVars, wsConn, conn, countVars>>

Drop(p) ==
    /\ pc[p] = "drop"
    /\ CloseCurrent
    /\ Goto(p, "dial")
    /\ UNCHANGED <<flagVars, countVars>>

-----------------------------------------------------------------------------
\* A connection fails, or the server closes it.
Break(c) ==
    /\ Live(c)
    /\ conn' = [conn EXCEPT ![c] = "dead"]
    /\ UNCHANGED <<flagVars, wsConn, pc, at, countVars>>

Connect(p) == Dial(p) \/ Store(p)
Register(p) == Check(p) \/ Listen(p) \/ Greet(p) \/ Ask(p) \/ Confirm(p)
MainStep ==
    \/ BeginStart \/ Connect(Main) \/ Register(Main)
    \/ StartProxy \/ OpenProxy \/ Stop(Main)
ReaderStep(p) ==
    \/ TakeConn(p) \/ Read(p) \/ Serve(p) \/ Lose(p) \/ TryAgain(p)
    \/ Connect(p) \/ Register(p)
MonitorStep(p) ==
    \/ Watch(p) \/ Probe(p) \/ BackOff(p) \/ Drop(p) \/ Stop(p)
    \/ Connect(p) \/ Register(p)

Next ==
    \/ MainStep \/ EndWait \/ StopByManager
    \/ \E p \in Readers : ReaderStep(p)
    \/ \E p \in Monitors : MonitorStep(p)
    \/ \E c \in Conns : Break(c)

Spec == Init /\ [][Next]_vars

\* Goroutines run on, calls return: every Receive has a deadline or a server
\* that pings, every dial and every timer ends.  Nobody need stop the tunnel.
Fairness ==
    /\ WF_vars(MainStep)
    /\ WF_vars(stopped /\ EndWait)
    /\ \A p \in Readers : WF_vars(ReaderStep(p))
    /\ \A p \in Monitors : WF_vars(MonitorStep(p))

FairSpec == Spec /\ Fairness

-----------------------------------------------------------------------------
(* Properties.                                                             *)

\* However the readers and the monitors race to replace it, the connection of
\* a started tunnel has the monitor that was started with it, or is about to
\* be given up with the tunnel: its failure will be noticed.
InUseIsWatched ==
    pc[Main] = "wait" /\ ~stopped /\ wsConn # NoConn =>
        pc[Monitor(wsConn)] \notin {"none", "ended"}

\* A failed connection does not stay the tunnel's connection.
DeadConnectionDropped ==
    \A c \in Conns : wsConn = c /\ conn[c] = "dead" /\ ~stopped ~> wsConn # c \/ stopped

\* Once Stop has closed stopCh every goroutine of the tunnel comes to its end,
\* also one that was reconnecting and connects after that, and so does the
\* proxy that Stop came upon, open or about to be.  It does not hold of a proxy
\* that Start makes after Stop: that one is an orphan and accepts for good.
StopEndsGoroutines ==
    stopped ~> proxy # "open" /\ \A p \in Procs : pc[p] \in {"none", "ended"}

\* A goroutine of the tunnel, or a connection, is still there.
Remains ==
    \/ \E p \in Procs \ {Main} : pc[p] \notin {"none", "ended"}
    \/ \E c \in Conns : Live(c)

\* Start and its repetition, the monitors that give up and Stop together keep to
\* the life of a tunnel that TunnelManager relies on: a Stop that comes between
\* two calls of Start does nothing, one that comes during a call is final even
\* if that call, or a goroutine that reconnects, goes on and succeeds.  Who has
\* called Start in vain may be left with a tunnel that serves and that Stop
\* does not stop.
Life ==
    IF stopped THEN "stopped"
    ELSE IF pc[Main] = "start" THEN "idle"
    ELSE IF pc[Main] = "ended" THEN IF Remains THEN "left" ELSE "failed"
    ELSE IF pc[Main] \in {"wait", "stop"} THEN "up"
    ELSE "starting"
Lifecycle == INSTANCE ClientLifecycle WITH state <- Life
KeepsLife == Lifecycle!Spec

(* What the comments say and the code does not keep.                       *)

\* "Re-register the tunnel" (tunnel.go, after a reconnection): what a reader
\* waits for it waits for on a connection the server knows as the tunnel's, or
\* that is about to be registered.
ReadersAreRegistered ==
    \A p \in Readers : pc[p] = "read" /\ conn[at[p]] = "open" =>
        \E q \in Procs : pc[q] \in {"check", "listen", "greet", "ask", "await", "confirm"}

\* "monitors the WebSocket connection for errors and attempts to recover": a
\* started tunnel without a connection has a goroutine left that may redial.
RecoveryGoesOn ==
    pc[Main] = "wait" /\ ~stopped /\ wsConn = NoConn =>
        \E p \in Readers \cup Monitors : pc[p] \notin {"none", "ended"}

=============================================================================
