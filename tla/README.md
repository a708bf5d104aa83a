# nxpose, specified

nxpose publishes a local service: a client asks the server for a tunnel, keeps
a WebSocket open to it, and the server sends the HTTP requests for the tunnel's
subdomain down that WebSocket. This directory holds TLA+ models of the parts of
nxpose where goroutines meet, the TLC configurations that check them and the
TLAPS proofs of their invariants.

## 1. Inventory

| component | code | state it keeps | operations | hard behaviour |
|---|---|---|---|---|
| Tunnel registry and limits | `internal/server/server.go`, `admin_provider.go`, `monitoring.go`, `redis.go` | `s.tunnels.tunnels`; in Redis `tunnels:<user>` | `handleTunnel`, `KillTunnel`, `cleanupExpiredTunnels`, `cleanupInactiveTunnels` | three removers on one map; limit checked and tunnel stored in separate critical sections; counter in another process, with commands that fail; restart |
| WebSocket manager, forwarding | `internal/server/websocket.go`, `server.go` | `m.tunnels`, `m.requests`, a channel per request, `t.closed`, `t.TunnelID` | read loop, `handleRegisterTunnel`, `sendHTTPRequest`, `HandleResponse`, `UnregisterWebSocketTunnel`, `CloseAll` | two locks taken in both orders; answer, 30 s timeout and shutdown compete for one channel; reconnection replaces an entry |
| Server HTTP front | `server.go` | none of its own | routes, `extractSubdomain`, `handleRegister`, `handleStatus`, `Stop` | order of the steps of `Stop` |
| Admin panel | `internal/admin` | maintenance mode | list, kill, toggle | seen by the registry |
| Client tunnel | `internal/tunnel/tunnel.go` | `wsConn`, `running`, `registered`, `stopCh` | `Start`, `Stop`, `connectWebSocket`, `registerTunnel`, `handleMessages`, `startHeartbeat`, `handleWebSocketErrors` | two goroutines reconnect one connection; state read outside the lock |
| Client tunnel manager | `internal/tunnel/tunnel_manager.go` | `tm.tunnels`, `tm.userTunnels`, a `stopChan` and `Active` per tunnel, `tunnels.json` | create, remove, restart, stop all, save, load, `Close` | the goroutine that starts a tunnel against whoever stops it; the clean-up and the autosave against `Close`; a crash between two saves, or during one |
| TCP tunnels | `internal/server/tcp.go`, `internal/tunnel/tcp.go` | listener, `t.connections`, `closed` per connection | accept loop, a goroutine per connection, `HandleRemoteData`, `Stop`, `Close` | accept racing stop; several closers of one connection |
| Protocol handlers | `internal/protocol/protocol.go` | listener, `h.connections`, `metrics.activeConnections` | `Start`, `Stop`, two copies per connection, the metrics of a request | accept racing stop; the count on the paths that fail |
| OAuth login | `internal/server/oauth2.go`, `internal/crypto/oauth.go` | the session, which is the browser's cookie | register, login, callback, done | steps spread over redirects; several tabs write one cookie |
| Commands | `cmd/client/main.go`, `cmd/server/main.go` | `registerWithOAuth`: `certificate`, `callbackErr`, `callbackDone` | wait for the callback, time out | callbacks that compete for one channel |
| Configuration | `internal/config` | none | defaults, flags, validation | precedence |
| MongoDB, certificates, logging, templates, YAML tools | `mongo.go`, `internal/crypto`, ... | files, driver state | | libraries do the work |

How they interact: `handleTunnel` publishes a tunnel in the registry and counts
it in Redis; the client opens a WebSocket and registers its tunnel ID, which is
checked against the registry and entered in the manager; `handleTunnelRequest`
finds the tunnel in the registry, its connection in the manager, and parks on a
channel in `m.requests` until the read loop of a connection routes an answer to
it. The removers delete from the registry, count out in Redis and unregister in
the manager, in this order and with no lock held across the three. `Stop` ends
with `CloseAll`.

On the client, a `Tunnel` of type TCP starts the client's `TCPTunnel`; the tunnel
manager is a table of `Tunnel`s with a life of its own. The protocol handlers and
the server's `TCPTunnel` share the server's registry and nothing else. `nxpose
register` and the server meet only through the user's browser.

What makes each correct: a tunnel is cleaned up once and completely; the limit
holds up to concurrent requests; the counter is what was counted; traffic
reaches the owner only; every request ends, with a cause; nothing waits for what
cannot come; shutdown and clean-up cannot wait on each other; what is closed is
saved and stopped; a connection has somebody who closes it; a login finds the
command that asked for it.

## 2. Modules

| module | what it is |
|---|---|
| `TunnelLifecycle` | what the server promises about a tunnel: opened once, closed by one goroutine, the closing ends |
| `TunnelRegistry` | registry, limit, Redis counter, removers; implements `TunnelLifecycle` |
| `TunnelRegistry_proofs` | theorems about it |
| `RequestForwarding` | what the server promises about an HTTP request: it ends once, with an outcome that has its cause |
| `WebSocketManager` | read loops, registration, forwarding, routing, removal, `CloseAll`; implements `RequestForwarding` |
| `WebSocketManager_proofs` | theorems about it |
| `ClientLifecycle` | what the client's `Tunnel` promises to whoever starts and stops it |
| `ClientTunnel` | the client: `Start`, `Stop`, registration, the readers and monitors that both reconnect; implements `ClientLifecycle` |
| `ClientTunnel_proofs` | theorems about it |
| `TunnelManager` | the client's tunnel manager: table and index, startTunnel, the routines, the file, `Close`, crashes; takes each tunnel for a `ClientLifecycle` |
| `TunnelManager_proofs` | theorems about it |
| `Listener` | what the four listeners of the program share: socket, accept loop, table, goroutines of a connection |
| `ServerTcp`, `ClientTcp`, `ProtocolHandlers` | what each of them does; all extend `Listener` |
| `Listeners` | the four put together, with their fairness and what they promise |
| `Listeners_proofs` | theorems about it |
| `Registration` | `nxpose register`: browser, OAuthService and the waiting command |
| `Registration_proofs` | theorems about it |
| `MC...` | constants and symmetry sets for TLC |

Operators whose name has a suffix after `_` and a comment "Faulty" are
plausible bugs (a dropped check, a forgotten reset, an off-by-one). Nothing
uses them; each is there to be put in place of the operator it stands before,
which makes a property listed beside it in `PROJECT.json` fail.

### TunnelRegistry

One action is what a goroutine does between two points at which another may
run: a critical section of `s.tunnels.mu`, or one Redis command.

- `handleTunnel` is `Arrive`, `CheckLimit`, `Store`, `Increment`. `pc[r]` is its
  position. A tunnel's ID is a fresh UUID, so a request and its tunnel share a
  name. Malformed requests change nothing and are left out.
- `KillTunnel` is `Kill`, then `Discount`, `Clamp` and `Unregister`, which the
  sweeps share. `todo[p]` is the rest of the slice a sweep iterates over, `cur[p]`
  the tunnel it is at. `cleanupExpiredTunnels` deletes in the critical section
  that collects (`SweepExpired`); `cleanupInactiveTunnels` scans under the read
  lock (`ScanInactive`) and deletes under the write lock (`SweepInactive`).
- `DecrementTunnelCount` is two Redis commands, `Discount` (DECR) and `Clamp`
  (SET 0). A command may fail; a DECR may also take effect and lose its reply.
- Time is three sets of tunnels: past `ExpiresAt`, inactive for an hour, a day
  old. `ScanInactive` copies the connection's activity, which it has in some way
  `quiet` chooses; when a tunnel is deleted, its marks go.
- `ScanInactive` is one step although the sockets are looked up one by one: the
  registry is locked for all of it, and what a socket of one tunnel does has no
  bearing on another's, so every outcome of the look-ups is one of some moment.
- A socket may register for a tunnel that has one, and any number of them may be
  between their check and their entry (`CheckRegistered`, `EnterSocket`).
- `Restart` is a crash, or `Stop` and a new start: memory is lost, Redis is not.
- The identity the limit is about is the session's `user_id` or else the
  client ID. No code writes `user_id` into the session, so in fact it is the
  client ID; either way it is `Owner[r]`. `MaxPerClient` is not enforced anywhere.

### WebSocketManager

- `m.mu` is held for one action, except in `CloseAll`, whose critical section is
  `Collect` then `CancelAll`; the others wait (`ManagerLockFree`). `t.mu` is held
  while the `Send` of a handler or of a read loop has not returned and during a
  read loop's clean-up (`ConnLockFree`). The ping goroutine takes it as a reply does
  and changes nothing.
- A handler goes `Lookup`, `Pick`, `ReadBody`, `RegisterRequest`, `LockConn`,
  `SendReturns`, then `TakeAnswer` or `GiveUp`, then `Leave` (the deferred
  unregistration). Redirects, TCP tunnels and unknown subdomains end it as
  `not_forwarded`. `ReadBody` takes as long as the HTTP user does to send the body,
  for ever perhaps, and fails as `io.ReadAll` or `json.Marshal` does.
- A read loop goes from `reading` to `enter`, `reply` and `replying` (a
  registration, or a ping), `deliver` and `forget` (an answer), or `cleanup`,
  `hangup`, `ended`, when Receive fails: the connection is gone (`EndLoop`) or what
  it carried is no JSON (`ReceiveGarbage`), whereupon the library closes it. `victim` is the connection a caller of `UnregisterWebSocketTunnel` has
  taken out of the map and not closed yet: the entry's, whichever it is.
- The client answers each request it was sent at most once, late or never, on
  any connection it has open. It may register a connection again and again, for the
  same tunnel or another, as the code allows and the shipped client does not: the
  connection's `TunnelID` is then the last one, and only that entry is cleaned up.
  The connection may break at any point.
- Removal is `Remove` (registry), `UnregisterRemoved`, `HangUpRemoved`; which of
  the three removers does it is the other module's matter.
- `CloseAll` runs when both HTTP servers have stopped listening, so no request
  and no connection begins after `Collect`; those under way go on.

### ClientTunnel

- A goroutine is a pair of its kind and the connection it was started for:
  `Main` is `StartTunnel`, `Monitor(c)` the `handleWebSocketErrors` that
  `connectWebSocket` starts with `c`, a reader a `handleMessages`, named for the
  goroutine that registered the tunnel. `pc[p]` is where it is, `at[p]` the
  connection it holds in a local variable; any of them may run `Dial`, `Store`
  (`connectWebSocket`) and `Check`, `Listen`, `Greet`, `Ask`, `Listen`, `Confirm`
  (`registerTunnel`).
- A critical section of `t.mu` is one action; the unlocked reads of `running`
  (`TryAgain`) and `registered` (`Check`) are steps of their own. So is what
  `handleMessages` does between a failed Receive and its clean-up, which closes
  whatever connection is stored by then (`Read`, then `Lose`).
- `conn[c]` is `dead` when the network, the server or the client has ended it;
  `served` when the server has registered the tunnel for it. What was sent before a
  connection broke is taken as lost.
- `MaxTries` is both `maxRetries` of `Start` and of `StartTunnel`, `MaxRetries` the
  monitor's. `managed` says who calls `Start`. For `StartTunnel` the program exits
  when the last `Start` fails; it does not when `StartTunnel` returns after a signal:
  `cmd/client/main.go:182` waits for another. The `TunnelManager` calls `Start` once,
  and lives on with whatever a failed one leaves; its callers stop the tunnel at any
  time (`StopByManager`).
- `proxy` is the `TCPTunnel` of a TCP tunnel, as far as `Start` and `Stop` handle it:
  `StartProxy` stores it, `OpenProxy` opens it, `Stop` stops and forgets it. `Start`
  does not look at `stopCh` in between. A proxy it makes after `Stop` is `late` and
  then an `orphan`: nobody stops it, for every later `Stop` finds the tunnel stopped.
- To its caller all this is one `ClientLifecycle`: `Life` reads it off `stopped` and
  where `Start`'s caller is (`starting` from the first attempt; when it has given up,
  `left` as long as a goroutine or a connection remains, else `failed`).
- Heartbeats send and end by themselves, the HTTP proxy that `NXPOSE_DEBUG` opens for
  debugging shares nothing; both are left out. A protocol the code does not know
  fails at the same point as a TCP proxy that cannot open.

### TunnelManager

- `stage[t]` is where the goroutine of `startTunnel` is, `inner[t]` what `Start` and
  `Stop` have made of the `Tunnel`, `halted` the closed `stopChan`s. `Stop` acts on a
  running tunnel only, which is what makes the stop before the start hard. The values of
  `inner[t]` are the states of `ClientLifecycle`. `left` is what a `Start` that fails
  after it has connected (no answer to its registration, a proxy that cannot open)
  leaves: connection, reader and monitor, with `running` reset, which no `Stop`
  reaches; it lasts until they end by themselves (`Fades`).
- A critical section of `tm.mu` is one action, and so is a call that blocks outside
  of it: `CleanUp` then `StopSwept`, `RemoveTunnel` or `StopAllTunnels` then
  `StopAsked`, `RestartFind`, `RestartStop`, `RestartMark`. `call` is the caller that
  has yet to stop tunnels, or to save them; there is one such caller at a time.
- `SaveTunnels` takes the lock only while it collects. The routine's `AutoSave` (a tick)
  or `FinalSave` collects, `OpenFile` truncates the file, `EndSave` writes it, `FailSave`
  leaves it torn, or as it was; a caller's save is `SaveTunnels`, `CallerOpens`,
  `CallerWrites`, `CallerFails`, and the two overlap as they like. Each writes from the
  start of the file, so over what the other has just written it may leave a mixture
  (`Write`). `spoiled` remembers that a caller's save has met the last one of the
  routine, or has failed after it. `Crash` ends the process at any moment and a new
  manager begins with the file as it is; it may load it.
- `Close` is `Close` (cancel), `CopyTunnels`, `StopOne` for each of the copy, `Wait`
  for the routines, `Clear`. `due` remembers what was managed when it was called.
- Nothing sets the Redis client, and `reconnectChan` ends in the log: both are left
  out. So are two callers at a time.

### Listener, ServerTcp, ClientTcp, ProtocolHandlers, Listeners

- `kind` is which listener a behaviour is about; it never changes. `sock[c]` is this
  end of connection `c`, `gone` the peers that have hung up, `table` the keys of the
  connection table, `flagged` the `closed` flags.
- `proc[p]` is where a goroutine of a connection is: its handler, and on the client
  one call of `HandleRemoteData`. Both, and `Stop`, may come to `closeConnection`
  (`MarkClosed`, `Shut`, `Remove`), which goes on only for the first.
- `ServerTcp`: `Take`, `Store`, then the goroutine `LookUp`, `ReadFirst`, `CloseConn`,
  `RemoveConn`; `Close` empties the table and closes what was in it (`CloseOne`).
- `ClientTcp`: `Register` with the limit, then `CheckStopCh`, `ReadLocal`, `Send` in a
  loop; `StopTunnel` is one critical section.
- `ProtocolHandlers`: `TCPHandler` (`StoreClient`, `Count`, `Dial`, two `EndCopy`s,
  `CloseClient`, `Uncount`, `RemoveClient`; `StopTCP`, `StopListener`, `StopConns`) and
  the two HTTP handlers, whose connections are requests (`BeginRequest`, `EndRequest`,
  `AbortRequest`, `Shutdown`). A listening error ends `HTTPHandler` like a Stop. Both may
  be stopped before they are started: a `TCPHandler` then opens a listener for a loop
  that ends at its first look (`StopTCP`, then `StartTCP`), an `HTTPHandler` is not
  stopped at all (`StopUnstarted`, `stop = "early"`). `ContextDone` is the end of the
  context a `TCPHandler` was made with, which ends its loop and nothing else.
- `HandleRemoteData` of the client is an operation of its package without a caller:
  `tunnel.go:1112` only logs what arrives. The model lets it be called, so what is
  claimed of the meeting of reader and `Stop` holds with and without it.
- What is read and written is left out: no control depends on it. A `Read` returns
  once the peer has hung up or the socket is closed.

### Registration

- The server keeps nothing between two pages: callback address, token and
  `oauth_state` are in the session, the session is the cookie
  (`sessions.NewCookieStore`). A request carries the cookie of when it was sent
  (`sent[f]`), a response replaces it whole. Each command has one tab of one browser
  (`tab[f]`), and `goal[f]` is the address and token its redirect names. An address is
  the name of its command, and so is a token; two commands that are given one port,
  the second after the first has ended, are left out.
- `HandleRegister`, `HandleLogin`, `HandleCallback`, `HandleOAuthDone` are the four
  handlers; `Choose`, `Authorize`, `Follow` are the user, the provider and the browser.
- `Open`, `Conclude`, `TimeOut` are `registerWithOAuth`; `TakeCertificate` then `Signal`
  is its handler of `/callback`, `TakeStray` then `SignalStray` the same for a request
  that carries no such token or none; there may be any number of those, one after
  another. Storing the outcome and sending on
  `callbackDone` are two steps, and only one sender finds the receiver.
- The cookie is taken to outlive a login (`CookieDuration` is 24 hours by default).

## 3. Runs

| run | instance | shows |
|---|---|---|
| `registry` | 3 requests of one user, limit 1, 2 handlers at once, 1 admin, both sweeps, Redis, sockets that come, register again and go | `TypeOK`, `OneReaper`, `CountMatchesRegistry`, `OvershootBounded`, `RefusedOnlyAtLimit` |
| `registry_live` | a counted and an anonymous tunnel, one Redis fault, one restart | `KeepsLifecycle`, `ExpiredTunnelRemoved` |
| `limit_race` | as `registry`, without Redis | `PerUserLimit` fails |
| `count_drift` | as `registry` | `CountIsActiveTunnels` fails |
| `websocket` | any two of 2 connections of the owner and 1 of another client; 2 tunnels, or 1 and a request | `TypeOK`, `TrafficStaysWithOwner`, `EntryHasReader`, `TableHasHandlers`, `NoForgottenHandler`, `OnlyOwnerEvicts` |
| `websocket_live` | 1 connection, 2 tunnels it may register for in turn, 1 request | `KeepsPromise`, `ShutdownEnds`, `BrokenConnectionCleanedUp` |
| `stale_cleanup` | 2 connections of the owner, 1 tunnel | `ReconnectedStaysServed` fails |
| `client` | 2 connections, 2 attempts of each loop, 1 retry of a monitor; HTTP or TCP; called by `StartTunnel` or by the manager | `TypeOK`, `InUseIsWatched`, `KeepsLife`, `DeadConnectionDropped`, `StopEndsGoroutines` |
| `lost_registration` | as `client`, 1 attempt | `ReadersAreRegistered` fails |
| `gives_up` | as `client`, 1 attempt | `RecoveryGoesOn` fails |
| `manager` | 3 tunnels, two with one port, two of a user with limit 1, one anonymous; 1 crash; two halves (below) | `TypeOK`, `IndexHasNoGhost`, `DistinctPorts`, `ClosedIsSaved`, `ActiveIsWatched`, `ClosedIsStopped` |
| `listeners` | each kind of listener with 2 connections and a limit of 1; 2 registrations with 2 logins | `TypeOK`, `EntryHasOwner`, `SocketHasOwner`, `CountReturns`, `TableIsClosed`, `ClientIsQuiet`, `SlotIsFreed`, `StopEnds`, `RegTypeOK`, `TokenFitsAddress`, `LoginFindsCommand`, `SuccessHasCertificate`, `DecisionEndsWait` |

`registry` has 2.6 million states, `registry_live` 337 000, `websocket` 2.2 million,
`websocket_live` 208 000, `client` 543 000, `manager` 3.9 million, `listeners`
179 000; each takes some minutes at most with two workers.

Why the bounds are enough. With a limit of 1 and two handlers at once, three
requests are what it takes for two to pass the check together, a third to be
refused, and a removal to come in between; one user, because nothing relates the
counters of two. One admin and two sweeps are three removers, and the sweeps
handle several tunnels in one pass. `MaxFaults`, `MaxRestarts` and `MaxInFlight`
are bounds of the model; the code has none of them. The safety run has no fault
and no restart because `CountMatchesRegistry` and `OvershootBounded` speak of
undisturbed users only (the theorems cover the rest); the liveness run has both.
Two connections of one client give reconnection, one of each client the owner check;
a behaviour of `websocket` makes two of the three (`MaxConnected`), and those either
register for both tunnels or serve the request of one (`FewTunnels`). Three connections
with one tunnel pass too, in 7.5 million states; the properties are theorems for any
number.
`websocket_live` has one connection and two tunnels, which is what a connection
needs that registers twice; the order of the two locks takes one connection.
In `client` two connections are one reconnection with everything that competes
for it; a second reconnection starts from a state like the first, and the
theorem about `InUseIsWatched` is for any number.
In `manager` two tunnels compete for the port and differ in having a user;
`MaxTunnels` is 0, no limit, so that the user's limit is what refuses (the limit on
all is a theorem). One crash is what a torn or stale file takes. A behaviour is about
one of two halves, chosen at the start (`half` in `MCTunnelManager`): two tunnels that
are started, fail, stop themselves and are stopped, in one process and with the last
save only; or three tunnels that are saved on ticks and by callers, and loaded after a crash,
and get no further than `startTunnel`'s first step, where `RestartTunnel` changes
nothing. Together they multiply
beyond five minutes; what they share, the table, the owner and `Close`, is in both,
and the proofs know of no halves. In `listeners` two
connections give a limit of 1 something to refuse, and an accept that comes after
Stop beside a connection in the table. Two registrations are what it takes for one
tab to overwrite the other's cookie; with `MaxLogins = 3`, where one of them logs in
again, the run passes too (366 000 states). The behaviours of `listeners` are about
one listener each, so that they add up and do not multiply; the callback port of
`nxpose register` is the last of them.
The proofs are for every value of all these constants.

The MC modules use symmetry for requests and connections in the runs of
invariants and of action properties, never with liveness. Deadlock is checked in the registry runs.
The WebSocket runs switch it off because the server does stop: after `CloseAll`
there may be nothing left to do; so do the client's, where all goroutines end,
`manager`, where Close may be the last thing, and `listeners`, where a Stop is.

Fairness. Weak fairness of each goroutine's own steps: the Go scheduler runs
what can run. The sweeps' tickers keep firing. Nothing is asked of the client, of
the network or of the HTTP users: `ReadBody` has no fairness, and `KeepsPromise` is
about a request that has been received whole. A handler and `CloseAll`, which
compete for a connection's `t.mu` with a read loop that answers ping after ping,
have strong fairness (`SF_`): the lock is free again and again, and a `sync.Mutex` is
handed to a goroutine that has waited for a millisecond (its starvation mode). One assumption is worth knowing: `SendReturns` is fair, although
`websocket.go:420` sets no write deadline, since the transport gives up on a dead
peer in the end; a peer that stays alive and never reads is outside the claim.
`Reply`, the same call of a read loop, is fair for the same reason.
A request's 30 s timer fires (`GiveUp`). In `ClientTunnel` every goroutine's next
step is taken: dialling returns, Receive ends with a message (the server pings)
or the two-minute deadline. Success is never assumed, nor that the user interrupts:
`StartTunnel` leaves its wait by fairness only once `stopCh` is closed. In
`Listeners` goroutines go on and calls return that are not up to a peer: a `Read`
returns once the peer has hung up or the socket is closed, and is not asked to
before. Nobody has to connect, hang up or stop anything. For `SlotIsFreed` of a
`TCPHandler` the local service is assumed to read to the end and to end its answer:
its two copies (`protocol.go:559`, `577`) have no deadline, and a service that does
neither keeps the entry. In `Registration` the
server's handlers, the browser's redirects and the command's goroutines go on; the
user, the provider and the five minutes need not.

### What the documentation says and the code does not do

- `limit_race`: the per-user limit (`README.md:143`) can be exceeded by
  concurrent requests (`server.go:1151`, `1195`). `OvershootBounded` is what does
  hold: by less than the handlers under way at once, so not at all if there is one
  (theorem `LimitHoldsAlone`).
- `count_drift`: the Redis counter is not always "the number of active tunnels"
  (`redis.go:105`): a tunnel removed between its publication and its INCR leaves
  the counter one too high for good. `CountMatchesRegistry` is what does hold, and
  with it `CounterSettles`: an undisturbed user's counter is right at rest.
- `stale_cleanup`: the clean-up of an old connection (`websocket.go:241`) takes
  out and closes the newer one that serves the tunnel after a reconnection. It is
  a statement about the server: it needs a client that registers again over the
  new connection, which the shipped client, whose `registered` flag survives the
  reconnection (`tunnel.go:693`), omits. `OnlyOwnerEvicts` is what does hold: the
  client does this to itself and to no other.
- `lost_registration`: `tunnel.go:1415` says "Re-register the tunnel", but
  `registerTunnel` returns at once, because nothing clears `registered` when a
  connection is lost. The reader then waits on a connection the server does not
  know. The property leaves room for a registration that is still under way.
- `gives_up`: "attempts to recover if possible" (`tunnel.go:1319`) ends with the
  first redial that fails: `wsConn` is nil by then, so the monitors have ended or
  will, and the reader's goroutine returns. `maxRetries` is not what ends it.
  What does hold is `InUseIsWatched` and `DeadConnectionDropped`: as long as there
  is a connection, its failure is noticed.

### What the properties leave out by name

Some properties hold but for a case that the model has and the code gets into. Each
says so in its comment; no line of the repository claims that the case does not occur,
so there is no run that shows it as a violation.

- `EntryHasReader`: a connection that has registered for a second tunnel cleans up only
  that one (`websocket.go:241`); the entry of the first stays, naming an ended
  connection, until that tunnel is removed. It holds until the shutdown: a registration
  under way when `CloseAll` empties the map enters its connection after it.
- `NoForgottenHandler` is about the channel of a waiting handler and the table. A
  handler that registers its request after `CancelAll` and sends before its connection
  is closed has both, and waits out its 30 seconds; that it ends is `KeepsPromise`.
- `StopEndsGoroutines`: a TCP proxy that `Start` makes after a `Stop` that came while
  it was registering (`tunnel.go:1239`) accepts for good. A connection that is dialled
  after `Stop` is stored by `connectWebSocket` and stays open, unread; the property is
  about goroutines.
- `ClosedIsSaved`: a save that a caller has asked for takes no lock
  (`tunnel_manager.go:710`). If it meets the last save of the routine the file may be a
  mixture, or hold what the caller had collected before; if it fails after it, the
  file may be torn.
- `ClosedIsStopped`: a `Start` that fails after it has connected resets `running` and
  nothing else (`tunnel.go:393`); what it leaves may serve on after `Close`.
- `StopEnds`: the listener of a `TCPHandler` that is stopped before it is started stays
  open; an `HTTPHandler` stopped before it is started is not stopped.

## 4. Proofs

The theorems hold for every value of the constants that satisfies the named
assumptions: finitely many requests, disjoint names, natural-number limits.

`TunnelRegistry_proofs`

- `TypeCorrect`, `CleanedUpOnce`: `IInv == TypeOK /\ OneReaper` is inductive.
  `TypeOK` alone is not interesting to the argument except that it ties `rpc` to
  `cur` and `todo`; `OneReaper` needs it, because a sweep's deletion must find
  `todo` empty.
- `CounterIsAccurate`: the counter is the cardinality of the requests whose INCR
  was sent less that of those whose DECR was. Each action changes one of the two
  sets by one element, or neither; `OneReaper` says a `Discount` adds a tunnel
  that was not counted out before.
- `LimitOvershoot`: needs two facts more. `FlightBounded`: a user has at most
  `MaxInFlight` handlers between `Arrive` and `Increment`. `ClaimBounded`: a handler
  past the check was below the limit then, and what has been stored since belongs
  to handlers that were under way with it. `LimitHoldsAlone` is its case for one
  handler at a time.
- `NobodyRefusedEarly`, an action property: a request is refused in `CheckLimit`
  only, by a counter that is the size of `CountedIn` less that of `CountedOut`. What
  is counted in and not out is in the registry or held by a remover
  (`CountedAreHeld`), and the difference of two sets has at least
  the difference of their sizes (`DifferenceAtLeast`).
- `CounterSettles`: when nobody is at work on a user's tunnels, `CountedOut` is a
  part of `CountedIn` and what remains are the live tunnels.
- `ImplementsLifecycle`: every step is one of `TunnelLifecycle` or none. `PhaseIs`
  says a tunnel is in one of its phases only, which is what `OneReaper` is needed
  for: `Unregister` ends the closing of a tunnel no other remover holds, and a sweep
  that deletes closes what no remover holds yet. There is one lemma per kind of step.

`WebSocketManager_proofs`

- `ConnInv` (connections): `TypeOK`, what an entry may name, what a read loop at
  each position has done, and `TrafficStaysWithOwner`. Gives `OwnerServesTunnel` and
  `EntriesAreServed`. The point of `EntryGood` is that a connection named for the
  tunnel it has registered for last has a read loop that will clean up after it, under
  that very tunnel; entries of earlier tunnels name connections of the same client,
  which is all that `OwnerServesTunnel` and `OnlyOwnersEvict` ask of them.
- `TableInv` (requests): `TypeOK`, `HandGood` (at `Forget`, the handler
  whose entry goes is over or its channel is full), `TableHasHandlers` and
  `NoForgottenHandler`. Gives `NoChannelLeak` and `NobodyForgotten`.
- `ImplementsForwarding`: every step is one of `RequestForwarding` or none. It needs
  that outcomes have their cause along the whole way of an answer (`AnswerGood`): what
  is on a connection, in a read loop's hand or in a channel as a response was
  answered for that request, and a nil is in a channel only once `CloseAll` runs.
- `OnlyOwnersEvict`, an action property: `EntryMoves` lists the steps that touch an
  entry, and `RegisteredRightly` says that a connection names only a tunnel of its own
  client, so that a late `CleanUp` cannot reach another client's.
- `LocksExclude`: the model has no variable for `t.mu`; its holders are told from
  where they are. The theorem says that this is a lock.
- `RemovalsAreRegistrys`: the short removal here (`Remove`, `UnregisterRemoved`) takes
  a tunnel through the same `TunnelLifecycle` as the registry's, which is what lets
  the two modules be read as two views of one server.

`ClientTunnel_proofs`

- `IInv` has five parts besides `TypeOK`. `InUseIsWatched` needs `InUseWatched`, its
  form for every state in which `Start` has connected, and `FlagsMatchMain`: a
  monitor that gives up without a Stop has read `running` as FALSE, which only a
  failed `Start` leaves so. `TypeOK` needs the other three: a connection dialled
  and not yet stored has no monitor and one owner (`MonitorsFollow`), a goroutine
  that registers has no reader yet (`ReadersFollow`), a goroutine that is about to
  count an attempt has one left (`AttemptsLeft`).
- Gives `TypeCorrect` and `ConnectionWatched`. A step that fails is one lemma
  (`FailsIInv`), used by every action that can.
- `ImplementsLife` states `KeepsLife`, with the state `left` of a `Start` that failed. `MainSees` sums up what a step of any goroutine
  is to `StartTunnel`; `RunningIsStarted`, the converse of `FlagsMatchMain`, says that
  a `Stop` which finds `running` set finds a call of `Start` under way or done.

`TunnelManager_proofs`

- `IInv` has, besides `TypeOK` and `IndexHasNoGhost`: `PortsDiffer` and `LimitKept`,
  which hold of the table, of what a save has collected, of the file and of what a load
  is going to enter, because each is a copy of another at some moment; `SaveCovers`,
  what the last save has collected is what Close found, and is what the file has
  unless a caller's save met it; `StagesMatch`, which ties
  `stage` to `inner` and `active` and gives `ActiveIsWatched`; `CloseCovers`, what Close
  has yet to stop. Each has a lemma over `Next`.
- `LimitIsKept` (the limit on all tunnels over restarts) is proved and has no run.
- `TunnelsLive`: a step of the manager is a `ClientLifecycle` step of each tunnel or
  none, until a crash begins all of them anew. `StagesMatch` gives that `startTunnel`
  finds its tunnel `idle`; a `Start` that fails leads to `failed` or to `left`, as
  in `ClientTunnel`, whose `Life` tells the two apart by what remains. With `ImplementsLife` it is the interface of the two modules,
  seen from both sides.

`Listeners_proofs`

- `History` is what lies behind `EntryHasOwner` and `SocketHasOwner`: what only the
  client does leaves no trace elsewhere (`Apart`), nobody works on a connection
  before its handler has it, and nobody but the handler before it is registered
  (`Begun`), who has marked a connection still has to close and remove it, or has
  (`Marked`), and a connection is closed before it leaves the table (`PastClose`).
  `Counts` says the metric is the number of handlers between their two updates, which
  `CountReturns` is the end of; its lemma goes by how that set changes (`Recount`).
- `LimitHolds`: the client's table keeps to its limit. It is proved and has no run;
  the run has what makes the limit worth having, that entries go (`SlotIsFreed`).
- `ConnectionClosedOnce`: on the client, reader, `HandleRemoteData` and `Stop` do not
  close a connection twice. `Unmarked` is what it takes: a connection without the flag
  is open as long as anybody uses it, and nobody is past the mark.
- `NothingIsLeft`: with every goroutine at rest no connection is open and no entry is
  left. It is what `EntryHasOwner` and `SocketHasOwner` are for.

`Registration_proofs`

- `RegInv`: address and token agree in the cookie, in every request under way and in
  every redirect (`SessionsFit`); once a page was shown the cookie has an address for
  good, because any request that may replace it was sent after (`CookieHasCommand`);
  a command that was told was decided on (`ToldIsDecided`).
- `LoginsAreOwn`: what comparing `oauth_state` is worth. A tab that is let through has
  done a login of its own, and no login lets two tabs through, although the cookie holds
  the number of the last one only. `StatesAreOwn` says every number a tab has or was let
  through with was drawn for that tab. It has no run of its own.

Only model-checked. Every invariant and every action property of the passing runs is
proved. What is left is what fairness gives, for neither `WF_` nor `ENABLED` can be
reasoned about with this prover: the liveness properties (`ExpiredTunnelRemoved`,
`ShutdownEnds`, `BrokenConnectionCleanedUp`, `DeadConnectionDropped`,
`StopEndsGoroutines`, `TableIsClosed`, `ClientIsQuiet`, `SlotIsFreed`, `StopEnds`,
`DecisionEndsWait`), and of `KeepsLifecycle` and `KeepsPromise` the part that says a
closing and a request end; their safety parts are `ImplementsLifecycle` and
`ImplementsForwarding`. The five properties that fail are found by TLC.

## 5. Not modelled, and the plan

Not modelled for good: cryptography, ACME, DNS, files, templates, logging, MongoDB
calls, HTML; the configuration, which one process reads once. Abstracted: request
and answer contents, the text of errors, the retries inside the Redis driver, the
`tcp_data` messages, which the server only logs, the headers the protocol handlers
rewrite. A `callbackErr` or `certificate` that is read while a late callback writes
it is a data race of `registerWithOAuth`; its outcomes are the old and the new value
here, never a torn one.

Seen while modelling, and left without a property because no line of the
repository claims the contrary:

- `ClientTunnel`: a connection dialled after `Stop` stays open until the process ends,
  although the comment of `Stop` (`tunnel.go:480`) says it closes "the tunnel and all
  associated connections"; a TCP proxy made after `Stop` accepts for good. The comment
  speaks of the connections there are, so this is no disagreement to be shown by a run.
- `TunnelManager`: `RestartTunnel` starts nothing again, and clears `Active` on a
  tunnel that may come up meanwhile, which is then stopped by nobody; `RemoveTunnel`
  of a tunnel that is still being started leaves it running; `LoadTunnels` does not
  fill the user index; a crash while the file is written loses it.
- `ServerTcp`, `TCPHandler`: a connection accepted around `Close` or `Stop` is stored
  after it and stays open for as long as its peer likes; a second `Stop` of
  `TCPHandler` closes its channel twice.
- Two `nxpose register` at once: both certificates may go to the second, and the first
  waits its five minutes.
- `server.go:1135`: a Redis error lets a request through; `server.go:1238`: a race on
  `tunnel.Protocol`; `tunnel.go:715`: an abandoned Receive takes one message; `tunnel.go:655`:
  heartbeats add up.

Next, in this order:

1. `TunnelSystem`: client and server composed, over the abstractions
   `TunnelLifecycle` and `RequestForwarding`.
2. Proofs: that the loops of `CloseAll`, `StopAllTunnels` and `StopConns` come to
   what they have collected and no further; an abstract login that `Registration`
   implements.
3. The order of `Server.Start` and `Server.Stop` with both HTTP servers, and
   `extractSubdomain` as a pure function against a reference definition.

How to run, inside this directory: `tlc -config registry.cfg MCTunnelRegistry`,
and likewise for the others; `tlapm TunnelRegistry_proofs.tla`.
