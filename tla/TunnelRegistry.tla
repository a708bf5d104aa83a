--------------------------- MODULE TunnelRegistry ---------------------------
(***************************************************************************)
(* The server's tunnel registry and the accounting of tunnels per user:    *)
(* the HTTP handler that creates a tunnel (handleTunnel), the three ways   *)
(* one is removed (the admin's KillTunnel, the expiry sweep and the        *)
(* inactivity sweep), the Redis counter of active tunnels the limit check  *)
(* reads, and the WebSocket registrations the sweeps look at.              *)
(*                                                                         *)
(* Every HTTP handler, admin call and sweep is a goroutine.  One action is *)
(* what a goroutine does between two points at which another may run: a    *)
(* critical section of s.tunnels.mu, or one Redis command.  A request and  *)
(* the tunnel it creates share a name, since the tunnel's ID is a fresh    *)
(* UUID drawn by that request.                                             *)
(***************************************************************************)
EXTENDS Integers, FiniteSets

CONSTANTS
    Requests,       \* POST /api/tunnel calls, and the tunnels they create
    Users,          \* user identities: a session's user_id or a client_id
    NoUser,         \* the empty identity: neither of the two was sent
    Owner,          \* Owner[r] is the identity request r carries
    MaxPerUser,     \* TunnelLimits.MaxPerUser, 0 for "no limit"
    RedisEnabled,   \* s.redis != nil
    Admins,         \* goroutines of the admin panel that call KillTunnel
    MaxInFlight,    \* bound: handleTunnel calls of one user under way at once
    MaxFaults,      \* bound: Redis commands that fail
    MaxRestarts,    \* bound: times the server process stops and starts again
    NoTunnel        \* no tunnel

ExpirySweep == "expiry"
IdleSweep == "inactive"
Sweeps == {ExpirySweep, IdleSweep}
Reapers == Admins \cup Sweeps

ASSUME RequestsAssumption ==
    /\ IsFiniteSet(Requests)
    /\ NoUser \notin Users
    /\ NoTunnel \notin Requests
    /\ Owner \in [Requests -> Users \cup {NoUser}]
ASSUME LimitsAssumption ==
    /\ MaxPerUser \in Nat
    /\ RedisEnabled \in BOOLEAN
    /\ MaxInFlight \in Nat \ {0}
    /\ MaxFaults \in Nat
    /\ MaxRestarts \in Nat
ASSUME ReapersAssumption == Admins \cap Sweeps = {}

VARIABLES
    pc,          \* pc[r]: how far handleTunnel has come with request r
    live,        \* the keys of s.tunnels.tunnels
    count,       \* count[u]: the Redis key tunnels:<u>, 0 when absent
    rpc,         \* rpc[p]: what the removing goroutine p does next
    scan,        \* tunnelsToRemove, as the inactivity sweep collected it
    todo,        \* todo[p]: tunnels p has deleted and not yet cleaned up
    cur,         \* cur[p]: the tunnel p is cleaning up
    sockets,     \* the keys of wsManager.tunnels
    joining,     \* tunnels a socket of which has passed the checks of its registration
    expired,     \* tunnels whose ExpiresAt has passed
    idle,        \* tunnels whose LastActive is more than an hour ago
    aged,        \* tunnels created more than 24 hours ago
    clamped,     \* history: users whose count was reset to 0 by a SET
    faults,      \* history: how many Redis commands have failed
    restarts     \* history: how many times the process was replaced

handlerVars == <<pc>>
reaperVars == <<rpc, scan, todo, cur>>
socketVars == <<sockets, joining>>
clockVars == <<expired, idle, aged>>
redisVars == <<count, clamped, faults>>
vars == <<pc, live, count, rpc, scan, todo, cur, sockets, joining,
          expired, idle, aged, clamped, faults, restarts>>

-----------------------------------------------------------------------------
(* Sets the properties and the guards speak of.                            *)

\* The requests, and so the tunnels, of user u.
OwnedBy(u) == {r \in Requests : Owner[r] = u}

\* The handlers of u between the limit check and the end of the accounting.
InFlight(u) == {r \in OwnedBy(u) : pc[r] \in {"limit", "store", "incr"}}

\* Redis keeps a counter for this request's tunnel.
Counted(r) == RedisEnabled /\ Owner[r] # NoUser

\* Tunnels out of the registry whose DECR has not been sent.
Doomed == UNION {todo[p] : p \in Reapers}

-----------------------------------------------------------------------------
Stages == {"new", "limit", "store", "incr", "done",
           "refused", "unavailable", "lost"}
ReaperStages == {"idle", "scanned", "discount", "clamp", "unregister"}

TypeOK ==
    /\ pc \in [Requests -> Stages]
    /\ live \in SUBSET Requests
    /\ count \in [Users -> Int]
    /\ rpc \in [Reapers -> ReaperStages]
    /\ scan \in SUBSET Requests
    /\ todo \in [Reapers -> SUBSET Requests]
    /\ cur \in [Reapers -> Requests \cup {NoTunnel}]
    /\ \A p \in Reapers :
           /\ rpc[p] \in {"clamp", "unregister"} <=> cur[p] # NoTunnel
           /\ rpc[p] = "clamp" => Counted(cur[p])
           /\ todo[p] # {} => rpc[p] \notin {"idle", "scanned"}
    /\ sockets \in SUBSET Requests
    /\ joining \in SUBSET Requests
    /\ expired \in SUBSET Requests
    /\ idle \in SUBSET Requests
    /\ aged \in SUBSET Requests
    /\ clamped \in SUBSET Users
    /\ faults \in 0..MaxFaults
    /\ restarts \in 0..MaxRestarts

Init ==
    /\ pc = [r \in Requests |-> "new"]
    /\ live = {}
    /\ count = [u \in Users |-> 0]
    /\ rpc = [p \in Reapers |-> "idle"]
    /\ scan = {}
    /\ todo = [p \in Reapers |-> {}]
    /\ cur = [p \in Reapers |-> NoTunnel]
    /\ sockets = {}
    /\ joining = {}
    /\ expired = {}
    /\ idle = {}
    /\ aged = {}
    /\ clamped = {}
    /\ faults = 0
    /\ restarts = 0

-----------------------------------------------------------------------------
(* handleTunnel, one request at a time through its critical sections.      *)

\* Maintenance mode, which an admin may toggle at any time, is read once and
\* before anything else: it decides between these two and nothing later.
Arrive(r) ==
    /\ pc[r] = "new"
    /\ Cardinality(InFlight(Owner[r])) < MaxInFlight
    /\ \E answer \in {"limit", "unavailable"} : pc' = [pc EXCEPT ![r] = answer]
    /\ UNCHANGED <<live, reaperVars, socketVars, clockVars, redisVars, restarts>>

\* Faulty: counts the tunnel about to be created as well.
TunnelCount_CountsOwn(u) ==
    1 + (IF RedisEnabled THEN count[u] ELSE Cardinality(live \cap OwnedBy(u)))

\* What the limit check compares with MaxPerUser.  A Redis error leaves
\* tunnelCount at 0, so the request is let through.
TunnelCount(u) ==
    IF RedisEnabled THEN count[u] ELSE Cardinality(live \cap OwnedBy(u))

Limited(r) == Owner[r] # NoUser /\ MaxPerUser > 0

\* Faulty: refuses one tunnel too late.
AtLimit_TooLate(u) == TunnelCount(u) > MaxPerUser
AtLimit(u) == TunnelCount(u) >= MaxPerUser

CheckLimit(r) ==
    /\ pc[r] = "limit"
    /\ \/ /\ Limited(r) => ~AtLimit(Owner[r])
          /\ pc' = [pc EXCEPT ![r] = "store"]
          /\ UNCHANGED faults
       \/ /\ Limited(r) /\ AtLimit(Owner[r])
          /\ pc' = [pc EXCEPT ![r] = "refused"]
          /\ UNCHANGED faults
       \/ /\ Limited(r) /\ RedisEnabled /\ faults < MaxFaults
          /\ pc' = [pc EXCEPT ![r] = "store"]
          /\ faults' = faults + 1
    /\ UNCHANGED <<live, count, clamped, reaperVars, socketVars, clockVars, restarts>>

\* The tunnel is published; nothing is checked again under the lock.
Store(r) ==
    /\ pc[r] = "store"
    /\ live' = live \cup {r}
    /\ pc' = [pc EXCEPT ![r] = "incr"]
    /\ UNCHANGED <<reaperVars, socketVars, clockVars, redisVars, restarts>>

\* The INCR of a tunnel others already see; its failure is only logged.
Increment(r) ==
    /\ pc[r] = "incr"
    /\ pc' = [pc EXCEPT ![r] = "done"]
    /\ \/ /\ count' = IF Counted(r) THEN [count EXCEPT ![Owner[r]] = @ + 1]
                      ELSE count
          /\ UNCHANGED faults
       \/ /\ Counted(r) /\ faults < MaxFaults
          /\ faults' = faults + 1
          /\ UNCHANGED count
    /\ UNCHANGED <<live, clamped, reaperVars, socketVars, clockVars, restarts>>

-----------------------------------------------------------------------------
(* The goroutines that remove tunnels.                                     *)

\* delete(s.tunnels.tunnels, id) for the tunnels of S; what the registry knew
\* of their age goes with them.
Delete(S) ==
    /\ live' = live \ S
    /\ expired' = expired \ S
    /\ idle' = idle \ S
    /\ aged' = aged \ S

\* Faulty: forgets the counter and the socket of the tunnel.
Kill_OnlyDeletes(p, r) ==
    /\ p \in Admins /\ rpc[p] = "idle"
    /\ r \in live
    /\ Delete({r})
    /\ UNCHANGED <<handlerVars, reaperVars, socketVars, redisVars, restarts>>

\* KillTunnel: look up and delete under the lock, the rest outside it.
Kill(p, r) ==
    /\ p \in Admins /\ rpc[p] = "idle"
    /\ r \in live
    /\ Delete({r})
    /\ todo' = [todo EXCEPT ![p] = {r}]
    /\ rpc' = [rpc EXCEPT ![p] = "discount"]
    /\ UNCHANGED <<handlerVars, scan, cur, socketVars, redisVars, restarts>>

\* Faulty: leaves connected tunnels alone, as the inactivity sweep does.
PastExpiry_Unconnected == (live \cap expired) \ sockets
PastExpiry == live \cap expired

\* cleanupExpiredTunnels collects and deletes in one critical section.
SweepExpired ==
    /\ rpc[ExpirySweep] = "idle"
    /\ PastExpiry # {}
    /\ Delete(PastExpiry)
    /\ todo' = [todo EXCEPT ![ExpirySweep] = PastExpiry]
    /\ rpc' = [rpc EXCEPT ![ExpirySweep] = "discount"]
    /\ UNCHANGED <<handlerVars, scan, cur, socketVars, redisVars, restarts>>

\* The first critical section of cleanupInactiveTunnels only reads, and
\* copies the activity of each tunnel's socket, which may be quiet itself.  It
\* looks the sockets up one by one, but one step stands for all: the lock keeps
\* the registry as it is, and what happens to the socket or the clocks of one
\* tunnel meanwhile might as well have happened before or after what is read of
\* another.
ScanInactive ==
    /\ rpc[IdleSweep] = "idle"
    /\ scan' = {r \in live : (r \notin sockets /\ r \in idle) \/ r \in aged}
    /\ \E quiet \in SUBSET (live \cap sockets) :
           idle' = (idle \ (live \cap sockets)) \cup quiet
    /\ rpc' = [rpc EXCEPT ![IdleSweep] =
                  IF scan' = {} THEN "idle" ELSE "scanned"]
    /\ UNCHANGED <<handlerVars, live, todo, cur, socketVars, expired, aged,
                   redisVars, restarts>>

\* Faulty: does not look the tunnel up again.
StillThere_Unchecked == scan
\* A tunnel another goroutine has removed since the scan is skipped.
StillThere == scan \cap live

\* The second critical section deletes what is still there.
SweepInactive ==
    /\ rpc[IdleSweep] = "scanned"
    /\ Delete(StillThere)
    /\ scan' = {}
    /\ todo' = [todo EXCEPT ![IdleSweep] = StillThere]
    /\ rpc' = [rpc EXCEPT ![IdleSweep] =
                  IF StillThere = {} THEN "idle" ELSE "discount"]
    /\ UNCHANGED <<handlerVars, cur, socketVars, redisVars, restarts>>

\* DecrementTunnelCount, first command: DECR.  An error ends the call, also
\* when it is only the reply that was lost.
Discount(p, r) ==
    /\ rpc[p] = "discount"
    /\ r \in todo[p]
    /\ todo' = [todo EXCEPT ![p] = @ \ {r}]
    /\ cur' = [cur EXCEPT ![p] = r]
    /\ \/ /\ Counted(r)
          /\ count' = [count EXCEPT ![Owner[r]] = @ - 1]
          /\ rpc' = [rpc EXCEPT ![p] =
                        IF count[Owner[r]] - 1 < 0 THEN "clamp" ELSE "unregister"]
          /\ UNCHANGED faults
       \/ /\ ~Counted(r)
          /\ rpc' = [rpc EXCEPT ![p] = "unregister"]
          /\ UNCHANGED <<count, faults>>
       \/ /\ Counted(r) /\ faults < MaxFaults
          /\ rpc' = [rpc EXCEPT ![p] = "unregister"]
          /\ faults' = faults + 1
          /\ count' \in {count, [count EXCEPT ![Owner[r]] = @ - 1]}
    /\ UNCHANGED <<handlerVars, live, scan, clamped, socketVars, clockVars, restarts>>

\* DecrementTunnelCount, second command: SET 0 after a negative DECR, a
\* separate command whose error is ignored.
Clamp(p) ==
    /\ rpc[p] = "clamp"
    /\ rpc' = [rpc EXCEPT ![p] = "unregister"]
    /\ \/ /\ count' = [count EXCEPT ![Owner[cur[p]]] = 0]
          /\ clamped' = clamped \cup {Owner[cur[p]]}
          /\ UNCHANGED faults
       \/ /\ faults < MaxFaults
          /\ faults' = faults + 1
          /\ UNCHANGED <<count, clamped>>
    /\ UNCHANGED <<handlerVars, live, scan, todo, cur, socketVars, clockVars, restarts>>

\* Faulty: leaves the loop over the removed tunnels after the first.
Unregister_OnlyFirst(p) ==
    /\ rpc[p] = "unregister"
    /\ sockets' = sockets \ {cur[p]}
    /\ cur' = [cur EXCEPT ![p] = NoTunnel]
    /\ rpc' = [rpc EXCEPT ![p] = "idle"]
    /\ UNCHANGED <<handlerVars, live, scan, todo, joining, clockVars, redisVars, restarts>>

\* UnregisterWebSocketTunnel, then on to the next removed tunnel.
Unregister(p) ==
    /\ rpc[p] = "unregister"
    /\ sockets' = sockets \ {cur[p]}
    /\ cur' = [cur EXCEPT ![p] = NoTunnel]
    /\ rpc' = [rpc EXCEPT ![p] = IF todo[p] = {} THEN "idle" ELSE "discount"]
    /\ UNCHANGED <<handlerVars, live, scan, todo, joining, clockVars,
                   redisVars, restarts>>

-----------------------------------------------------------------------------
(* The WebSocket side, as far as the registry sees it.                     *)

\* handleRegisterTunnel reads the registry under its lock, also for a tunnel
\* that has a socket ...
CheckRegistered(r) ==
    /\ r \in live /\ r \notin joining
    /\ joining' = joining \cup {r}
    /\ UNCHANGED <<handlerVars, live, reaperVars, sockets, clockVars,
                   redisVars, restarts>>

\* ... and enters the connection in the manager under the manager's.  Another
\* connection may be about to register for the same tunnel.
EnterSocket(r) ==
    /\ r \in joining
    /\ joining' \in {joining, joining \ {r}}
    /\ sockets' = sockets \cup {r}
    /\ UNCHANGED <<handlerVars, live, reaperVars, clockVars, redisVars, restarts>>

\* The read loop of the connection ends and takes the entry out.
DropSocket(r) ==
    /\ r \in sockets
    /\ sockets' = sockets \ {r}
    /\ UNCHANGED <<handlerVars, live, reaperVars, joining, clockVars,
                   redisVars, restarts>>

-----------------------------------------------------------------------------
(* The rest of the world.                                                  *)

\* handleTunnelRequest records the activity of the tunnel it serves.
Touch(r) ==
    /\ r \in live \cap idle
    /\ idle' = idle \ {r}
    /\ UNCHANGED <<handlerVars, live, reaperVars, socketVars, expired, aged,
                   redisVars, restarts>>

PassTime(r) ==
    /\ r \in live
    /\ \/ /\ r \notin expired /\ expired' = expired \cup {r}
          /\ UNCHANGED <<idle, aged>>
       \/ /\ r \notin idle /\ idle' = idle \cup {r}
          /\ UNCHANGED <<expired, aged>>
       \/ /\ r \notin aged /\ aged' = aged \cup {r}
          /\ UNCHANGED <<expired, idle>>
    /\ UNCHANGED <<handlerVars, live, reaperVars, socketVars, redisVars, restarts>>

\* The process stops, by Stop or by a crash, and a new one starts: memory is
\* lost, Redis is not, and neither Stop nor NewServer touches its counters.
Restart ==
    /\ restarts < MaxRestarts
    /\ restarts' = restarts + 1
    /\ pc' = [r \in Requests |->
                 IF pc[r] \in {"limit", "store", "incr"} THEN "lost" ELSE pc[r]]
    /\ Delete(live)
    /\ rpc' = [p \in Reapers |-> "idle"]
    /\ scan' = {}
    /\ todo' = [p \in Reapers |-> {}]
    /\ cur' = [p \in Reapers |-> NoTunnel]
    /\ sockets' = {}
    /\ joining' = {}
    /\ UNCHANGED redisVars

-----------------------------------------------------------------------------
HandleTunnel(r) == Arrive(r) \/ CheckLimit(r) \/ Store(r) \/ Increment(r)

\* What a reaper does once it has deleted something.
CleanUp(p) == (\E r \in Requests : Discount(p, r)) \/ Clamp(p) \/ Unregister(p)

Next ==
    \/ \E r \in Requests : HandleTunnel(r)
    \/ \E p \in Admins, r \in Requests : Kill(p, r)
    \/ SweepExpired
    \/ ScanInactive
    \/ SweepInactive
    \/ \E p \in Reapers : CleanUp(p)
    \/ \E r \in Requests : CheckRegistered(r) \/ EnterSocket(r) \/ DropSocket(r)
    \/ \E r \in Requests : Touch(r) \/ PassTime(r)
    \/ Restart

Spec == Init /\ [][Next]_vars

\* A handler that has started runs on, a reaper finishes what it deleted and
\* the tickers of the two sweeps keep firing while the server is up.
Fairness ==
    /\ \A r \in Requests :
           WF_vars(CheckLimit(r) \/ Store(r) \/ Increment(r))
    /\ \A p \in Reapers : WF_vars(CleanUp(p))
    /\ WF_vars(SweepExpired)
    /\ WF_vars(SweepInactive)
    /\ WF_vars(ScanInactive)

FairSpec == Spec /\ Fairness

-----------------------------------------------------------------------------
(* Properties.                                                             *)

\* No Redis command has failed, the process has not restarted and no SET 0
\* has overwritten u's counter.
Undisturbed(u) == u \notin clamped /\ faults = 0 /\ restarts = 0

\* Tunnels that were published, and those no longer in the registry.
Published == {r \in Requests : pc[r] \in {"incr", "done"}}
Removed == Published \ live

\* KillTunnel and the two sweeps share the registry, yet a tunnel is cleaned
\* up by one of them only, and once: what one has deleted is in the registry
\* no more, nor in another's list, nor what another is unregistering.
OneReaper ==
    /\ live \subseteq Published
    /\ \A p \in Reapers :
           /\ todo[p] \subseteq Removed
           /\ cur[p] \in (Removed \ todo[p]) \cup {NoTunnel}
    /\ \A p, q \in Reapers : p # q =>
           /\ todo[p] \cap todo[q] = {}
           /\ cur[p] \notin todo[q]
           /\ cur[p] # NoTunnel => cur[p] # cur[q]

\* The tunnels of u whose INCR, and those whose DECR, has been sent, read off
\* the handlers, the registry and the reapers.
CountedIn(u) == {r \in OwnedBy(u) : pc[r] = "done"}
CountedOut(u) == (OwnedBy(u) \cap Removed) \ Doomed

\* The Redis counter GetTunnelCount reads is what the registry says, up to
\* the steps under way: a tunnel counts from its INCR on, and stops counting
\* when the goroutine that removed it has sent the DECR.
CountMatchesRegistry ==
    RedisEnabled => \A u \in Users : Undisturbed(u) =>
        count[u] = Cardinality(CountedIn(u)) - Cardinality(CountedOut(u))

\* The check of the limit and the store of the tunnel are separate critical
\* sections, so a user can pass the limit, by no more than the handlers that
\* were under way together: with one at a time the limit is kept.
OvershootBounded ==
    \A u \in Users : MaxPerUser > 0 /\ Undisturbed(u) =>
        Cardinality(live \cap OwnedBy(u))
            + Cardinality({r \in OwnedBy(u) : pc[r] = "store"})
        <= MaxPerUser - 1 + MaxInFlight

\* A request is answered 429 only if the user's tunnels, those being removed
\* included, have reached the limit.
RefusedAtLimit ==
    \A r \in Requests : pc[r] = "limit" /\ pc'[r] = "refused" /\ Undisturbed(Owner[r])
        => Cardinality(OwnedBy(Owner[r]) \cap (live \cup Doomed)) >= MaxPerUser
RefusedOnlyAtLimit == [][RefusedAtLimit]_vars

\* "Automatic expiration": a tunnel past its ExpiresAt does not stay.
ExpiredTunnelRemoved ==
    \A r \in Requests : r \in live \cap expired ~> r \notin live

\* The registry keeps the promise of TunnelLifecycle: a tunnel is live from
\* Store until a reaper deletes it, and closing until that reaper has
\* unregistered its socket.
Phase(r) ==
    IF r \in live THEN "live"
    ELSE IF \E p \in Reapers : r \in todo[p] \/ r = cur[p] THEN "closing"
    ELSE IF pc[r] \in {"incr", "done", "lost"} THEN "gone"
    ELSE "absent"
Lifecycle == INSTANCE TunnelLifecycle
                 WITH Tunnels <- Requests, phase <- [r \in Requests |-> Phase(r)]
KeepsLifecycle == Lifecycle!FairSpec

(* What the documentation says and the code does not keep.                 *)

\* README.md: "Max tunnels per client (default: 5) and per user (default: 10)".
PerUserLimit ==
    MaxPerUser > 0 => \A u \in Users : Cardinality(live \cap OwnedBy(u)) <= MaxPerUser

\* redis.go, GetTunnelCount: "retrieves the number of active tunnels for a
\* user": true, at the latest, once no handler and no reaper is at work.
Quiet(u) == InFlight(u) = {} /\ \A p \in Reapers : rpc[p] = "idle"
CountIsActiveTunnels ==
    RedisEnabled => \A u \in Users :
        Quiet(u) => count[u] = Cardinality(live \cap OwnedBy(u))

=============================================================================
