---------------------------- MODULE TunnelManager ----------------------------
(***************************************************************************)
(* The client's tunnel manager: the table of managed tunnels and its index *)
(* by user, the goroutine that starts each tunnel and watches it, the      *)
(* clean-up, reconnect and autosave routines, the file the tunnels are     *)
(* saved in, and Close.  The process may end at any moment; the next       *)
(* manager loads what the file holds.                                      *)
(*                                                                         *)
(* One action is a critical section of tm.mu or a call that blocks.  The   *)
(* inner Tunnel is ClientTunnel's subject: of it there is left the life    *)
(* it leads, ClientLifecycle.  There is no Redis client: nothing in the    *)
(* program calls SetRedisClient.  The signals in reconnectChan end in the  *)
(* log and are left out.  A caller may save while the autosave routine     *)
(* does; two callers that stop, restart or save at a time are left out.    *)
(***************************************************************************)
EXTENDS Naturals, FiniteSets

CONSTANTS
    Tunnels,        \* the IDs uuid.New may give; a restart brings none back
    Users,
    NoUser,         \* the empty user ID
    UserOf,         \* UserOf[t]: the user t is created for
    PortOf,         \* PortOf[t]: its protocol and local port
    MaxTunnels,     \* maxTunnels, 0 for no limit
    MaxPerUser,     \* maxTunnelsPerUser, 0 for no limit
    MaxCrashes      \* bound: how often the process ends

ASSUME ConstantsAssumption ==
    /\ IsFiniteSet(Tunnels)
    /\ NoUser \notin Users
    /\ UserOf \in [Tunnels -> Users \cup {NoUser}]
    /\ MaxTunnels \in Nat /\ MaxPerUser \in Nat /\ MaxCrashes \in Nat

VARIABLES
    tunnels,        \* the keys of tm.tunnels
    userTunnels,    \* userTunnels[u]: the index, {} for a user without entry
    created,        \* IDs given out so far
    stage,          \* stage[t]: where startTunnel is for t
    inner,          \* inner[t]: the Tunnel of t
    active,         \* the tunnels whose Active is set
    halted,         \* the tunnels whose stopChan is closed
    call,           \* <<step, S>>: what a caller has yet to do to, or to save
                    \* of, the tunnels S
    swept,          \* tunnels the clean-up routine has yet to stop
    auto,           \* where the autosave routine is
    snap,           \* the tunnels its SaveTunnels has collected
    file, disk,     \* tunnels.json: its state, and the tunnels it holds
    owner,          \* what the owner of the manager does: load, use, Close
    todo,           \* the tunnels LoadTunnels or Close has yet to handle
    due,            \* the tunnels there were when Close was called
    spoiled,        \* a caller's save has met the last save of the routine, or
                    \* has failed after it
    crashes

tableVars == <<tunnels, userTunnels, created>>
tunnelVars == <<stage, inner, active, halted>>
fileVars == <<auto, snap, file, disk>>
ownerVars == <<owner, todo, due, spoiled, crashes>>
vars == <<tableVars, tunnelVars, call, swept, fileVars, ownerVars>>

\* "idle": there is no Tunnel yet, or one whose running is still false.  Stop
\* does nothing to either.  "left": Start has failed after it had connected.
Inners == {"idle", "starting", "up", "stopped", "failed", "left"}
Stages == {"none", "begin", "connect", "mark", "watch", "unmark", "ended"}
NoCall == <<"none", {}>>
Calls == {NoCall} \cup ({"stop", "restart", "mark"} \X ((SUBSET Tunnels) \ {{}}))
                  \cup ({"save", "write"} \X SUBSET Tunnels)
\* A caller is in SaveTunnels.
Saving == call[1] \in {"save", "write"}
\* The autosave routine waits; saves on a tick, or on shutdown, where it has
\* collected the tunnels and then has the file open; has returned after a save
\* that went well, or after one that did not.
Ticks == {"save", "write"}
Finals == {"final", "write final"}
Autos == {"wait", "saved", "failed"} \cup Ticks \cup Finals
Owners == {"fresh", "loading", "using", "cancelled", "stopping", "waiting", "clear", "closed"}

TypeOK ==
    /\ tunnels \subseteq created /\ created \subseteq Tunnels
    /\ userTunnels \in [Users -> SUBSET Tunnels]
    /\ stage \in [Tunnels -> Stages] /\ inner \in [Tunnels -> Inners]
    /\ active \subseteq Tunnels /\ halted \subseteq Tunnels /\ swept \subseteq Tunnels
    /\ call \in Calls /\ (Saving => call[2] \subseteq created)
    /\ auto \in Autos /\ snap \subseteq created /\ disk \subseteq created
    /\ file \in {"absent", "empty", "whole", "torn"}
    /\ owner \in Owners /\ todo \subseteq created /\ due \subseteq created
    /\ spoiled \in BOOLEAN /\ crashes \in 0..MaxCrashes

\* A process that has begun is in the state NewTunnelManager makes.
Init ==
    /\ tunnels = {} /\ userTunnels = [u \in Users |-> {}]
    /\ stage = [t \in Tunnels |-> "none"] /\ inner = [t \in Tunnels |-> "idle"]
    /\ active = {} /\ halted = {}
    /\ call = NoCall /\ swept = {}
    /\ auto = "wait" /\ snap = {}
    /\ owner = "fresh" /\ todo = {} /\ due = {} /\ spoiled = FALSE
    /\ created = {} /\ file = "absent" /\ disk = {} /\ crashes = 0

\* ctx is done.
Cancelled == owner \in {"cancelled", "stopping", "waiting", "clear", "closed"}

\* Stop() on the inner tunnel of every member of S: it acts on a running one.
Stop(S) == inner' = [t \in Tunnels |-> IF t \in S /\ inner[t] \in {"starting", "up"}
                                       THEN "stopped" ELSE inner[t]]

\* The entries of S leave both maps.
Drop(S) ==
    /\ tunnels' = tunnels \ S
    /\ userTunnels' = [u \in Users |-> userTunnels[u] \ S]

-----------------------------------------------------------------------------
(* startTunnel.                                                            *)

Goto(t, s) == stage' = [stage EXCEPT ![t] = s]

\* It stores a new Tunnel; Start sets running and begins to connect.
BeginStart(t) ==
    /\ stage[t] = "begin"
    /\ inner' = [inner EXCEPT ![t] = "starting"]
    /\ Goto(t, "connect")
    /\ UNCHANGED <<tableVars, active, halted, call, swept, fileVars, ownerVars>>

\* Start returns.  A Stop meanwhile does not keep it from succeeding.  When it
\* fails the goroutine ends, whatever Start may have left behind.
EndStart(t) ==
    /\ stage[t] = "connect"
    /\ \/ /\ inner' = [inner EXCEPT ![t] = IF @ = "starting" THEN "up" ELSE @]
          /\ Goto(t, "mark")
       \/ /\ \E i \in {"failed", "left"} :
                 inner' = [inner EXCEPT ![t] = IF @ = "starting" THEN i ELSE @]
          /\ Goto(t, "ended")
    /\ UNCHANGED <<tableVars, active, halted, call, swept, fileVars, ownerVars>>

\* Faulty: the goroutine does not watch a tunnel that was stopped meanwhile.
Mark_Late(t) ==
    /\ stage[t] = "mark"
    /\ active' = active \cup {t}
    /\ Goto(t, IF inner[t] = "stopped" THEN "ended" ELSE "watch")
    /\ UNCHANGED <<tableVars, inner, halted, call, swept, fileVars, ownerVars>>

Mark(t) ==
    /\ stage[t] = "mark"
    /\ active' = active \cup {t}
    /\ Goto(t, "watch")
    /\ UNCHANGED <<tableVars, inner, halted, call, swept, fileVars, ownerVars>>

\* The select: the tunnel has stopped itself, or it was removed and is stopped.
Watch(t) ==
    /\ stage[t] = "watch"
    /\ inner[t] = "stopped" \/ t \in halted
    /\ Stop({t})
    /\ Goto(t, "unmark")
    /\ UNCHANGED <<tableVars, active, halted, call, swept, fileVars, ownerVars>>

Unmark(t) ==
    /\ stage[t] = "unmark"
    /\ active' = active \ {t}
    /\ Goto(t, "ended")
    /\ UNCHANGED <<tableVars, inner, halted, call, swept, fileVars, ownerVars>>

\* The monitor of the inner tunnel gives up, and stops it.
StopsItself(t) ==
    /\ inner[t] \in {"starting", "up"}
    /\ Stop({t})
    /\ UNCHANGED <<tableVars, stage, active, halted, call, swept, fileVars, ownerVars>>

\* What a failed Start left behind has come to its end.
Fades(t) ==
    /\ inner[t] = "left"
    /\ inner' = [inner EXCEPT ![t] = "failed"]
    /\ UNCHANGED <<tableVars, stage, active, halted, call, swept, fileVars, ownerVars>>

-----------------------------------------------------------------------------
(* What callers ask for.                                                   *)

Below(n, limit) == limit = 0 \/ n < limit

\* Callers come once the owner has loaded the file, until Close is over.
InUse == owner \notin {"fresh", "loading", "closed"}

\* Faulty: the port is compared with the user's own tunnels only.
MayCreate_OwnPorts(t) ==
    /\ t \notin created
    /\ Below(Cardinality(tunnels), MaxTunnels)
    /\ UserOf[t] # NoUser =>
           /\ Below(Cardinality(userTunnels[UserOf[t]]), MaxPerUser)
           /\ \A x \in userTunnels[UserOf[t]] : PortOf[x] # PortOf[t]

\* The checks of CreateTunnel, in the critical section of the entry.
MayCreate(t) ==
    /\ t \notin created
    /\ Below(Cardinality(tunnels), MaxTunnels)
    /\ UserOf[t] # NoUser => Below(Cardinality(userTunnels[UserOf[t]]), MaxPerUser)
    /\ \A x \in tunnels : PortOf[x] # PortOf[t]

CreateTunnel(t) ==
    /\ InUse
    /\ MayCreate(t)
    /\ tunnels' = tunnels \cup {t}
    /\ userTunnels' = [u \in Users |-> IF u = UserOf[t] THEN userTunnels[u] \cup {t}
                                       ELSE userTunnels[u]]
    /\ created' = created \cup {t}
    /\ Goto(t, "begin")
    /\ UNCHANGED <<inner, active, halted, call, swept, fileVars, ownerVars>>

\* The critical section of RemoveTunnel: only an active tunnel is stopped.
RemoveTunnel(t) ==
    /\ InUse /\ t \in tunnels /\ call = NoCall
    /\ Drop({t})
    /\ halted' = halted \cup (active \cap {t})
    /\ call' = IF t \in active THEN <<"stop", {t}>> ELSE NoCall
    /\ UNCHANGED <<created, stage, inner, active, swept, fileVars, ownerVars>>

\* StopAllTunnels lists the active tunnels.
StopAllTunnels ==
    /\ InUse /\ call = NoCall
    /\ tunnels \cap active # {}
    /\ call' = <<"stop", tunnels \cap active>>
    /\ UNCHANGED <<tableVars, tunnelVars, swept, fileVars, ownerVars>>

\* Faulty: the call does not come to its end.
StopAsked_GoesOn(t) ==
    /\ call[1] = "stop" /\ t \in call[2]
    /\ call' = <<"stop", call[2] \ {t}>>
    /\ Stop({t})
    /\ UNCHANGED <<tableVars, stage, active, halted, swept, fileVars, ownerVars>>

\* RemoveTunnel or StopAllTunnels, after the lock.
StopAsked(t) ==
    /\ call[1] = "stop" /\ t \in call[2]
    /\ call' = IF call[2] = {t} THEN NoCall ELSE <<"stop", call[2] \ {t}>>
    /\ Stop({t})
    /\ UNCHANGED <<tableVars, stage, active, halted, swept, fileVars, ownerVars>>

\* RestartTunnel looks the tunnel up under the lock, stops it outside, ...
RestartFind(t) ==
    /\ InUse /\ t \in tunnels /\ call = NoCall
    /\ call' = <<"restart", {t}>>
    /\ UNCHANGED <<tableVars, tunnelVars, swept, fileVars, ownerVars>>

RestartStop(t) ==
    /\ call = <<"restart", {t}>>
    /\ call' = <<"mark", {t}>>
    /\ Stop({t})
    /\ UNCHANGED <<tableVars, stage, active, halted, swept, fileVars, ownerVars>>

\* ... and clears Active under the lock.
RestartMark(t) ==
    /\ call = <<"mark", {t}>>
    /\ call' = NoCall
    /\ active' = active \ {t}
    /\ UNCHANGED <<tableVars, stage, inner, halted, swept, fileVars, ownerVars>>

-----------------------------------------------------------------------------
(* The background routines.                                                *)

\* Faulty: the index keeps what the sweep removes.
Sweep_TableOnly(S) ==
    /\ tunnels' = tunnels \ S
    /\ UNCHANGED userTunnels

\* What cleanupStaleTunnels takes out of the maps.
Sweep(S) == Drop(S)

\* cleanupStaleTunnels: what has expired by now goes, under the lock, ...
CleanUp(S) ==
    /\ owner \notin {"clear", "closed"} /\ swept = {}
    /\ S # {} /\ S \subseteq tunnels
    /\ Sweep(S)
    /\ halted' = halted \cup (S \cap active)
    /\ swept' = S \cap active
    /\ UNCHANGED <<created, stage, inner, active, call, fileVars, ownerVars>>

\* ... and what of it was active is stopped after it.
StopSwept(t) ==
    /\ t \in swept
    /\ swept' = swept \ {t}
    /\ Stop({t})
    /\ UNCHANGED <<tableVars, stage, active, halted, call, fileVars, ownerVars>>

-----------------------------------------------------------------------------
(* SaveTunnels, of the autosave routine and of a caller.  It collects the  *)
(* tunnels under the lock; os.WriteFile then empties the file as it opens  *)
(* it, and writes it.                                                      *)

Open == file' = "empty" /\ disk' = {}

\* S is written from the start of the file.  Of what another has written since
\* it was opened the end may remain.
Write(S) ==
    \/ file' = "whole" /\ disk' = S
    \/ file # "empty" /\ file' = "torn" /\ disk' = {}

\* Nothing is written, or not all.
WriteFails == UNCHANGED <<file, disk>> \/ (file' = "torn" /\ disk' = {})

\* A tick of the autosave routine, ...
AutoSave ==
    /\ auto = "wait"
    /\ auto' = "save" /\ snap' = tunnels
    /\ UNCHANGED <<tableVars, tunnelVars, call, swept, file, disk, ownerVars>>

\* Faulty: the routine returns at once on shutdown.
FinalSave_Skipped ==
    /\ Cancelled /\ auto = "wait"
    /\ auto' = "saved"
    /\ UNCHANGED <<tableVars, tunnelVars, call, swept, snap, file, disk, ownerVars>>

\* ... and its save on shutdown.
FinalSave ==
    /\ Cancelled /\ auto = "wait"
    /\ auto' = "final" /\ snap' = tunnels
    /\ spoiled' = Saving
    /\ UNCHANGED <<tableVars, tunnelVars, call, swept, file, disk, owner, todo, due, crashes>>

OpenFile ==
    /\ auto \in {"save", "final"}
    /\ auto' = IF auto = "save" THEN "write" ELSE "write final"
    /\ Open
    /\ UNCHANGED <<tableVars, tunnelVars, call, swept, snap, ownerVars>>

EndSave ==
    /\ auto \in {"write", "write final"}
    /\ auto' = IF auto = "write" THEN "wait" ELSE "saved"
    /\ Write(snap)
    /\ snap' = {}
    /\ UNCHANGED <<tableVars, tunnelVars, call, swept, ownerVars>>

\* The routine logs that it could not save, and goes on as if it had.
FailSave ==
    /\ \/ auto \in {"save", "final"} /\ UNCHANGED <<file, disk>>
       \/ auto \in {"write", "write final"} /\ WriteFails
    /\ auto' = IF auto \in Ticks THEN "wait" ELSE "failed"
    /\ snap' = {}
    /\ UNCHANGED <<tableVars, tunnelVars, call, swept, ownerVars>>

\* A caller's save takes the same steps, whatever the routine does meanwhile.
SaveTunnels ==
    /\ InUse /\ call = NoCall
    /\ call' = <<"save", tunnels>>
    /\ spoiled' = (spoiled \/ auto \in Finals)
    /\ UNCHANGED <<tableVars, tunnelVars, swept, fileVars, owner, todo, due, crashes>>

CallerOpens ==
    /\ call[1] = "save"
    /\ call' = <<"write", call[2]>>
    /\ Open
    /\ UNCHANGED <<tableVars, tunnelVars, swept, auto, snap, ownerVars>>

CallerWrites ==
    /\ call[1] = "write"
    /\ call' = NoCall
    /\ Write(call[2])
    /\ UNCHANGED <<tableVars, tunnelVars, swept, auto, snap, ownerVars>>

CallerFails ==
    /\ \/ call[1] = "save" /\ UNCHANGED <<file, disk>>
       \/ call[1] = "write" /\ WriteFails
    /\ call' = NoCall
    /\ spoiled' = (spoiled \/ auto = "saved")
    /\ UNCHANGED <<tableVars, tunnelVars, swept, auto, snap, owner, todo, due, crashes>>

-----------------------------------------------------------------------------
(* The owner: load, use, Close, and the end of the process.                *)

\* LoadTunnels reads the file, if it is asked to; it fails when there is no
\* JSON in it.
LoadTunnels ==
    /\ owner = "fresh"
    /\ \/ owner' = "loading" /\ file = "whole" /\ todo' = disk
       \/ owner' = "using" /\ UNCHANGED todo
    /\ UNCHANGED <<tableVars, tunnelVars, call, swept, fileVars, due, spoiled, crashes>>

\* One tunnel is entered in tm.tunnels, not in the index, and started.
LoadOne(t) ==
    /\ owner = "loading" /\ t \in todo
    /\ todo' = todo \ {t}
    /\ tunnels' = tunnels \cup {t}
    /\ Goto(t, "begin")
    /\ UNCHANGED <<userTunnels, created, inner, active, halted, call, swept, fileVars,
                   owner, due, spoiled, crashes>>

EndLoad ==
    /\ owner = "loading" /\ todo = {}
    /\ owner' = "using"
    /\ UNCHANGED <<tableVars, tunnelVars, call, swept, fileVars, todo, due, spoiled, crashes>>

\* Close cancels the context, ...
Close ==
    /\ owner = "using"
    /\ owner' = "cancelled"
    /\ due' = tunnels
    /\ UNCHANGED <<tableVars, tunnelVars, call, swept, fileVars, todo, spoiled, crashes>>

\* ... copies the map, ...
CopyTunnels ==
    /\ owner = "cancelled"
    /\ owner' = "stopping"
    /\ todo' = tunnels
    /\ UNCHANGED <<tableVars, tunnelVars, call, swept, fileVars, due, spoiled, crashes>>

\* Faulty: stops the inner tunnel only, which may not have begun to start.
StopOne_InnerOnly(t) ==
    /\ owner = "stopping" /\ t \in todo
    /\ todo' = todo \ {t}
    /\ Stop({t})
    /\ UNCHANGED <<tableVars, stage, active, halted, call, swept, fileVars, owner, due, spoiled,
                   crashes>>

\* ... stops each tunnel of the copy, active or not, ...
StopOne(t) ==
    /\ owner = "stopping" /\ t \in todo
    /\ todo' = todo \ {t}
    /\ halted' = halted \cup {t}
    /\ Stop({t})
    /\ UNCHANGED <<tableVars, stage, active, call, swept, fileVars, owner, due, spoiled, crashes>>

\* ... waits for the background routines, ...
Wait ==
    /\ \/ owner = "stopping" /\ todo = {} /\ owner' = "waiting"
       \/ owner = "waiting" /\ swept = {} /\ auto \in {"saved", "failed"} /\ owner' = "clear"
    /\ UNCHANGED <<tableVars, tunnelVars, call, swept, fileVars, todo, due, spoiled, crashes>>

\* ... and clears the map, not the index.
Clear ==
    /\ owner = "clear"
    /\ owner' = "closed"
    /\ tunnels' = {} /\ due' = {}
    /\ UNCHANGED <<userTunnels, created, tunnelVars, call, swept, fileVars, todo, spoiled, crashes>>

\* The process ends, and the program is started again.
Crash ==
    /\ crashes < MaxCrashes
    /\ crashes' = crashes + 1
    /\ tunnels' = {} /\ userTunnels' = [u \in Users |-> {}]
    /\ stage' = [t \in Tunnels |-> "none"] /\ inner' = [t \in Tunnels |-> "idle"]
    /\ active' = {} /\ halted' = {}
    /\ call' = NoCall /\ swept' = {}
    /\ auto' = "wait" /\ snap' = {}
    /\ owner' = "fresh" /\ todo' = {} /\ due' = {} /\ spoiled' = FALSE
    /\ UNCHANGED <<created, file, disk>>

-----------------------------------------------------------------------------
Goroutine(t) ==
    BeginStart(t) \/ EndStart(t) \/ Mark(t) \/ Watch(t) \/ Unmark(t)

Restarting(t) == RestartStop(t) \/ RestartMark(t)

Caller(t) ==
    CreateTunnel(t) \/ RemoveTunnel(t) \/ StopAsked(t) \/ RestartFind(t) \/ Restarting(t)

Background ==
    \/ (\E S \in SUBSET tunnels : CleanUp(S)) \/ (\E t \in Tunnels : StopSwept(t))
    \/ AutoSave \/ FinalSave \/ OpenFile \/ EndSave \/ FailSave

CallerSaves == SaveTunnels \/ CallerOpens \/ CallerWrites \/ CallerFails

Owner ==
    \/ LoadTunnels \/ (\E t \in Tunnels : LoadOne(t)) \/ EndLoad
    \/ Close \/ CopyTunnels \/ (\E t \in Tunnels : StopOne(t)) \/ Wait \/ Clear

Next ==
    \/ \E t \in Tunnels : Goroutine(t) \/ StopsItself(t) \/ Fades(t) \/ Caller(t)
    \/ StopAllTunnels \/ CallerSaves
    \/ Background
    \/ Owner
    \/ Crash

Spec == Init /\ [][Next]_vars

-----------------------------------------------------------------------------
(* Properties.                                                             *)

\* The index names only tunnels that are managed, each under its own user: a
\* tunnel that went, whoever removed it, does not count against its user's
\* limit (tunnel_manager.go:275, 552).  Close leaves the index as it is.
IndexHasNoGhost ==
    owner # "closed" => \A u \in Users : \A t \in userTunnels[u] : t \in tunnels /\ UserOf[t] = u

\* No two managed tunnels share a protocol and port (tunnel_manager.go:346),
\* although LoadTunnels does not look: what the file holds was managed at one
\* moment by an earlier manager.
DistinctPorts == \A x, y \in tunnels : PortOf[x] = PortOf[y] => x = y

\* There are never more tunnels than maxTunnels (tunnel_manager.go:313), over
\* restarts that load what was saved.
WithinLimit == MaxTunnels > 0 => Cardinality(tunnels) <= MaxTunnels

\* When Close is about to clear the map, every tunnel that was managed when it
\* was called, and still is, is in the file (tunnel_manager.go:234), over ticks
\* and callers' saves before the last save of the routine and callers' saves
\* after it.  It does not hold if that save failed, while a caller still saves,
\* or if a caller's save was under way at the same time as the last one or
\* failed after it: SaveTunnels takes no lock, so the file may then be a mixture,
\* or hold what the caller had collected long before.
ClosedIsSaved ==
    owner = "clear" /\ auto = "saved" /\ ~spoiled /\ ~Saving =>
        file = "whole" /\ due \cap tunnels \subseteq disk

\* A tunnel that is shown as active has its goroutine to notice that it stops,
\* although Stop may run while it is being started (tunnel_manager.go:482).
ActiveIsWatched == \A t \in active : stage[t] \in {"watch", "unmark"}

\* Once Close has handled its copy of the map, every tunnel that was managed
\* when it was called, and still is, has stopped, or its goroutine is going to
\* find stopChan closed, also when it had not begun to start, where Stop does
\* nothing (tunnel_manager.go:847).  It does not hold of a tunnel whose Start
\* failed after it had connected: that one is "left", and may go on serving.
ClosedIsStopped ==
    owner \in {"waiting", "clear"} =>
        \A t \in due \cap tunnels :
            \/ inner[t] \in {"stopped", "failed", "left"}
            \/ t \in halted /\ stage[t] \in {"begin", "connect", "mark", "watch"}
=============================================================================
