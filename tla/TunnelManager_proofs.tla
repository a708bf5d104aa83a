------------------------ MODULE TunnelManager_proofs ------------------------
(***************************************************************************)
(* What TunnelManager keeps, for every number of tunnels, users, limits    *)
(* and restarts.  Each part of the invariant has a lemma over Next; what a *)
(* part needs of the others it names.                                      *)
(***************************************************************************)
EXTENDS TunnelManager, FiniteSetTheorems, TLAPS

\* The forms of call.
LEMMA CallForms ==
  ASSUME NEW x \in Calls
  PROVE  /\ x[1] \in {"none", "stop", "restart", "mark", "save", "write"}
         /\ x[1] = "none" => x = NoCall
         /\ x[1] \in {"save", "write"} => x[2] \in SUBSET Tunnels
         /\ x[1] \in {"stop", "restart", "mark"} => x[2] \in (SUBSET Tunnels) \ {{}}
<1>1. CASE x = NoCall
  BY <1>1 DEF NoCall
<1>2. CASE x \in {"stop", "restart", "mark"} \X ((SUBSET Tunnels) \ {{}})
  BY <1>2
<1>3. CASE x \in {"save", "write"} \X SUBSET Tunnels
  BY <1>3
<1> QED BY <1>1, <1>2, <1>3 DEF Calls

LEMMA CallsMade ==
  /\ NoCall \in Calls /\ NoCall[1] = "none"
  /\ \A s \in {"stop", "restart", "mark"}, S \in (SUBSET Tunnels) \ {{}} :
         <<s, S>> \in Calls
  /\ \A s \in {"save", "write"}, S \in SUBSET Tunnels : <<s, S>> \in Calls
BY DEF Calls, NoCall

\* A caller that stops or restarts tunnels does not save.
LEMMA StopsDoNotSave ==
  ASSUME NEW t \in Tunnels, StopAsked(t) \/ RestartFind(t) \/ Restarting(t)
  PROVE  call[1] \in {"none", "stop", "restart", "mark"} /\ ~Saving'
<1>1. CASE StopAsked(t)
  <2>1. call' = NoCall \/ call' = <<"stop", call[2] \ {t}>>
    BY <1>1 DEF StopAsked
  <2>2. call'[1] \in {"none", "stop"}
    BY <2>1, CallsMade
  <2>3. call[1] = "stop"
    BY <1>1 DEF StopAsked
  <2> QED BY <2>2, <2>3 DEF Saving
<1>2. CASE RestartFind(t)
  BY <1>2, CallsMade DEF RestartFind, Saving
<1>3. CASE RestartStop(t)
  BY <1>3 DEF RestartStop, Saving
<1>4. CASE RestartMark(t)
  BY <1>4, CallsMade DEF RestartMark, Saving
<1> QED BY <1>1, <1>2, <1>3, <1>4 DEF Restarting

LEMMA TypeInit == Init => TypeOK
<1> SUFFICES ASSUME Init PROVE TypeOK
  OBVIOUS
<1>1. call \in Calls /\ ~Saving
  <2>1. call = NoCall
    BY DEF Init
  <2>2. call[1] = "none"
    BY <2>1, CallsMade
  <2> QED BY <2>1, <2>2, CallsMade DEF Saving
<1>2. crashes \in 0..MaxCrashes
  BY ConstantsAssumption DEF Init
<1>3. auto \in Autos /\ owner \in Owners /\ spoiled \in BOOLEAN
  BY DEF Init, Autos, Owners
<1>4. /\ userTunnels \in [Users -> SUBSET Tunnels]
      /\ stage \in [Tunnels -> Stages] /\ inner \in [Tunnels -> Inners]
  BY DEF Init, Stages, Inners
<1> QED BY <1>1, <1>2, <1>3, <1>4 DEF Init, TypeOK

LEMMA TypeStep == TypeOK /\ [Next]_vars => TypeOK'
<1> SUFFICES ASSUME TypeOK, [Next]_vars PROVE TypeOK'
  OBVIOUS
<1> USE ConstantsAssumption DEF TypeOK, Inners, Stages, Saving, Autos, Ticks, Finals,
        Owners, tableVars, tunnelVars, fileVars, ownerVars
<1>1. ASSUME NEW t \in Tunnels, Goroutine(t) PROVE TypeOK'
  <2>1. CASE BeginStart(t)
    BY <2>1 DEF BeginStart, Goto
  <2>2. CASE EndStart(t)
    <3>1. inner' \in [Tunnels -> Inners] /\ stage' \in [Tunnels -> Stages]
      <4>1. PICK i \in {"up", "failed", "left"}, s \in {"mark", "ended"} :
                /\ inner' = [inner EXCEPT ![t] = IF @ = "starting" THEN i ELSE @]
                /\ stage' = [stage EXCEPT ![t] = s]
        BY <2>2 DEF EndStart, Goto
      <4> QED BY <4>1
    <3>2. UNCHANGED <<tableVars, active, halted, call, swept, fileVars, ownerVars>>
      BY <2>2 DEF EndStart
    <3> QED BY <3>1, <3>2
  <2>3. CASE Mark(t)
    BY <2>3 DEF Mark, Goto
  <2>4. CASE Watch(t)
    BY <2>4 DEF Watch, Goto, Stop
  <2>5. CASE Unmark(t)
    BY <2>5 DEF Unmark, Goto
  <2> QED BY <1>1, <2>1, <2>2, <2>3, <2>4, <2>5 DEF Goroutine
<1>2. ASSUME NEW t \in Tunnels, StopsItself(t) \/ Fades(t) PROVE TypeOK'
  <2>1. inner' \in [Tunnels -> Inners]
    BY <1>2 DEF StopsItself, Stop, Fades
  <2>2. UNCHANGED <<tableVars, stage, active, halted, call, swept, fileVars, ownerVars>>
    BY <1>2 DEF StopsItself, Fades
  <2> QED BY <2>1, <2>2
<1>3. ASSUME NEW t \in Tunnels, Caller(t) PROVE TypeOK'
  <2>1. CASE CreateTunnel(t)
    BY <2>1 DEF CreateTunnel, Goto
  <2>2. CASE RemoveTunnel(t)
    BY <2>2, CallsMade DEF RemoveTunnel, Drop
  <2>3. CASE StopAsked(t)
    <3>1. call[1] = "stop" /\ call[2] \in (SUBSET Tunnels) \ {{}}
      BY <2>3, CallForms DEF StopAsked
    <3>2. call' = NoCall \/ (call[2] # {t} /\ call' = <<"stop", call[2] \ {t}>>)
      BY <2>3 DEF StopAsked
    <3>3. call[2] # {t} => call[2] \ {t} \in (SUBSET Tunnels) \ {{}}
      BY <2>3, <3>1 DEF StopAsked
    <3>4. call' \in Calls
      BY <3>2, <3>3, CallsMade
    <3> QED BY <2>3, <3>4, StopsDoNotSave DEF StopAsked, Stop
  <2>4. CASE RestartFind(t)
    BY <2>4, CallsMade DEF RestartFind
  <2>5. CASE RestartStop(t)
    BY <2>5, CallsMade DEF RestartStop, Stop
  <2>6. CASE RestartMark(t)
    BY <2>6, CallsMade DEF RestartMark
  <2> QED BY <1>3, <2>1, <2>2, <2>3, <2>4, <2>5, <2>6 DEF Caller, Restarting
<1>4. CASE StopAllTunnels \/ CallerSaves
  <2>1. CASE StopAllTunnels
    BY <2>1, CallsMade DEF StopAllTunnels
  <2>2. CASE SaveTunnels
    BY <2>2, CallsMade DEF SaveTunnels
  <2>3. CASE CallerOpens
    BY <2>3, CallsMade DEF CallerOpens, Open
  <2>4. CASE CallerWrites
    BY <2>4, CallsMade DEF CallerWrites, Write
  <2>5. CASE CallerFails
    BY <2>5, CallsMade DEF CallerFails, WriteFails
  <2> QED BY <1>4, <2>1, <2>2, <2>3, <2>4, <2>5 DEF CallerSaves
<1>5. CASE Background
  <2>1. ASSUME NEW S \in SUBSET tunnels, CleanUp(S) PROVE TypeOK'
    BY <2>1 DEF CleanUp, Sweep, Drop
  <2>2. ASSUME NEW t \in Tunnels, StopSwept(t) PROVE TypeOK'
    BY <2>2 DEF StopSwept, Stop
  <2>3. CASE AutoSave
    BY <2>3 DEF AutoSave
  <2>4. CASE FinalSave
    BY <2>4 DEF FinalSave
  <2>5. CASE OpenFile
    BY <2>5 DEF OpenFile, Open
  <2>6. CASE EndSave \/ FailSave
    BY <2>6 DEF EndSave, FailSave, Write, WriteFails
  <2> QED BY <1>5, <2>1, <2>2, <2>3, <2>4, <2>5, <2>6 DEF Background
<1>6. CASE Owner
  <2>1. CASE LoadTunnels \/ EndLoad
    BY <2>1 DEF LoadTunnels, EndLoad
  <2>2. ASSUME NEW t \in Tunnels, LoadOne(t) PROVE TypeOK'
    <3>1. stage' \in [Tunnels -> Stages]
      BY <2>2 DEF LoadOne, Goto
    <3>2. tunnels' \subseteq created' /\ todo' \subseteq created'
      BY <2>2 DEF LoadOne
    <3> QED BY <2>2, <3>1, <3>2 DEF LoadOne
  <2>3. CASE Close \/ CopyTunnels \/ Wait \/ Clear
    BY <2>3 DEF Close, CopyTunnels, Wait, Clear
  <2>4. ASSUME NEW t \in Tunnels, StopOne(t) PROVE TypeOK'
    BY <2>4 DEF StopOne, Stop
  <2> QED BY <1>6, <2>1, <2>2, <2>3, <2>4 DEF Owner
<1>7. CASE Crash
  <2>1. crashes' \in 0..MaxCrashes
    <3>1. crashes \in 0..MaxCrashes /\ crashes < MaxCrashes /\ crashes' = crashes + 1
      BY <1>7 DEF Crash
    <3> QED BY ONLY <3>1, ConstantsAssumption
  <2>2. created' \subseteq Tunnels /\ disk' \subseteq created' /\ file' \in {"absent", "empty", "whole", "torn"}
    BY <1>7 DEF Crash
  <2>3. userTunnels' \in [Users -> SUBSET Tunnels] /\ stage' \in [Tunnels -> Stages]
        /\ inner' \in [Tunnels -> Inners]
    BY <1>7 DEF Crash
  <2>4. /\ tunnels' \subseteq created' /\ snap' \subseteq created'
        /\ active' \subseteq Tunnels /\ halted' \subseteq Tunnels /\ swept' \subseteq Tunnels
        /\ todo' \subseteq created' /\ due' \subseteq created'
    BY <1>7 DEF Crash
  <2>5. call' \in Calls /\ ~Saving'
    BY <1>7, CallsMade DEF Crash
  <2>6. auto' \in Autos /\ owner' \in Owners /\ spoiled' \in BOOLEAN
    BY <1>7 DEF Crash
  <2> HIDE DEF Saving, Ticks, Finals, Inners, Stages, Autos, Owners
  <2> QED BY <2>1, <2>2, <2>3, <2>4, <2>5, <2>6
<1>8. CASE UNCHANGED vars
  BY <1>8 DEF vars
<1> QED BY <1>1, <1>2, <1>3, <1>4, <1>5, <1>6, <1>7, <1>8 DEF Next

-----------------------------------------------------------------------------
(* The ports.                                                              *)

Distinct(S) == \A x, y \in S : PortOf[x] = PortOf[y] => x = y

\* Whatever is in the table, in a save or in the file was in the table at one
\* moment; while the file is loaded, the table and the rest of it are the file.
PortsDiffer ==
    /\ Distinct(tunnels) /\ Distinct(snap) /\ Distinct(disk)
    /\ Saving => Distinct(call[2])
    /\ owner = "fresh" => tunnels = {}
    /\ owner = "loading" => Distinct(tunnels \cup todo)

LEMMA PortsStep == PortsDiffer /\ [Next]_vars => PortsDiffer'
<1> SUFFICES ASSUME PortsDiffer, [Next]_vars PROVE PortsDiffer'
  OBVIOUS
<1> USE CallsMade DEF PortsDiffer, Distinct, Saving, tableVars, tunnelVars, fileVars, ownerVars
<1>1. ASSUME NEW t \in Tunnels, Goroutine(t) \/ StopsItself(t) \/ Fades(t)
      PROVE  PortsDiffer'
  BY <1>1 DEF Goroutine, BeginStart, EndStart, Mark, Watch, Unmark, StopsItself, Fades
<1>2. ASSUME NEW t \in Tunnels, Caller(t) PROVE PortsDiffer'
  <2>1. CASE CreateTunnel(t)
    BY <2>1 DEF CreateTunnel, InUse, MayCreate
  <2>2. CASE RemoveTunnel(t)
    BY <2>2 DEF RemoveTunnel, InUse, Drop
  <2>3. CASE StopAsked(t) \/ RestartFind(t) \/ Restarting(t)
    BY <2>3 DEF StopAsked, RestartFind, Restarting, RestartStop, RestartMark
  <2> QED BY <1>2, <2>1, <2>2, <2>3 DEF Caller
<1>3. CASE StopAllTunnels \/ CallerSaves
  <2>1. CASE StopAllTunnels
    BY <2>1 DEF StopAllTunnels
  <2>2. CASE SaveTunnels
    BY <2>2 DEF SaveTunnels
  <2>3. CASE CallerOpens
    BY <2>3 DEF CallerOpens, Open
  <2>4. CASE CallerWrites
    BY <2>4 DEF CallerWrites, Write
  <2>5. CASE CallerFails
    BY <2>5 DEF CallerFails, WriteFails
  <2> QED BY <1>3, <2>1, <2>2, <2>3, <2>4, <2>5 DEF CallerSaves
<1>4. CASE Background
  <2>1. ASSUME NEW S \in SUBSET tunnels, CleanUp(S) PROVE PortsDiffer'
    BY <2>1 DEF CleanUp, Sweep, Drop
  <2>2. ASSUME NEW t \in Tunnels, StopSwept(t) PROVE PortsDiffer'
    BY <2>2 DEF StopSwept
  <2>3. CASE AutoSave \/ FinalSave \/ OpenFile
    BY <2>3 DEF AutoSave, FinalSave, OpenFile, Open
  <2>4. CASE EndSave \/ FailSave
    BY <2>4 DEF EndSave, FailSave, Write, WriteFails
  <2> QED BY <1>4, <2>1, <2>2, <2>3, <2>4 DEF Background
<1>5. CASE Owner
  <2>1. CASE LoadTunnels \/ EndLoad
    BY <2>1 DEF LoadTunnels, EndLoad
  <2>2. ASSUME NEW t \in Tunnels, LoadOne(t) PROVE PortsDiffer'
    BY <2>2 DEF LoadOne
  <2>3. CASE Close \/ CopyTunnels \/ Wait \/ Clear
    BY <2>3 DEF Close, CopyTunnels, Wait, Clear
  <2>4. ASSUME NEW t \in Tunnels, StopOne(t) PROVE PortsDiffer'
    BY <2>4 DEF StopOne
  <2> QED BY <1>5, <2>1, <2>2, <2>3, <2>4 DEF Owner
<1>6. CASE Crash
  BY <1>6 DEF Crash
<1>7. CASE UNCHANGED vars
  BY <1>7 DEF vars
<1> QED BY <1>1, <1>2, <1>3, <1>4, <1>5, <1>6, <1>7 DEF Next

-----------------------------------------------------------------------------
(* The limit.                                                              *)

Within(S) == MaxTunnels > 0 => Cardinality(S) <= MaxTunnels

LimitKept ==
    /\ Within(tunnels) /\ Within(snap) /\ Within(disk)
    /\ Saving => Within(call[2])
    /\ owner = "fresh" => tunnels = {}
    /\ owner = "loading" => Within(tunnels \cup todo)

LEMMA SubsetWithin ==
  ASSUME NEW S \in SUBSET Tunnels, NEW T \in SUBSET S, Within(S)
  PROVE  Within(T)
<1>1. IsFiniteSet(S) /\ IsFiniteSet(Tunnels)
  BY ConstantsAssumption, FS_Subset
<1>2. Cardinality(T) <= Cardinality(S) /\ Cardinality(T) \in Nat /\ Cardinality(S) \in Nat
  BY <1>1, FS_Subset, FS_CardinalityType
<1> QED BY <1>2, ConstantsAssumption DEF Within

LEMMA AddWithin ==
  ASSUME NEW S \in SUBSET Tunnels, NEW t \in Tunnels, Below(Cardinality(S), MaxTunnels)
  PROVE  Within(S \cup {t})
<1>1. IsFiniteSet(S)
  BY ConstantsAssumption, FS_Subset
<1>2. Cardinality(S) \in Nat
  BY <1>1, FS_CardinalityType
<1>3. CASE t \in S
  <2>1. S \cup {t} = S
    BY <1>3
  <2> QED BY <1>2, <2>1, ConstantsAssumption DEF Within, Below
<1>4. CASE t \notin S
  <2>1. Cardinality(S \cup {t}) = Cardinality(S) + 1
    BY <1>1, <1>4, FS_AddElement
  <2> QED BY <1>2, <2>1, ConstantsAssumption DEF Within, Below
<1> QED BY <1>3, <1>4

LEMMA EmptyWithin == Within({})
  BY FS_EmptySet, ConstantsAssumption DEF Within

LEMMA LimitKeptStep == TypeOK /\ LimitKept /\ [Next]_vars => LimitKept'
<1> SUFFICES ASSUME TypeOK, LimitKept, [Next]_vars PROVE LimitKept'
  OBVIOUS
<1> USE CallsMade DEF LimitKept, Saving, tableVars, tunnelVars, fileVars, ownerVars
<1>1. ASSUME NEW t \in Tunnels, Goroutine(t) PROVE LimitKept'
  <2>1. CASE BeginStart(t) \/ EndStart(t)
    BY <2>1 DEF BeginStart, EndStart
  <2>2. CASE Mark(t) \/ Watch(t) \/ Unmark(t)
    BY <2>2 DEF Mark, Watch, Unmark
  <2> QED BY <1>1, <2>1, <2>2 DEF Goroutine
<1>2. ASSUME NEW t \in Tunnels, StopsItself(t) \/ Fades(t) PROVE LimitKept'
  BY <1>2 DEF StopsItself, Fades
<1>3. ASSUME NEW t \in Tunnels, Caller(t) PROVE LimitKept'
  <2>1. CASE CreateTunnel(t)
    BY <2>1, AddWithin DEF CreateTunnel, InUse, MayCreate, TypeOK
  <2>2. CASE RemoveTunnel(t)
    BY <2>2, SubsetWithin DEF RemoveTunnel, InUse, Drop, TypeOK
  <2>3. CASE StopAsked(t) \/ RestartFind(t) \/ Restarting(t)
    <3>1. UNCHANGED <<tunnels, snap, disk, owner, todo>>
      BY <2>3 DEF StopAsked, RestartFind, Restarting, RestartStop, RestartMark
    <3>2. ~(call'[1] \in {"save", "write"})
      BY <2>3, StopsDoNotSave
    <3> QED BY <3>1, <3>2
  <2> QED BY <1>3, <2>1, <2>2, <2>3 DEF Caller
<1>4. CASE StopAllTunnels \/ CallerSaves
  <2>1. CASE StopAllTunnels
    BY <2>1 DEF StopAllTunnels
  <2>2. CASE SaveTunnels
    BY <2>2 DEF SaveTunnels
  <2>3. CASE CallerOpens
    BY <2>3, EmptyWithin DEF CallerOpens, Open
  <2>4. CASE CallerWrites
    BY <2>4, EmptyWithin DEF CallerWrites, Write
  <2>5. CASE CallerFails
    BY <2>5, EmptyWithin DEF CallerFails, WriteFails
  <2> QED BY <1>4, <2>1, <2>2, <2>3, <2>4, <2>5 DEF CallerSaves
<1>5. CASE Background
  <2>1. ASSUME NEW S \in SUBSET tunnels, CleanUp(S) PROVE LimitKept'
    BY <2>1, SubsetWithin DEF CleanUp, Sweep, Drop, TypeOK
  <2>2. ASSUME NEW t \in Tunnels, StopSwept(t) PROVE LimitKept'
    BY <2>2 DEF StopSwept
  <2>3. CASE AutoSave \/ FinalSave \/ OpenFile
    BY <2>3, EmptyWithin DEF AutoSave, FinalSave, OpenFile, Open
  <2>4. CASE EndSave \/ FailSave
    BY <2>4, EmptyWithin DEF EndSave, FailSave, Write, WriteFails
  <2> QED BY <1>5, <2>1, <2>2, <2>3, <2>4 DEF Background
<1>6. CASE Owner
  <2>1. CASE LoadTunnels \/ EndLoad
    BY <2>1 DEF LoadTunnels, EndLoad
  <2>2. ASSUME NEW t \in Tunnels, LoadOne(t) PROVE LimitKept'
    BY <2>2, SubsetWithin DEF LoadOne, TypeOK
  <2>3. CASE Close \/ CopyTunnels \/ Wait \/ Clear
    BY <2>3, EmptyWithin DEF Close, CopyTunnels, Wait, Clear
  <2>4. ASSUME NEW t \in Tunnels, StopOne(t) PROVE LimitKept'
    BY <2>4 DEF StopOne
  <2> QED BY <1>6, <2>1, <2>2, <2>3, <2>4 DEF Owner
<1>7. CASE Crash
  BY <1>7, EmptyWithin DEF Crash
<1>8. CASE UNCHANGED vars
  BY <1>8 DEF vars
<1> QED BY <1>1, <1>2, <1>3, <1>4, <1>5, <1>6, <1>7, <1>8 DEF Next

-----------------------------------------------------------------------------
(* The index.                                                              *)

LEMMA IndexStep == TypeOK /\ IndexHasNoGhost /\ [Next]_vars => IndexHasNoGhost'
<1> SUFFICES ASSUME TypeOK, IndexHasNoGhost, [Next]_vars PROVE IndexHasNoGhost'
  OBVIOUS
<1> USE DEF IndexHasNoGhost, TypeOK, tableVars, tunnelVars, fileVars, ownerVars
<1>1. ASSUME NEW t \in Tunnels, Goroutine(t) PROVE IndexHasNoGhost'
  <2>1. CASE BeginStart(t) \/ EndStart(t)
    BY <2>1 DEF BeginStart, EndStart
  <2>2. CASE Mark(t) \/ Watch(t) \/ Unmark(t)
    BY <2>2 DEF Mark, Watch, Unmark
  <2> QED BY <1>1, <2>1, <2>2 DEF Goroutine
<1>2. ASSUME NEW t \in Tunnels, StopsItself(t) \/ Fades(t) PROVE IndexHasNoGhost'
  BY <1>2 DEF StopsItself, Fades
<1>3. ASSUME NEW t \in Tunnels, Caller(t) PROVE IndexHasNoGhost'
  <2>1. CASE CreateTunnel(t)
    BY <2>1, ConstantsAssumption DEF CreateTunnel, InUse, MayCreate
  <2>2. CASE RemoveTunnel(t)
    BY <2>2 DEF RemoveTunnel, InUse, Drop
  <2>3. CASE StopAsked(t) \/ RestartFind(t) \/ Restarting(t)
    BY <2>3 DEF StopAsked, RestartFind, Restarting, RestartStop, RestartMark
  <2> QED BY <1>3, <2>1, <2>2, <2>3 DEF Caller
<1>4. CASE StopAllTunnels \/ CallerSaves
  <2>1. CASE StopAllTunnels
    BY <2>1 DEF StopAllTunnels
  <2>2. CASE SaveTunnels
    BY <2>2 DEF SaveTunnels
  <2>3. CASE CallerOpens
    BY <2>3 DEF CallerOpens, Open
  <2>4. CASE CallerWrites
    BY <2>4 DEF CallerWrites, Write
  <2>5. CASE CallerFails
    BY <2>5 DEF CallerFails, WriteFails
  <2> QED BY <1>4, <2>1, <2>2, <2>3, <2>4, <2>5 DEF CallerSaves
<1>5. CASE Background
  <2>1. ASSUME NEW S \in SUBSET tunnels, CleanUp(S) PROVE IndexHasNoGhost'
    BY <2>1 DEF CleanUp, Sweep, Drop
  <2>2. ASSUME NEW t \in Tunnels, StopSwept(t) PROVE IndexHasNoGhost'
    BY <2>2 DEF StopSwept
  <2>3. CASE AutoSave \/ FinalSave \/ OpenFile
    BY <2>3 DEF AutoSave, FinalSave, OpenFile, Open
  <2>4. CASE EndSave \/ FailSave
    BY <2>4 DEF EndSave, FailSave, Write, WriteFails
  <2> QED BY <1>5, <2>1, <2>2, <2>3, <2>4 DEF Background
<1>6. CASE Owner
  <2>1. CASE LoadTunnels \/ EndLoad
    BY <2>1 DEF LoadTunnels, EndLoad
  <2>2. ASSUME NEW t \in Tunnels, LoadOne(t) PROVE IndexHasNoGhost'
    BY <2>2 DEF LoadOne
  <2>3. CASE Close \/ CopyTunnels \/ Wait \/ Clear
    BY <2>3 DEF Close, CopyTunnels, Wait, Clear
  <2>4. ASSUME NEW t \in Tunnels, StopOne(t) PROVE IndexHasNoGhost'
    BY <2>4 DEF StopOne
  <2> QED BY <1>6, <2>1, <2>2, <2>3, <2>4 DEF Owner
<1>7. CASE Crash
  BY <1>7 DEF Crash
<1>8. CASE UNCHANGED vars
  BY <1>8 DEF vars
<1> QED BY <1>1, <1>2, <1>3, <1>4, <1>5, <1>6, <1>7, <1>8 DEF Next

-----------------------------------------------------------------------------
(* The save on shutdown.                                                   *)

\* The routine saves for the last time after Close was called, and no tunnel of
\* that moment comes back to the table.  While nobody meets it, the last save
\* has the file to itself, and so have the callers' saves that come after it.
SaveCovers ==
    /\ ~Cancelled => auto \in {"wait"} \cup Ticks
    /\ Cancelled /\ auto \in Finals => due \cap tunnels \subseteq snap
    /\ auto \in Finals /\ ~spoiled => ~Saving
    /\ auto = "write final" /\ ~spoiled => file = "empty"
    /\ Cancelled /\ auto = "saved" /\ ~spoiled =>
           /\ IF call[1] = "write" THEN file = "empty"
              ELSE file = "whole" /\ due \cap tunnels \subseteq disk
           /\ Saving => due \cap tunnels \subseteq call[2]

LEMMA SaveCoversStep == TypeOK /\ SaveCovers /\ [Next]_vars => SaveCovers'
<1> SUFFICES ASSUME TypeOK, SaveCovers, [Next]_vars PROVE SaveCovers'
  OBVIOUS
<1> USE CallsMade DEF SaveCovers, Cancelled, TypeOK, Saving, Ticks, Finals, tableVars, tunnelVars, fileVars, ownerVars
<1>1. ASSUME NEW t \in Tunnels, Goroutine(t) PROVE SaveCovers'
  <2>1. CASE BeginStart(t) \/ EndStart(t)
    BY <2>1 DEF BeginStart, EndStart
  <2>2. CASE Mark(t) \/ Watch(t) \/ Unmark(t)
    BY <2>2 DEF Mark, Watch, Unmark
  <2> QED BY <1>1, <2>1, <2>2 DEF Goroutine
<1>2. ASSUME NEW t \in Tunnels, StopsItself(t) \/ Fades(t) PROVE SaveCovers'
  BY <1>2 DEF StopsItself, Fades
<1>3. ASSUME NEW t \in Tunnels, Caller(t) PROVE SaveCovers'
  <2>1. CASE CreateTunnel(t)
    BY <2>1 DEF CreateTunnel, InUse, MayCreate
  <2>2. CASE RemoveTunnel(t)
    BY <2>2 DEF RemoveTunnel, InUse, Drop
  <2>3. CASE StopAsked(t) \/ RestartFind(t) \/ Restarting(t)
    <3>1. UNCHANGED <<tunnels, auto, snap, file, disk, owner, due, spoiled>>
      BY <2>3 DEF StopAsked, RestartFind, Restarting, RestartStop, RestartMark
    <3>2. call[1] \in {"none", "stop", "restart", "mark"} /\ ~(call'[1] \in {"save", "write"})
      BY <2>3, StopsDoNotSave
    <3> QED BY <3>1, <3>2
  <2> QED BY <1>3, <2>1, <2>2, <2>3 DEF Caller
<1>4. CASE StopAllTunnels \/ CallerSaves
  <2>1. CASE StopAllTunnels
    BY <2>1 DEF StopAllTunnels
  <2>2. CASE SaveTunnels
    BY <2>2 DEF SaveTunnels
  <2>3. CASE CallerOpens
    BY <2>3 DEF CallerOpens, Open
  <2>4. CASE CallerWrites
    BY <2>4 DEF CallerWrites, Write
  <2>5. CASE CallerFails
    BY <2>5 DEF CallerFails, WriteFails
  <2> QED BY <1>4, <2>1, <2>2, <2>3, <2>4, <2>5 DEF CallerSaves
<1>5. CASE Background
  <2>1. ASSUME NEW S \in SUBSET tunnels, CleanUp(S) PROVE SaveCovers'
    BY <2>1 DEF CleanUp, Sweep, Drop
  <2>2. ASSUME NEW t \in Tunnels, StopSwept(t) PROVE SaveCovers'
    BY <2>2 DEF StopSwept
  <2>3. CASE AutoSave \/ FinalSave \/ OpenFile
    BY <2>3 DEF AutoSave, FinalSave, OpenFile, Open
  <2>4. CASE EndSave \/ FailSave
    BY <2>4 DEF EndSave, FailSave, Write, WriteFails
  <2> QED BY <1>5, <2>1, <2>2, <2>3, <2>4 DEF Background
<1>6. CASE Owner
  <2>1. CASE LoadTunnels \/ EndLoad
    BY <2>1 DEF LoadTunnels, EndLoad
  <2>2. ASSUME NEW t \in Tunnels, LoadOne(t) PROVE SaveCovers'
    BY <2>2 DEF LoadOne
  <2>3. CASE Close \/ CopyTunnels \/ Wait \/ Clear
    BY <2>3 DEF Close, CopyTunnels, Wait, Clear
  <2>4. ASSUME NEW t \in Tunnels, StopOne(t) PROVE SaveCovers'
    BY <2>4 DEF StopOne
  <2> QED BY <1>6, <2>1, <2>2, <2>3, <2>4 DEF Owner
<1>7. CASE Crash
  BY <1>7 DEF Crash
<1>8. CASE UNCHANGED vars
  BY <1>8 DEF vars
<1> QED BY <1>1, <1>2, <1>3, <1>4, <1>5, <1>6, <1>7, <1>8 DEF Next

-----------------------------------------------------------------------------
(* The goroutines of the tunnels.                                          *)

\* Where a goroutine is, by what its tunnel is.
StageOf(i) ==
    CASE i = "idle" -> {"none", "begin"}
      [] i = "starting" -> {"connect"}
      [] i = "up" -> {"mark", "watch"}
      [] i = "stopped" -> {"connect", "mark", "watch", "unmark", "ended"}
      [] i \in {"failed", "left"} -> {"ended"}

StagesMatch ==
    /\ \A t \in Tunnels : stage[t] \in StageOf(inner[t])
    /\ \A t \in active : stage[t] \in {"watch", "unmark"}
    /\ \A t \in tunnels : stage[t] # "none"
    /\ \A t \in Tunnels \ created : stage[t] = "none"
    /\ owner = "fresh" => \A t \in Tunnels : stage[t] = "none"
    /\ owner = "loading" => \A t \in todo : stage[t] = "none"

LEMMA StagesMatchStep == TypeOK /\ StagesMatch /\ [Next]_vars => StagesMatch'
<1> SUFFICES ASSUME TypeOK, StagesMatch, [Next]_vars PROVE StagesMatch'
  OBVIOUS
<1> USE DEF StagesMatch, StageOf, TypeOK, Stages, Inners, tableVars, tunnelVars, fileVars, ownerVars
<1>1. ASSUME NEW t \in Tunnels, Goroutine(t) PROVE StagesMatch'
  <2>1. CASE BeginStart(t)
    BY <2>1 DEF BeginStart, Goto
  <2>2. CASE EndStart(t)
    BY <2>2 DEF EndStart, Goto
  <2>3. CASE Mark(t)
    BY <2>3 DEF Mark, Goto
  <2>4. CASE Watch(t)
    BY <2>4 DEF Watch, Goto, Stop
  <2>5. CASE Unmark(t)
    BY <2>5 DEF Unmark, Goto
  <2> QED BY <1>1, <2>1, <2>2, <2>3, <2>4, <2>5 DEF Goroutine
<1>2. ASSUME NEW t \in Tunnels, StopsItself(t) \/ Fades(t) PROVE StagesMatch'
  BY <1>2 DEF StopsItself, Stop, Fades
<1>3. ASSUME NEW t \in Tunnels, Caller(t) PROVE StagesMatch'
  <2>1. CASE CreateTunnel(t)
    BY <2>1 DEF CreateTunnel, InUse, MayCreate, Goto
  <2>2. CASE RemoveTunnel(t)
    BY <2>2 DEF RemoveTunnel, InUse, Drop
  <2>3. CASE StopAsked(t)
    BY <2>3 DEF StopAsked, Stop
  <2>4. CASE RestartFind(t)
    BY <2>4 DEF RestartFind
  <2>5. CASE RestartStop(t)
    BY <2>5 DEF RestartStop, Stop
  <2>6. CASE RestartMark(t)
    BY <2>6 DEF RestartMark
  <2> QED BY <1>3, <2>1, <2>2, <2>3, <2>4, <2>5, <2>6 DEF Caller, Restarting
<1>4. CASE StopAllTunnels \/ CallerSaves
  <2>1. CASE StopAllTunnels
    BY <2>1 DEF StopAllTunnels
  <2>2. CASE SaveTunnels
    BY <2>2 DEF SaveTunnels
  <2>3. CASE CallerOpens
    BY <2>3 DEF CallerOpens, Open
  <2>4. CASE CallerWrites
    BY <2>4 DEF CallerWrites, Write
  <2>5. CASE CallerFails
    BY <2>5 DEF CallerFails, WriteFails
  <2> QED BY <1>4, <2>1, <2>2, <2>3, <2>4, <2>5 DEF CallerSaves
<1>5. CASE Background
  <2>1. ASSUME NEW S \in SUBSET tunnels, CleanUp(S) PROVE StagesMatch'
    BY <2>1 DEF CleanUp, Sweep, Drop
  <2>2. ASSUME NEW t \in Tunnels, StopSwept(t) PROVE StagesMatch'
    BY <2>2 DEF StopSwept, Stop
  <2>3. CASE AutoSave \/ FinalSave \/ OpenFile
    BY <2>3 DEF AutoSave, FinalSave, OpenFile, Open
  <2>4. CASE EndSave \/ FailSave
    BY <2>4 DEF EndSave, FailSave, Write, WriteFails
  <2> QED BY <1>5, <2>1, <2>2, <2>3, <2>4 DEF Background
<1>6. CASE Owner
  <2>1. CASE LoadTunnels \/ EndLoad
    BY <2>1 DEF LoadTunnels, EndLoad
  <2>2. ASSUME NEW t \in Tunnels, LoadOne(t) PROVE StagesMatch'
    <3>1. stage[t] = "none" /\ inner[t] = "idle"
      BY <2>2 DEF LoadOne
    <3>2. stage' = [stage EXCEPT ![t] = "begin"] /\ inner' = inner
      BY <2>2 DEF LoadOne, Goto
    <3>3. \A x \in Tunnels : stage'[x] \in StageOf(inner'[x])
      BY <3>1, <3>2
    <3>4. \A x \in active : stage'[x] \in {"watch", "unmark"}
      BY <3>1, <3>2
    <3>5. \A x \in tunnels \cup {t} : stage'[x] # "none"
      BY <3>2
    <3>6. \A x \in todo \ {t} : stage'[x] = "none"
      BY <2>2, <3>2 DEF LoadOne
    <3>7. \A x \in Tunnels \ created : stage'[x] = "none"
      BY <2>2, <3>2 DEF LoadOne
    <3> QED BY <2>2, <3>2, <3>3, <3>4, <3>5, <3>6, <3>7 DEF LoadOne
  <2>3. CASE Close \/ CopyTunnels \/ Wait \/ Clear
    BY <2>3 DEF Close, CopyTunnels, Wait, Clear
  <2>4. ASSUME NEW t \in Tunnels, StopOne(t) PROVE StagesMatch'
    BY <2>4 DEF StopOne, Stop
  <2> QED BY <1>6, <2>1, <2>2, <2>3, <2>4 DEF Owner
<1>7. CASE Crash
  BY <1>7 DEF Crash
<1>8. CASE UNCHANGED vars
  BY <1>8 DEF vars
<1> QED BY <1>1, <1>2, <1>3, <1>4, <1>5, <1>6, <1>7, <1>8 DEF Next

-----------------------------------------------------------------------------
(* Close.                                                                  *)

\* What was managed when Close was called is in the rest of its copy, or its
\* stopChan is closed, unless it has been removed.
CloseCovers ==
    /\ owner \in {"fresh", "loading", "using"} => due = {}
    /\ owner = "stopping" => due \cap tunnels \subseteq todo \cup halted
    /\ owner \in {"waiting", "clear"} => due \cap tunnels \subseteq halted

LEMMA CloseCoversStep == TypeOK /\ CloseCovers /\ [Next]_vars => CloseCovers'
<1> SUFFICES ASSUME TypeOK, CloseCovers, [Next]_vars PROVE CloseCovers'
  OBVIOUS
<1> USE DEF CloseCovers, TypeOK, tableVars, tunnelVars, fileVars, ownerVars
<1>1. ASSUME NEW t \in Tunnels, Goroutine(t) PROVE CloseCovers'
  <2>1. CASE BeginStart(t) \/ EndStart(t)
    BY <2>1 DEF BeginStart, EndStart
  <2>2. CASE Mark(t) \/ Watch(t) \/ Unmark(t)
    BY <2>2 DEF Mark, Watch, Unmark
  <2> QED BY <1>1, <2>1, <2>2 DEF Goroutine
<1>2. ASSUME NEW t \in Tunnels, StopsItself(t) \/ Fades(t) PROVE CloseCovers'
  BY <1>2 DEF StopsItself, Fades
<1>3. ASSUME NEW t \in Tunnels, Caller(t) PROVE CloseCovers'
  <2>1. CASE CreateTunnel(t)
    BY <2>1 DEF CreateTunnel, InUse, MayCreate
  <2>2. CASE RemoveTunnel(t)
    BY <2>2 DEF RemoveTunnel, InUse, Drop
  <2>3. CASE StopAsked(t) \/ RestartFind(t) \/ Restarting(t)
    BY <2>3 DEF StopAsked, RestartFind, Restarting, RestartStop, RestartMark
  <2> QED BY <1>3, <2>1, <2>2, <2>3 DEF Caller
<1>4. CASE StopAllTunnels \/ CallerSaves
  <2>1. CASE StopAllTunnels
    BY <2>1 DEF StopAllTunnels
  <2>2. CASE SaveTunnels
    BY <2>2 DEF SaveTunnels
  <2>3. CASE CallerOpens
    BY <2>3 DEF CallerOpens, Open
  <2>4. CASE CallerWrites
    BY <2>4 DEF CallerWrites, Write
  <2>5. CASE CallerFails
    BY <2>5 DEF CallerFails, WriteFails
  <2> QED BY <1>4, <2>1, <2>2, <2>3, <2>4, <2>5 DEF CallerSaves
<1>5. CASE Background
  <2>1. ASSUME NEW S \in SUBSET tunnels, CleanUp(S) PROVE CloseCovers'
    BY <2>1 DEF CleanUp, Sweep, Drop
  <2>2. ASSUME NEW t \in Tunnels, StopSwept(t) PROVE CloseCovers'
    BY <2>2 DEF StopSwept
  <2>3. CASE AutoSave \/ FinalSave \/ OpenFile
    BY <2>3 DEF AutoSave, FinalSave, OpenFile, Open
  <2>4. CASE EndSave \/ FailSave
    BY <2>4 DEF EndSave, FailSave, Write, WriteFails
  <2> QED BY <1>5, <2>1, <2>2, <2>3, <2>4 DEF Background
<1>6. CASE Owner
  <2>1. CASE LoadTunnels \/ EndLoad
    BY <2>1 DEF LoadTunnels, EndLoad
  <2>2. ASSUME NEW t \in Tunnels, LoadOne(t) PROVE CloseCovers'
    BY <2>2 DEF LoadOne
  <2>3. CASE Close \/ CopyTunnels \/ Wait \/ Clear
    BY <2>3 DEF Close, CopyTunnels, Wait, Clear
  <2>4. ASSUME NEW t \in Tunnels, StopOne(t) PROVE CloseCovers'
    BY <2>4 DEF StopOne
  <2> QED BY <1>6, <2>1, <2>2, <2>3, <2>4 DEF Owner
<1>7. CASE Crash
  BY <1>7 DEF Crash
<1>8. CASE UNCHANGED vars
  BY <1>8 DEF vars
<1> QED BY <1>1, <1>2, <1>3, <1>4, <1>5, <1>6, <1>7, <1>8 DEF Next

-----------------------------------------------------------------------------
(* The theorems.                                                           *)

IInv ==
    /\ TypeOK /\ PortsDiffer /\ LimitKept /\ IndexHasNoGhost
    /\ SaveCovers /\ StagesMatch /\ CloseCovers

LEMMA InitIInv == Init => IInv
<1> SUFFICES ASSUME Init PROVE IInv
  OBVIOUS
<1>1. TypeOK
  BY TypeInit
<1>2. PortsDiffer /\ LimitKept
  BY EmptyWithin, CallsMade DEF Init, PortsDiffer, Distinct, LimitKept, Saving
<1>3. IndexHasNoGhost /\ SaveCovers /\ CloseCovers
  BY CallsMade DEF Init, IndexHasNoGhost, SaveCovers, CloseCovers, Cancelled, Finals
<1>4. StagesMatch
  BY DEF Init, StagesMatch, StageOf
<1> QED BY <1>1, <1>2, <1>3, <1>4 DEF IInv

\* The strengthened invariant holds in every state the manager can reach.
THEOREM Inductive == Spec => []IInv
<1>1. IInv /\ [Next]_vars => IInv'
  BY TypeStep, PortsStep, LimitKeptStep, IndexStep, SaveCoversStep, StagesMatchStep,
     CloseCoversStep DEF IInv
<1> QED BY <1>1, InitIInv, PTL DEF Spec

\* Every variable keeps to its type; a call that stops tunnels ends with the last.
THEOREM TypeCorrect == Spec => []TypeOK
<1>1. IInv => TypeOK
  BY DEF IInv
<1> QED BY <1>1, Inductive, PTL

\* The index never counts a tunnel that is not managed.
THEOREM NoGhosts == Spec => []IndexHasNoGhost
<1>1. IInv => IndexHasNoGhost
  BY DEF IInv
<1> QED BY <1>1, Inductive, PTL

\* Ports stay distinct over any number of restarts that load what was saved.
THEOREM PortsStayDistinct == Spec => []DistinctPorts
<1>1. IInv => DistinctPorts
  BY DEF IInv, PortsDiffer, Distinct, DistinctPorts
<1> QED BY <1>1, Inductive, PTL

\* The limit on all tunnels is kept over any number of restarts.
THEOREM LimitIsKept == Spec => []WithinLimit
<1>1. IInv => WithinLimit
  BY DEF IInv, LimitKept, Within, WithinLimit
<1> QED BY <1>1, Inductive, PTL

\* Close saves every tunnel that was managed when it was called, and still is,
\* unless a caller's save meets its own or fails after it.
THEOREM CloseSaves == Spec => []ClosedIsSaved
<1>1. IInv => ClosedIsSaved
  BY DEF IInv, SaveCovers, Cancelled, ClosedIsSaved, Saving
<1> QED BY <1>1, Inductive, PTL

\* A tunnel shown as active has its goroutine to notice its end.
THEOREM ActiveWatched == Spec => []ActiveIsWatched
<1>1. IInv => ActiveIsWatched
  BY DEF IInv, StagesMatch, ActiveIsWatched
<1> QED BY <1>1, Inductive, PTL

\* Close leaves no tunnel running that it found, however far its start was, but
\* for one whose Start failed after it had connected.
THEOREM CloseStops == Spec => []ClosedIsStopped
<1>1. ASSUME IInv, owner \in {"waiting", "clear"}, NEW t \in due \cap tunnels
      PROVE  \/ inner[t] \in {"stopped", "failed", "left"}
             \/ t \in halted /\ stage[t] \in {"begin", "connect", "mark", "watch"}
  <2>1. t \in halted /\ t \in Tunnels /\ stage[t] # "none"
    BY <1>1 DEF IInv, CloseCovers, StagesMatch, TypeOK
  <2>2. inner[t] \in Inners /\ stage[t] \in StageOf(inner[t])
    BY <1>1, <2>1 DEF IInv, StagesMatch, TypeOK
  <2> QED BY <2>1, <2>2 DEF Inners, StageOf
<1>2. IInv => ClosedIsStopped
  BY <1>1 DEF ClosedIsStopped
<1> QED BY <1>2, Inductive, PTL

-----------------------------------------------------------------------------
(* Each tunnel lives the life ClientTunnel gives it.                       *)

LifeOf(t) == INSTANCE ClientLifecycle WITH state <- inner[t]

\* A step of the manager is one of each of its tunnels, or none, until the end
\* of the process takes them all with it.
EachLives == \A t \in Tunnels : inner'[t] = inner[t] \/ LifeOf(t)!Next
AllAnew == crashes' # crashes /\ \A t \in Tunnels : (LifeOf(t)!Init)'

LEMMA StopLives ==
  ASSUME TypeOK, NEW S, Stop(S)
  PROVE  EachLives
  BY DEF Stop, EachLives, LifeOf!Next, LifeOf!Stop

LEMMA StartLives ==
  ASSUME TypeOK, StagesMatch, NEW t \in Tunnels, BeginStart(t) \/ EndStart(t)
  PROVE  EachLives
<1> USE DEF EachLives, LifeOf!Next
<1>1. CASE BeginStart(t)
  <2>1. inner[t] = "idle"
    BY <1>1 DEF BeginStart, StagesMatch, StageOf, TypeOK, Inners
  <2> QED BY <1>1, <2>1 DEF BeginStart, TypeOK, LifeOf!Begin
<1>2. CASE EndStart(t)
  BY <1>2 DEF EndStart, TypeOK, LifeOf!Succeed, LifeOf!Fail
<1> QED BY <1>1, <1>2

LEMMA NextLives ==
  ASSUME TypeOK, StagesMatch, [Next]_vars
  PROVE  EachLives \/ AllAnew
<1>1. ASSUME NEW t \in Tunnels, Goroutine(t) PROVE EachLives
  <2>1. CASE Mark(t) \/ Unmark(t)
    BY <2>1 DEF Mark, Unmark, EachLives
  <2>2. CASE Watch(t)
    BY <2>2, StopLives DEF Watch
  <2> QED BY <1>1, <2>1, <2>2, StartLives DEF Goroutine
<1>2. ASSUME NEW t \in Tunnels, StopsItself(t) \/ Fades(t) PROVE EachLives
  <2>1. CASE Fades(t)
    BY <2>1 DEF Fades, TypeOK, EachLives, LifeOf!Next, LifeOf!Fade
  <2> QED BY <1>2, <2>1, StopLives DEF StopsItself
<1>3. ASSUME NEW t \in Tunnels, Caller(t) PROVE EachLives
  <2>1. CASE StopAsked(t) \/ RestartStop(t)
    BY <2>1, StopLives DEF StopAsked, RestartStop
  <2>2. CASE CreateTunnel(t) \/ RemoveTunnel(t) \/ RestartFind(t) \/ RestartMark(t)
    BY <2>2 DEF CreateTunnel, RemoveTunnel, RestartFind, RestartMark, tunnelVars, EachLives
  <2> QED BY <1>3, <2>1, <2>2 DEF Caller, Restarting
<1>4. CASE StopAllTunnels \/ CallerSaves
  BY <1>4 DEF StopAllTunnels, CallerSaves, SaveTunnels, CallerOpens, CallerWrites,
              CallerFails, tunnelVars, EachLives
<1>5. CASE Background
  <2>1. ASSUME NEW t \in Tunnels, StopSwept(t) PROVE EachLives
    BY <2>1, StopLives DEF StopSwept
  <2>2. ASSUME NEW S, CleanUp(S) PROVE EachLives
    BY <2>2 DEF CleanUp, EachLives
  <2>3. CASE AutoSave \/ FinalSave \/ OpenFile \/ EndSave \/ FailSave
    BY <2>3 DEF AutoSave, FinalSave, OpenFile, EndSave, FailSave, tunnelVars, EachLives
  <2> QED BY <1>5, <2>1, <2>2, <2>3 DEF Background
<1>6. CASE Owner
  <2>1. ASSUME NEW t \in Tunnels, StopOne(t) PROVE EachLives
    BY <2>1, StopLives DEF StopOne
  <2>2. ASSUME NEW t \in Tunnels, LoadOne(t) PROVE EachLives
    BY <2>2 DEF LoadOne, EachLives
  <2>3. CASE LoadTunnels \/ EndLoad \/ Close \/ CopyTunnels \/ Wait \/ Clear
    BY <2>3 DEF LoadTunnels, EndLoad, Close, CopyTunnels, Wait, Clear, tunnelVars, EachLives
  <2> QED BY <1>6, <2>1, <2>2, <2>3 DEF Owner
<1>7. CASE Crash
  BY <1>7 DEF Crash, TypeOK, AllAnew, LifeOf!Init
<1>8. CASE UNCHANGED vars
  BY <1>8 DEF vars, tunnelVars, EachLives
<1> QED BY <1>1, <1>2, <1>3, <1>4, <1>5, <1>6, <1>7, <1>8 DEF Next

\* What the manager does to a tunnel, from however many goroutines and callers,
\* ClientTunnel can do: no tunnel is started twice, or stopped before its start
\* or after its end, what was stopped while it was being started stays so, and
\* what a Start that failed has left behind is out of the manager's reach.
THEOREM TunnelsLive ==
    Spec => /\ \A t \in Tunnels : LifeOf(t)!Init
            /\ [][EachLives \/ AllAnew]_vars
<1>1. Init => \A t \in Tunnels : LifeOf(t)!Init
  BY DEF Init, LifeOf!Init
<1>2. IInv /\ [Next]_vars => [EachLives \/ AllAnew]_vars
  BY NextLives DEF IInv
<1> QED BY <1>1, <1>2, Inductive, PTL DEF Spec
=============================================================================
