------------------------ MODULE TunnelRegistry_proofs -----------------------
(***************************************************************************)
(* Theorems about TunnelRegistry for all values of its constants.          *)
(***************************************************************************)
EXTENDS TunnelRegistry, FiniteSetTheorems, TLAPS

-----------------------------------------------------------------------------
(* Types.                                                                  *)

LEMMA InitTypeOK == Init => TypeOK
  BY RequestsAssumption, LimitsAssumption
     DEF Init, TypeOK, Stages, ReaperStages, Reapers, Counted

LEMMA HandlerTypeOK ==
  ASSUME TypeOK, NEW r \in Requests, HandleTunnel(r)
  PROVE  TypeOK'
<1> USE RequestsAssumption, LimitsAssumption
<1> USE DEF TypeOK, Stages, handlerVars, reaperVars, socketVars, clockVars, redisVars
<1>1. CASE Arrive(r)
  BY <1>1 DEF Arrive, Counted
<1>2. CASE CheckLimit(r)
  BY <1>2 DEF CheckLimit, Counted
<1>3. CASE Store(r)
  BY <1>3 DEF Store, Counted
<1>4. CASE Increment(r)
  BY <1>4 DEF Increment, Counted
<1>5. QED
  BY <1>1, <1>2, <1>3, <1>4 DEF HandleTunnel

LEMMA ReaperTypeOK ==
  ASSUME TypeOK,
         \/ \E p \in Admins, r \in Requests : Kill(p, r)
         \/ SweepExpired
         \/ ScanInactive
         \/ SweepInactive
         \/ \E p \in Reapers : CleanUp(p)
  PROVE  TypeOK'
<1> USE RequestsAssumption, LimitsAssumption, ReapersAssumption
<1> USE DEF TypeOK, ReaperStages, Reapers, Sweeps, Delete, handlerVars, reaperVars,
            socketVars, clockVars, redisVars
<1>1. CASE \E p \in Admins, r \in Requests : Kill(p, r)
  BY <1>1 DEF Kill, Counted
<1>2. CASE SweepExpired
  BY <1>2 DEF SweepExpired, PastExpiry, ExpirySweep, Counted
<1>3. CASE ScanInactive
  BY <1>3 DEF ScanInactive, IdleSweep, Counted
<1>4. CASE SweepInactive
  BY <1>4 DEF SweepInactive, StillThere, IdleSweep, Counted
<1>5. ASSUME NEW p \in Reapers, NEW r \in Requests, Discount(p, r)
      PROVE  TypeOK'
  BY <1>5 DEF Discount, Counted
<1>6. ASSUME NEW p \in Reapers, Clamp(p)
      PROVE  TypeOK'
  BY <1>6 DEF Clamp, Counted
<1>7. ASSUME NEW p \in Reapers, Unregister(p)
      PROVE  TypeOK'
  BY <1>7 DEF Unregister, Counted
<1>8. QED
  BY <1>1, <1>2, <1>3, <1>4, <1>5, <1>6, <1>7 DEF CleanUp

LEMMA OtherTypeOK ==
  ASSUME TypeOK,
         \/ \E r \in Requests : CheckRegistered(r) \/ EnterSocket(r) \/ DropSocket(r)
         \/ \E r \in Requests : Touch(r) \/ PassTime(r)
         \/ Restart
         \/ UNCHANGED vars
  PROVE  TypeOK'
<1> USE RequestsAssumption, LimitsAssumption
<1> USE DEF TypeOK, handlerVars, reaperVars, socketVars, clockVars, redisVars, Counted
<1>1. ASSUME NEW r \in Requests, CheckRegistered(r) \/ EnterSocket(r) \/ DropSocket(r)
      PROVE  TypeOK'
  BY <1>1 DEF CheckRegistered, EnterSocket, DropSocket
<1>2. ASSUME NEW r \in Requests, Touch(r) \/ PassTime(r)
      PROVE  TypeOK'
  BY <1>2 DEF Touch, PassTime
<1>3. CASE Restart
  BY <1>3 DEF Restart, Delete, Stages, ReaperStages
<1>4. CASE UNCHANGED vars
  BY <1>4 DEF vars
<1>5. QED
  BY <1>1, <1>2, <1>3, <1>4

\* Every variable keeps its type, and the program counter of a reaper agrees
\* with the tunnels it holds.
THEOREM TypeCorrect == Spec => []TypeOK
<1>1. TypeOK /\ [Next]_vars => TypeOK'
  BY HandlerTypeOK, ReaperTypeOK, OtherTypeOK DEF Next
<1>2. QED
  BY InitTypeOK, <1>1, PTL DEF Spec

-----------------------------------------------------------------------------
(* A removed tunnel is cleaned up once.  With TypeOK, OneReaper is         *)
(* inductive: a goroutine takes a tunnel over only while it is in the      *)
(* registry, and deletes it in the same critical section.                  *)

IInv == TypeOK /\ OneReaper

LEMMA InitOneReaper == Init => OneReaper
  BY RequestsAssumption DEF Init, OneReaper, Published, Removed, Reapers

LEMMA HandlerOneReaper ==
  ASSUME IInv, NEW r \in Requests, HandleTunnel(r)
  PROVE  OneReaper'
<1> USE DEF IInv, TypeOK, OneReaper, Published, Removed, handlerVars, reaperVars,
            socketVars, clockVars, redisVars
<1>1. CASE Arrive(r)
  BY <1>1 DEF Arrive
<1>2. CASE CheckLimit(r)
  BY <1>2 DEF CheckLimit
<1>3. CASE Store(r)
  BY <1>3, RequestsAssumption DEF Store
<1>4. CASE Increment(r)
  BY <1>4 DEF Increment
<1>5. QED
  BY <1>1, <1>2, <1>3, <1>4 DEF HandleTunnel

\* A reaper q that holds nothing takes the live tunnels of S out.
LEMMA TakeOver ==
  ASSUME IInv, NEW q \in Reapers, NEW S \in SUBSET live,
         todo[q] = {}, cur[q] = NoTunnel,
         live' = live \ S, todo' = [todo EXCEPT ![q] = S], UNCHANGED <<cur, pc>>
  PROVE  OneReaper'
  BY RequestsAssumption DEF IInv, TypeOK, OneReaper, Published, Removed

LEMMA ReaperOneReaper ==
  ASSUME IInv,
         \/ \E p \in Admins, r \in Requests : Kill(p, r)
         \/ SweepExpired
         \/ ScanInactive
         \/ SweepInactive
         \/ \E p \in Reapers : CleanUp(p)
  PROVE  OneReaper'
<1>a. \A p \in Reapers : rpc[p] \in {"idle", "scanned"} => todo[p] = {} /\ cur[p] = NoTunnel
  BY DEF IInv, TypeOK, ReaperStages
<1>b. ExpirySweep \in Reapers /\ IdleSweep \in Reapers /\ Admins \subseteq Reapers
  BY DEF Reapers, Sweeps
<1>. USE DEF handlerVars, reaperVars, Delete
<1>1. ASSUME NEW p \in Admins, NEW r \in Requests, Kill(p, r)
      PROVE  OneReaper'
  <2>1. {r} \in SUBSET live /\ p \in Reapers /\ todo[p] = {} /\ cur[p] = NoTunnel
    BY <1>1, <1>a, <1>b DEF Kill
  <2>2. QED
    BY <1>1, <2>1, TakeOver DEF Kill
<1>2. CASE SweepExpired
  BY <1>2, <1>a, <1>b, TakeOver DEF SweepExpired, PastExpiry
<1>3. CASE ScanInactive
  BY <1>3 DEF ScanInactive, IInv, OneReaper, Published, Removed
<1>4. CASE SweepInactive
  BY <1>4, <1>a, <1>b, TakeOver DEF SweepInactive, StillThere
<1>5. ASSUME NEW p \in Reapers, NEW r \in Requests, Discount(p, r)
      PROVE  OneReaper'
  BY <1>5, RequestsAssumption DEF Discount, IInv, TypeOK, OneReaper, Published, Removed
<1>6. ASSUME NEW p \in Reapers, Clamp(p)
      PROVE  OneReaper'
  BY <1>6 DEF Clamp, IInv, OneReaper, Published, Removed
<1>7. ASSUME NEW p \in Reapers, Unregister(p)
      PROVE  OneReaper'
  BY <1>7, RequestsAssumption DEF Unregister, IInv, TypeOK, OneReaper, Published, Removed
<1>8. QED
  BY <1>1, <1>2, <1>3, <1>4, <1>5, <1>6, <1>7 DEF CleanUp

LEMMA OtherOneReaper ==
  ASSUME IInv,
         \/ \E r \in Requests : CheckRegistered(r) \/ EnterSocket(r) \/ DropSocket(r)
         \/ \E r \in Requests : Touch(r) \/ PassTime(r)
         \/ Restart
         \/ UNCHANGED vars
  PROVE  OneReaper'
<1> USE DEF IInv, OneReaper, Published, Removed, handlerVars, reaperVars
<1>1. ASSUME NEW r \in Requests, CheckRegistered(r) \/ EnterSocket(r) \/ DropSocket(r)
      PROVE  OneReaper'
  BY <1>1 DEF CheckRegistered, EnterSocket, DropSocket
<1>2. ASSUME NEW r \in Requests, Touch(r) \/ PassTime(r)
      PROVE  OneReaper'
  BY <1>2 DEF Touch, PassTime
<1>3. CASE Restart
  BY <1>3, RequestsAssumption DEF Restart, Delete, TypeOK
<1>4. CASE UNCHANGED vars
  BY <1>4 DEF vars
<1>5. QED
  BY <1>1, <1>2, <1>3, <1>4

LEMMA NextIInv == IInv /\ [Next]_vars => IInv'
<1> SUFFICES ASSUME IInv, [Next]_vars PROVE IInv'
  OBVIOUS
<1>1. TypeOK'
  BY HandlerTypeOK, ReaperTypeOK, OtherTypeOK DEF Next, IInv
<1>2. OneReaper'
  BY HandlerOneReaper, ReaperOneReaper, OtherOneReaper DEF Next
<1>3. QED
  BY <1>1, <1>2 DEF IInv

LEMMA Invariance == Spec => []IInv
  BY InitTypeOK, InitOneReaper, NextIInv, PTL DEF Spec, IInv

\* KillTunnel and the two sweeps, in any number and order, never clean up the
\* same tunnel twice and never one that is still in the registry.
THEOREM CleanedUpOnce == Spec => []OneReaper
<1>1. IInv => OneReaper
  BY DEF IInv
<1>2. QED
  BY Invariance, <1>1, PTL

-----------------------------------------------------------------------------
(* The counter of a user matches the registry.                             *)

LEMMA DoomedIsTodo == \A r : r \in Doomed <=> \E p \in Reapers : r \in todo[p]
  BY DEF Doomed

LEMMA BooksAreFinite ==
  ASSUME NEW u
  PROVE  /\ IsFiniteSet(OwnedBy(u))
         /\ IsFiniteSet(CountedIn(u)) /\ Cardinality(CountedIn(u)) \in Nat
         /\ IsFiniteSet(CountedOut(u)) /\ Cardinality(CountedOut(u)) \in Nat
<1>1. OwnedBy(u) \subseteq Requests
  BY DEF OwnedBy
<1>2. CountedIn(u) \subseteq OwnedBy(u) /\ CountedOut(u) \subseteq OwnedBy(u)
  BY DEF CountedIn, CountedOut
<1>3. IsFiniteSet(OwnedBy(u)) /\ IsFiniteSet(CountedIn(u)) /\ IsFiniteSet(CountedOut(u))
  BY <1>1, <1>2, RequestsAssumption, FS_Subset
<1>4. QED
  BY <1>3, FS_CardinalityType

\* Steps that send neither an INCR nor a DECR change neither side.
LEMMA HandlerKeepsBooks ==
  ASSUME IInv, NEW r \in Requests, Arrive(r) \/ CheckLimit(r) \/ Store(r), NEW u \in Users
  PROVE  CountedIn(u)' = CountedIn(u) /\ CountedOut(u)' = CountedOut(u) /\ count' = count
<1>1. pc \in [Requests -> Stages] /\ live \subseteq Published
  BY DEF IInv, TypeOK, OneReaper
<1>2. Doomed' = Doomed /\ count' = count
  BY DEF Arrive, CheckLimit, Store, Doomed, reaperVars, redisVars
<1>3. \A q \in Requests : pc'[q] = "done" <=> pc[q] = "done"
  BY <1>1 DEF Arrive, CheckLimit, Store
<1>4. Removed' = Removed
  BY <1>1 DEF Arrive, CheckLimit, Store, Removed, Published
<1>5. QED
  BY <1>2, <1>3, <1>4 DEF CountedIn, CountedOut, OwnedBy

LEMMA TakeOverKeepsBooks ==
  ASSUME IInv, NEW q \in Reapers, NEW S \in SUBSET live, todo[q] = {},
         live' = live \ S, todo' = [todo EXCEPT ![q] = S], UNCHANGED pc, NEW u \in Users
  PROVE  CountedIn(u)' = CountedIn(u) /\ CountedOut(u)' = CountedOut(u)
<1>1. CountedIn(u)' = CountedIn(u)
  BY DEF CountedIn, OwnedBy
<1>2. Removed' = Removed \cup S /\ S \cap Removed = {}
  BY DEF IInv, OneReaper, Removed, Published
<1>3. \A p \in Reapers : todo'[p] = IF p = q THEN S ELSE todo[p]
  BY DEF IInv, TypeOK
<1>4. \A r : r \in Doomed' <=> r \in Doomed \cup S
  BY <1>3 DEF Doomed
<1>5. CountedOut(u)' = CountedOut(u)
  BY <1>2, <1>4 DEF CountedOut, OwnedBy
<1>6. QED
  BY <1>1, <1>5

LEMMA OthersKeepBooks ==
  ASSUME IInv, UNCHANGED <<pc, live, todo>>, NEW u \in Users
  PROVE  CountedIn(u)' = CountedIn(u) /\ CountedOut(u)' = CountedOut(u)
  BY DEF CountedIn, CountedOut, OwnedBy, Removed, Published, Doomed

\* An INCR enters its tunnel, of which Redis knew nothing.
LEMMA IncrementBooks ==
  ASSUME IInv, NEW r \in Requests, Increment(r), NEW u \in Users
  PROVE  /\ CountedOut(u)' = CountedOut(u)
         /\ Owner[r] # u => CountedIn(u)' = CountedIn(u)
         /\ Owner[r] = u => Cardinality(CountedIn(u)') = Cardinality(CountedIn(u)) + 1
<1>1. pc \in [Requests -> Stages] /\ pc[r] = "incr" /\ pc' = [pc EXCEPT ![r] = "done"]
  BY DEF Increment, IInv, TypeOK
<1>2. UNCHANGED <<live, todo>>
  BY DEF Increment, reaperVars
<1>3. Removed' = Removed
  BY <1>1, <1>2 DEF Removed, Published
<1>4. CountedOut(u)' = CountedOut(u)
  BY <1>2, <1>3 DEF CountedOut, Doomed, OwnedBy
<1>5. Owner[r] # u => CountedIn(u)' = CountedIn(u)
  BY <1>1 DEF CountedIn, OwnedBy
<1>6. ASSUME Owner[r] = u
      PROVE  CountedIn(u)' = CountedIn(u) \cup {r} /\ r \notin CountedIn(u)
  BY <1>1, <1>6 DEF CountedIn, OwnedBy
<1>7. QED
  BY <1>4, <1>5, <1>6, BooksAreFinite, FS_AddElement

\* A DECR is sent for a tunnel no other reaper holds, so it counts out once.
LEMMA DiscountBooks ==
  ASSUME IInv, NEW p \in Reapers, NEW r \in Requests, Discount(p, r), NEW u \in Users
  PROVE  /\ CountedIn(u)' = CountedIn(u)
         /\ Owner[r] # u => CountedOut(u)' = CountedOut(u)
         /\ Owner[r] = u => Cardinality(CountedOut(u)') = Cardinality(CountedOut(u)) + 1
<1>1. /\ r \in todo[p]
      /\ todo' = [todo EXCEPT ![p] = @ \ {r}]
      /\ UNCHANGED <<pc, live>>
  BY DEF Discount, handlerVars
<1>2. CountedIn(u)' = CountedIn(u) /\ Removed' = Removed
  BY <1>1 DEF CountedIn, OwnedBy, Removed, Published
<1>3. r \in Removed /\ \A q \in Reapers : q # p => r \notin todo[q]
  BY <1>1 DEF IInv, OneReaper
<1>4. \A q \in Reapers : todo'[q] = IF q = p THEN todo[p] \ {r} ELSE todo[q]
  BY <1>1 DEF IInv, TypeOK
<1>5. /\ r \in Doomed /\ r \notin Doomed'
      /\ \A x : x # r => (x \in Doomed' <=> x \in Doomed)
  BY <1>1, <1>3, <1>4 DEF Doomed
<1>6. Owner[r] # u => CountedOut(u)' = CountedOut(u)
  BY <1>2, <1>5 DEF CountedOut, OwnedBy
<1>7. ASSUME Owner[r] = u
      PROVE  CountedOut(u)' = CountedOut(u) \cup {r} /\ r \notin CountedOut(u)
  BY <1>2, <1>3, <1>5, <1>7 DEF CountedOut, OwnedBy
<1>8. QED
  BY <1>2, <1>6, <1>7, BooksAreFinite, FS_AddElement

LEMMA InitCount == Init => CountMatchesRegistry
<1> SUFFICES ASSUME Init, NEW u \in Users
             PROVE  count[u] = Cardinality(CountedIn(u)) - Cardinality(CountedOut(u))
  BY DEF CountMatchesRegistry
<1>1. CountedIn(u) = {} /\ CountedOut(u) = {}
  BY DEF Init, CountedIn, CountedOut, OwnedBy, Removed, Published
<1>2. QED
  BY <1>1, FS_EmptySet DEF Init

LEMMA NextCount == IInv /\ CountMatchesRegistry /\ [Next]_vars => CountMatchesRegistry'
<1> SUFFICES ASSUME IInv, CountMatchesRegistry, [Next]_vars,
                    RedisEnabled, NEW u \in Users, Undisturbed(u)'
             PROVE  count'[u] = Cardinality(CountedIn(u)') - Cardinality(CountedOut(u)')
  BY DEF CountMatchesRegistry
<1> DEFINE Same == CountedIn(u)' = CountedIn(u) /\ CountedOut(u)' = CountedOut(u)
<1>a. TypeOK /\ (Undisturbed(u) =>
                     count[u] = Cardinality(CountedIn(u)) - Cardinality(CountedOut(u)))
  BY DEF CountMatchesRegistry, IInv
<1>b. /\ u \notin clamped' /\ faults' = 0 /\ restarts' = 0
      /\ Cardinality(CountedIn(u)) \in Nat /\ Cardinality(CountedOut(u)) \in Nat
  BY BooksAreFinite DEF Undisturbed
<1>c. ASSUME Same, count'[u] = count[u], UNCHANGED <<clamped, faults, restarts>>
      PROVE  count'[u] = Cardinality(CountedIn(u)') - Cardinality(CountedOut(u)')
  BY <1>a, <1>b, <1>c DEF Undisturbed
<1>d. \A p \in Reapers : rpc[p] \in {"idle", "scanned"} => todo[p] = {}
  BY <1>a DEF TypeOK, ReaperStages
<1>e. ExpirySweep \in Reapers /\ IdleSweep \in Reapers /\ Admins \subseteq Reapers
  BY DEF Reapers, Sweeps
<1>1. ASSUME NEW r \in Requests, Arrive(r) \/ CheckLimit(r) \/ Store(r)
      PROVE  count'[u] = Cardinality(CountedIn(u)') - Cardinality(CountedOut(u)')
  <2>1. UNCHANGED <<clamped, restarts>> /\ faults' \in {faults, faults + 1}
    BY <1>1 DEF Arrive, CheckLimit, Store, redisVars
  <2>2. faults' = faults
    BY <2>1, <1>a, <1>b, LimitsAssumption DEF TypeOK
  <2>3. QED
    BY <1>1, <1>c, <2>1, <2>2, HandlerKeepsBooks
<1>2. ASSUME NEW r \in Requests, Increment(r)
      PROVE  count'[u] = Cardinality(CountedIn(u)') - Cardinality(CountedOut(u)')
  <2>1. UNCHANGED <<clamped, restarts, faults>>
    BY <1>2, <1>a, <1>b, LimitsAssumption DEF Increment, TypeOK
  <2>2. count' = IF Counted(r) THEN [count EXCEPT ![Owner[r]] = @ + 1] ELSE count
    BY <1>2, <2>1, <1>a, LimitsAssumption DEF Increment, TypeOK
  <2>3. CASE Owner[r] = u
    <3>1. count'[u] = count[u] + 1
      BY <2>2, <2>3, <1>a, RequestsAssumption DEF Counted, TypeOK
    <3>2. QED
      BY <1>2, <1>a, <1>b, <2>1, <2>3, <3>1, IncrementBooks DEF Undisturbed
  <2>4. CASE Owner[r] # u
    <3>1. count'[u] = count[u]
      BY <2>2, <2>4, <1>a DEF TypeOK
    <3>2. QED
      BY <1>2, <1>c, <2>1, <2>4, <3>1, IncrementBooks
  <2>5. QED
    BY <2>3, <2>4
<1>3. ASSUME \/ \E p \in Admins, r \in Requests : Kill(p, r)
             \/ SweepExpired \/ SweepInactive
      PROVE  count'[u] = Cardinality(CountedIn(u)') - Cardinality(CountedOut(u)')
  <2>1. UNCHANGED <<pc, count, clamped, faults, restarts>>
    BY <1>3 DEF Kill, SweepExpired, SweepInactive, handlerVars, redisVars
  <2>2. PICK q \in Reapers, S \in SUBSET live :
           todo[q] = {} /\ live' = live \ S /\ todo' = [todo EXCEPT ![q] = S]
    <3>1. ASSUME NEW p \in Admins, NEW r \in Requests, Kill(p, r)
          PROVE  /\ p \in Reapers /\ {r} \in SUBSET live /\ todo[p] = {}
                 /\ live' = live \ {r} /\ todo' = [todo EXCEPT ![p] = {r}]
      BY <3>1, <1>d, <1>e DEF Kill, Delete
    <3>2. CASE SweepExpired
      BY <3>2, <1>d, <1>e DEF SweepExpired, PastExpiry, Delete
    <3>3. CASE SweepInactive
      BY <3>3, <1>d, <1>e DEF SweepInactive, StillThere, Delete
    <3>4. QED
      BY <1>3, <3>1, <3>2, <3>3
  <2>3. QED
    BY <1>c, <2>1, <2>2, TakeOverKeepsBooks
<1>4. ASSUME NEW p \in Reapers, NEW r \in Requests, Discount(p, r)
      PROVE  count'[u] = Cardinality(CountedIn(u)') - Cardinality(CountedOut(u)')
  <2>1. UNCHANGED <<clamped, restarts, faults>>
    BY <1>4, <1>a, <1>b, LimitsAssumption DEF Discount, TypeOK
  <2>2. count' = IF Counted(r) THEN [count EXCEPT ![Owner[r]] = @ - 1] ELSE count
    BY <1>4, <2>1, <1>a, LimitsAssumption DEF Discount, TypeOK
  <2>3. CASE Owner[r] = u
    <3>1. count'[u] = count[u] - 1
      BY <2>2, <2>3, <1>a, RequestsAssumption DEF Counted, TypeOK
    <3>2. QED
      BY <1>4, <1>a, <1>b, <2>1, <2>3, <3>1, DiscountBooks DEF Undisturbed
  <2>4. CASE Owner[r] # u
    <3>1. count'[u] = count[u]
      BY <2>2, <2>4, <1>a DEF TypeOK
    <3>2. QED
      BY <1>4, <1>c, <2>1, <2>4, <3>1, DiscountBooks
  <2>5. QED
    BY <2>3, <2>4
<1>5. ASSUME NEW p \in Reapers, Clamp(p)
      PROVE  count'[u] = Cardinality(CountedIn(u)') - Cardinality(CountedOut(u)')
  <2>1. Owner[cur[p]] # u /\ count' = [count EXCEPT ![Owner[cur[p]]] = 0]
        /\ UNCHANGED <<faults, restarts>> /\ u \notin clamped
    BY <1>5, <1>a, <1>b, LimitsAssumption DEF Clamp, TypeOK
  <2>2. count'[u] = count[u] /\ Undisturbed(u)
    BY <2>1, <1>a, <1>b DEF TypeOK, Undisturbed
  <2>3. Same
    BY <1>5, OthersKeepBooks DEF Clamp, handlerVars
  <2>4. QED
    BY <1>a, <2>2, <2>3
<1>6. ASSUME \/ ScanInactive
             \/ \E p \in Reapers : Unregister(p)
             \/ \E r \in Requests : \/ CheckRegistered(r) \/ EnterSocket(r)
                                    \/ DropSocket(r) \/ Touch(r) \/ PassTime(r)
             \/ UNCHANGED vars
      PROVE  count'[u] = Cardinality(CountedIn(u)') - Cardinality(CountedOut(u)')
  <2>1. UNCHANGED <<pc, live, todo, count, clamped, faults, restarts>>
    BY <1>6 DEF ScanInactive, Unregister, CheckRegistered, EnterSocket, DropSocket, Touch,
                PassTime, vars, handlerVars, reaperVars, redisVars
  <2>2. QED
    BY <2>1, <1>c, OthersKeepBooks
<1>7. ~Restart
  BY <1>a, <1>b, LimitsAssumption DEF Restart, TypeOK
<1>8. QED
  BY <1>1, <1>2, <1>3, <1>4, <1>5, <1>6, <1>7 DEF Next, HandleTunnel, CleanUp

\* However handlers, admins and sweeps interleave, a user's Redis counter is
\* the INCRs minus the DECRs the registry accounts for, until a failed
\* command, a restart or the SET 0 of a negative DECR breaks the books.
THEOREM CounterIsAccurate == Spec => []CountMatchesRegistry
  BY Invariance, InitCount, NextCount, PTL DEF Spec

-----------------------------------------------------------------------------
(* How far a user can pass the limit.                                      *)

\* The tunnels u has or is about to have: only a passed check adds to them.
Claimed(u) == (live \cap OwnedBy(u)) \cup {r \in OwnedBy(u) : pc[r] = "store"}

FlightBounded == \A u \in Users : Cardinality(InFlight(u)) <= MaxInFlight
ClaimBounded ==
    \A u \in Users : MaxPerUser > 0 /\ Undisturbed(u) =>
        Cardinality(Claimed(u)) <= MaxPerUser - 1 + MaxInFlight

\* Only the handlers and a restart move a program counter, and only Store adds
\* to the registry.
OtherSteps ==
    \/ \E p \in Admins, r \in Requests : Kill(p, r)
    \/ SweepExpired \/ ScanInactive \/ SweepInactive
    \/ \E p \in Reapers : CleanUp(p)
    \/ \E r \in Requests : CheckRegistered(r) \/ EnterSocket(r) \/ DropSocket(r)
    \/ \E r \in Requests : Touch(r) \/ PassTime(r)
    \/ UNCHANGED vars

LEMMA OthersKeepPc == OtherSteps => UNCHANGED pc /\ live' \subseteq live
  BY DEF OtherSteps, Kill, SweepExpired, ScanInactive, SweepInactive, CleanUp, Discount,
         Clamp, Unregister, CheckRegistered, EnterSocket, DropSocket, Touch, PassTime,
         Delete, vars, handlerVars

\* What disturbed a user's books once disturbs them for good.
LEMMA DisturbedForGood ==
  ASSUME IInv, [Next]_vars, NEW u \in Users, Undisturbed(u)'
  PROVE  Undisturbed(u) /\ faults' = faults
<1>1. faults \in Nat /\ restarts \in Nat
  BY LimitsAssumption DEF IInv, TypeOK
<1>2. /\ clamped \subseteq clamped'
      /\ faults' \in {faults, faults + 1}
      /\ restarts' \in {restarts, restarts + 1}
  BY DEF Next, HandleTunnel, CleanUp, Arrive, CheckLimit, Store, Increment, Kill,
         SweepExpired, ScanInactive, SweepInactive, Discount, Clamp, Unregister,
         CheckRegistered, EnterSocket, DropSocket, Touch, PassTime, Restart,
         redisVars, vars
<1>3. QED
  BY <1>1, <1>2 DEF Undisturbed

LEMMA UserSetsAreFinite ==
  ASSUME NEW u
  PROVE  /\ IsFiniteSet(InFlight(u)) /\ Cardinality(InFlight(u)) \in Nat
         /\ IsFiniteSet(Claimed(u)) /\ Cardinality(Claimed(u)) \in Nat
         /\ IsFiniteSet(live \cap OwnedBy(u)) /\ Cardinality(live \cap OwnedBy(u)) \in Nat
<1>1. /\ InFlight(u) \in SUBSET OwnedBy(u)
      /\ Claimed(u) \in SUBSET OwnedBy(u)
      /\ live \cap OwnedBy(u) \in SUBSET OwnedBy(u)
  BY DEF InFlight, Claimed
<1>2. QED
  BY <1>1, BooksAreFinite, FS_Subset, FS_CardinalityType

\* A union has no more members than its parts together.
LEMMA UnionAtMost ==
  ASSUME NEW S, NEW T, IsFiniteSet(S), IsFiniteSet(T)
  PROVE  /\ IsFiniteSet(S \cup T)
         /\ Cardinality(S \cup T) <= Cardinality(S) + Cardinality(T)
<1>1. /\ IsFiniteSet(S \cup T)
      /\ Cardinality(S \cup T) = Cardinality(S) + Cardinality(T) - Cardinality(S \cap T)
  BY FS_Union
<1>2. IsFiniteSet(S \cap T)
  BY FS_Intersection
<1>3. Cardinality(S) \in Nat /\ Cardinality(T) \in Nat /\ Cardinality(S \cap T) \in Nat
  BY <1>2, FS_CardinalityType
<1>4. QED
  BY <1>1, <1>3

\* What a passed check knew: in the moment of the check, the tunnels of u that
\* are not in flight number less than the limit, plus the DECRs that overtook
\* their INCR, each of which belongs to a handler in flight.
LEMMA CheckedClaim ==
  ASSUME IInv, CountMatchesRegistry, NEW r \in Requests, NEW u \in Users, Owner[r] = u,
         MaxPerUser > 0, Undisturbed(u), pc[r] = "limit", ~AtLimit(u)
  PROVE  Cardinality(Claimed(u) \cup {r}) <= MaxPerUser - 1 + Cardinality(InFlight(u))
<1> DEFINE F == InFlight(u)
           In == CountedIn(u)
           Out == CountedOut(u)
           L == live \cap OwnedBy(u)
<1>1. r \in F /\ MaxPerUser \in Nat /\ live \subseteq Published
  BY LimitsAssumption DEF InFlight, OwnedBy, IInv, OneReaper
<1>2. /\ IsFiniteSet(F) /\ IsFiniteSet(In) /\ IsFiniteSet(Out) /\ IsFiniteSet(L)
      /\ Cardinality(F) \in Nat /\ Cardinality(L) \in Nat
      /\ Cardinality(In) \in Nat /\ Cardinality(Out) \in Nat
  BY BooksAreFinite, UserSetsAreFinite
<1>3. CASE RedisEnabled
  <2>1. Cardinality(In) - Cardinality(Out) <= MaxPerUser - 1
    BY <1>1, <1>2, <1>3 DEF AtLimit, TunnelCount, CountMatchesRegistry, IInv, TypeOK
  <2> DEFINE Early == Out \ In
  <2>2. Early \subseteq F /\ Early \cap live = {}
    BY DEF CountedIn, CountedOut, InFlight, Removed, Published, OwnedBy
  <2>3. Claimed(u) \cup {r} \subseteq (In \ Out) \cup (F \ Early)
    <3>1. ASSUME NEW x \in L
          PROVE  x \in (In \ Out) \cup (F \ Early)
      <4>1. x \in OwnedBy(u) /\ x \in live /\ x \in Published
        BY <1>1, <3>1
      <4>2. x \notin Out
        BY <4>1 DEF CountedOut, Removed
      <4>3. pc[x] = "incr" \/ pc[x] = "done"
        BY <4>1 DEF Published
      <4>4. x \in F \/ x \in In
        BY <4>1, <4>3 DEF CountedIn, InFlight
      <4>5. QED
        BY <4>2, <4>4
    <3>2. ASSUME NEW x \in OwnedBy(u), pc[x] \in {"store", "limit"}
          PROVE  x \in F \ Early
      BY <3>2 DEF CountedOut, InFlight, Removed, Published, OwnedBy
    <3>3. QED
      BY <1>1, <3>1, <3>2 DEF Claimed, InFlight
  <2>4. /\ Cardinality(In \ Out) = Cardinality(In) - Cardinality(In \cap Out)
        /\ Cardinality(Early) = Cardinality(Out) - Cardinality(Out \cap In)
        /\ Cardinality(F \ Early) = Cardinality(F) - Cardinality(F \cap Early)
        /\ IsFiniteSet(In \ Out) /\ IsFiniteSet(F \ Early)
    BY <1>2, FS_Difference
  <2>5. In \cap Out = Out \cap In /\ F \cap Early = Early
    BY <2>2
  <2>6. /\ IsFiniteSet((In \ Out) \cup (F \ Early))
        /\ Cardinality((In \ Out) \cup (F \ Early))
             <= Cardinality(In \ Out) + Cardinality(F \ Early)
    BY <2>4, UnionAtMost
  <2>7. Cardinality(Claimed(u) \cup {r}) <= Cardinality((In \ Out) \cup (F \ Early))
    BY <2>3, <2>6, FS_Subset
  <2>8. Cardinality(In \cap Out) \in Nat /\ IsFiniteSet(Claimed(u) \cup {r})
    <3>1. IsFiniteSet(In \cap Out)
      BY <1>2, FS_Intersection
    <3>2. QED
      BY <3>1, <2>3, <2>6, FS_CardinalityType, FS_Subset
  <2>9. Cardinality(Claimed(u) \cup {r}) \in Nat
    BY <2>8, FS_CardinalityType
  <2>10. /\ Cardinality(In \ Out) \in Nat /\ Cardinality(F \ Early) \in Nat
         /\ Cardinality((In \ Out) \cup (F \ Early)) \in Nat
    BY <2>4, <2>6, FS_CardinalityType
  <2>11. Cardinality(In \ Out) + Cardinality(F \ Early)
           = Cardinality(In) - Cardinality(Out) + Cardinality(F)
    <3>1. Cardinality(F \ Early)
            = Cardinality(F) - (Cardinality(Out) - Cardinality(In \cap Out))
      BY <2>4, <2>5
    <3> HIDE DEF F, In, Out, Early
    <3>2. QED
      BY <1>2, <2>4, <2>8, <3>1
  <2>12. Cardinality(Claimed(u) \cup {r}) <= Cardinality(In) - Cardinality(Out) + Cardinality(F)
    <3> HIDE DEF F, In, Out, Early
    <3>1. QED
      BY <1>2, <2>6, <2>7, <2>9, <2>10, <2>11
  <2>13. QED
    <3> HIDE DEF F, In, Out, Early
    <3>1. Cardinality(Claimed(u) \cup {r}) <= MaxPerUser - 1 + Cardinality(F)
      BY <1>1, <1>2, <2>1, <2>9, <2>12
    <3>2. QED
      BY <3>1 DEF F
<1>4. CASE ~RedisEnabled
  <2>1. Cardinality(L) <= MaxPerUser - 1
    BY <1>1, <1>2, <1>4 DEF AtLimit, TunnelCount
  <2>2. Claimed(u) \cup {r} \subseteq L \cup F
    BY <1>1 DEF Claimed, InFlight
  <2>3. IsFiniteSet(L \cup F) /\ Cardinality(L \cup F) <= Cardinality(L) + Cardinality(F)
    BY <1>2, UnionAtMost
  <2>4. Cardinality(Claimed(u) \cup {r}) <= Cardinality(L \cup F)
    BY <2>2, <2>3, FS_Subset
  <2>5. Cardinality(Claimed(u) \cup {r}) \in Nat /\ Cardinality(L \cup F) \in Nat
    BY <2>2, <2>3, FS_Subset, FS_CardinalityType
  <2>6. QED
    BY <1>1, <1>2, <2>1, <2>3, <2>4, <2>5
<1>5. QED
  BY <1>3, <1>4, LimitsAssumption

\* A handler enters the flight only through Arrive, which keeps the bound.
LEMMA NextFlight ==
  ASSUME IInv, FlightBounded, [Next]_vars
  PROVE  FlightBounded'
<1> SUFFICES ASSUME NEW u \in Users
             PROVE  Cardinality(InFlight(u)') <= MaxInFlight
  BY DEF FlightBounded
<1>1. /\ MaxInFlight \in Nat /\ MaxInFlight > 0
      /\ pc \in [Requests -> Stages]
      /\ Cardinality(InFlight(u)) <= MaxInFlight
      /\ IsFiniteSet(InFlight(u)) /\ Cardinality(InFlight(u)) \in Nat
  <2>1. MaxInFlight \in Nat /\ MaxInFlight > 0
    BY LimitsAssumption
  <2>2. pc \in [Requests -> Stages] /\ Cardinality(InFlight(u)) <= MaxInFlight
    BY DEF IInv, TypeOK, FlightBounded
  <2>3. QED
    BY <2>1, <2>2, UserSetsAreFinite
<1>2. ASSUME InFlight(u)' \subseteq InFlight(u)
      PROVE  Cardinality(InFlight(u)') <= MaxInFlight
  <2>1. IsFiniteSet(InFlight(u)') /\ Cardinality(InFlight(u)') <= Cardinality(InFlight(u))
    BY <1>1, <1>2, FS_Subset
  <2>2. Cardinality(InFlight(u)') \in Nat
    BY <2>1, FS_CardinalityType
  <2>3. QED
    BY <1>1, <2>1, <2>2
<1>3. ASSUME NEW r \in Requests, Arrive(r)
      PROVE  Cardinality(InFlight(u)') <= MaxInFlight
  <2>1. CASE Owner[r] = u /\ pc'[r] = "limit"
    <3>1. InFlight(u)' = InFlight(u) \cup {r} /\ r \notin InFlight(u)
      BY <1>1, <1>3, <2>1 DEF Arrive, InFlight, OwnedBy
    <3>2. Cardinality(InFlight(u)') = Cardinality(InFlight(u)) + 1
      BY <1>1, <3>1, FS_AddElement
    <3>3. Cardinality(InFlight(u)) < MaxInFlight
      BY <1>3, <2>1 DEF Arrive
    <3>4. QED
      BY <1>1, <3>2, <3>3
  <2>2. CASE ~(Owner[r] = u /\ pc'[r] = "limit")
    <3>1. InFlight(u)' \subseteq InFlight(u)
      BY <1>1, <1>3, <2>2 DEF Arrive, InFlight, OwnedBy
    <3>2. QED
      BY <1>2, <3>1
  <2>3. QED
    BY <2>1, <2>2
<1>4. ASSUME NEW r \in Requests, CheckLimit(r) \/ Store(r) \/ Increment(r)
      PROVE  Cardinality(InFlight(u)') <= MaxInFlight
  <2>1. InFlight(u)' \subseteq InFlight(u)
    BY <1>1, <1>4 DEF CheckLimit, Store, Increment, InFlight, OwnedBy
  <2>2. QED
    BY <1>2, <2>1
<1>5. CASE Restart
  <2>1. InFlight(u)' \subseteq InFlight(u)
    BY <1>1, <1>5 DEF Restart, InFlight, OwnedBy
  <2>2. QED
    BY <1>2, <2>1
<1>6. CASE UNCHANGED pc
  BY <1>2, <1>6 DEF InFlight, OwnedBy
<1>7. QED
  BY <1>3, <1>4, <1>5, <1>6, OthersKeepPc DEF Next, HandleTunnel, OtherSteps

LEMMA NextClaim ==
  ASSUME IInv, CountMatchesRegistry, FlightBounded, ClaimBounded, [Next]_vars
  PROVE  ClaimBounded'
<1> SUFFICES ASSUME NEW u \in Users, MaxPerUser > 0, Undisturbed(u)'
             PROVE  Cardinality(Claimed(u)') <= MaxPerUser - 1 + MaxInFlight
  BY DEF ClaimBounded
<1>1. /\ MaxInFlight \in Nat /\ MaxPerUser \in Nat
      /\ Cardinality(InFlight(u)) \in Nat /\ Cardinality(Claimed(u)) \in Nat
      /\ IsFiniteSet(Claimed(u)) /\ Cardinality(InFlight(u)) <= MaxInFlight
  <2>1. MaxInFlight \in Nat /\ MaxPerUser \in Nat
    BY LimitsAssumption
  <2>2. Cardinality(InFlight(u)) <= MaxInFlight
    BY DEF FlightBounded
  <2>3. QED
    BY <2>1, <2>2, UserSetsAreFinite
<1>2. pc \in [Requests -> Stages] /\ live \subseteq Requests
  BY DEF IInv, TypeOK
<1>3. Undisturbed(u) /\ faults' = faults
  BY DisturbedForGood
<1>4. ASSUME Claimed(u)' \subseteq Claimed(u)
      PROVE  Cardinality(Claimed(u)') <= MaxPerUser - 1 + MaxInFlight
  <2>1. IsFiniteSet(Claimed(u)') /\ Cardinality(Claimed(u)') <= Cardinality(Claimed(u))
    BY <1>1, <1>4, FS_Subset
  <2>2. Cardinality(Claimed(u)') \in Nat
    BY <2>1, FS_CardinalityType
  <2>3. Cardinality(Claimed(u)) <= MaxPerUser - 1 + MaxInFlight
    BY <1>3 DEF ClaimBounded
  <2>4. QED
    BY <1>1, <2>1, <2>2, <2>3
<1>5. ASSUME NEW r \in Requests, CheckLimit(r)
      PROVE  Cardinality(Claimed(u)') <= MaxPerUser - 1 + MaxInFlight
  <2>1. CASE Owner[r] = u /\ pc'[r] = "store"
    <3>1. pc[r] = "limit" /\ ~AtLimit(u) /\ Claimed(u)' = Claimed(u) \cup {r}
      <4>1. pc[r] = "limit" /\ pc' = [pc EXCEPT ![r] = "store"] /\ live' = live
        BY <1>2, <1>5, <2>1 DEF CheckLimit
      <4>2. Claimed(u)' = Claimed(u) \cup {r}
        BY <1>2, <2>1, <4>1 DEF Claimed, OwnedBy
      <4>3. Limited(r) /\ faults \in Nat
        BY <2>1, RequestsAssumption, LimitsAssumption DEF Limited, IInv, TypeOK
      <4>4. ~AtLimit(u)
        BY <1>2, <1>3, <1>5, <2>1, <4>3 DEF CheckLimit
      <4>5. QED
        BY <4>1, <4>2, <4>4
    <3>2. Cardinality(Claimed(u)') <= MaxPerUser - 1 + Cardinality(InFlight(u))
      BY <1>3, <2>1, <3>1, CheckedClaim
    <3>3. Cardinality(Claimed(u)') \in Nat
      BY <1>1, <3>1, FS_AddElement, FS_CardinalityType
    <3>4. QED
      BY <1>1, <3>2, <3>3
  <2>2. CASE ~(Owner[r] = u /\ pc'[r] = "store")
    <3>1. Claimed(u)' \subseteq Claimed(u)
      BY <1>2, <1>5, <2>2 DEF CheckLimit, Claimed, OwnedBy
    <3>2. QED
      BY <1>4, <3>1
  <2>3. QED
    BY <2>1, <2>2
<1>6. ASSUME NEW r \in Requests, Arrive(r) \/ Store(r) \/ Increment(r)
      PROVE  Cardinality(Claimed(u)') <= MaxPerUser - 1 + MaxInFlight
  <2>1. Claimed(u)' \subseteq Claimed(u)
    BY <1>2, <1>6 DEF Arrive, Store, Increment, Claimed, OwnedBy
  <2>2. QED
    BY <1>4, <2>1
<1>7. CASE Restart
  <2>1. Claimed(u)' \subseteq Claimed(u)
    BY <1>2, <1>7 DEF Restart, Delete, Claimed, OwnedBy
  <2>2. QED
    BY <1>4, <2>1
<1>8. CASE UNCHANGED pc /\ live' \subseteq live
  <2>1. Claimed(u)' \subseteq Claimed(u)
    BY <1>8 DEF Claimed, OwnedBy
  <2>2. QED
    BY <1>4, <2>1
<1>9. QED
  BY <1>5, <1>6, <1>7, <1>8, OthersKeepPc DEF Next, HandleTunnel, OtherSteps

\* A tunnel that is stored was not in the registry before, so the claims are
\* the tunnels and the passed checks, counted separately.
LEMMA ClaimIsOvershoot == IInv /\ ClaimBounded => OvershootBounded
<1> SUFFICES ASSUME IInv, ClaimBounded, NEW u \in Users, MaxPerUser > 0, Undisturbed(u)
             PROVE  Cardinality(live \cap OwnedBy(u))
                        + Cardinality({r \in OwnedBy(u) : pc[r] = "store"})
                    <= MaxPerUser - 1 + MaxInFlight
  BY DEF OvershootBounded
<1> DEFINE L == live \cap OwnedBy(u)
           P == {r \in OwnedBy(u) : pc[r] = "store"}
<1>1. L \cap P = {}
  BY DEF IInv, OneReaper, Published
<1>2. IsFiniteSet(L) /\ IsFiniteSet(P)
  BY BooksAreFinite, FS_Subset
<1>3. /\ Cardinality(L \cup P) = Cardinality(L) + Cardinality(P) - Cardinality(L \cap P)
      /\ Cardinality(L) \in Nat /\ Cardinality(P) \in Nat
  BY <1>2, FS_Union, FS_CardinalityType
<1>4. Cardinality(L \cap P) = 0
  BY <1>1, FS_EmptySet
<1>5. Cardinality(L \cup P) <= MaxPerUser - 1 + MaxInFlight
  BY DEF ClaimBounded, Claimed
<1> HIDE DEF L, P
<1>6. Cardinality(L) + Cardinality(P) <= MaxPerUser - 1 + MaxInFlight
  BY <1>3, <1>4, <1>5
<1>7. QED
  BY <1>6 DEF L, P

LEMMA InitClaim == Init => FlightBounded /\ ClaimBounded
<1> SUFFICES ASSUME Init, NEW u \in Users
             PROVE  /\ Cardinality(InFlight(u)) <= MaxInFlight
                    /\ MaxPerUser > 0 =>
                           Cardinality(Claimed(u)) <= MaxPerUser - 1 + MaxInFlight
  BY DEF FlightBounded, ClaimBounded
<1>1. InFlight(u) = {} /\ Claimed(u) = {}
  BY DEF Init, InFlight, Claimed, OwnedBy
<1>2. Cardinality(InFlight(u)) = 0 /\ Cardinality(Claimed(u)) = 0
  BY <1>1, FS_EmptySet
<1>3. QED
  BY <1>2, LimitsAssumption

\* Whatever the interleaving of handlers and reapers, a user's tunnels pass
\* MaxPerUser by less than the number of handlers of that user under way at
\* once; with MaxInFlight = 1 this is the documented limit.
THEOREM LimitOvershoot == Spec => []OvershootBounded
<1> DEFINE Inv == IInv /\ CountMatchesRegistry /\ FlightBounded /\ ClaimBounded
<1>1. Init => Inv
  BY InitTypeOK, InitOneReaper, InitCount, InitClaim DEF IInv
<1>2. Inv /\ [Next]_vars => Inv'
  BY NextIInv, NextCount, NextFlight, NextClaim
<1>3. Inv => OvershootBounded
  BY ClaimIsOvershoot
<1>4. QED
  BY <1>1, <1>2, <1>3, PTL DEF Spec

-----------------------------------------------------------------------------
(* Who is refused.                                                         *)

\* A tunnel whose INCR is sent and whose DECR is not is in the registry or on
\* a reaper's list.
LEMMA CountedAreHeld ==
  ASSUME NEW u
  PROVE  CountedIn(u) \ CountedOut(u) \subseteq OwnedBy(u) \cap (live \cup Doomed)
  BY DEF CountedIn, CountedOut, Removed, Published, OwnedBy

\* A set has at least as many members more than another as it has more
\* members.
LEMMA DifferenceAtLeast ==
  ASSUME NEW S, NEW T, IsFiniteSet(S), IsFiniteSet(T)
  PROVE  Cardinality(S) - Cardinality(T) <= Cardinality(S \ T)
<1>1. Cardinality(S \ T) = Cardinality(S) - Cardinality(S \cap T)
  BY FS_Difference
<1>2. IsFiniteSet(S \cap T) /\ Cardinality(S \cap T) <= Cardinality(T)
  BY FS_Subset
<1>3. Cardinality(S) \in Nat /\ Cardinality(T) \in Nat /\ Cardinality(S \cap T) \in Nat
  BY <1>2, FS_CardinalityType
<1>4. QED
  BY <1>1, <1>2, <1>3

\* What a refusing check knew: u's tunnels, those a reaper has yet to
\* discount included, fill the limit.
LEMMA LimitIsFull ==
  ASSUME IInv, CountMatchesRegistry, NEW u \in Users, Undisturbed(u), AtLimit(u)
  PROVE  Cardinality(OwnedBy(u) \cap (live \cup Doomed)) >= MaxPerUser
<1> DEFINE Held == OwnedBy(u) \cap (live \cup Doomed)
           Paid == CountedIn(u) \ CountedOut(u)
<1>1. MaxPerUser \in Nat /\ IsFiniteSet(Held) /\ Cardinality(Held) \in Nat
  <2>1. Held \subseteq OwnedBy(u)
    OBVIOUS
  <2>2. QED
    BY <2>1, BooksAreFinite, FS_Subset, FS_CardinalityType, LimitsAssumption
<1>2. CASE RedisEnabled
  <2>1. Cardinality(CountedIn(u)) - Cardinality(CountedOut(u)) >= MaxPerUser
    BY <1>2 DEF AtLimit, TunnelCount, CountMatchesRegistry
  <2>2. Cardinality(CountedIn(u)) - Cardinality(CountedOut(u)) <= Cardinality(Paid)
    BY BooksAreFinite, DifferenceAtLeast
  <2>3. IsFiniteSet(Paid) /\ Cardinality(Paid) <= Cardinality(Held)
    BY <1>1, CountedAreHeld, FS_Subset
  <2>4. /\ Cardinality(CountedIn(u)) \in Nat /\ Cardinality(CountedOut(u)) \in Nat
        /\ Cardinality(Paid) \in Nat
    BY <2>3, BooksAreFinite, FS_CardinalityType
  <2>5. QED
    BY <1>1, <2>1, <2>2, <2>3, <2>4
<1>3. CASE ~RedisEnabled
  <2>1. Cardinality(live \cap OwnedBy(u)) >= MaxPerUser
    BY <1>3 DEF AtLimit, TunnelCount
  <2>2. live \cap OwnedBy(u) \subseteq Held
    OBVIOUS
  <2>3. /\ Cardinality(live \cap OwnedBy(u)) <= Cardinality(Held)
        /\ Cardinality(live \cap OwnedBy(u)) \in Nat
    BY <1>1, <2>2, FS_Subset, FS_CardinalityType
  <2>4. QED
    BY <1>1, <2>1, <2>3
<1>4. QED
  BY <1>2, <1>3, LimitsAssumption

\* Only the limit check refuses, and only on its second branch.
LEMMA RefusedByCheck ==
  ASSUME IInv, [Next]_vars, NEW r \in Requests, pc[r] = "limit", pc'[r] = "refused"
  PROVE  Limited(r) /\ AtLimit(Owner[r])
<1>1. pc \in [Requests -> Stages]
  BY DEF IInv, TypeOK
<1>2. ASSUME NEW q \in Requests, HandleTunnel(q)
      PROVE  Limited(r) /\ AtLimit(Owner[r])
  <2>1. CASE CheckLimit(q)
    BY <1>1, <2>1 DEF CheckLimit
  <2>2. CASE Arrive(q) \/ Store(q) \/ Increment(q)
    BY <1>1, <2>2 DEF Arrive, Store, Increment
  <2>3. QED
    BY <1>2, <2>1, <2>2 DEF HandleTunnel
<1>3. ~OtherSteps
  BY OthersKeepPc
<1>4. ~Restart
  BY <1>1 DEF Restart
<1>5. QED
  BY <1>2, <1>3, <1>4 DEF Next, OtherSteps

\* However creations, removals and Redis commands interleave, a request is
\* answered 429 only when the tunnels of its user, those being removed
\* included, fill the limit: the counter never runs ahead of the registry.
THEOREM NobodyRefusedEarly == Spec => RefusedOnlyAtLimit
<1> DEFINE Inv == IInv /\ CountMatchesRegistry
<1>1. Init => Inv
  BY InitTypeOK, InitOneReaper, InitCount DEF IInv
<1>2. Inv /\ [Next]_vars => Inv'
  BY NextIInv, NextCount
<1>3. Inv /\ [Next]_vars => [RefusedAtLimit]_vars
  <2> SUFFICES ASSUME Inv, [Next]_vars, NEW r \in Requests, pc[r] = "limit",
                      pc'[r] = "refused", Undisturbed(Owner[r])
               PROVE  Cardinality(OwnedBy(Owner[r]) \cap (live \cup Doomed)) >= MaxPerUser
    BY DEF RefusedAtLimit
  <2>1. Limited(r) /\ AtLimit(Owner[r])
    BY RefusedByCheck
  <2>2. Owner[r] \in Users
    BY <2>1, RequestsAssumption DEF Limited
  <2>3. QED
    BY <2>1, <2>2, LimitIsFull
<1>4. QED
  BY <1>1, <1>2, <1>3, PTL DEF Spec, RefusedOnlyAtLimit

-----------------------------------------------------------------------------
(* The registry implements TunnelLifecycle.                                *)

\* Some reaper still has work to do for tunnel r.
Held(r) == \E p \in Reapers : r \in todo[p] \/ r = cur[p]

phase == [r \in Requests |-> Phase(r)]

\* What the phases of the tunnels read off, a tunnel being in one place only.
LEMMA PhaseIs ==
  ASSUME IInv, NEW r \in Requests
  PROVE  /\ Phase(r) = "live" <=> r \in live
         /\ Phase(r) = "closing" <=> Held(r)
         /\ Phase(r) = "absent" <=> pc[r] \in {"new", "limit", "store", "refused", "unavailable"}
         /\ Phase(r) = "gone" <=> (r \in Removed /\ ~Held(r)) \/ pc[r] = "lost"
<1>1. r \in live => pc[r] \in {"incr", "done"}
  BY DEF IInv, OneReaper, Published
<1>2. Held(r) => r \notin live /\ pc[r] \in {"incr", "done"}
  BY RequestsAssumption DEF Held, IInv, OneReaper, Removed, Published
<1>3. pc[r] \in Stages
  BY DEF IInv, TypeOK
<1>4. r \in Removed <=> pc[r] \in {"incr", "done"} /\ r \notin live
  BY DEF Removed, Published
<1>5. QED
  BY <1>1, <1>2, <1>3, <1>4 DEF Phase, Held, Stages

\* A step that moves the tunnels of S to x and no other.
LEMMA MapsToMove ==
  ASSUME NEW S, NEW x,
         \A r \in Requests : Phase(r)' = IF r \in S THEN x ELSE Phase(r)
  PROVE  Lifecycle!Move(S, x)
  BY DEF Lifecycle!Move

LEMMA MapsToStutter ==
  ASSUME \A r \in Requests : Phase(r)' = Phase(r)
  PROVE  UNCHANGED phase
  BY DEF phase

LEMMA PhaseStays ==
  ASSUME UNCHANGED <<pc, live, todo, cur>>
  PROVE  UNCHANGED phase
  BY DEF phase, Phase

LEMMA InitRefines == Init => Lifecycle!Init
<1> SUFFICES ASSUME Init, NEW r \in Requests
             PROVE  Phase(r) = "absent"
  BY DEF Lifecycle!Init
<1>1. QED
  BY RequestsAssumption DEF Init, Phase

LEMMA HandlerRefines ==
  ASSUME IInv, NEW r \in Requests, HandleTunnel(r)
  PROVE  Lifecycle!Open(r) \/ UNCHANGED phase
<1>1. pc \in [Requests -> Stages] /\ UNCHANGED <<todo, cur>>
  BY DEF IInv, TypeOK, HandleTunnel, Arrive, CheckLimit, Store, Increment, reaperVars
<1>2. CASE Arrive(r) \/ CheckLimit(r) \/ Increment(r)
  <2>1. /\ live' = live
        /\ \A q \in Requests : q # r => pc'[q] = pc[q]
        /\ pc'[r] \in {"incr", "done", "lost"} <=> pc[r] \in {"incr", "done", "lost"}
    BY <1>1, <1>2 DEF Arrive, CheckLimit, Increment
  <2>2. QED
    BY <1>1, <2>1, MapsToStutter DEF Phase
<1>3. CASE Store(r)
  <2>1. /\ pc[r] = "store" /\ live' = live \cup {r}
        /\ \A q \in Requests : q # r => pc'[q] = pc[q]
    BY <1>1, <1>3 DEF Store
  <2>2. \A q \in Requests : Phase(q)' = IF q \in {r} THEN "live" ELSE Phase(q)
    BY <1>1, <2>1 DEF Phase
  <2>3. r \in Lifecycle!In("absent")
    BY <2>1, PhaseIs DEF Lifecycle!In
  <2>4. QED
    BY <2>2, <2>3, MapsToMove DEF Lifecycle!Open
<1>4. QED
  BY <1>2, <1>3 DEF HandleTunnel

\* A reaper q that holds nothing takes the live tunnels of S out.
LEMMA TakeOverRefines ==
  ASSUME IInv, NEW q \in Reapers, NEW S \in SUBSET live,
         todo[q] = {}, cur[q] = NoTunnel,
         live' = live \ S, todo' = [todo EXCEPT ![q] = S], UNCHANGED <<cur, pc>>
  PROVE  Lifecycle!Close(S) \/ UNCHANGED phase
<1>1. \A p \in Reapers : todo'[p] = IF p = q THEN S ELSE todo[p]
  BY DEF IInv, TypeOK
<1>2. \A r \in Requests : Held(r)' <=> r \in S \/ Held(r)
  BY <1>1 DEF Held
<1>3. \A r \in Requests : Phase(r)' = IF r \in S THEN "closing" ELSE Phase(r)
  BY <1>2 DEF Phase, Held
<1>4. S \subseteq Lifecycle!In("live")
  BY DEF Lifecycle!In, Phase, IInv, TypeOK
<1>5. CASE S = {}
  BY <1>3, <1>5, MapsToStutter
<1>6. CASE S # {}
  BY <1>3, <1>4, <1>6, MapsToMove DEF Lifecycle!Close
<1>7. QED
  BY <1>5, <1>6

\* From the list of reaper p to its hands: nothing a user of the tunnel sees.
LEMMA DiscountRefines ==
  ASSUME IInv, NEW p \in Reapers, NEW r \in Requests, Discount(p, r)
  PROVE  UNCHANGED phase
<1>1. /\ r \in todo[p] /\ cur[p] = NoTunnel /\ UNCHANGED <<pc, live>>
      /\ \A q \in Reapers : /\ todo'[q] = IF q = p THEN todo[p] \ {r} ELSE todo[q]
                            /\ cur'[q] = IF q = p THEN r ELSE cur[q]
  BY DEF Discount, IInv, TypeOK, handlerVars
<1>2. \A x \in Requests : Held(x)' <=> Held(x)
  BY <1>1, RequestsAssumption DEF Held
<1>3. QED
  BY <1>1, <1>2, MapsToStutter DEF Phase, Held

\* The reaper that unregisters a tunnel is the last to hold it.
LEMMA UnregisterRefines ==
  ASSUME IInv, NEW p \in Reapers, Unregister(p)
  PROVE  cur[p] \in Requests /\ Lifecycle!Finish(cur[p])
<1> DEFINE t == cur[p]
<1>1. /\ t \in Requests /\ t \in Removed /\ UNCHANGED <<pc, live, todo>>
      /\ \A q \in Reapers : cur'[q] = IF q = p THEN NoTunnel ELSE cur[q]
  BY DEF Unregister, IInv, TypeOK, OneReaper, handlerVars
<1>2. \A q \in Reapers : t \notin todo[q] /\ (q # p => cur[q] # t)
  BY <1>1, RequestsAssumption DEF IInv, OneReaper
<1>3. \A r \in Requests : Held(r)' <=> Held(r) /\ r # t
  BY <1>1, <1>2, RequestsAssumption DEF Held
<1>4. t \notin live /\ pc[t] \in {"incr", "done"} /\ Held(t)
  BY <1>1 DEF Removed, Published, Held
<1>5. \A r \in Requests : Phase(r)' = IF r \in {t} THEN "gone" ELSE Phase(r)
  BY <1>1, <1>3, <1>4 DEF Phase, Held
<1>6. t \in Lifecycle!In("closing")
  BY <1>1, <1>4, PhaseIs DEF Lifecycle!In
<1>7. QED
  BY <1>1, <1>5, <1>6, MapsToMove DEF Lifecycle!Finish

\* A restart forgets the requests under way with the tunnels.
LEMMA RestartRefines ==
  ASSUME IInv, Restart
  PROVE  \E S \in SUBSET Requests : Lifecycle!Forget(S)
<1> DEFINE S == {r \in Requests : pc[r] \in {"limit", "store"}}
           Gone == S \cup Lifecycle!In("live") \cup Lifecycle!In("closing")
<1>1. /\ pc \in [Requests -> Stages]
      /\ live' = {} /\ \A r \in Requests : ~Held(r)'
      /\ \A r \in Requests : pc'[r] = IF pc[r] \in {"limit", "store", "incr"}
                                      THEN "lost" ELSE pc[r]
  BY RequestsAssumption DEF IInv, TypeOK, Restart, Delete, Held
<1>2. ASSUME NEW r \in Requests
      PROVE  Phase(r)' = IF r \in Gone THEN "gone" ELSE Phase(r)
  <2>1. Phase(r)' = IF pc'[r] \in {"incr", "done", "lost"} THEN "gone" ELSE "absent"
    BY <1>1 DEF Phase, Held
  <2>2. r \in Gone <=> pc[r] \in {"limit", "store"} \/ Phase(r) \in {"live", "closing"}
    BY DEF Lifecycle!In
  <2>3. Phase(r) \in {"live", "closing", "absent", "gone"}
    BY DEF Phase
  <2>4. Phase(r) \in {"live", "closing", "gone"} => pc[r] \in {"incr", "done", "lost"}
    BY <1>1, PhaseIs DEF Stages
  <2>5. Phase(r) = "absent" => pc[r] \in {"new", "limit", "store", "refused", "unavailable"}
    BY PhaseIs
  <2>6. QED
    BY <1>1, <2>1, <2>2, <2>3, <2>4, <2>5
<1>3. S \subseteq Lifecycle!In("absent")
  BY PhaseIs DEF Lifecycle!In
<1>4. Lifecycle!Move(Gone, "gone")
  BY <1>2, MapsToMove
<1>5. Lifecycle!Forget(S)
  BY <1>3, <1>4 DEF Lifecycle!Forget
<1>6. QED
  BY <1>5

LEMMA NextRefines ==
  ASSUME IInv, [Next]_vars
  PROVE  [Lifecycle!Next]_phase
<1>a. \A p \in Reapers : rpc[p] \in {"idle", "scanned"} => todo[p] = {} /\ cur[p] = NoTunnel
  BY DEF IInv, TypeOK, ReaperStages
<1>b. /\ ExpirySweep \in Reapers /\ IdleSweep \in Reapers /\ Admins \subseteq Reapers
      /\ live \subseteq Requests
  BY DEF Reapers, Sweeps, IInv, TypeOK
<1>1. ASSUME NEW r \in Requests, HandleTunnel(r)
      PROVE  [Lifecycle!Next]_phase
  BY <1>1, HandlerRefines DEF Lifecycle!Next
<1>2. ASSUME NEW p \in Admins, NEW r \in Requests, Kill(p, r)
      PROVE  [Lifecycle!Next]_phase
  <2>1. /\ {r} \in SUBSET live /\ p \in Reapers /\ todo[p] = {} /\ cur[p] = NoTunnel
        /\ live' = live \ {r} /\ todo' = [todo EXCEPT ![p] = {r}] /\ UNCHANGED <<cur, pc>>
    BY <1>2, <1>a, <1>b DEF Kill, Delete, handlerVars
  <2>2. Lifecycle!Close({r}) \/ UNCHANGED phase
    BY <2>1, TakeOverRefines
  <2>3. QED
    BY <2>2 DEF Lifecycle!Next
<1>3. CASE SweepExpired
  <2>1. PastExpiry \in SUBSET live /\ PastExpiry \in SUBSET Requests
    BY <1>b DEF PastExpiry
  <2>2. Lifecycle!Close(PastExpiry) \/ UNCHANGED phase
    BY <1>3, <1>a, <1>b, <2>1, TakeOverRefines DEF SweepExpired, Delete, handlerVars
  <2>3. QED
    BY <2>1, <2>2 DEF Lifecycle!Next
<1>4. CASE SweepInactive
  <2>1. StillThere \in SUBSET live /\ StillThere \in SUBSET Requests
    BY <1>b DEF StillThere
  <2>2. Lifecycle!Close(StillThere) \/ UNCHANGED phase
    BY <1>4, <1>a, <1>b, <2>1, TakeOverRefines DEF SweepInactive, Delete, handlerVars
  <2>3. QED
    BY <2>1, <2>2 DEF Lifecycle!Next
<1>5. ASSUME NEW p \in Reapers, CleanUp(p)
      PROVE  [Lifecycle!Next]_phase
  <2>1. ASSUME NEW r \in Requests, Discount(p, r)
        PROVE  [Lifecycle!Next]_phase
    BY <2>1, DiscountRefines
  <2>2. CASE Clamp(p)
    BY <2>2, PhaseStays DEF Clamp, handlerVars
  <2>3. CASE Unregister(p)
    BY <2>3, UnregisterRefines DEF Lifecycle!Next
  <2>4. QED
    BY <1>5, <2>1, <2>2, <2>3 DEF CleanUp
<1>6. ASSUME \/ ScanInactive
             \/ \E r \in Requests : \/ CheckRegistered(r) \/ EnterSocket(r)
                                    \/ DropSocket(r) \/ Touch(r) \/ PassTime(r)
             \/ UNCHANGED vars
      PROVE  [Lifecycle!Next]_phase
  <2>1. UNCHANGED <<pc, live, todo, cur>>
    BY <1>6 DEF ScanInactive, CheckRegistered, EnterSocket, DropSocket, Touch,
                PassTime, vars, handlerVars, reaperVars
  <2>2. QED
    BY <2>1, PhaseStays
<1>7. CASE Restart
  BY <1>7, RestartRefines DEF Lifecycle!Next
<1>8. QED
  BY <1>1, <1>2, <1>3, <1>4, <1>5, <1>6, <1>7 DEF Next

\* Whoever removes a tunnel, and however the handlers, admins, sweeps and
\* restarts interleave, the tunnel is opened at most once, closed by one
\* goroutine, and never comes back: every step of the registry is a step of
\* TunnelLifecycle or none.
THEOREM ImplementsLifecycle == Spec => Lifecycle!Spec
<1>1. Init => Lifecycle!Init
  BY InitRefines
<1>2. IInv /\ [Next]_vars => [Lifecycle!Next]_phase
  BY NextRefines
<1>3. QED
  BY <1>1, <1>2, Invariance, PTL DEF Spec, Lifecycle!Spec, phase

-----------------------------------------------------------------------------
(* What is left of the two statements the code does not keep.              *)

\* GetTunnelCount is "the number of active tunnels" whenever nobody is at work
\* on the user's tunnels and nothing has disturbed the books.
ExactWhenQuiet ==
    RedisEnabled => \A u \in Users :
        Quiet(u) /\ Undisturbed(u) => count[u] = Cardinality(live \cap OwnedBy(u))

\* The limit is the documented one if a user's handlers do not overlap.
LimitWhenAlone ==
    MaxInFlight = 1 /\ MaxPerUser > 0 => \A u \in Users :
        Undisturbed(u) => Cardinality(live \cap OwnedBy(u)) <= MaxPerUser

LEMMA QuietBooks ==
  ASSUME IInv, CountMatchesRegistry, RedisEnabled, NEW u \in Users, Quiet(u), Undisturbed(u)
  PROVE  count[u] = Cardinality(live \cap OwnedBy(u))
<1> DEFINE In == CountedIn(u)
           Out == CountedOut(u)
<1>1. \A p \in Reapers : todo[p] = {}
  BY DEF Quiet, IInv, TypeOK
<1>2. Doomed = {}
  BY <1>1, DoomedIsTodo
<1>3. \A r \in OwnedBy(u) : pc[r] # "incr"
  BY DEF Quiet, InFlight
<1>4. Out \subseteq In /\ In \ Out = live \cap OwnedBy(u)
  <2>1. \A r \in OwnedBy(u) : r \in Published <=> pc[r] = "done"
    BY <1>3 DEF Published, OwnedBy
  <2>2. \A r \in OwnedBy(u) : r \in Out <=> pc[r] = "done" /\ r \notin live
    BY <1>2, <2>1 DEF CountedOut, Removed
  <2>3. \A r \in OwnedBy(u) : r \in live => pc[r] = "done"
    BY <2>1 DEF IInv, OneReaper
  <2>4. /\ \A r : r \in In <=> r \in OwnedBy(u) /\ pc[r] = "done"
        /\ Out \subseteq OwnedBy(u)
    BY DEF CountedIn, CountedOut
  <2>5. QED
    BY <2>2, <2>3, <2>4
<1>5. /\ IsFiniteSet(In) /\ IsFiniteSet(Out)
      /\ Cardinality(In) \in Nat /\ Cardinality(Out) \in Nat
  BY BooksAreFinite
<1>6. Cardinality(In \ Out) = Cardinality(In) - Cardinality(In \cap Out)
  BY <1>5, FS_Difference
<1>7. In \cap Out = Out
  BY <1>4
<1>8. count[u] = Cardinality(In) - Cardinality(Out)
  BY DEF CountMatchesRegistry
<1>9. QED
  BY <1>4, <1>6, <1>7, <1>8

\* Only a failed command, a restart or the SET 0 of a negative DECR makes the
\* counter wrong for good: without them it is exact each time the user's
\* handlers and the reapers come to rest.
THEOREM CounterSettles == Spec => []ExactWhenQuiet
<1>1. IInv /\ CountMatchesRegistry => ExactWhenQuiet
  BY QuietBooks DEF ExactWhenQuiet
<1>2. QED
  BY <1>1, Invariance, CounterIsAccurate, PTL

\* The overlap of a user's own requests is what the documented limit gives way
\* to, and nothing else: without it MaxPerUser is never passed.
THEOREM LimitHoldsAlone == Spec => []LimitWhenAlone
<1>1. OvershootBounded => LimitWhenAlone
  <2> SUFFICES ASSUME OvershootBounded, MaxInFlight = 1, MaxPerUser > 0,
                      NEW u \in Users, Undisturbed(u)
               PROVE  Cardinality(live \cap OwnedBy(u)) <= MaxPerUser
    BY DEF LimitWhenAlone
  <2> DEFINE L == Cardinality(live \cap OwnedBy(u))
             P == Cardinality({r \in OwnedBy(u) : pc[r] = "store"})
  <2>1. L + P <= MaxPerUser - 1 + MaxInFlight
    BY DEF OvershootBounded
  <2>2. L \in Nat /\ P \in Nat /\ MaxPerUser \in Nat
    BY BooksAreFinite, UserSetsAreFinite, FS_Subset, FS_CardinalityType, LimitsAssumption
  <2>3. QED
    BY <2>1, <2>2
<1>2. QED
  BY <1>1, LimitOvershoot, PTL
=============================================================================
