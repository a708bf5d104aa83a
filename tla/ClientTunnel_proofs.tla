------------------------ MODULE ClientTunnel_proofs ------------------------
(***************************************************************************)
(* Theorems about ClientTunnel for all values of its constants: any number *)
(* of connections and any number of attempts.                              *)
(***************************************************************************)
EXTENDS ClientTunnel, TLAPS

Registering == {"listen", "greet", "ask", "await", "confirm"}
Reconnecting == {"backoff", "drop", "dial", "store", "check"} \cup Registering
Starting == {"start", "dial", "store", "ended"}

\* The counters: where one is about to be incremented it is below its limit.
AttemptsLeft ==
    /\ pc[Main] = "start" => starts < MaxTries
    /\ \A c \in Conns : pc[Monitor(c)] \in Reconnecting => retries[c] < MaxRetries

\* The tunnel is marked as not running only between two calls of Start, until
\* it is stopped.
FlagsMatchMain == ~running /\ ~stopped => pc[Main] \in {"start", "ended"}

\* InUseIsWatched, which holds as soon as Start has connected.
InUseWatched ==
    wsConn # NoConn /\ ~stopped /\ pc[Main] \notin Starting =>
        pc[Monitor(wsConn)] \notin {"none", "ended"}

\* A connection's monitor is started when it is stored, by the one goroutine
\* that has dialled it.
MonitorsFollow ==
    /\ \A c \in Conns : conn[c] = "unused" => pc[Monitor(c)] = "none"
    /\ \A p \in Procs : pc[p] = "store" =>
           conn[at[p]] # "unused" /\ pc[Monitor(at[p])] = "none"
    /\ \A p, q \in Procs : pc[p] = "store" /\ pc[q] = "store" /\ at[p] = at[q] => p = q

\* A goroutine registers the tunnel at most once, so starts one reader.
ReadersFollow ==
    ~stopped =>
        /\ \A p \in Readers : pc[p] # "none" => registered
        /\ \A p \in Procs : pc[p] \in Registering => pc[ReaderOf(p)] = "none"

IInv ==
    /\ TypeOK /\ AttemptsLeft /\ FlagsMatchMain
    /\ InUseWatched /\ MonitorsFollow /\ ReadersFollow

-----------------------------------------------------------------------------
(* The goroutines.                                                         *)

\* What the proofs need to know of them: the names are told apart.
Goroutines ==
    /\ NoConn \notin Conns
    /\ Main \in Procs /\ Main \notin Monitors /\ Main \notin Readers
    /\ \A c \in Conns : Monitor(c) \in Monitors /\ ConnOf(Monitor(c)) = c
    /\ \A p \in Monitors : p \in Procs /\ p \notin Readers
    /\ \A p \in Monitors : ConnOf(p) \in Conns /\ p = Monitor(ConnOf(p))
    /\ \A p \in Readers : p \in Procs
    /\ \A p \in Procs : ReaderOf(p) \in Readers
    /\ \A p \in Procs : p = Main \/ p \in Monitors \/ p \in Readers

LEMMA GoroutinesHold == Goroutines
<1>1. NoConn \notin Conns
  BY DEF NoConn, Conns
<1>2. /\ Main \in Procs /\ Main \notin Monitors /\ Main \notin Readers
      /\ \A p \in Monitors : p \in Procs /\ p \notin Readers
      /\ \A p \in Readers : p \in Procs
      /\ \A p \in Procs : p = Main \/ p \in Monitors \/ p \in Readers
  BY DEF Main, Procs, Monitors, Monitor, Readers
<1>3. \A c \in Conns : Monitor(c) \in Monitors /\ ConnOf(Monitor(c)) = c
  BY DEF Monitors, Monitor, ConnOf
<1>4. \A p \in Monitors : ConnOf(p) \in Conns /\ p = Monitor(ConnOf(p))
  BY DEF Monitors, Monitor, ConnOf
<1>5. \A p \in Procs : ReaderOf(p) \in Readers
  BY DEF Procs, Main, Monitors, Monitor, Readers, ReaderOf, ConnOf
<1>6. QED
  BY <1>1, <1>2, <1>3, <1>4, <1>5 DEF Goroutines

\* Two goroutines that register the tunnel start readers of different names.
LEMMA ReaderNames ==
  /\ \A p \in Readers : ReaderOf(p) = p
  /\ \A p, q \in Procs \ Readers : ReaderOf(p) = ReaderOf(q) => p = q
<1>1. \A p \in Readers : ReaderOf(p) = p
  BY DEF Readers, ReaderOf, ConnOf
<1>2. ASSUME NEW p \in Procs \ Readers, NEW q \in Procs \ Readers,
             ReaderOf(p) = ReaderOf(q)
      PROVE  p = q
  <2>1. ConnOf(p) = ConnOf(q)
    BY <1>2 DEF ReaderOf
  <2>2. /\ p = Main \/ p \in Monitors
        /\ q = Main \/ q \in Monitors
    BY DEF Procs
  <2>3. ConnOf(Main) = NoConn
    BY DEF Main, ConnOf
  <2>4. QED
    BY <2>1, <2>2, <2>3, GoroutinesHold DEF Goroutines
<1>3. QED
  BY <1>1, <1>2

LEMMA InitIInv == Init => IInv
<1> USE BoundsAssumption, GoroutinesHold DEF Goroutines
<1> SUFFICES ASSUME Init PROVE IInv
  OBVIOUS
<1>1. TypeOK
  <2>1. pc \in [Procs -> Stages] /\ conn \in [Conns -> ConnStates]
    BY DEF Init, Stages, ConnStates
  <2>2. \A p \in Procs : pc[p] \notin {"store", "greet", "confirm", "read"} /\ at[p] = NoConn
    BY DEF Init
  <2>3. 0 \in 0..(MaxTries - 1) /\ 0 \in 0..MaxTries /\ 0 \in 0..MaxRetries
    OBVIOUS
  <2>4. proxy \in Proxies /\ managed \in BOOLEAN
    BY DEF Init, Proxies
  <2>5. QED
    BY <2>1, <2>2, <2>3, <2>4 DEF Init, TypeOK
<1>2. AttemptsLeft /\ FlagsMatchMain /\ InUseWatched /\ MonitorsFollow /\ ReadersFollow
  BY DEF Init, AttemptsLeft, FlagsMatchMain, InUseWatched, MonitorsFollow,
         ReadersFollow, Reconnecting, Registering
<1>3. QED
  BY <1>1, <1>2 DEF IInv

-----------------------------------------------------------------------------
(* Every step keeps IInv.  First those of a goroutine that fails.          *)

LEMMA MonitorsFollowKept ==
  ASSUME TypeOK, MonitorsFollow,
         \A c \in Conns : conn'[c] = "unused" <=> conn[c] = "unused",
         \A c \in Conns : pc[Monitor(c)] = "none" => pc'[Monitor(c)] = "none",
         \A q \in Procs : pc'[q] = "store" => pc[q] = "store" /\ at'[q] = at[q]
  PROVE  MonitorsFollow'
<1>1. \A q \in Procs : pc[q] = "store" => at[q] \in Conns
  BY DEF TypeOK
<1>2. QED
  BY <1>1 DEF MonitorsFollow

LEMMA StartFailsIInv ==
  ASSUME IInv, StartFails, pc[Main] \in {"dial", "open"} \cup Registering
  PROVE  IInv'
<1> USE BoundsAssumption, GoroutinesHold
<1> USE DEF IInv, Goroutines, countVars
<1>1. CASE managed \/ starts < MaxTries
  <2>1. PICK s \in {"start", "ended"} :
           /\ Goto(Main, s) /\ (s = "start" => starts < MaxTries)
           /\ ~running' /\ running' \in BOOLEAN
           /\ UNCHANGED <<registered, stopped, managed, proxy, wsConn, conn, countVars>>
    <3>1. ~(~managed /\ starts = MaxTries)
      BY <1>1
    <3>2. CASE managed
      BY <3>1, <3>2 DEF StartFails
    <3>3. CASE ~managed
      BY <1>1, <3>1, <3>3 DEF StartFails
    <3>4. QED
      BY <3>2, <3>3
  <2> USE <2>1 DEF Goto
  <2>2. TypeOK'
    <3>1. pc' \in [Procs -> Stages] /\ at' \in [Procs -> Conns \cup {NoConn}]
      BY DEF TypeOK, Stages
    <3>2. \A q \in Procs : pc'[q] \in {"store", "greet", "confirm", "read"} <=> at'[q] # NoConn
      BY DEF TypeOK
    <3>3. QED
      BY <3>1, <3>2 DEF TypeOK
  <2>3. AttemptsLeft' /\ FlagsMatchMain' /\ InUseWatched'
    BY DEF TypeOK, AttemptsLeft, FlagsMatchMain, InUseWatched, Starting
  <2>4. MonitorsFollow'
    <3>1. /\ \A q \in Procs : pc'[q] = "store" => pc[q] = "store" /\ at'[q] = at[q]
          /\ \A c \in Conns : pc'[Monitor(c)] = pc[Monitor(c)]
      BY DEF TypeOK
    <3>2. QED
      BY <3>1, MonitorsFollowKept
  <2>5. ReadersFollow'
    BY DEF TypeOK, ReadersFollow, Registering
  <2>6. QED
    BY <2>2, <2>3, <2>4, <2>5
<1>2. CASE ~(managed \/ starts < MaxTries)
  <2> USE <1>2 DEF StartFails
  <2>0. \A p \in Procs : pc'[p] \in {"none", "ended"} /\ at'[p] = NoConn
                         /\ (pc'[p] = "none" <=> pc[p] = "none")
    BY DEF TypeOK
  <2>1. TypeOK'
    <3>1. pc' \in [Procs -> Stages] /\ conn' \in [Conns -> ConnStates]
      BY DEF TypeOK, Stages, ConnStates
    <3>2. QED
      BY <2>0, <3>1 DEF TypeOK
  <2>2. AttemptsLeft' /\ FlagsMatchMain' /\ InUseWatched'
    BY <2>0 DEF TypeOK, AttemptsLeft, FlagsMatchMain, InUseWatched, Starting, Reconnecting, Registering
  <2>3. MonitorsFollow'
    <3>1. \A c \in Conns : conn'[c] = "unused" <=> conn[c] = "unused"
      BY DEF TypeOK
    <3>2. QED
      BY <2>0, <3>1 DEF MonitorsFollow
  <2>4. ReadersFollow'
    BY <2>0 DEF TypeOK, ReadersFollow, Registering
  <2>5. QED
    BY <2>1, <2>2, <2>3, <2>4
<1>3. QED
  BY <1>1, <1>2

\* A step that leaves the connections alone, stores none and starts nobody.
LEMMA MonitorsGoOn ==
  ASSUME TypeOK, MonitorsFollow, conn' = conn,
         \A q \in Procs : pc'[q] = "store" => pc[q] = "store" /\ at'[q] = at[q],
         \A q \in Procs : pc[q] = "none" => pc'[q] = "none"
  PROVE  MonitorsFollow'
<1> USE GoroutinesHold DEF Goroutines, MonitorsFollow
<1>1. \A c \in Conns : conn'[c] = "unused" => pc'[Monitor(c)] = "none"
  OBVIOUS
<1>2. ASSUME NEW q \in Procs, pc'[q] = "store"
      PROVE  conn'[at'[q]] # "unused" /\ pc'[Monitor(at'[q])] = "none"
  <2>1. at'[q] = at[q] /\ at[q] \in Conns
    BY <1>2 DEF TypeOK
  <2> QED BY <1>2, <2>1
<1> QED BY <1>1, <1>2

LEMMA FailsIInv ==
  ASSUME IInv, NEW p \in Procs, NEW again, Fails(p, again),
         \/ pc[p] = "dial" /\ again = "dial"
         \/ pc[p] \in Registering /\ again = "check"
  PROVE  IInv'
<1> USE BoundsAssumption, GoroutinesHold
<1> USE DEF IInv, Goroutines, countVars, flagVars, Goto
<1>1. CASE p = Main /\ TryFails(again)
  <2>1. CASE StartFails
    BY <1>1, <2>1, StartFailsIInv
  <2>2. CASE ~StartFails
    <3> USE <1>1, <2>2 DEF TryFails
    <3>1. TypeOK'
      BY DEF TypeOK, Stages
    <3>2. AttemptsLeft' /\ FlagsMatchMain' /\ InUseWatched'
      BY DEF TypeOK, AttemptsLeft, FlagsMatchMain, InUseWatched, Starting, Registering
    <3>3. again \notin {"none", "store"} \cup Registering /\ pc[Main] # "none"
      BY DEF Registering
    <3>4. MonitorsFollow'
      <4>1. /\ \A q \in Procs : pc'[q] = "store" => pc[q] = "store" /\ at'[q] = at[q]
            /\ \A q \in Procs : pc[q] = "none" => pc'[q] = "none"
        BY <3>3 DEF TypeOK
      <4>2. QED
        BY <4>1, MonitorsGoOn
    <3>5. ReadersFollow'
      BY <3>3 DEF TypeOK, ReadersFollow
    <3>6. QED
      BY <3>1, <3>2, <3>4, <3>5
  <2>3. QED
    BY <2>1, <2>2
<1>2. CASE p \in Monitors /\ RetryLater(p) /\ UNCHANGED <<flagVars, wsConn, conn, tries, starts>>
  <2> USE <1>2 DEF RetryLater
  <2>1. TypeOK'
    <3>1. retries' \in [Conns -> 0..MaxRetries]
      BY DEF TypeOK, AttemptsLeft, Reconnecting, Registering
    <3>2. QED
      BY <3>1 DEF TypeOK, Stages
  <2>2. AttemptsLeft' /\ FlagsMatchMain' /\ InUseWatched'
    BY DEF TypeOK, AttemptsLeft, Reconnecting, Registering, FlagsMatchMain, InUseWatched
  <2>3. MonitorsFollow' /\ ReadersFollow'
    BY DEF TypeOK, MonitorsFollow, ReadersFollow, Registering
  <2>4. QED
    BY <2>1, <2>2, <2>3
<1>3. CASE p \in Readers /\ Goto(p, "ended") /\ UNCHANGED <<flagVars, wsConn, conn, countVars>>
  <2> USE <1>3
  <2>1. TypeOK'
    BY DEF TypeOK, Stages
  <2>2. AttemptsLeft' /\ FlagsMatchMain' /\ InUseWatched'
    BY DEF TypeOK, AttemptsLeft, FlagsMatchMain, InUseWatched
  <2>3. MonitorsFollow' /\ ReadersFollow'
    BY DEF TypeOK, MonitorsFollow, ReadersFollow, Registering
  <2>4. QED
    BY <2>1, <2>2, <2>3
<1>4. QED
  BY <1>1, <1>2, <1>3 DEF Fails

\* connectWebSocket.
LEMMA ConnectIInv ==
  ASSUME IInv, NEW p \in Procs,
         Dial(p) \/ Store(p)
  PROVE  IInv'
<1> USE BoundsAssumption, GoroutinesHold
<1> USE DEF IInv, Goroutines, countVars, flagVars, Goto, GotoWith
<1>1. CASE Dial(p)
  <2>1. CASE Fails(p, "dial")
    BY <1>1, <2>1, FailsIInv DEF Dial, Registering
  <2>2. CASE ~Fails(p, "dial")
    <3> USE <1>1, <2>2
    <3> USE DEF Dial
    <3>1. TypeOK'
      BY DEF TypeOK, Stages, ConnStates
    <3>2. AttemptsLeft' /\ FlagsMatchMain'
      BY DEF TypeOK, AttemptsLeft, Reconnecting, Registering, FlagsMatchMain
    <3>3. InUseWatched'
      BY DEF TypeOK, InUseWatched, Starting, FlagsMatchMain
    <3>4. MonitorsFollow'
      <4>1. PICK c \in Conns :
             /\ conn[c] = "unused" /\ conn' = [conn EXCEPT ![c] = "open"]
             /\ GotoWith(p, "store", c)
        OBVIOUS
      <4>2. \A q \in Procs : pc[q] = "store" => at[q] # c
        BY <4>1 DEF MonitorsFollow
      <4>3. QED
        BY <4>1, <4>2 DEF TypeOK, MonitorsFollow
    <3>5. ReadersFollow'
      BY DEF TypeOK, ReadersFollow, Registering
    <3>6. QED
      BY <3>1, <3>2, <3>3, <3>4, <3>5
  <2>3. QED
    BY <2>1, <2>2
<1>2. CASE Store(p)
  <2> USE <1>2
  <2> USE DEF Store
  <2>1. TypeOK'
    <3>1. at[p] \in Conns /\ pc[Monitor(at[p])] = "none"
      BY DEF TypeOK, MonitorsFollow
    <3>2. pc' \in [Procs -> Stages] /\ at' \in [Procs -> Conns \cup {NoConn}]
      BY <3>1 DEF TypeOK, Stages
    <3>3. QED
      BY <3>1, <3>2 DEF TypeOK
  <2>2. AttemptsLeft' /\ FlagsMatchMain'
    BY DEF TypeOK, AttemptsLeft, Reconnecting, Registering, FlagsMatchMain
  <2>3. InUseWatched'
    BY DEF TypeOK, InUseWatched, Starting, FlagsMatchMain
  <2>4. MonitorsFollow'
    BY DEF TypeOK, MonitorsFollow
  <2>5. ReadersFollow'
    BY DEF TypeOK, ReadersFollow, Registering
  <2>6. QED
    BY <2>1, <2>2, <2>3, <2>4, <2>5
<1>3. QED
  BY <1>1, <1>2

\* registerTunnel.
LEMMA RegisterIInv ==
  ASSUME IInv, NEW p \in Procs,
         Check(p) \/ Listen(p) \/ Greet(p) \/ Ask(p) \/ Confirm(p)
  PROVE  IInv'
<1> USE BoundsAssumption, GoroutinesHold
<1> USE DEF IInv, Goroutines, countVars, flagVars, Goto, GotoWith
<1>1. CASE Check(p)
  <2> USE <1>1
  <2> USE DEF Check, Resume
  <2>1. TypeOK'
    BY DEF TypeOK, Stages, ConnStates
  <2>2. AttemptsLeft' /\ FlagsMatchMain'
    BY DEF TypeOK, AttemptsLeft, Reconnecting, Registering, FlagsMatchMain
  <2>3. InUseWatched'
    BY DEF TypeOK, InUseWatched, Starting, FlagsMatchMain
  <2>4. MonitorsFollow'
    BY DEF TypeOK, MonitorsFollow
  <2>5. ReadersFollow'
    BY DEF TypeOK, ReadersFollow, Registering
  <2>6. QED
    BY <2>1, <2>2, <2>3, <2>4, <2>5
<1>2. CASE Listen(p)
  <2>1. CASE Fails(p, "check")
    BY <1>2, <2>1, FailsIInv DEF Listen, Registering
  <2>2. CASE ~Fails(p, "check")
    <3> USE <1>2, <2>2
    <3> USE DEF Listen
    <3>1. TypeOK'
      BY DEF TypeOK, Stages, ConnStates
    <3>2. AttemptsLeft' /\ FlagsMatchMain'
      BY DEF TypeOK, AttemptsLeft, Reconnecting, Registering, FlagsMatchMain
    <3>3. InUseWatched'
      BY DEF TypeOK, InUseWatched, Starting, FlagsMatchMain
    <3>4. MonitorsFollow'
      <4>1. \A c \in Conns : conn'[c] = "unused" <=> conn[c] = "unused"
        BY DEF TypeOK
      <4>2. \A c \in Conns : pc[Monitor(c)] = "none" => pc'[Monitor(c)] = "none"
        BY DEF TypeOK
      <4>3. \A q \in Procs : pc'[q] = "store" => pc[q] = "store" /\ at'[q] = at[q]
        BY DEF TypeOK
      <4>4. QED
        BY <4>1, <4>2, <4>3, MonitorsFollowKept
    <3>5. ReadersFollow'
      BY DEF TypeOK, ReadersFollow, Registering
    <3>6. QED
      BY <3>1, <3>2, <3>3, <3>4, <3>5
  <2>3. QED
    BY <2>1, <2>2
<1>3. CASE Greet(p)
  <2>1. CASE Fails(p, "check")
    BY <1>3, <2>1, FailsIInv DEF Greet, Registering
  <2>2. CASE ~Fails(p, "check")
    <3> USE <1>3, <2>2
    <3> USE DEF Greet, Live
    <3>1. TypeOK'
      <4>1. pc' \in [Procs -> Stages] /\ at' = [at EXCEPT ![p] = NoConn]
        BY DEF TypeOK, Stages
      <4>2. QED
        BY <4>1 DEF TypeOK
    <3>2. AttemptsLeft' /\ FlagsMatchMain'
      BY DEF TypeOK, AttemptsLeft, Reconnecting, Registering, FlagsMatchMain
    <3>3. InUseWatched'
      BY DEF TypeOK, InUseWatched, Starting, FlagsMatchMain
    <3>4. MonitorsFollow'
      <4>1. \A c \in Conns : conn'[c] = "unused" <=> conn[c] = "unused"
        BY DEF TypeOK
      <4>2. \A c \in Conns : pc[Monitor(c)] = "none" => pc'[Monitor(c)] = "none"
        BY DEF TypeOK
      <4>3. \A q \in Procs : pc'[q] = "store" => pc[q] = "store" /\ at'[q] = at[q]
        BY DEF TypeOK
      <4>4. QED
        BY <4>1, <4>2, <4>3, MonitorsFollowKept
    <3>5. ReadersFollow'
      BY DEF TypeOK, ReadersFollow, Registering
    <3>6. QED
      BY <3>1, <3>2, <3>3, <3>4, <3>5
  <2>3. QED
    BY <2>1, <2>2
<1>4. CASE Ask(p)
  <2>1. CASE Fails(p, "check")
    BY <1>4, <2>1, FailsIInv DEF Ask, Registering
  <2>2. CASE ~Fails(p, "check")
    <3> USE <1>4, <2>2
    <3> USE DEF Ask, Live, Sendable
    <3>1. TypeOK'
      BY DEF TypeOK, Stages, ConnStates
    <3>2. AttemptsLeft' /\ FlagsMatchMain'
      BY DEF TypeOK, AttemptsLeft, Reconnecting, Registering, FlagsMatchMain
    <3>3. InUseWatched'
      BY DEF TypeOK, InUseWatched, Starting, FlagsMatchMain
    <3>4. MonitorsFollow'
      <4>1. \A c \in Conns : conn'[c] = "unused" <=> conn[c] = "unused"
        BY DEF TypeOK
      <4>2. \A c \in Conns : pc[Monitor(c)] = "none" => pc'[Monitor(c)] = "none"
        BY DEF TypeOK
      <4>3. \A q \in Procs : pc'[q] = "store" => pc[q] = "store" /\ at'[q] = at[q]
        BY DEF TypeOK
      <4>4. QED
        BY <4>1, <4>2, <4>3, MonitorsFollowKept
    <3>5. ReadersFollow'
      BY DEF TypeOK, ReadersFollow, Registering
    <3>6. QED
      BY <3>1, <3>2, <3>3, <3>4, <3>5
  <2>3. QED
    BY <2>1, <2>2
<1>5. CASE Confirm(p)
  <2>1. CASE Fails(p, "check")
    BY <1>5, <2>1, FailsIInv DEF Confirm, Registering
  <2>2. CASE ~Fails(p, "check")
    <3> USE <1>5, <2>2
    <3> USE DEF Confirm, Resume
    <3>1. TypeOK'
      <4>1. ~stopped => pc[ReaderOf(p)] = "none"
        BY DEF ReadersFollow, Registering
      <4>2. /\ pc' \in [Procs -> Stages] /\ at' = [at EXCEPT ![p] = NoConn]
            /\ registered' = TRUE
            /\ UNCHANGED <<running, stopped, wsConn, conn, tries, starts, retries>>
        BY DEF TypeOK, Stages
      <4>3. \A q \in Procs :
              q # p /\ (stopped \/ q # ReaderOf(p)) => pc'[q] = pc[q] /\ at'[q] = at[q]
        BY DEF TypeOK
      <4>4. pc'[p] \notin {"store", "greet", "confirm", "read"} /\ at'[p] = NoConn
        BY DEF TypeOK
      <4>5. ~stopped /\ ReaderOf(p) # p => pc'[ReaderOf(p)] = "top" /\ at'[ReaderOf(p)] = NoConn
        BY <4>1 DEF TypeOK
      <4>6. at' \in [Procs -> Conns \cup {NoConn}]
        BY <4>2 DEF TypeOK
      <4>7. \A q \in Procs : pc'[q] \in {"store", "greet", "confirm", "read"} <=> at'[q] # NoConn
        BY <4>3, <4>4, <4>5 DEF TypeOK
      <4>8. QED
        BY <4>2, <4>6, <4>7 DEF TypeOK
    <3>2. AttemptsLeft' /\ FlagsMatchMain'
      BY DEF TypeOK, AttemptsLeft, Reconnecting, Registering, FlagsMatchMain
    <3>3. InUseWatched'
      BY DEF TypeOK, InUseWatched, Starting, FlagsMatchMain
    <3>4. MonitorsFollow'
      <4>1. \A c \in Conns : conn'[c] = "unused" <=> conn[c] = "unused"
        BY DEF TypeOK
      <4>2. \A c \in Conns : pc[Monitor(c)] = "none" => pc'[Monitor(c)] = "none"
        BY DEF TypeOK
      <4>3. \A q \in Procs : pc'[q] = "store" => pc[q] = "store" /\ at'[q] = at[q]
        BY DEF TypeOK
      <4>4. QED
        BY <4>1, <4>2, <4>3, MonitorsFollowKept
    <3>5. ReadersFollow'
      <4>1. SUFFICES ASSUME ~stopped, NEW q \in Procs, pc'[q] \in Registering
                    PROVE  pc'[ReaderOf(q)] = "none"
        BY DEF ReadersFollow
      <4>2. q # p /\ pc[q] \in Registering /\ pc[p] \in Registering
        BY <4>1 DEF TypeOK, Registering
      <4>3. pc[ReaderOf(q)] = "none" /\ pc[ReaderOf(p)] = "none"
        BY <4>1, <4>2 DEF ReadersFollow
      <4>4. p \notin Readers /\ q \notin Readers
        BY <4>2, <4>3, ReaderNames DEF Registering
      <4>5. ReaderOf(q) # ReaderOf(p) /\ ReaderOf(q) # p
        BY <4>2, <4>4, ReaderNames
      <4>6. QED
        BY <4>3, <4>5 DEF TypeOK
    <3>6. QED
      BY <3>1, <3>2, <3>3, <3>4, <3>5
  <2>3. QED
    BY <2>1, <2>2
<1>6. QED
  BY <1>1, <1>2, <1>3, <1>4, <1>5

\* handleMessages.
LEMMA ReaderIInv ==
  ASSUME IInv, NEW p \in Readers,
         TakeConn(p) \/ Read(p) \/ Serve(p) \/ Lose(p) \/ TryAgain(p)
  PROVE  IInv'
<1> USE BoundsAssumption, GoroutinesHold
<1> USE DEF IInv, Goroutines, countVars, flagVars, Goto, GotoWith
<1>1. CASE TakeConn(p)
  <2> USE <1>1
  <2> USE DEF TakeConn
  <2>1. TypeOK'
    BY DEF TypeOK, Stages, ConnStates
  <2>2. AttemptsLeft' /\ FlagsMatchMain'
    BY DEF TypeOK, AttemptsLeft, Reconnecting, Registering, FlagsMatchMain
  <2>3. InUseWatched'
    BY DEF TypeOK, InUseWatched, Starting, FlagsMatchMain
  <2>4. MonitorsFollow'
    <3>1. \A c \in Conns : conn'[c] = "unused" <=> conn[c] = "unused"
      BY DEF TypeOK
    <3>2. \A c \in Conns : pc[Monitor(c)] = "none" => pc'[Monitor(c)] = "none"
      BY DEF TypeOK
    <3>3. \A q \in Procs : pc'[q] = "store" => pc[q] = "store" /\ at'[q] = at[q]
      BY DEF TypeOK
    <3>4. QED
      BY <3>1, <3>2, <3>3, MonitorsFollowKept
  <2>5. ReadersFollow'
    BY DEF TypeOK, ReadersFollow, Registering
  <2>6. QED
    BY <2>1, <2>2, <2>3, <2>4, <2>5
<1>2. CASE Read(p)
  <2> USE <1>2
  <2> USE DEF Read, Live
  <2>1. TypeOK'
    BY DEF TypeOK, Stages, ConnStates
  <2>2. AttemptsLeft' /\ FlagsMatchMain'
    BY DEF TypeOK, AttemptsLeft, Reconnecting, Registering, FlagsMatchMain
  <2>3. InUseWatched'
    BY DEF TypeOK, InUseWatched, Starting, FlagsMatchMain
  <2>4. MonitorsFollow'
    <3>1. \A c \in Conns : conn'[c] = "unused" <=> conn[c] = "unused"
      BY DEF TypeOK
    <3>2. \A c \in Conns : pc[Monitor(c)] = "none" => pc'[Monitor(c)] = "none"
      BY DEF TypeOK
    <3>3. \A q \in Procs : pc'[q] = "store" => pc[q] = "store" /\ at'[q] = at[q]
      BY DEF TypeOK
    <3>4. QED
      BY <3>1, <3>2, <3>3, MonitorsFollowKept
  <2>5. ReadersFollow'
    BY DEF TypeOK, ReadersFollow, Registering
  <2>6. QED
    BY <2>1, <2>2, <2>3, <2>4, <2>5
<1>3. CASE Serve(p)
  <2> USE <1>3
  <2> USE DEF Serve
  <2>1. TypeOK'
    BY DEF TypeOK, Stages, ConnStates
  <2>2. AttemptsLeft' /\ FlagsMatchMain'
    BY DEF TypeOK, AttemptsLeft, Reconnecting, Registering, FlagsMatchMain
  <2>3. InUseWatched'
    BY DEF TypeOK, InUseWatched, Starting, FlagsMatchMain
  <2>4. MonitorsFollow'
    BY DEF TypeOK, MonitorsFollow
  <2>5. ReadersFollow'
    BY DEF TypeOK, ReadersFollow, Registering
  <2>6. QED
    BY <2>1, <2>2, <2>3, <2>4, <2>5
<1>4. CASE Lose(p)
  <2> USE <1>4
  <2> USE DEF Lose, CloseCurrent
  <2>1. TypeOK'
    BY DEF TypeOK, Stages, ConnStates
  <2>2. AttemptsLeft' /\ FlagsMatchMain'
    BY DEF TypeOK, AttemptsLeft, Reconnecting, Registering, FlagsMatchMain
  <2>3. InUseWatched'
    BY DEF TypeOK, InUseWatched, Starting, FlagsMatchMain
  <2>4. MonitorsFollow'
    BY DEF TypeOK, MonitorsFollow
  <2>5. ReadersFollow'
    BY DEF TypeOK, ReadersFollow, Registering
  <2>6. QED
    BY <2>1, <2>2, <2>3, <2>4, <2>5
<1>5. CASE TryAgain(p)
  <2> USE <1>5
  <2> USE DEF TryAgain
  <2>1. TypeOK'
    BY DEF TypeOK, Stages, ConnStates
  <2>2. AttemptsLeft' /\ FlagsMatchMain'
    BY DEF TypeOK, AttemptsLeft, Reconnecting, Registering, FlagsMatchMain
  <2>3. InUseWatched'
    BY DEF TypeOK, InUseWatched, Starting, FlagsMatchMain
  <2>4. MonitorsFollow'
    BY DEF TypeOK, MonitorsFollow
  <2>5. ReadersFollow'
    BY DEF TypeOK, ReadersFollow, Registering
  <2>6. QED
    BY <2>1, <2>2, <2>3, <2>4, <2>5
<1>6. QED
  BY <1>1, <1>2, <1>3, <1>4, <1>5

\* handleWebSocketErrors and Stop.
LEMMA MonitorIInv ==
  ASSUME IInv, NEW p \in Procs,
         Watch(p) \/ Probe(p) \/ BackOff(p) \/ Drop(p) \/ Stop(p)
  PROVE  IInv'
<1> USE BoundsAssumption, GoroutinesHold
<1> USE DEF IInv, Goroutines, countVars, flagVars, Goto, GotoWith
<1>1. CASE Watch(p)
  <2> USE <1>1
  <2> USE DEF Watch
  <2>1. TypeOK'
    BY DEF TypeOK, Stages, ConnStates
  <2>2. AttemptsLeft' /\ FlagsMatchMain'
    BY DEF TypeOK, AttemptsLeft, Reconnecting, Registering, FlagsMatchMain
  <2>3. InUseWatched'
    BY DEF TypeOK, InUseWatched, Starting, FlagsMatchMain
  <2>4. MonitorsFollow'
    BY DEF TypeOK, MonitorsFollow
  <2>5. ReadersFollow'
    BY DEF TypeOK, ReadersFollow, Registering
  <2>6. QED
    BY <2>1, <2>2, <2>3, <2>4, <2>5
<1>2. CASE Probe(p)
  <2> USE <1>2
  <2> USE DEF Probe, Sendable, Live
  <2>1. TypeOK'
    <3>1. pc' \in [Procs -> Stages]
      BY DEF TypeOK, Stages
    <3>2. retries' \in [Conns -> 0..MaxRetries]
      <4>1. 0 \in 0..MaxRetries /\ retries \in [Conns -> 0..MaxRetries]
        BY DEF TypeOK
      <4>2. QED
        BY <4>1
    <3>3. QED
      BY <3>1, <3>2 DEF TypeOK
  <2>2. AttemptsLeft' /\ FlagsMatchMain'
    BY DEF TypeOK, AttemptsLeft, Reconnecting, Registering, FlagsMatchMain
  <2>3. InUseWatched'
    BY DEF TypeOK, InUseWatched, Starting, FlagsMatchMain
  <2>4. MonitorsFollow'
    BY DEF TypeOK, MonitorsFollow
  <2>5. ReadersFollow'
    BY DEF TypeOK, ReadersFollow, Registering
  <2>6. QED
    BY <2>1, <2>2, <2>3, <2>4, <2>5
<1>3. CASE BackOff(p)
  <2> USE <1>3
  <2> USE DEF BackOff
  <2>1. TypeOK'
    BY DEF TypeOK, Stages, ConnStates
  <2>2. AttemptsLeft' /\ FlagsMatchMain'
    BY DEF TypeOK, AttemptsLeft, Reconnecting, Registering, FlagsMatchMain
  <2>3. InUseWatched'
    BY DEF TypeOK, InUseWatched, Starting, FlagsMatchMain
  <2>4. MonitorsFollow'
    BY MonitorsGoOn DEF TypeOK
  <2>5. ReadersFollow'
    BY DEF TypeOK, ReadersFollow, Registering
  <2>6. QED
    BY <2>1, <2>2, <2>3, <2>4, <2>5
<1>4. CASE Drop(p)
  <2> USE <1>4
  <2> USE DEF Drop, CloseCurrent
  <2>1. TypeOK'
    BY DEF TypeOK, Stages, ConnStates
  <2>2. AttemptsLeft' /\ FlagsMatchMain'
    BY DEF TypeOK, AttemptsLeft, Reconnecting, Registering, FlagsMatchMain
  <2>3. InUseWatched'
    BY DEF TypeOK, InUseWatched, Starting, FlagsMatchMain
  <2>4. MonitorsFollow'
    BY DEF TypeOK, MonitorsFollow
  <2>5. ReadersFollow'
    BY DEF TypeOK, ReadersFollow, Registering
  <2>6. QED
    BY <2>1, <2>2, <2>3, <2>4, <2>5
<1>5. CASE Stop(p)
  <2> USE <1>5
  <2> USE DEF Stop, StopTunnel, CloseCurrent
  <2>1. TypeOK'
    BY DEF TypeOK, Stages, ConnStates, Proxies
  <2>2. AttemptsLeft' /\ FlagsMatchMain'
    BY DEF TypeOK, AttemptsLeft, Reconnecting, Registering, FlagsMatchMain
  <2>3. InUseWatched'
    BY DEF TypeOK, InUseWatched, Starting, FlagsMatchMain
  <2>4. MonitorsFollow'
    BY DEF TypeOK, MonitorsFollow
  <2>5. ReadersFollow'
    BY DEF TypeOK, ReadersFollow, Registering
  <2>6. QED
    BY <2>1, <2>2, <2>3, <2>4, <2>5
<1>6. QED
  BY <1>1, <1>2, <1>3, <1>4, <1>5

\* Start, who calls it, and the manager's Stop.
LEMMA MainIInv ==
  ASSUME IInv, BeginStart \/ StartProxy \/ OpenProxy \/ EndWait \/ StopByManager
  PROVE  IInv'
<1> USE BoundsAssumption, GoroutinesHold
<1> USE DEF IInv, Goroutines, countVars, flagVars, Goto
<1>1. CASE BeginStart
  <2> USE <1>1 DEF BeginStart
  <2>1. TypeOK'
    BY DEF TypeOK, Stages, AttemptsLeft
  <2>2. AttemptsLeft' /\ FlagsMatchMain' /\ InUseWatched'
    BY DEF TypeOK, AttemptsLeft, Reconnecting, Registering, FlagsMatchMain, InUseWatched, Starting
  <2>3. MonitorsFollow' /\ ReadersFollow'
    BY DEF TypeOK, MonitorsFollow, ReadersFollow, Registering
  <2>4. QED
    BY <2>1, <2>2, <2>3
<1>2. CASE StartProxy
  <2> USE <1>2 DEF StartProxy
  <2>1. TypeOK'
    BY DEF TypeOK, Stages, Proxies
  <2>2. AttemptsLeft' /\ FlagsMatchMain' /\ InUseWatched'
    BY DEF TypeOK, AttemptsLeft, Reconnecting, Registering, FlagsMatchMain, InUseWatched, Starting
  <2>3. MonitorsFollow'
    <3>1. /\ \A q \in Procs : pc'[q] = "store" => pc[q] = "store" /\ at'[q] = at[q]
          /\ \A q \in Procs : pc[q] = "none" => pc'[q] = "none"
      BY DEF TypeOK
    <3>2. QED
      BY <3>1, MonitorsGoOn
  <2>4. ReadersFollow'
    BY DEF TypeOK, ReadersFollow, Registering
  <2>5. QED
    BY <2>1, <2>2, <2>3, <2>4
<1>3. CASE OpenProxy
  <2>1. CASE StartFails
    BY <1>3, <2>1, StartFailsIInv DEF OpenProxy
  <2>2. CASE ~StartFails
    <3> USE <1>3, <2>2 DEF OpenProxy
    <3>1. TypeOK'
      BY DEF TypeOK, Stages, Proxies
    <3>2. AttemptsLeft' /\ FlagsMatchMain' /\ InUseWatched'
      BY DEF TypeOK, AttemptsLeft, Reconnecting, Registering, FlagsMatchMain, InUseWatched, Starting
    <3>3. MonitorsFollow'
      <4>1. /\ \A q \in Procs : pc'[q] = "store" => pc[q] = "store" /\ at'[q] = at[q]
            /\ \A q \in Procs : pc[q] = "none" => pc'[q] = "none"
        BY DEF TypeOK
      <4>2. QED
        BY <4>1, MonitorsGoOn
    <3>4. ReadersFollow'
      BY DEF TypeOK, ReadersFollow, Registering
    <3>5. QED
      BY <3>1, <3>2, <3>3, <3>4
  <2>3. QED
    BY <2>1, <2>2
<1>4. CASE EndWait
  <2> USE <1>4 DEF EndWait
  <2>1. TypeOK'
    BY DEF TypeOK, Stages
  <2>2. AttemptsLeft' /\ FlagsMatchMain' /\ InUseWatched'
    BY DEF TypeOK, AttemptsLeft, Reconnecting, Registering, FlagsMatchMain, InUseWatched, Starting
  <2>3. MonitorsFollow' /\ ReadersFollow'
    BY DEF TypeOK, MonitorsFollow, ReadersFollow, Registering
  <2>4. QED
    BY <2>1, <2>2, <2>3
<1>5. CASE StopByManager
  <2> USE <1>5 DEF StopByManager, StopTunnel, CloseCurrent
  <2>1. TypeOK'
    BY DEF TypeOK, ConnStates, Proxies
  <2>2. AttemptsLeft' /\ FlagsMatchMain' /\ InUseWatched'
    BY DEF TypeOK, AttemptsLeft, FlagsMatchMain, InUseWatched
  <2>3. MonitorsFollow'
    BY DEF TypeOK, MonitorsFollow
  <2>4. ReadersFollow'
    BY DEF ReadersFollow
  <2>5. QED
    BY <2>1, <2>2, <2>3, <2>4
<1>6. QED
  BY <1>1, <1>2, <1>3, <1>4, <1>5

\* A failure changes nothing a goroutine has stored.
LEMMA BreakIInv ==
  ASSUME IInv, NEW c \in Conns, Break(c)
  PROVE  IInv'
<1> USE DEF IInv, Break, Live, flagVars, countVars
<1>1. TypeOK'
  BY DEF TypeOK, ConnStates
<1>2. AttemptsLeft' /\ FlagsMatchMain' /\ InUseWatched' /\ ReadersFollow'
  BY DEF AttemptsLeft, FlagsMatchMain, InUseWatched, ReadersFollow
<1>3. MonitorsFollow'
  <2>1. \A d \in Conns : conn'[d] = "unused" <=> conn[d] = "unused"
    BY DEF TypeOK
  <2>2. QED
    BY <2>1, MonitorsFollowKept
<1>4. QED
  BY <1>1, <1>2, <1>3

LEMMA NextIInv ==
  ASSUME IInv, [Next]_vars
  PROVE  IInv'
<1>1. CASE MainStep \/ EndWait \/ StopByManager
  BY <1>1, MainIInv, ConnectIInv, RegisterIInv, MonitorIInv, GoroutinesHold
     DEF MainStep, Connect, Register, Goroutines
<1>2. ASSUME NEW p \in Readers, ReaderStep(p)
      PROVE  IInv'
  BY <1>2, ReaderIInv, ConnectIInv, RegisterIInv, GoroutinesHold
     DEF ReaderStep, Connect, Register, Goroutines
<1>3. ASSUME NEW p \in Monitors, MonitorStep(p)
      PROVE  IInv'
  BY <1>3, MonitorIInv, ConnectIInv, RegisterIInv, GoroutinesHold
     DEF MonitorStep, Connect, Register, Goroutines
<1>4. ASSUME NEW c \in Conns, Break(c)
      PROVE  IInv'
  BY <1>4, BreakIInv
<1>5. CASE UNCHANGED vars
  BY <1>5 DEF vars, flagVars, countVars, IInv, TypeOK, AttemptsLeft, FlagsMatchMain, InUseWatched,
              MonitorsFollow, ReadersFollow
<1>6. QED
  BY <1>1, <1>2, <1>3, <1>4, <1>5 DEF Next

-----------------------------------------------------------------------------
(* The theorems.                                                           *)

\* The strengthened invariant holds in every state the client can reach.
THEOREM Inductive == Spec => []IInv
<1>1. QED
  BY InitIInv, NextIInv, PTL DEF Spec

\* Every variable keeps to its type: in particular no reader is started under
\* the name of another that still runs, and no loop makes an attempt too many.
THEOREM TypeCorrect == Spec => []TypeOK
<1>1. IInv => TypeOK
  BY DEF IInv
<1>2. QED
  BY <1>1, Inductive, PTL

\* The connection of a started tunnel is watched by its own monitor, for any
\* number of connections, of attempts and of reconnections that race.
THEOREM ConnectionWatched == Spec => []InUseIsWatched
<1>1. IInv => InUseIsWatched
  BY DEF IInv, InUseWatched, InUseIsWatched, Starting
<1>2. QED
  BY <1>1, Inductive, PTL

-----------------------------------------------------------------------------
(* The tunnel implements ClientLifecycle.                                  *)

Attempting == {"dial", "store", "check", "proxy", "open"} \cup Registering

\* While stopCh is open, running says that a call of Start is under way or has
\* succeeded: with FlagsMatchMain the two say the same.
RunningIsStarted == running /\ ~stopped => pc[Main] \notin {"start", "ended"}

\* A step seen by StartTunnel: where it is, and the flags it shares.
Elsewhere == UNCHANGED <<running, stopped>> /\ pc'[Main] = pc[Main]
StartsCall == /\ pc[Main] = "start" /\ pc'[Main] = "dial" /\ UNCHANGED stopped
GoesOn == /\ UNCHANGED <<running, stopped>>
          /\ \/ pc[Main] \in Attempting /\ pc'[Main] \in Attempting \cup {"wait"}
             \/ pc[Main] = "wait" /\ pc'[Main] = "stop"
CallFails == /\ pc[Main] \in Attempting /\ pc'[Main] \in {"start", "ended"}
             /\ ~running' /\ UNCHANGED stopped
Stops == running /\ ~stopped /\ stopped'
StopsInVain == /\ ~running \/ stopped
               /\ pc[Main] = "stop" /\ UNCHANGED <<running, stopped>>

MainSees == \/ Elsewhere \/ StartsCall \/ GoesOn \/ CallFails \/ Stops \/ StopsInVain

LEMMA StartFailsSeen ==
  ASSUME TypeOK, StartFails, pc[Main] \in Attempting
  PROVE  CallFails
<1> USE GoroutinesHold DEF Goroutines
<1>1. pc'[Main] \in {"start", "ended"}
  <2> USE DEF Goto, TypeOK, StartFails
  <2>1. CASE managed \/ starts < MaxTries
    BY <2>1
  <2>2. CASE ~(managed \/ starts < MaxTries)
    BY <2>2 DEF Attempting, Registering
  <2> QED BY <2>1, <2>2
<1> QED BY <1>1 DEF CallFails, StartFails

LEMMA FailsSeen ==
  ASSUME TypeOK, NEW p \in Procs, NEW s \in {"dial", "check"}, Fails(p, s),
         p = Main => pc[Main] \in Attempting
  PROVE  MainSees
<1> USE GoroutinesHold DEF Goroutines, MainSees
<1>1. CASE p = Main
  <2>1. TryFails(s)
    BY <1>1 DEF Fails
  <2>2. CASE StartFails
    BY <1>1, <2>2, StartFailsSeen
  <2>3. CASE ~StartFails
    BY <1>1, <2>1, <2>3 DEF TryFails, Goto, flagVars, TypeOK, GoesOn, Attempting
  <2> QED BY <2>2, <2>3
<1>2. CASE p # Main
  BY <1>2 DEF Fails, RetryLater, Goto, flagVars, Elsewhere, TypeOK
<1> QED BY <1>1, <1>2

LEMMA ConnectSeen ==
  ASSUME TypeOK, NEW p \in Procs, Connect(p)
  PROVE  MainSees
<1> USE GoroutinesHold DEF Goroutines
<1>1. CASE Dial(p)
  <2>1. CASE Fails(p, "dial")
    BY <1>1, <2>1, FailsSeen DEF Dial, Attempting
  <2>2. CASE ~Fails(p, "dial")
    BY <1>1, <2>2 DEF Dial, GotoWith, flagVars, TypeOK, MainSees, Elsewhere, GoesOn, Attempting
  <2> QED BY <2>1, <2>2
<1>2. CASE Store(p)
  <2>1. at[p] \in Conns
    BY <1>2 DEF Store, TypeOK
  <2>2. Monitor(at[p]) # Main
    BY <2>1
  <2> QED BY <1>2, <2>2 DEF Store, flagVars, TypeOK, MainSees, Elsewhere, GoesOn, Attempting
<1> QED BY <1>1, <1>2 DEF Connect

LEMMA RegisterSeen ==
  ASSUME TypeOK, NEW p \in Procs, Register(p)
  PROVE  MainSees
<1> USE GoroutinesHold DEF Goroutines, Registering
<1>0. p = Main => pc[Main] \in Attempting
  BY DEF Register, Check, Listen, Greet, Ask, Confirm, Attempting
<1>1. CASE Fails(p, "check")
  BY <1>0, <1>1, FailsSeen
<1>2. CASE Check(p)
  BY <1>2 DEF Check, Goto, Resume, flagVars, TypeOK, MainSees, Elsewhere, GoesOn, Attempting
<1>3. CASE (Listen(p) \/ Greet(p) \/ Ask(p)) /\ ~Fails(p, "check")
  BY <1>3 DEF Listen, Greet, Ask, Goto, GotoWith, flagVars, TypeOK,
              MainSees, Elsewhere, GoesOn, Attempting
<1>4. CASE Confirm(p) /\ ~Fails(p, "check")
  BY <1>4 DEF Confirm, Resume, flagVars, TypeOK, MainSees, Elsewhere, GoesOn, Attempting
<1> QED BY <1>1, <1>2, <1>3, <1>4 DEF Register

LEMMA NextSeen ==
  ASSUME TypeOK, [Next]_vars
  PROVE  MainSees
<1> USE GoroutinesHold DEF Goroutines
<1>1. ASSUME NEW p \in Procs, Connect(p) \/ Register(p)
      PROVE  MainSees
  BY <1>1, ConnectSeen, RegisterSeen
<1>2. CASE BeginStart
  BY <1>2 DEF BeginStart, Goto, TypeOK, MainSees, StartsCall
<1>3. CASE StartProxy \/ OpenProxy
  <2>1. CASE StartFails
    BY <1>3, <2>1, StartFailsSeen DEF StartProxy, OpenProxy, Attempting, MainSees
  <2> QED BY <1>3, <2>1 DEF StartProxy, OpenProxy, Goto, flagVars, TypeOK, MainSees, GoesOn, Attempting
<1>4. CASE EndWait
  BY <1>4 DEF EndWait, Goto, flagVars, TypeOK, MainSees, GoesOn
<1>5. ASSUME StopByManager \/ \E p \in Procs : Stop(p)
      PROVE  MainSees
  BY <1>5 DEF StopByManager, Stop, StopTunnel, Goto, flagVars, TypeOK, MainSees, Stops,
              StopsInVain, Elsewhere
<1>6. ASSUME NEW p \in Procs \ {Main},
             \/ TakeConn(p) \/ Read(p) \/ Serve(p) \/ Lose(p) \/ TryAgain(p)
             \/ Watch(p) \/ Probe(p) \/ BackOff(p) \/ Drop(p)
      PROVE  Elsewhere
  BY <1>6 DEF TakeConn, Read, Serve, Lose, TryAgain, Watch, Probe, BackOff, Drop, Goto,
              GotoWith, flagVars, TypeOK, Elsewhere
<1>7. ASSUME \E c \in Conns : Break(c)
      PROVE  Elsewhere
  BY <1>7 DEF Break, flagVars, Elsewhere
<1>8. CASE UNCHANGED vars
  BY <1>8 DEF vars, flagVars, Elsewhere, MainSees
<1> QED
  BY <1>1, <1>2, <1>3, <1>4, <1>5, <1>6, <1>7, <1>8
     DEF Next, MainStep, ReaderStep, MonitorStep, MainSees

LEMMA RunningIsStartedKept ==
  ASSUME IInv, RunningIsStarted, MainSees
  PROVE  RunningIsStarted'
  BY DEF RunningIsStarted, MainSees, Elsewhere, StartsCall, GoesOn, CallFails, Stops,
         StopsInVain, Attempting, Registering, IInv, FlagsMatchMain

LEMMA InitLives == Init => RunningIsStarted /\ Lifecycle!Init
  BY GoroutinesHold DEF Init, RunningIsStarted, Lifecycle!Init, Life, Goroutines

\* Where nothing remains of a Start that failed, nobody is there to connect.
LEMMA NothingComesBack ==
  ASSUME TypeOK, [Next]_vars, pc[Main] = "ended", ~Remains
  PROVE  ~Remains'
<1> USE GoroutinesHold DEF Goroutines
<1>1. /\ \A p \in Procs : pc[p] \in {"none", "ended"}
      /\ \A c \in Conns : ~Live(c)
  BY DEF Remains
<1>2. ~MainStep /\ ~EndWait
  BY <1>1 DEF MainStep, BeginStart, Connect, Dial, Store, Register, Check, Listen, Greet,
              Ask, Confirm, StartProxy, OpenProxy, Stop, EndWait
<1>3. \A p \in Readers : ~ReaderStep(p)
  BY <1>1 DEF ReaderStep, TakeConn, Read, Serve, Lose, TryAgain, Connect, Dial, Store,
              Register, Check, Listen, Greet, Ask, Confirm
<1>4. \A p \in Monitors : ~MonitorStep(p)
  BY <1>1 DEF MonitorStep, Watch, Probe, BackOff, Drop, Stop, Connect, Dial, Store,
              Register, Check, Listen, Greet, Ask, Confirm
<1>5. \A c \in Conns : ~Break(c)
  BY <1>1 DEF Break
<1>6. CASE StopByManager
  BY <1>1, <1>6 DEF StopByManager, StopTunnel, CloseCurrent, TypeOK, Remains, Live
<1>7. CASE UNCHANGED vars
  BY <1>7 DEF vars, Remains, Live
<1> QED BY <1>2, <1>3, <1>4, <1>5, <1>6, <1>7 DEF Next

\* Stop(Main) in vain cannot be the end of a tunnel that is up: FlagsMatchMain.
LEMMA StepLives ==
  ASSUME IInv, RunningIsStarted, MainSees,
         pc[Main] = "ended" /\ ~Remains => ~Remains'
  PROVE  [Lifecycle!Next]_Life
<1> USE DEF Life, Lifecycle!Next
<1>1. CASE stopped
  BY <1>1 DEF MainSees, Elsewhere, StartsCall, GoesOn, CallFails, Stops, StopsInVain
<1>2. CASE ~stopped
  <2>1. CASE Elsewhere
    BY <1>2, <2>1 DEF Elsewhere, Lifecycle!Fade
  <2>2. CASE StartsCall
    BY <1>2, <2>2 DEF StartsCall, Lifecycle!Begin
  <2>3. CASE GoesOn
    BY <1>2, <2>3 DEF GoesOn, Attempting, Registering, Lifecycle!Succeed
  <2>4. CASE CallFails
    BY <1>2, <2>4 DEF CallFails, Attempting, Registering, Lifecycle!Fail
  <2>5. CASE Stops
    BY <1>2, <2>5 DEF Stops, RunningIsStarted, Lifecycle!Stop
  <2>6. CASE StopsInVain
    BY <1>2, <2>6 DEF StopsInVain, IInv, FlagsMatchMain
  <2> QED BY <2>1, <2>2, <2>3, <2>4, <2>5, <2>6 DEF MainSees
<1> QED BY <1>1, <1>2

\* The client's tunnel lives the life TunnelManager takes it to live, for any
\* number of connections and attempts, and whoever of its goroutines stops it.
THEOREM ImplementsLife == Spec => KeepsLife
<1>1. ASSUME IInv, RunningIsStarted, [Next]_vars
      PROVE  RunningIsStarted' /\ [Lifecycle!Next]_Life
  BY <1>1, NextSeen, RunningIsStartedKept, NothingComesBack, StepLives DEF IInv
<1> QED
  BY <1>1, InitLives, Inductive, PTL DEF Spec, KeepsLife, Lifecycle!Spec
=============================================================================
