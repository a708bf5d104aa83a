----------------------- MODULE WebSocketManager_proofs ----------------------
(***************************************************************************)
(* Theorems about WebSocketManager for all values of its constants: any    *)
(* number of connections, clients, tunnels and requests.                   *)
(***************************************************************************)
EXTENDS WebSocketManager, TLAPS

\* The steps by the process that takes them.
RequestStep(q) == Lookup(q) \/ ReadBody(q) \/ HandleRequest(q)
ConnStep(c) ==
    \/ Connect(c) \/ CheckRegistration(c) \/ ReceivePing(c)
    \/ ReceiveGarbage(c) \/ ReceiveAnswer(c) \/ LoopStep(c) \/ Break(c)
TunnelStep(t) == Remove(t) \/ UnregisterRemoved(t) \/ HangUpRemoved(t)
StopStep == Collect \/ CloseAllStep

LEMMA Steps ==
  ASSUME [Next]_vars
  PROVE  \/ \E q \in Requests : RequestStep(q)
         \/ \E c \in Conns : ConnStep(c)
         \/ \E q \in Requests, c \in Conns : Answer(q, c)
         \/ \E t \in Tunnels : TunnelStep(t)
         \/ StopStep
         \/ UNCHANGED vars
  BY DEF Next, RequestStep, ConnStep, TunnelStep, StopStep

-----------------------------------------------------------------------------
(* Types.                                                                  *)

LEMMA InitTypeOK == Init => TypeOK
  BY NamesAssumption DEF Init, TypeOK, RequestStages, Outcomes, LoopStages

LEMMA RequestTypeOK ==
  ASSUME TypeOK, NEW q \in Requests, RequestStep(q)
  PROVE  TypeOK'
<1> USE NamesAssumption
<1> USE DEF TypeOK, RequestStages, Outcomes, requestVars, channelVars, loopVars,
            clientVars, removalVars, closerVars, End
<1>1. CASE Lookup(q)
  BY <1>1 DEF Lookup
<1>2. CASE Pick(q)
  BY <1>2 DEF Pick
<1>3. CASE ReadBody(q) \/ RegisterRequest(q)
  BY <1>3 DEF ReadBody, RegisterRequest
<1>4. CASE LockConn(q)
  BY <1>4 DEF LockConn
<1>5. CASE SendReturns(q)
  BY <1>5 DEF SendReturns
<1>6. CASE TakeAnswer(q)
  BY <1>6 DEF TakeAnswer
<1>7. CASE GiveUp(q)
  BY <1>7 DEF GiveUp
<1>8. CASE Leave(q)
  BY <1>8 DEF Leave
<1>9. QED
  BY <1>1, <1>2, <1>3, <1>4, <1>5, <1>6, <1>7, <1>8 DEF RequestStep, HandleRequest

LEMMA ConnTypeOK ==
  ASSUME TypeOK, NEW c \in Conns, ConnStep(c)
  PROVE  TypeOK'
<1> USE NamesAssumption
<1> USE DEF TypeOK, LoopStages, requestVars, channelVars, loopVars,
            clientVars, removalVars, closerVars
<1>1. CASE Connect(c)
  BY <1>1 DEF Connect
<1>2. CASE CheckRegistration(c)
  BY <1>2 DEF CheckRegistration
<1>3. CASE ReceivePing(c)
  BY <1>3 DEF ReceivePing
<1>4. CASE ReceiveAnswer(c)
  BY <1>4 DEF ReceiveAnswer
<1>5. CASE Enter(c)
  BY <1>5 DEF Enter
<1>6. CASE LockForReply(c) \/ Reply(c)
  BY <1>6 DEF LockForReply, Reply
<1>7. CASE Deliver(c)
  BY <1>7 DEF Deliver
<1>8. CASE Forget(c)
  BY <1>8 DEF Forget
<1>9. CASE EndLoop(c) \/ ReceiveGarbage(c)
  BY <1>9 DEF EndLoop, ReceiveGarbage, StopReading, ReceiveGarbage, StopReading
<1>10. CASE CleanUp(c)
  BY <1>10 DEF CleanUp, Unregister
<1>11. CASE HangUp(c)
  BY <1>11 DEF HangUp
<1>12. CASE Break(c)
  BY <1>12 DEF Break
<1>13. QED
  BY <1>1, <1>2, <1>3, <1>4, <1>5, <1>6, <1>7, <1>8, <1>9, <1>10, <1>11, <1>12
     DEF ConnStep, LoopStep

LEMMA OtherTypeOK ==
  ASSUME TypeOK,
         \/ \E q \in Requests, c \in Conns : Answer(q, c)
         \/ \E t \in Tunnels : TunnelStep(t)
         \/ StopStep
         \/ UNCHANGED vars
  PROVE  TypeOK'
<1> USE NamesAssumption
<1> USE DEF TypeOK, requestVars, channelVars, loopVars, clientVars, removalVars, closerVars
<1>1. ASSUME NEW q \in Requests, NEW c \in Conns, Answer(q, c)
      PROVE  TypeOK'
  BY <1>1 DEF Answer
<1>2. ASSUME NEW t \in Tunnels, TunnelStep(t)
      PROVE  TypeOK'
  BY <1>2 DEF TunnelStep, Remove, UnregisterRemoved, Unregister, HangUpRemoved
<1>3. CASE Collect
  BY <1>3 DEF Collect
<1>4. CASE CloseAllStep
  BY <1>4 DEF CloseAllStep, CancelAll, CloseConn, CloseAllReturns
<1>5. CASE UNCHANGED vars
  BY <1>5 DEF vars
<1>6. QED
  BY <1>1, <1>2, <1>3, <1>4, <1>5 DEF StopStep

LEMMA NextTypeOK == TypeOK /\ [Next]_vars => TypeOK'
  BY Steps, RequestTypeOK, ConnTypeOK, OtherTypeOK

\* Every variable keeps its type; a handler past GetWebSocketTunnel has a
\* connection, and a read loop that routes an answer has the request.
THEOREM TypeCorrect == Spec => []TypeOK
  BY InitTypeOK, NextTypeOK, PTL DEF Spec
-----------------------------------------------------------------------------
(* Connections: what an entry of the manager says about its connection.    *)

\* Where a read loop may be while an entry names its connection.
Serving == {"reading", "enter", "reply", "replying", "deliver", "forget", "cleanup"}

\* An entry names a connection that has registered and is of its owner; until
\* the shutdown that connection is read, if this is the tunnel it is still
\* registered for.
EntryGood ==
    \A t \in Tunnels : entry[t] # NoConn =>
        /\ tunnelID[entry[t]] # NoTunnel
        /\ ClientOf[entry[t]] = OwnerOf[t]
        /\ closer = "idle" /\ tunnelID[entry[t]] = t => pc[entry[t]] \in Serving

\* A registration under way has been checked, and until the shutdown nobody
\* but its own read loop closes a connection.
ConnGood ==
    \A c \in Conns :
        /\ pc[c] = "enter" => ClientOf[c] = OwnerOf[want[c]]
        /\ pc[c] = "none" => tunnelID[c] = NoTunnel
        /\ closer = "idle" /\ c \in closed => pc[c] \in {"cleanup", "hangup", "ended"}

ConnInv == TypeOK /\ EntryGood /\ ConnGood /\ TrafficStaysWithOwner

LEMMA InitConnInv == Init => ConnInv
  BY InitTypeOK, NamesAssumption DEF Init, ConnInv, EntryGood, ConnGood,
                                     TrafficStaysWithOwner

LEMMA RequestConnInv ==
  ASSUME ConnInv, NEW q \in Requests, RequestStep(q)
  PROVE  EntryGood' /\ ConnGood' /\ TrafficStaysWithOwner'
<1>1. UNCHANGED <<entry, tunnelID, want, pc, closed, closer>>
  BY DEF RequestStep, HandleRequest, Lookup, Pick, ReadBody, RegisterRequest, LockConn,
         SendReturns, TakeAnswer, GiveUp, Leave, loopVars, closerVars
<1>2. EntryGood' /\ ConnGood'
  BY <1>1 DEF ConnInv, EntryGood, ConnGood
<1>3. CASE Pick(q)
  <2>1. \A p \in Requests : via'[p] = via[p] \/ (p = q /\ via'[q] = entry[Target[q]])
    <3>1. via \in [Requests -> Conns \cup {NoConn}]
      BY DEF ConnInv, TypeOK
    <3>2. UNCHANGED via \/ via' = [via EXCEPT ![q] = entry[Target[q]]]
      BY <1>3 DEF Pick
    <3>3. QED
      BY <3>1, <3>2
  <2>2. Target[q] \in Tunnels
    BY NamesAssumption
  <2>3. ASSUME NEW p \in Requests, via'[p] # NoConn
        PROVE  ClientOf[via'[p]] = OwnerOf[Target[p]]
    <3>1. CASE via'[p] = via[p]
      BY <2>3, <3>1 DEF ConnInv, TrafficStaysWithOwner
    <3>2. CASE p = q /\ via'[q] = entry[Target[q]]
      BY <2>2, <2>3, <3>2 DEF ConnInv, EntryGood
    <3>3. QED
      BY <2>1, <3>1, <3>2
  <2>4. QED
    BY <1>2, <2>3 DEF TrafficStaysWithOwner
<1>4. CASE UNCHANGED via
  BY <1>2, <1>4 DEF ConnInv, TrafficStaysWithOwner
<1>5. QED
  BY <1>3, <1>4 DEF RequestStep, HandleRequest, Lookup, ReadBody, RegisterRequest, LockConn,
                    SendReturns, TakeAnswer, GiveUp, Leave

LEMMA ConnTypes ==
  ASSUME TypeOK
  PROVE  /\ entry \in [Tunnels -> Conns \cup {NoConn}]
         /\ pc \in [Conns -> LoopStages]
         /\ want \in [Conns -> Tunnels \cup {NoTunnel}]
         /\ tunnelID \in [Conns -> Tunnels \cup {NoTunnel}]
         /\ closed \subseteq Conns /\ toClose \subseteq Conns
  BY DEF TypeOK

\* The read loop handles a message: its entry, if any, stays as good.
LEMMA LoopGoesOn ==
  ASSUME ConnInv, NEW c \in Conns, NEW s \in Serving \ {"enter", "cleanup"},
         pc[c] \in ({"none"} \cup Serving) \ {"enter", "cleanup"},
         pc' = [pc EXCEPT ![c] = s],
         UNCHANGED <<entry, tunnelID, closed, closer>>,
         \A d \in Conns : d # c => want'[d] = want[d]
  PROVE  EntryGood' /\ ConnGood'
<1>1. \A d \in Conns : pc'[d] = IF d = c THEN s ELSE pc[d]
  BY ConnTypes DEF ConnInv
<1>2. closer = "idle" => c \notin closed
  BY DEF ConnInv, ConnGood, Serving
<1>3. \A t \in Tunnels : entry[t] # NoConn => entry[t] \in Conns
  BY ConnTypes DEF ConnInv
<1>4. EntryGood'
  BY <1>1, <1>3 DEF ConnInv, EntryGood, Serving
<1>5. ConnGood'
  BY <1>1, <1>2 DEF ConnInv, ConnGood, Serving
<1>6. QED
  BY <1>4, <1>5

LEMMA LoopConnInv ==
  ASSUME ConnInv, NEW c \in Conns, ConnStep(c)
  PROVE  EntryGood' /\ ConnGood' /\ TrafficStaysWithOwner'
<1>0. EntryGood /\ ConnGood /\ pc[c] \in LoopStages
  BY ConnTypes DEF ConnInv
<1>a. \A t \in Tunnels : entry[t] # NoConn => entry[t] \in Conns
  BY ConnTypes DEF ConnInv
<1>1. TrafficStaysWithOwner'
  BY DEF ConnInv, TrafficStaysWithOwner, ConnStep, LoopStep, Connect, CheckRegistration,
         ReceivePing, ReceiveAnswer, Enter, LockForReply, Reply, Deliver, Forget, EndLoop,
         ReceiveGarbage, StopReading, CleanUp, HangUp, Break, requestVars
<1> SUFFICES EntryGood' /\ ConnGood'
  BY <1>1
<1>2. CASE \/ Connect(c) \/ ReceivePing(c) \/ LockForReply(c) \/ Reply(c)
           \/ Deliver(c) \/ Forget(c)
  <2>1. PICK s \in {"reading", "reply", "replying", "deliver", "forget"} :
           pc' = [pc EXCEPT ![c] = s]
    BY <1>2 DEF Connect, ReceivePing, LockForReply, Reply, Deliver, Forget
  <2>2. UNCHANGED <<entry, want, tunnelID, closed, closer>>
    BY <1>2 DEF Connect, ReceivePing, LockForReply, Reply, Deliver, Forget, closerVars
  <2>3. pc[c] \in {"none", "reading", "reply", "replying", "deliver", "forget"}
    BY <1>2 DEF Connect, ReceivePing, LockForReply, Reply, Deliver, Forget
  <2>4. QED
    BY <2>1, <2>2, <2>3, LoopGoesOn DEF Serving
<1>3. CASE ReceiveAnswer(c) \/ Break(c)
  <2>1. UNCHANGED <<entry, want, tunnelID, closed, closer>>
    BY <1>3 DEF ReceiveAnswer, Break, loopVars, closerVars
  <2>2. pc' = pc \/ (pc[c] = "reading" /\ pc' = [pc EXCEPT ![c] = "deliver"])
    BY <1>3 DEF ReceiveAnswer, Break, loopVars
  <2>3. CASE pc' = pc
    BY <1>0, <2>1, <2>3 DEF EntryGood, ConnGood
  <2>4. QED
    BY <2>1, <2>2, <2>3, LoopGoesOn DEF Serving
<1>4. CASE CheckRegistration(c)
  <2>1. PICK t \in Tunnels :
           /\ pc[c] = "reading"
           /\ IF MayRegister(c, t)
              THEN want' = [want EXCEPT ![c] = t] /\ pc' = [pc EXCEPT ![c] = "enter"]
              ELSE pc' = [pc EXCEPT ![c] = "reply"] /\ want' = want
           /\ UNCHANGED <<entry, tunnelID, closed, closer>>
    BY <1>4 DEF CheckRegistration, closerVars
  <2>2. CASE ~MayRegister(c, t)
    BY <2>1, <2>2, LoopGoesOn DEF Serving
  <2>3. CASE MayRegister(c, t)
    <3>1. \A d \in Conns : /\ want'[d] = IF d = c THEN t ELSE want[d]
                           /\ pc'[d] = IF d = c THEN "enter" ELSE pc[d]
      BY <2>1, <2>3, ConnTypes DEF ConnInv
    <3>2. EntryGood'
      BY <1>0, <1>a, <2>1, <3>1 DEF EntryGood, Serving
    <3>3. ConnGood'
      BY <1>0, <2>1, <2>3, <3>1 DEF ConnGood, MayRegister
    <3>4. QED
      BY <3>2, <3>3
  <2>4. QED
    BY <2>2, <2>3
<1>5. CASE Enter(c)
  <2>1. /\ pc[c] = "enter" /\ want[c] \in Tunnels
        /\ tunnelID' = [tunnelID EXCEPT ![c] = want[c]]
        /\ entry' = [entry EXCEPT ![want[c]] = c]
        /\ want' = [want EXCEPT ![c] = NoTunnel]
        /\ pc' = [pc EXCEPT ![c] = "reply"]
        /\ UNCHANGED <<closed, closer>>
    BY <1>5 DEF Enter, closerVars, ConnInv, TypeOK
  <2>2. /\ ClientOf[c] = OwnerOf[want[c]] /\ want[c] # NoTunnel
        /\ closer = "idle" => c \notin closed
    BY <1>0, <2>1, NamesAssumption DEF ConnGood
  <2>3. \A d \in Conns :
           /\ pc'[d] = IF d = c THEN "reply" ELSE pc[d]
           /\ tunnelID'[d] = IF d = c THEN want[c] ELSE tunnelID[d]
           /\ d # c => want'[d] = want[d]
    BY <2>1, ConnTypes DEF ConnInv
  <2>4. \A u \in Tunnels : entry'[u] = IF u = want[c] THEN c ELSE entry[u]
    BY <2>1, ConnTypes DEF ConnInv
  <2>5. EntryGood'
    BY <1>0, <1>a, <2>1, <2>2, <2>3, <2>4 DEF EntryGood, Serving
  <2>6. ConnGood'
    BY <1>0, <2>1, <2>2, <2>3 DEF ConnGood
  <2>7. QED
    BY <2>5, <2>6
<1>6. CASE EndLoop(c) \/ ReceiveGarbage(c)
  <2>1. /\ pc[c] = "reading" /\ closed' = closed \cup {c}
        /\ pc' = [pc EXCEPT ![c] = IF c \in closed \/ tunnelID[c] = NoTunnel
                                  THEN "ended" ELSE "cleanup"]
        /\ UNCHANGED <<entry, want, tunnelID, closer>>
    BY <1>6 DEF EndLoop, ReceiveGarbage, StopReading, closerVars
  <2>2. \A d \in Conns :
           pc'[d] = IF d # c THEN pc[d]
                    ELSE IF c \in closed \/ tunnelID[c] = NoTunnel THEN "ended" ELSE "cleanup"
    BY <2>1, ConnTypes DEF ConnInv
  <2>3. closer = "idle" => c \notin closed
    BY <1>0, <2>1 DEF ConnGood
  <2>4. \A u \in Tunnels : entry[u] = c => tunnelID[c] # NoTunnel
    BY <1>0, NamesAssumption DEF EntryGood
  <2>5. EntryGood'
    BY <1>0, <1>a, <2>1, <2>2, <2>3, <2>4 DEF EntryGood, Serving
  <2>6. ConnGood'
    BY <1>0, <2>1, <2>2 DEF ConnGood
  <2>7. QED
    BY <2>5, <2>6
<1>7. CASE CleanUp(c)
  <2>1. /\ pc[c] = "cleanup"
        /\ entry' = [entry EXCEPT ![tunnelID[c]] = NoConn]
        /\ pc' = [pc EXCEPT ![c] = "hangup"]
        /\ UNCHANGED <<closed, want, tunnelID, closer>>
    BY <1>7 DEF CleanUp, Unregister, closerVars
  <2>2. \A d \in Conns : pc'[d] = IF d = c THEN "hangup" ELSE pc[d]
    BY <2>1, ConnTypes DEF ConnInv
  <2>3. \A u \in Tunnels : entry'[u] = IF u = tunnelID[c] THEN NoConn ELSE entry[u]
    BY <2>1, ConnTypes DEF ConnInv
  <2>4. EntryGood'
    BY <1>0, <1>a, <2>1, <2>2, <2>3 DEF EntryGood
  <2>5. ConnGood'
    BY <1>0, <2>1, <2>2 DEF ConnGood
  <2>6. QED
    BY <2>4, <2>5
<1>8. CASE HangUp(c)
  <2>1. /\ pc[c] = "hangup" /\ pc' = [pc EXCEPT ![c] = "ended"]
        /\ UNCHANGED <<entry, closed, want, tunnelID, closer>>
    BY <1>8 DEF HangUp, closerVars
  <2>2. \A d \in Conns : pc'[d] = IF d = c THEN "ended" ELSE pc[d]
    BY <2>1, ConnTypes DEF ConnInv
  <2>3. \A u \in Tunnels : closer = "idle" /\ tunnelID[c] = u => entry[u] # c
    BY <1>0, <2>1, NamesAssumption DEF EntryGood, Serving
  <2>4. EntryGood'
    BY <1>0, <1>a, <2>1, <2>2, <2>3 DEF EntryGood
  <2>5. ConnGood'
    BY <1>0, <2>1, <2>2 DEF ConnGood
  <2>6. QED
    BY <2>4, <2>5
<1>9. QED
  BY <1>2, <1>3, <1>4, <1>5, <1>6, <1>7, <1>8 DEF ConnStep, LoopStep

LEMMA OtherConnInv ==
  ASSUME ConnInv,
         \/ \E q \in Requests, c \in Conns : Answer(q, c)
         \/ \E t \in Tunnels : TunnelStep(t)
         \/ StopStep
         \/ UNCHANGED vars
  PROVE  EntryGood' /\ ConnGood' /\ TrafficStaysWithOwner'
<1> USE NamesAssumption
<1>0. EntryGood /\ ConnGood /\ TrafficStaysWithOwner
  BY DEF ConnInv
<1>1. TrafficStaysWithOwner'
  BY <1>0 DEF TrafficStaysWithOwner, Answer, TunnelStep, Remove, UnregisterRemoved,
         HangUpRemoved, StopStep, Collect, CloseAllStep, CancelAll, CloseConn,
         CloseAllReturns, requestVars, vars
<1>2. UNCHANGED <<pc, want, tunnelID>>
  BY DEF Answer, TunnelStep, Remove, UnregisterRemoved, HangUpRemoved, StopStep, Collect,
         CloseAllStep, CancelAll, CloseConn, CloseAllReturns, vars, loopVars
<1> SUFFICES EntryGood' /\ ConnGood'
  BY <1>1
<1>3. CASE StopStep
  <2>1. closer' # "idle" /\ \A t \in Tunnels : entry'[t] # NoConn => entry'[t] = entry[t]
    BY <1>3 DEF StopStep, Collect, CloseAllStep, CancelAll, CloseConn, CloseAllReturns
  <2>2. QED
    BY <1>0, <1>2, <2>1 DEF EntryGood, ConnGood
<1>4. ASSUME NEW t \in Tunnels, UnregisterRemoved(t)
      PROVE  EntryGood' /\ ConnGood'
  <2>1. UNCHANGED <<closed, closer>>
    BY <1>4 DEF UnregisterRemoved, closerVars
  <2>2. \A u \in Tunnels : entry'[u] # NoConn => entry'[u] = entry[u]
    BY <1>4, ConnTypes DEF UnregisterRemoved, Unregister, ConnInv
  <2>3. QED
    BY <1>0, <1>2, <2>1, <2>2 DEF EntryGood, ConnGood
<1>5. ASSUME \/ \E q \in Requests, c \in Conns : Answer(q, c)
             \/ \E t \in Tunnels : Remove(t) \/ HangUpRemoved(t)
             \/ UNCHANGED vars
      PROVE  UNCHANGED <<entry, closed, closer>>
  BY <1>5 DEF Answer, Remove, HangUpRemoved, vars, closerVars
<1>6. CASE UNCHANGED <<entry, closed, closer>>
  BY <1>0, <1>2, <1>6 DEF EntryGood, ConnGood
<1>7. QED
  BY <1>3, <1>4, <1>5, <1>6 DEF TunnelStep

LEMMA NextConnInv == ConnInv /\ [Next]_vars => ConnInv'
<1> SUFFICES ASSUME ConnInv, [Next]_vars PROVE ConnInv'
  OBVIOUS
<1>1. TypeOK'
  BY NextTypeOK DEF ConnInv
<1>2. EntryGood' /\ ConnGood' /\ TrafficStaysWithOwner'
  BY Steps, RequestConnInv, LoopConnInv, OtherConnInv
<1>3. QED
  BY <1>1, <1>2 DEF ConnInv

LEMMA ConnInvariance == Spec => []ConnInv
  BY InitConnInv, NextConnInv, PTL DEF Spec

\* A request is only ever sent over a connection of the client that owns its
\* tunnel: the check of the client ID holds through every later step.
THEOREM OwnerServesTunnel == Spec => []TrafficStaysWithOwner
<1>1. ConnInv => TrafficStaysWithOwner
  BY DEF ConnInv
<1>2. QED
  BY ConnInvariance, <1>1, PTL

\* Until the shutdown, an entry of the manager has a read loop behind it, up to
\* its own cleanup, as long as its connection is registered for that tunnel:
\* however often connections register, for the same tunnel or for others.
THEOREM EntriesAreServed == Spec => []EntryHasReader
<1>1. ConnInv => EntryHasReader
  BY DEF ConnInv, EntryGood, EntryHasReader, Serving
<1>2. QED
  BY ConnInvariance, <1>1, PTL
-----------------------------------------------------------------------------
(* Requests: the table of response channels and the handlers that wait.    *)

Active == {"lock", "sending", "wait", "leave"}
Over == {"leave", "done"}

\* The request a read loop routes an answer to has been registered, and once
\* the loop has sent on the channel the handler has the answer or is over.
HandGood ==
    \A c \in Conns :
        /\ pc[c] = "deliver" => rpc[hand[c]] \in Active \cup Over
        /\ pc[c] = "forget" => \/ rpc[hand[c]] \in Over
                               \/ rpc[hand[c]] \in Active /\ buf[hand[c]] # "empty"

TableInv == TypeOK /\ HandGood /\ TableHasHandlers /\ NoForgottenHandler

LEMMA InitTableInv == Init => TableInv
  BY InitTypeOK DEF Init, TableInv, HandGood, TableHasHandlers, NoForgottenHandler

LEMMA TableTypes ==
  ASSUME TypeOK
  PROVE  /\ rpc \in [Requests -> RequestStages]
         /\ buf \in [Requests -> {"empty", "response", "nil"}]
         /\ pc \in [Conns -> LoopStages]
         /\ hand \in [Conns -> Requests \cup {NoRequest}]
         /\ waiting \subseteq Requests
         /\ \A c \in Conns : pc[c] \in {"deliver", "forget"} => hand[c] \in Requests
  BY DEF TypeOK

\* A handler that goes on, and leaves the table and the channels alone.
LEMMA HandlerGoesOn ==
  ASSUME TableInv, NEW q \in Requests, NEW s \in RequestStages,
         rpc' = [rpc EXCEPT ![q] = s],
         UNCHANGED <<pc, hand, waiting, buf>>,
         rpc[q] \in Active => s \in Active,
         rpc[q] \in {"new", "route", "body", "register"} => s \notin Active,
         rpc[q] = "leave" => s = "leave",
         rpc[q] # "done"
  PROVE  HandGood' /\ TableHasHandlers' /\ NoForgottenHandler'
<1>1. \A p \in Requests : rpc'[p] = IF p = q THEN s ELSE rpc[p]
  BY TableTypes DEF TableInv
<1>2. HandGood'
  BY <1>1, TableTypes DEF TableInv, HandGood, Active, Over, RequestStages
<1>3. TableHasHandlers'
  BY <1>1, TableTypes DEF TableInv, TableHasHandlers, Active
<1>4. NoForgottenHandler'
  BY <1>1, TableTypes DEF TableInv, NoForgottenHandler, Active, RequestStages
<1>5. QED
  BY <1>2, <1>3, <1>4

LEMMA RequestTableInv ==
  ASSUME TableInv, NEW q \in Requests, RequestStep(q)
  PROVE  HandGood' /\ TableHasHandlers' /\ NoForgottenHandler'
<1>0. HandGood /\ TableHasHandlers /\ NoForgottenHandler
  BY DEF TableInv
<1>1. UNCHANGED <<pc, hand>>
  BY DEF RequestStep, HandleRequest, Lookup, Pick, ReadBody, RegisterRequest, LockConn,
         SendReturns, TakeAnswer, GiveUp, Leave, loopVars
<1>2. CASE Lookup(q) \/ Pick(q) \/ ReadBody(q) \/ LockConn(q) \/ SendReturns(q) \/ GiveUp(q)
  <2>1. UNCHANGED <<waiting, buf>>
    BY <1>2 DEF Lookup, Pick, ReadBody, LockConn, SendReturns, GiveUp, channelVars
  <2>2. PICK s \in RequestStages :
           /\ rpc' = [rpc EXCEPT ![q] = s]
           /\ \/ rpc[q] = "new" /\ s \in {"route", "done"}
              \/ rpc[q] = "route" /\ s \in {"body", "done"}
              \/ rpc[q] = "body" /\ s \in {"register", "done"}
              \/ rpc[q] = "lock" /\ s \in {"leave", "sending"}
              \/ rpc[q] = "sending" /\ s \in {"leave", "wait"}
              \/ rpc[q] = "wait" /\ s = "leave"
    BY <1>2 DEF Lookup, Pick, ReadBody, LockConn, SendReturns, GiveUp, End, RequestStages
  <2>3. QED
    BY <1>1, <2>1, <2>2, HandlerGoesOn DEF Active
<1>3. CASE RegisterRequest(q)
  <2>1. /\ rpc[q] = "register" /\ waiting' = waiting \cup {q} /\ buf' = buf
        /\ \A p \in Requests : rpc'[p] = IF p = q THEN "lock" ELSE rpc[p]
    BY <1>3, TableTypes DEF RegisterRequest, TableInv
  <2>2. HandGood'
    BY <1>0, <1>1, <2>1, TableTypes DEF TableInv, HandGood, Active, Over
  <2>3. TableHasHandlers' /\ NoForgottenHandler'
    BY <1>0, <2>1, TableTypes DEF TableInv, TableHasHandlers, NoForgottenHandler
  <2>4. QED
    BY <2>2, <2>3
<1>4. CASE TakeAnswer(q)
  <2>1. /\ rpc[q] = "wait" /\ waiting' = waiting
        /\ \A p \in Requests : /\ rpc'[p] = IF p = q THEN "leave" ELSE rpc[p]
                               /\ p # q => buf'[p] = buf[p]
    BY <1>4, TableTypes DEF TakeAnswer, End, TableInv
  <2>2. HandGood'
    <3>1. \A c \in Conns : pc[c] \in {"deliver", "forget"} => hand[c] \in Requests
      BY TableTypes DEF TableInv
    <3>2. \A p \in Requests : /\ rpc[p] \in Active => rpc'[p] \in Active
                              /\ rpc[p] \in Over => rpc'[p] \in Over
                              /\ p # q => buf'[p] = buf[p]
                              /\ p = q => rpc'[p] \in Over
      BY <2>1 DEF Active, Over
    <3>3. ASSUME NEW c \in Conns, pc[c] = "deliver"
          PROVE  rpc'[hand[c]] \in Active \cup Over
      BY <1>0, <3>1, <3>2, <3>3 DEF HandGood
    <3>4. ASSUME NEW c \in Conns, pc[c] = "forget"
          PROVE  \/ rpc'[hand[c]] \in Over
                 \/ rpc'[hand[c]] \in Active /\ buf'[hand[c]] # "empty"
      <4>1. hand[c] \in Requests
        BY <3>1, <3>4
      <4>2. \/ rpc[hand[c]] \in Over
            \/ rpc[hand[c]] \in Active /\ buf[hand[c]] # "empty"
        BY <1>0, <3>4 DEF HandGood
      <4>3. QED
        BY <3>2, <4>1, <4>2
    <3>5. QED
      BY <1>1, <3>3, <3>4 DEF HandGood
  <2>3. TableHasHandlers' /\ NoForgottenHandler'
    BY <1>0, <2>1, TableTypes DEF TableInv, TableHasHandlers, NoForgottenHandler
  <2>4. QED
    BY <2>2, <2>3
<1>5. CASE Leave(q)
  <2>1. /\ rpc[q] = "leave" /\ waiting' = waiting \ {q} /\ buf' = buf
        /\ \A p \in Requests : rpc'[p] = IF p = q THEN "done" ELSE rpc[p]
    BY <1>5, TableTypes DEF Leave, TableInv
  <2>2. HandGood'
    BY <1>0, <1>1, <2>1, TableTypes DEF TableInv, HandGood, Active, Over
  <2>3. TableHasHandlers' /\ NoForgottenHandler'
    BY <1>0, <2>1, TableTypes DEF TableInv, TableHasHandlers, NoForgottenHandler
  <2>4. QED
    BY <2>2, <2>3
<1>6. QED
  BY <1>2, <1>3, <1>4, <1>5 DEF RequestStep, HandleRequest

\* A read loop moves on with its hands empty.
LEMMA EmptyHanded ==
  ASSUME TableInv, NEW c \in Conns, NEW s \in LoopStages \ {"deliver", "forget"},
         pc' = [pc EXCEPT ![c] = s] \/ pc' = pc,
         hand' = [hand EXCEPT ![c] = NoRequest] \/ hand' = hand,
         pc' = [pc EXCEPT ![c] = s] \/ hand' = hand,
         UNCHANGED <<rpc, waiting, buf>>
  PROVE  HandGood' /\ TableHasHandlers' /\ NoForgottenHandler'
<1>1. \A d \in Conns : pc'[d] \in {"deliver", "forget"} => pc'[d] = pc[d] /\ hand'[d] = hand[d]
  BY TableTypes DEF TableInv
<1>2. HandGood'
  BY <1>1 DEF TableInv, HandGood
<1>3. TableHasHandlers' /\ NoForgottenHandler'
  BY DEF TableInv, TableHasHandlers, NoForgottenHandler
<1>4. QED
  BY <1>2, <1>3

LEMMA LoopTableInv ==
  ASSUME TableInv, NEW c \in Conns, ConnStep(c)
  PROVE  HandGood' /\ TableHasHandlers' /\ NoForgottenHandler'
<1>0. HandGood /\ TableHasHandlers /\ NoForgottenHandler
  BY DEF TableInv
<1>1. UNCHANGED rpc
  BY DEF ConnStep, LoopStep, Connect, CheckRegistration, ReceivePing, ReceiveAnswer, Enter,
         LockForReply, Reply, Deliver, Forget, EndLoop, ReceiveGarbage, StopReading,
         CleanUp, HangUp, Break, requestVars
<1>2. CASE \/ Connect(c) \/ CheckRegistration(c) \/ ReceivePing(c) \/ Enter(c)
           \/ LockForReply(c)
           \/ Reply(c) \/ EndLoop(c) \/ ReceiveGarbage(c) \/ CleanUp(c) \/ HangUp(c) \/ Break(c)
  <2>1. UNCHANGED <<hand, waiting, buf>>
    BY <1>2 DEF Connect, CheckRegistration, ReceivePing, Enter, LockForReply, Reply,
                EndLoop, ReceiveGarbage, StopReading, CleanUp, HangUp, Break, channelVars,
                loopVars
  <2>2. PICK s \in LoopStages \ {"deliver", "forget"} : pc' = [pc EXCEPT ![c] = s] \/ pc' = pc
    BY <1>2 DEF Connect, CheckRegistration, ReceivePing, Enter, LockForReply, Reply,
                EndLoop, ReceiveGarbage, StopReading, CleanUp, HangUp, Break, loopVars,
                LoopStages
  <2>3. QED
    BY <1>1, <2>1, <2>2, EmptyHanded
<1>3. CASE ReceiveAnswer(c)
  <2>1. UNCHANGED <<waiting, buf>>
    BY <1>3 DEF ReceiveAnswer, channelVars
  <2>2. PICK q \in inbox[c] :
           IF q \in waiting
           THEN hand' = [hand EXCEPT ![c] = q] /\ pc' = [pc EXCEPT ![c] = "deliver"]
           ELSE UNCHANGED <<hand, pc>>
    BY <1>3 DEF ReceiveAnswer
  <2>3. CASE q \notin waiting
    BY <1>0, <1>1, <2>1, <2>2, <2>3 DEF HandGood, TableHasHandlers, NoForgottenHandler
  <2>4. CASE q \in waiting
    <3>1. rpc[q] \in Active
      BY <1>0, <2>4 DEF TableHasHandlers, Active
    <3>2. \A d \in Conns : /\ pc'[d] = IF d = c THEN "deliver" ELSE pc[d]
                           /\ hand'[d] = IF d = c THEN q ELSE hand[d]
      BY <2>2, <2>4, TableTypes DEF TableInv
    <3>3. HandGood'
      BY <1>0, <1>1, <2>1, <3>1, <3>2 DEF HandGood
    <3>4. QED
      BY <1>0, <1>1, <2>1, <3>3 DEF TableHasHandlers, NoForgottenHandler
  <2>5. QED
    BY <2>3, <2>4
<1>4. CASE Deliver(c)
  <2>1. CASE buf[hand[c]] # "empty"
    <3>1. /\ pc' = [pc EXCEPT ![c] = "reading"]
          /\ hand' = [hand EXCEPT ![c] = NoRequest]
          /\ UNCHANGED <<waiting, buf>>
      BY <1>4, <2>1 DEF Deliver
    <3>2. QED
      BY <1>1, <3>1, EmptyHanded DEF LoopStages
  <2>2. CASE buf[hand[c]] = "empty"
    <3>1. /\ pc[c] = "deliver" /\ UNCHANGED <<waiting, hand>>
          /\ \A d \in Conns : pc'[d] = IF d = c THEN "forget" ELSE pc[d]
          /\ \A p \in Requests : buf'[p] = IF p = hand[c] THEN "response" ELSE buf[p]
      BY <1>4, <2>2, TableTypes DEF Deliver, TableInv
    <3>2. HandGood'
      BY <1>0, <1>1, <3>1, TableTypes DEF TableInv, HandGood
    <3>3. TableHasHandlers' /\ NoForgottenHandler'
      BY <1>0, <1>1, <3>1 DEF TableHasHandlers, NoForgottenHandler
    <3>4. QED
      BY <3>2, <3>3
  <2>3. QED
    BY <2>1, <2>2
<1>5. CASE Forget(c)
  <2>1. /\ pc[c] = "forget" /\ waiting' = waiting \ {hand[c]} /\ buf' = buf
        /\ \A d \in Conns : /\ pc'[d] = IF d = c THEN "reading" ELSE pc[d]
                            /\ d # c => hand'[d] = hand[d]
    BY <1>5, TableTypes DEF Forget, TableInv
  <2>2. HandGood'
    BY <1>0, <1>1, <2>1 DEF HandGood
  <2>3. TableHasHandlers'
    BY <1>0, <1>1, <2>1 DEF TableHasHandlers
  <2>4. NoForgottenHandler'
    BY <1>0, <1>1, <2>1 DEF HandGood, NoForgottenHandler, Over
  <2>5. QED
    BY <2>2, <2>3, <2>4
<1>6. QED
  BY <1>2, <1>3, <1>4, <1>5 DEF ConnStep, LoopStep

LEMMA OtherTableInv ==
  ASSUME TableInv,
         \/ \E q \in Requests, c \in Conns : Answer(q, c)
         \/ \E t \in Tunnels : TunnelStep(t)
         \/ StopStep
         \/ UNCHANGED vars
  PROVE  HandGood' /\ TableHasHandlers' /\ NoForgottenHandler'
<1>0. HandGood /\ TableHasHandlers /\ NoForgottenHandler
  BY DEF TableInv
<1>1. UNCHANGED <<pc, hand, rpc>>
  BY DEF Answer, TunnelStep, Remove, UnregisterRemoved, HangUpRemoved, StopStep, Collect,
         CloseAllStep, CancelAll, CloseConn, CloseAllReturns, requestVars, loopVars, vars
<1>2. CASE UNCHANGED <<waiting, buf>>
  BY <1>0, <1>1, <1>2 DEF HandGood, TableHasHandlers, NoForgottenHandler
<1>3. CASE CancelAll
  <2>1. /\ waiting' = {}
        /\ \A q \in Requests : /\ q \in waiting => buf'[q] # "empty"
                               /\ q \notin waiting => buf'[q] = buf[q]
    BY <1>3 DEF CancelAll
  <2>2. HandGood'
    BY <1>0, <1>1, <2>1, TableTypes DEF TableInv, HandGood
  <2>3. TableHasHandlers' /\ NoForgottenHandler'
    BY <1>0, <1>1, <2>1 DEF TableHasHandlers, NoForgottenHandler
  <2>4. QED
    BY <2>2, <2>3
<1>4. QED
  BY <1>2, <1>3 DEF Answer, TunnelStep, Remove, UnregisterRemoved, HangUpRemoved, StopStep,
         Collect, CloseAllStep, CloseConn, CloseAllReturns, channelVars, vars

LEMMA NextTableInv == TableInv /\ [Next]_vars => TableInv'
<1> SUFFICES ASSUME TableInv, [Next]_vars PROVE TableInv'
  OBVIOUS
<1>1. TypeOK'
  BY NextTypeOK DEF TableInv
<1>2. HandGood' /\ TableHasHandlers' /\ NoForgottenHandler'
  BY Steps, RequestTableInv, LoopTableInv, OtherTableInv
<1>3. QED
  BY <1>1, <1>2 DEF TableInv

LEMMA TableInvariance == Spec => []TableInv
  BY InitTableInv, NextTableInv, PTL DEF Spec

\* m.requests never outlives the handlers it was made for.
THEOREM NoChannelLeak == Spec => []TableHasHandlers
<1>1. TableInv => TableHasHandlers
  BY DEF TableInv
<1>2. QED
  BY TableInvariance, <1>1, PTL

\* HandleResponse, the timeout and CloseAll race for the same channel, and no
\* handler is left waiting on one that nobody knows and nobody has filled.
THEOREM NobodyForgotten == Spec => []NoForgottenHandler
<1>1. TableInv => NoForgottenHandler
  BY DEF TableInv
<1>2. QED
  BY TableInvariance, <1>1, PTL

-----------------------------------------------------------------------------
(* The handlers, the router and CloseAll implement RequestForwarding.      *)

\* Where an answer comes from: whatever is on its way to a handler as the
\* client's answer is one the client gave to that request, whatever is marked
\* as a cancellation was put there by CloseAll, and a request the client was
\* sent has a handler that began.
AnswerGood ==
    /\ \A c \in Conns :
           /\ inbox[c] \subseteq answered
           /\ hand[c] # NoRequest => hand[c] \in answered
    /\ \A q \in Requests :
           /\ buf[q] = "response" => q \in answered
           /\ buf[q] = "nil" => closer # "idle"
           /\ outcome[q] = "answered" => q \in answered
           /\ outcome[q] = "cancelled" => closer # "idle"
           /\ q \in asked => rpc[q] \in {"wait", "leave", "done"}
           /\ rpc[q] = "leave" => outcome[q] # "not_forwarded"

AnswerInv == TypeOK /\ AnswerGood

LEMMA InitAnswerInv == Init => AnswerInv
  BY InitTypeOK DEF Init, AnswerInv, AnswerGood

LEMMA AnswerTypes ==
  ASSUME TypeOK
  PROVE  /\ rpc \in [Requests -> RequestStages]
         /\ buf \in [Requests -> {"empty", "response", "nil"}]
         /\ outcome \in [Requests -> Outcomes]
         /\ pc \in [Conns -> LoopStages]
         /\ hand \in [Conns -> Requests \cup {NoRequest}]
         /\ inbox \in [Conns -> SUBSET Requests]
         /\ answered \subseteq asked /\ asked \subseteq Requests
         /\ \A c \in Conns : pc[c] \in {"deliver", "forget"} <=> hand[c] # NoRequest
         /\ \A q \in Requests : outcome[q] # "none" <=> rpc[q] \in {"leave", "done"}
  BY DEF TypeOK

LEMMA RequestAnswerGood ==
  ASSUME AnswerInv, NEW q \in Requests, RequestStep(q)
  PROVE  AnswerGood'
<1> USE AnswerTypes DEF AnswerInv, AnswerGood
<1>1. UNCHANGED <<inbox, hand, answered, closer>>
  BY DEF RequestStep, HandleRequest, Lookup, Pick, ReadBody, RegisterRequest, LockConn,
         SendReturns, TakeAnswer, GiveUp, Leave, loopVars, clientVars, closerVars
<1>2. CASE Lookup(q) \/ Pick(q) \/ ReadBody(q) \/ LockConn(q) \/ GiveUp(q)
  BY <1>1, <1>2 DEF Lookup, Pick, ReadBody, LockConn, GiveUp, End, channelVars, clientVars
<1>3. CASE RegisterRequest(q) \/ Leave(q)
  BY <1>1, <1>3 DEF RegisterRequest, Leave, clientVars
<1>4. CASE SendReturns(q)
  BY <1>1, <1>4 DEF SendReturns, End, channelVars
<1>5. CASE TakeAnswer(q)
  BY <1>1, <1>5 DEF TakeAnswer, End, clientVars
<1>6. QED
  BY <1>2, <1>3, <1>4, <1>5 DEF RequestStep, HandleRequest

LEMMA LoopAnswerGood ==
  ASSUME AnswerInv, NEW c \in Conns, ConnStep(c)
  PROVE  AnswerGood'
<1> USE AnswerTypes DEF AnswerInv, AnswerGood
<1>1. UNCHANGED <<rpc, outcome, asked, answered, closer>>
  BY DEF ConnStep, LoopStep, Connect, CheckRegistration, ReceivePing, ReceiveAnswer, Enter,
         LockForReply, Reply, Deliver, Forget, EndLoop, ReceiveGarbage, StopReading,
         CleanUp, HangUp, Break, requestVars, clientVars, closerVars
<1>2. CASE \/ Connect(c) \/ CheckRegistration(c) \/ ReceivePing(c) \/ Enter(c)
           \/ LockForReply(c)
           \/ Reply(c) \/ EndLoop(c) \/ ReceiveGarbage(c) \/ CleanUp(c) \/ HangUp(c)
  <2>1. UNCHANGED <<hand, buf, inbox>>
    BY <1>2 DEF Connect, CheckRegistration, ReceivePing, Enter, LockForReply, Reply,
                EndLoop, ReceiveGarbage, StopReading, CleanUp, HangUp, channelVars,
                clientVars, loopVars
  <2>2. QED
    BY <1>1, <2>1
<1>3. CASE ReceiveAnswer(c)
  BY <1>1, <1>3 DEF ReceiveAnswer, channelVars
<1>4. CASE Deliver(c)
  BY <1>1, <1>4 DEF Deliver, clientVars
<1>5. CASE Forget(c)
  BY <1>1, <1>5 DEF Forget, clientVars
<1>6. CASE Break(c)
  BY <1>1, <1>6 DEF Break, channelVars, loopVars
<1>7. QED
  BY <1>2, <1>3, <1>4, <1>5, <1>6 DEF ConnStep, LoopStep

LEMMA OtherAnswerGood ==
  ASSUME AnswerInv,
         \/ \E q \in Requests, c \in Conns : Answer(q, c)
         \/ \E t \in Tunnels : TunnelStep(t)
         \/ StopStep
         \/ UNCHANGED vars
  PROVE  AnswerGood'
<1> USE AnswerTypes DEF AnswerInv, AnswerGood
<1>1. ASSUME NEW q \in Requests, NEW c \in Conns, Answer(q, c)
      PROVE  AnswerGood'
  BY <1>1 DEF Answer, requestVars, channelVars, loopVars, closerVars
<1>2. ASSUME NEW t \in Tunnels, TunnelStep(t)
      PROVE  AnswerGood'
  BY <1>2 DEF TunnelStep, Remove, UnregisterRemoved, HangUpRemoved,
              requestVars, channelVars, loopVars, clientVars, closerVars
<1>3. CASE StopStep
  <2>1. UNCHANGED <<requestVars, loopVars, clientVars>> /\ closer' # "idle"
    BY <1>3 DEF StopStep, Collect, CloseAllStep, CancelAll, CloseConn, CloseAllReturns
  <2>2. \A q \in Requests : buf'[q] = "response" => buf[q] = "response"
    BY <1>3 DEF StopStep, Collect, CloseAllStep, CancelAll, CloseConn, CloseAllReturns,
                channelVars
  <2>3. QED
    BY <2>1, <2>2 DEF requestVars, loopVars, clientVars
<1>4. CASE UNCHANGED vars
  BY <1>4 DEF vars
<1>5. QED
  BY <1>1, <1>2, <1>3, <1>4

LEMMA NextAnswerInv == AnswerInv /\ [Next]_vars => AnswerInv'
<1> SUFFICES ASSUME AnswerInv, [Next]_vars PROVE AnswerInv'
  OBVIOUS
<1>1. TypeOK'
  BY NextTypeOK DEF AnswerInv
<1>2. AnswerGood'
  BY Steps, RequestAnswerGood, LoopAnswerGood, OtherAnswerGood
<1>3. QED
  BY <1>1, <1>2 DEF AnswerInv

LEMMA AnswerInvariance == Spec => []AnswerInv
  BY InitAnswerInv, NextAnswerInv, PTL DEF Spec

stage == [q \in Requests |-> Stage(q)]
stopping == closer # "idle"

LEMMA StagesSame ==
  ASSUME UNCHANGED <<rpc, outcome>>
  PROVE  stage' = stage
  BY DEF stage, Stage

LEMMA StageMoves ==
  ASSUME NEW q \in Requests, NEW x,
         Stage(q)' = x,
         \A p \in Requests : p # q => rpc'[p] = rpc[p] /\ outcome'[p] = outcome[p]
  PROVE  stage' = [stage EXCEPT ![q] = x]
  BY DEF stage, Stage

LEMMA InitForwards == Init => Forwarding!Init
  BY DEF Init, Forwarding!Init, Stage

LEMMA RequestForwards ==
  ASSUME AnswerInv, NEW q \in Requests, RequestStep(q)
  PROVE  \/ Forwarding!Begin(q) \/ Forwarding!Receive(q) \/ Forwarding!Finish(q)
         \/ UNCHANGED <<stage, answered, stopping>>
<1>1. /\ rpc \in [Requests -> RequestStages] /\ outcome \in [Requests -> Outcomes]
      /\ UNCHANGED <<answered, stopping>>
  BY AnswerTypes DEF AnswerInv, RequestStep, HandleRequest, Lookup, Pick, ReadBody,
                     RegisterRequest, LockConn, SendReturns, TakeAnswer, GiveUp, Leave,
                     clientVars, closerVars, stopping
<1>2. \A p \in Requests : p # q => rpc'[p] = rpc[p] /\ outcome'[p] = outcome[p]
  BY <1>1 DEF RequestStep, HandleRequest, Lookup, Pick, ReadBody, RegisterRequest, LockConn,
         SendReturns, TakeAnswer, GiveUp, Leave, End
<1>3. CASE Lookup(q)
  <2>1. Stage(q) = "absent" /\ ~stopping /\ Stage(q)' \in {"arriving", "not_forwarded"}
    BY <1>1, <1>3 DEF Lookup, Stage, stopping
  <2>2. QED
    BY <1>1, <1>2, <2>1, StageMoves DEF Forwarding!Begin, stage, stopping
<1>4. CASE Pick(q) \/ ReadBody(q)
  <2>1. /\ Stage(q) = "arriving"
        /\ Stage(q)' \in {"arriving", "pending", "failed", "not_forwarded"}
    BY <1>1, <1>4 DEF Pick, ReadBody, Stage
  <2>2. stage' = [stage EXCEPT ![q] = Stage(q)']
    BY <1>2, StageMoves
  <2>3. CASE Stage(q)' # "arriving"
    BY <1>1, <2>1, <2>2, <2>3 DEF Forwarding!Receive, stage, stopping
  <2>4. CASE Stage(q)' = "arriving"
    BY <1>1, <2>1, <2>2, <2>4 DEF stage, stopping
  <2> QED BY <2>3, <2>4
<1>5. CASE Leave(q)
  <2>1. /\ Stage(q) = "pending" /\ Stage(q)' = outcome[q]
        /\ outcome[q] \in Forwarding!Outcomes \ {"not_forwarded"}
    BY <1>1, <1>5, AnswerTypes DEF Leave, Stage, AnswerInv, AnswerGood, Outcomes,
                                   Forwarding!Outcomes
  <2>2. /\ outcome[q] = "answered" => q \in answered
        /\ outcome[q] = "cancelled" => stopping
    BY DEF AnswerInv, AnswerGood, stopping
  <2>3. QED
    BY <1>1, <1>2, <2>1, <2>2, StageMoves DEF Forwarding!Finish, stage, stopping
<1>6. CASE RegisterRequest(q) \/ LockConn(q) \/ SendReturns(q) \/ TakeAnswer(q) \/ GiveUp(q)
  <2>1. Stage(q) = "pending" /\ Stage(q)' = "pending"
    BY <1>1, <1>6 DEF RegisterRequest, LockConn, SendReturns, TakeAnswer, GiveUp, End, Stage
  <2>2. stage' = stage
    BY <1>2, <2>1 DEF stage, Stage
  <2>3. QED
    BY <1>1, <2>2
<1>7. QED
  BY <1>3, <1>4, <1>5, <1>6 DEF RequestStep, HandleRequest

LEMMA NextForwards ==
  ASSUME AnswerInv, [Next]_vars
  PROVE  [Forwarding!Next]_<<stage, answered, stopping>>
<1>1. ASSUME NEW q \in Requests, RequestStep(q)
      PROVE  [Forwarding!Next]_<<stage, answered, stopping>>
  BY <1>1, RequestForwards DEF Forwarding!Next
<1>2. ASSUME NEW c \in Conns, ConnStep(c)
      PROVE  UNCHANGED <<stage, answered, stopping>>
  <2>1. UNCHANGED <<rpc, outcome, answered, closer>>
    BY <1>2 DEF ConnStep, LoopStep, Connect, CheckRegistration, ReceivePing, ReceiveAnswer,
           Enter, LockForReply, Reply, Deliver, Forget, EndLoop, ReceiveGarbage,
           StopReading, CleanUp, HangUp, Break, requestVars, clientVars, closerVars
  <2>2. QED
    BY <2>1, StagesSame DEF stopping
<1>3. ASSUME NEW q \in Requests, NEW c \in Conns, Answer(q, c)
      PROVE  Forwarding!ClientAnswers(q)
  <2>1. /\ q \in asked /\ q \notin answered /\ answered' = answered \cup {q}
        /\ UNCHANGED <<rpc, outcome, closer>>
    BY <1>3 DEF Answer, requestVars, closerVars
  <2>2. Stage(q) # "absent"
    BY <2>1, AnswerTypes DEF AnswerInv, AnswerGood, Stage, Outcomes
  <2>3. QED
    BY <2>1, <2>2, StagesSame DEF Forwarding!ClientAnswers, stage, stopping
<1>4. ASSUME NEW t \in Tunnels, TunnelStep(t)
      PROVE  UNCHANGED <<stage, answered, stopping>>
  <2>1. UNCHANGED <<rpc, outcome, answered, closer>>
    BY <1>4 DEF TunnelStep, Remove, UnregisterRemoved, HangUpRemoved, requestVars,
                clientVars, closerVars
  <2>2. QED
    BY <2>1, StagesSame DEF stopping
<1>5. CASE StopStep
  <2>1. UNCHANGED <<rpc, outcome, answered>> /\ closer' # "idle"
    BY <1>5 DEF StopStep, Collect, CloseAllStep, CancelAll, CloseConn, CloseAllReturns,
                requestVars, clientVars
  <2>2. CASE closer = "idle"
    BY <2>1, <2>2, StagesSame DEF Forwarding!Next, Forwarding!BeginStop, stage, stopping
  <2>3. CASE closer # "idle"
    BY <2>1, <2>3, StagesSame DEF stopping
  <2>4. QED
    BY <2>2, <2>3
<1>6. CASE UNCHANGED vars
  BY <1>6, StagesSame DEF vars, stopping
<1>7. QED
  BY <1>1, <1>2, <1>3, <1>4, <1>5, <1>6, Steps DEF Forwarding!Next

\* Whatever connections, removals, timeouts and the shutdown do meanwhile, a
\* request ends at most once, as answered only when the client has answered
\* that very request, and as cancelled only by the shutdown: every step of
\* the WebSocket side is a step of RequestForwarding or none.
THEOREM ImplementsForwarding == Spec => Forwarding!Spec
<1>1. AnswerInv /\ [Next]_vars => [Forwarding!Next]_Forwarding!vars
  BY NextForwards DEF Forwarding!vars, stage, stopping
<1>2. QED
  BY InitForwards, <1>1, AnswerInvariance, PTL DEF Spec, Forwarding!Spec

-----------------------------------------------------------------------------
(* Who may take a tunnel from the connection that serves it.               *)

\* A connection is registered for tunnels of its own client only, for good:
\* EntryGood says so of the connection in the entry, this also of the ones an
\* entry no longer names, whose clean-up is still to come.
RegisteredRightly ==
    \A c \in Conns : tunnelID[c] # NoTunnel => ClientOf[c] = OwnerOf[tunnelID[c]]

LEMMA InitRegisteredRightly == Init => RegisteredRightly
  BY DEF Init, RegisteredRightly

LEMMA NextRegisteredRightly ==
  ASSUME ConnInv, RegisteredRightly, [Next]_vars
  PROVE  RegisteredRightly'
<1>1. ASSUME NEW c \in Conns, Enter(c)
      PROVE  RegisteredRightly'
  <2>1. \A d \in Conns : tunnelID'[d] = IF d = c THEN want[c] ELSE tunnelID[d]
    BY <1>1, ConnTypes DEF Enter, ConnInv
  <2>2. ClientOf[c] = OwnerOf[want[c]]
    BY <1>1 DEF Enter, ConnInv, ConnGood
  <2>3. QED
    BY <2>1, <2>2 DEF RegisteredRightly
<1>2. CASE UNCHANGED tunnelID
  BY <1>2 DEF RegisteredRightly
<1>3. ASSUME NEW q \in Requests, RequestStep(q)
      PROVE  UNCHANGED tunnelID
  BY <1>3 DEF RequestStep, HandleRequest, Lookup, Pick, ReadBody, RegisterRequest, LockConn,
              SendReturns, TakeAnswer, GiveUp, Leave, loopVars
<1>4. ASSUME NEW c \in Conns, ConnStep(c), ~Enter(c)
      PROVE  UNCHANGED tunnelID
  BY <1>4 DEF ConnStep, LoopStep, Connect, CheckRegistration, ReceivePing, ReceiveAnswer,
              LockForReply, Reply, Deliver, Forget, EndLoop, ReceiveGarbage, StopReading,
              CleanUp, HangUp, Break, loopVars
<1>5. ASSUME \/ \E q \in Requests, c \in Conns : Answer(q, c)
             \/ \E t \in Tunnels : TunnelStep(t)
             \/ StopStep
             \/ UNCHANGED vars
      PROVE  UNCHANGED tunnelID
  BY <1>5 DEF Answer, TunnelStep, Remove, UnregisterRemoved, HangUpRemoved, StopStep,
              Collect, CloseAllStep, CancelAll, CloseConn, CloseAllReturns, vars, loopVars
<1>6. QED
  BY Steps, <1>1, <1>2, <1>3, <1>4, <1>5

\* The steps that change an entry, each with who takes it.
LEMMA EntryMoves ==
  ASSUME ConnInv, [Next]_vars, NEW t \in Tunnels, entry'[t] # entry[t]
  PROVE  \/ closer = "idle" /\ closer' = "cancelling"
         \/ t \in removing /\ t \notin removing'
         \/ \E c \in Conns : pc[c] = "enter" /\ pc'[c] = "reply" /\ want[c] = t
         \/ \E c \in Conns : pc[c] = "cleanup" /\ pc'[c] = "hangup" /\ tunnelID[c] = t
<1> USE ConnTypes DEF ConnInv
<1>1. ASSUME NEW q \in Requests, RequestStep(q)
      PROVE  FALSE
  BY <1>1 DEF RequestStep, HandleRequest, Lookup, Pick, ReadBody, RegisterRequest, LockConn,
              SendReturns, TakeAnswer, GiveUp, Leave
<1>2. ASSUME NEW c \in Conns, ConnStep(c)
      PROVE  \/ pc[c] = "enter" /\ pc'[c] = "reply" /\ want[c] = t
             \/ pc[c] = "cleanup" /\ pc'[c] = "hangup" /\ tunnelID[c] = t
  <2>1. CASE Enter(c)
    BY <2>1 DEF Enter
  <2>2. CASE CleanUp(c)
    BY <2>2 DEF CleanUp, Unregister
  <2>3. CASE ~Enter(c) /\ ~CleanUp(c)
    BY <1>2, <2>3 DEF ConnStep, LoopStep, Connect, CheckRegistration, ReceivePing,
                      ReceiveAnswer, LockForReply, Reply, Deliver, Forget, EndLoop,
                      ReceiveGarbage, StopReading, HangUp, Break
  <2>4. QED
    BY <2>1, <2>2, <2>3
<1>3. ASSUME NEW q \in Requests, NEW c \in Conns, Answer(q, c)
      PROVE  FALSE
  BY <1>3 DEF Answer
<1>4. ASSUME NEW u \in Tunnels, TunnelStep(u)
      PROVE  t \in removing /\ t \notin removing'
  BY <1>4 DEF TunnelStep, Remove, UnregisterRemoved, Unregister, HangUpRemoved
<1>5. CASE Collect
  BY <1>5 DEF Collect
<1>6. CASE CloseAllStep
  BY <1>6 DEF CloseAllStep, CancelAll, CloseConn, CloseAllReturns
<1>7. CASE UNCHANGED vars
  BY <1>7 DEF vars
<1>8. QED
  BY Steps, <1>1, <1>2, <1>3, <1>4, <1>5, <1>6, <1>7 DEF StopStep

LEMMA OnlyOwnerSteps ==
  ASSUME ConnInv, RegisteredRightly, [Next]_vars
  PROVE  EvictedByOwner
<1> SUFFICES ASSUME NEW t \in Tunnels, entry[t] # NoConn, entry'[t] # entry[t]
             PROVE  \/ closer # closer'
                    \/ t \in removing /\ t \notin removing'
                    \/ \E c \in Conns : /\ ClientOf[c] = OwnerOf[t]
                                        /\ \/ pc[c] = "enter" /\ want[c] = t
                                           \/ pc[c] = "cleanup" /\ tunnelID[c] = t
                                        /\ pc'[c] # pc[c]
  BY DEF EvictedByOwner
<1>1. ASSUME NEW c \in Conns, pc[c] = "enter", want[c] = t
      PROVE  ClientOf[c] = OwnerOf[t]
  BY <1>1 DEF ConnInv, ConnGood
<1>2. ASSUME NEW c \in Conns, pc[c] = "cleanup", tunnelID[c] = t
      PROVE  ClientOf[c] = OwnerOf[t]
  BY <1>2, NamesAssumption DEF RegisteredRightly
<1>3. QED
  BY EntryMoves, <1>1, <1>2

\* No other client can take a tunnel out of service, however late its clean-ups
\* come: the stale clean-up of a reconnecting client hurts that client alone.
THEOREM OnlyOwnersEvict == Spec => OnlyOwnerEvicts
  BY ConnInvariance, InitRegisteredRightly, NextRegisteredRightly, OnlyOwnerSteps, PTL
     DEF Spec, OnlyOwnerEvicts

-----------------------------------------------------------------------------
(* The locks, and the tunnels that are removed.                            *)

\* A connection's t.mu has one holder at a time: a handler or the read loop
\* whose Send has not returned, or the read loop from its clean-up to the end.
Holds(q, c) == rpc[q] = "sending" /\ via[q] = c

LockExclusive ==
    /\ \A q, r \in Requests, c \in Conns : Holds(q, c) /\ Holds(r, c) => q = r
    /\ \A q \in Requests, c \in Conns : Holds(q, c) => pc[c] \notin {"replying", "cleanup", "hangup"}

\* Nobody comes to hold a lock that is held.
LEMMA RequestLocks ==
  ASSUME TypeOK, LockExclusive, NEW q \in Requests, RequestStep(q)
  PROVE  LockExclusive'
<1>1. pc' = pc /\ \A r \in Requests \ {q} : rpc'[r] = rpc[r] /\ via'[r] = via[r]
  BY DEF TypeOK, RequestStep, HandleRequest, Lookup, Pick, ReadBody, RegisterRequest,
         LockConn, SendReturns, TakeAnswer, GiveUp, Leave, End, loopVars
<1>2. CASE rpc'[q] # "sending"
  BY <1>1, <1>2 DEF LockExclusive, Holds
<1>3. CASE rpc'[q] = "sending"
  <2>1. LockConn(q) /\ via' = via
    BY <1>3 DEF TypeOK, RequestStep, HandleRequest, Lookup, Pick, ReadBody,
                RegisterRequest, LockConn, SendReturns, TakeAnswer, GiveUp, Leave, End
  <2>2. ConnLockFree(via[q])
    BY <2>1 DEF LockConn
  <2> QED BY <1>1, <2>1, <2>2 DEF LockExclusive, Holds, ConnLockFree
<1> QED BY <1>2, <1>3

LEMMA LoopLocks ==
  ASSUME TypeOK, LockExclusive, NEW c \in Conns, ConnStep(c)
  PROVE  LockExclusive'
<1>1. /\ UNCHANGED <<rpc, via>>
      /\ \A d \in Conns \ {c} : pc'[d] = pc[d]
  BY DEF TypeOK, ConnStep, LoopStep, Connect, CheckRegistration, ReceivePing, ReceiveAnswer,
         Enter, LockForReply, Reply, Deliver, Forget, EndLoop, ReceiveGarbage,
         StopReading, CleanUp, HangUp, Break, requestVars, loopVars
<1>2. CASE EndLoop(c) \/ ReceiveGarbage(c) \/ LockForReply(c)
  BY <1>1, <1>2 DEF EndLoop, ReceiveGarbage, StopReading, LockForReply, ConnLockFree,
                    LockExclusive, Holds
<1>3. CASE CleanUp(c) \/ HangUp(c)
  BY <1>1, <1>3 DEF CleanUp, HangUp, LockExclusive, Holds
<1>4. CASE ~(EndLoop(c) \/ ReceiveGarbage(c) \/ LockForReply(c) \/ CleanUp(c) \/ HangUp(c))
  <2>1. pc'[c] \notin {"replying", "cleanup", "hangup"} \/ pc'[c] = pc[c]
    BY <1>4 DEF TypeOK, ConnStep, LoopStep, Connect, CheckRegistration, ReceivePing,
           ReceiveAnswer, Enter, Reply, Deliver, Forget, Break, loopVars
  <2> QED BY <1>1, <2>1 DEF LockExclusive, Holds
<1> QED BY <1>2, <1>3, <1>4

LEMMA NextLocks ==
  ASSUME TypeOK, LockExclusive, [Next]_vars
  PROVE  LockExclusive'
<1>1. ASSUME \/ \E q \in Requests, c \in Conns : Answer(q, c)
             \/ \E t \in Tunnels : TunnelStep(t)
             \/ StopStep
             \/ UNCHANGED vars
      PROVE  UNCHANGED <<rpc, via, pc>>
  BY <1>1 DEF Answer, TunnelStep, Remove, UnregisterRemoved, HangUpRemoved, StopStep,
              Collect, CloseAllStep, CancelAll, CloseConn, CloseAllReturns, vars,
              requestVars, loopVars
<1>2. CASE UNCHANGED <<rpc, via, pc>>
  BY <1>2 DEF LockExclusive, Holds
<1> QED BY Steps, RequestLocks, LoopLocks, <1>1, <1>2

\* t.mu is a lock: what stands for it, the places of those who hold it, lets no
\* two goroutines hold it together, however many requests go down a connection.
THEOREM LocksExclude == Spec => []LockExclusive
<1>1. Init => LockExclusive
  BY DEF Init, LockExclusive, Holds
<1> QED
  BY <1>1, NextLocks, TypeCorrect, PTL DEF Spec

\* A tunnel as the manager sees it: in the registry, taken out and not yet
\* unregistered here, or through with.
phase == [t \in Tunnels |-> IF t \in live THEN "live"
                            ELSE IF t \in removing THEN "closing" ELSE "gone"]
Removal == INSTANCE TunnelLifecycle

LEMMA RemovalSteps ==
  ASSUME TypeOK, live \cap removing = {}, [Next]_vars
  PROVE  (live \cap removing = {})' /\ [Removal!Next]_phase
<1> USE DEF TypeOK
<1>1. ASSUME NEW t \in Tunnels, Remove(t)
      PROVE  (live \cap removing = {})' /\ Removal!Close({t})
  BY <1>1 DEF Remove, phase, Removal!Close, Removal!In, Removal!Move
<1>2. ASSUME NEW t \in Tunnels, UnregisterRemoved(t)
      PROVE  (live \cap removing = {})' /\ Removal!Finish(t)
  BY <1>2 DEF UnregisterRemoved, phase, Removal!Finish, Removal!In, Removal!Move
<1>3. CASE UNCHANGED <<live, removing>>
  BY <1>3 DEF phase
<1>4. ASSUME NEW q \in Requests, RequestStep(q)
      PROVE  UNCHANGED <<live, removing>>
  BY <1>4 DEF RequestStep, HandleRequest, Lookup, Pick, ReadBody, RegisterRequest, LockConn,
              SendReturns, TakeAnswer, GiveUp, Leave, removalVars
<1>5. ASSUME NEW c \in Conns, ConnStep(c)
      PROVE  UNCHANGED <<live, removing>>
  BY <1>5 DEF ConnStep, LoopStep, Connect, CheckRegistration, ReceivePing, ReceiveAnswer,
              Enter, LockForReply, Reply, Deliver, Forget, EndLoop, ReceiveGarbage,
              StopReading, CleanUp, HangUp, Break, removalVars
<1>6. ASSUME \/ \E q \in Requests, c \in Conns : Answer(q, c)
             \/ \E t \in Tunnels : HangUpRemoved(t)
             \/ StopStep
             \/ UNCHANGED vars
      PROVE  UNCHANGED <<live, removing>>
  BY <1>6 DEF Answer, HangUpRemoved, StopStep, Collect, CloseAllStep, CancelAll, CloseConn,
              CloseAllReturns, vars, removalVars
<1> QED
  BY Steps, <1>1, <1>2, <1>3, <1>4, <1>5, <1>6 DEF TunnelStep, Removal!Next

\* What happens to a tunnel here happens to it in TunnelRegistry: both keep to
\* TunnelLifecycle, here from the moment the tunnel is published.
THEOREM RemovalsAreRegistrys ==
    Spec => (phase = [t \in Tunnels |-> "live"]) /\ [][Removal!Next]_phase
<1>1. Init => live \cap removing = {} /\ phase = [t \in Tunnels |-> "live"]
  BY DEF Init, phase
<1> QED
  BY <1>1, RemovalSteps, TypeCorrect, PTL DEF Spec
=============================================================================
