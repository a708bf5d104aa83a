-------------------------- MODULE Listeners_proofs --------------------------
(***************************************************************************)
(* What the listeners keep, for every finite set of connections and every  *)
(* limit.  The lemmas before the theorems say what a step does to one part *)
(* of the invariant; Cases splits a step once for all of them.             *)
(***************************************************************************)
EXTENDS Listeners, FiniteSetTheorems, TLAPS

\* The goroutines of a connection are two, and no connection shares one.
LEMMA ProcsAre ==
    /\ \A c \in Conns : /\ HandlerOf(c) \in Procs /\ RemoteOf(c) \in Procs
                        /\ ConnOf(HandlerOf(c)) = c /\ ConnOf(RemoteOf(c)) = c
                        /\ Return(HandlerOf(c)) = "ended" /\ Return(RemoteOf(c)) = "none"
    /\ \A c, d \in Conns : /\ HandlerOf(c) # RemoteOf(d)
                           /\ HandlerOf(c) = HandlerOf(d) => c = d
                           /\ RemoteOf(c) = RemoteOf(d) => c = d
    /\ \A p \in Procs : \E c \in Conns : p = HandlerOf(c) \/ p = RemoteOf(c)
  BY DEF HandlerOf, RemoteOf, Procs, Roles, ConnOf, Return

conns == <<kind, sock, proc, tableVars, metricVars>>

\* A step of the accept loop or of Stop that leaves the connections alone.
Quiet == UNCHANGED <<conns, taken>> /\ (known' => known) /\ (Stopping => Stopping')

\* The steps that do something to a connection, listener by listener.
ServerWork ==
    kind = "server" /\ (Close \/ \E c \in Conns : Take(c) \/ Store(c) \/ LookUp(c)
                                    \/ CloseConn(c) \/ RemoveConn(c) \/ ReadFirst(c) \/ CloseOne(c))

ClientWork ==
    kind = "client" /\ (\/ StopTunnel
                        \/ \E c \in Conns : \/ Accept(c, "check") \/ Register(c) \/ CheckStopCh(c)
                                            \/ ReadLocal(c) \/ Send(c) \/ Find(c)
                                            \/ CheckClosed(c) \/ WriteLocal(c)
                        \/ \E p \in Procs : MarkClosed(p) \/ Shut(p) \/ Remove(p))

HandlerWork ==
    kind = "handler" /\ (\/ StopListener \/ StopConns
                         \/ \E c \in Conns : \/ Accept(c, "check") \/ Forward(c) \/ StoreClient(c)
                                             \/ Count(c, "dial") \/ Dial(c) \/ CloseClient(c)
                                             \/ Uncount(c) \/ RemoveClient(c)
                         \/ \E c \in Conns, h \in {"in", "out"} : EndCopy(c, h))

HttpWork ==
    kind = "http" /\ (\/ Shutdown
                      \/ \E c \in Conns : \/ Accept(c, "accept") \/ BeginRequest(c)
                                          \/ EndRequest(c) \/ AbortRequest(c))

LEMMA Cases ==
    [Next]_vars =>
        \/ Quiet \/ (\E c \in Conns : Connect(c))
        \/ ServerWork \/ ClientWork \/ HandlerWork \/ HttpWork
<1> SUFFICES ASSUME [Next]_vars
             PROVE \/ Quiet \/ (\E c \in Conns : Connect(c))
                   \/ ServerWork \/ ClientWork \/ HandlerWork \/ HttpWork
  OBVIOUS
<1> USE DEF Quiet, Stopping, conns, netVars, loopVars, tableVars, metricVars
<1>1. ASSUME Network PROVE Quiet \/ \E c \in Conns : Connect(c)
  BY <1>1 DEF Network, HangUp
<1>2. ASSUME ServerNext PROVE Quiet \/ ServerWork
  BY <1>2 DEF ServerNext, ServerStep, ServerHandler, ServerWork, StartTCPListener, EndLoop,
              EndClose, Forget
<1>3. ASSUME ClientNext PROVE Quiet \/ ClientWork
  BY <1>3 DEF ClientNext, ClientHandler, HandleRemoteData, CloseConnection, ClientWork,
              StartTunnel, EndLoop, CheckStop
<1>4. ASSUME TcpNext PROVE Quiet \/ HandlerWork
  BY <1>4 DEF TcpNext, TcpHandling, HandlerWork, StartTCP, EndLoop, CheckStop,
              ContextDone, AcceptTimesOut, StopTCP
<1>5. ASSUME HttpNext PROVE Quiet \/ HttpWork
  BY <1>5 DEF HttpNext, HttpHandling, HttpWork, StartHTTP, ListenAndServe, EndLoop,
              StopUnstarted, EndShutdown
<1>6. CASE UNCHANGED vars
  BY <1>6 DEF vars
<1> QED BY <1>1, <1>2, <1>3, <1>4, <1>5, <1>6 DEF Next

-----------------------------------------------------------------------------
(* The parts of the invariant.                                             *)

H(c) == proc[HandlerOf(c)]
R(c) == proc[RemoteOf(c)]

\* What belongs to one listener only, or to one time.
Apart ==
    /\ kind # "client" => flagged = {} /\ \A c \in Conns : R(c) = "none"
    /\ kind = "http" => table = {}
    /\ ~Stopping => closing = {}
    /\ \A c, d \in taken : c = d

\* Nobody works on a connection before it is accepted, and nobody but its
\* handler before that has registered it.
Begun ==
    \A c \in Conns :
        /\ sock[c] \in {"none", "queued"} \/ c \in taken => H(c) = "none"
        /\ c \in taken => sock[c] \in {"open", "closed"}
        /\ c \in flagged \/ R(c) # "none" \/ (kind = "client" /\ c \in table) =>
               H(c) \notin {"none", "begin"}

\* Who has marked a connection closes it, and takes it out of the table unless
\* Stop does.
Marked ==
    \A c \in flagged :
        /\ sock[c] = "closed" \/ H(c) = "shut" \/ R(c) = "shut"
        /\ c \in table => H(c) \in {"shut", "remove"} \/ R(c) \in {"shut", "remove"}

\* A connection is closed before it is taken out of the table.
PastClose ==
    \A c \in Conns : H(c) \in {"remove", "uncount"} \/ R(c) = "remove" => sock[c] = "closed"

History == Apart /\ Begun /\ Marked /\ PastClose

\* The metric is the number of connections between counting up and counting
\* down, and of requests that were aborted there.
Counted == {c \in Conns : H(c) \in {"dial", "copy", "uncount", "serve"}} \cup aborted

Counts ==
    /\ active = Cardinality(Counted)
    /\ \A c \in aborted : H(c) = "ended"

IInv == TypeOK /\ History /\ EntryHasOwner /\ SocketHasOwner /\ Counts /\ LimitKept

-----------------------------------------------------------------------------
(* What a step does to each of them.                                       *)

\* The history of a connection, from the queue to its removal.
LEMMA HistoryStep == TypeOK /\ History /\ [Next]_vars => History'
<1> SUFFICES ASSUME TypeOK /\ History, [Next]_vars PROVE History'
  OBVIOUS
<1> USE ListenerAssumption, ProcsAre DEF TypeOK, History, Apart, Begun, Marked, PastClose, H, R, Stopping
<1>1. CASE Quiet
  BY <1>1 DEF Quiet, conns, tableVars, metricVars
<1>2. ASSUME NEW c \in Conns, Connect(c) PROVE History'
  BY <1>2 DEF Connect, loopVars, tableVars, metricVars
<1>3. CASE ServerWork
  <2>0. kind = "server"
    BY <1>3 DEF ServerWork
  <2>1. CASE Close
    BY <2>0, <2>1 DEF Close, Unlisten, Closed, netVars, loopVars, tableVars, metricVars
  <2>2. ASSUME NEW c \in Conns, Take(c) PROVE History'
    BY <2>0, <2>2 DEF Take, Goto, netVars, loopVars, tableVars, metricVars
  <2>3. ASSUME NEW c \in Conns, Store(c) PROVE History'
    BY <2>0, <2>3 DEF Store, Goto, netVars, loopVars, tableVars, metricVars
  <2>4. ASSUME NEW c \in Conns, LookUp(c) \/ ReadFirst(c) PROVE History'
    BY <2>0, <2>4 DEF LookUp, ReadFirst, Goto, Closed, netVars, loopVars, tableVars, metricVars
  <2>5. ASSUME NEW c \in Conns, CloseConn(c) \/ CloseOne(c) PROVE History'
    BY <2>0, <2>5 DEF CloseConn, CloseOne, Goto, Closed, netVars, loopVars, tableVars, metricVars
  <2>6. ASSUME NEW c \in Conns, RemoveConn(c) PROVE History'
    BY <2>0, <2>6 DEF RemoveConn, Goto, netVars, loopVars, tableVars, metricVars
  <2> QED BY <1>3, <2>1, <2>2, <2>3, <2>4, <2>5, <2>6 DEF ServerWork
<1>4. CASE ClientWork
  <2>0. kind = "client"
    BY <1>4 DEF ClientWork
  <2>1. CASE StopTunnel
    BY <2>0, <2>1 DEF StopTunnel, Unlisten, Closed, netVars, loopVars, tableVars, metricVars
  <2>2. ASSUME NEW c \in Conns, Accept(c, "check") PROVE History'
    BY <2>0, <2>2 DEF Accept, Goto, netVars, loopVars, tableVars, metricVars
  <2>3. ASSUME NEW c \in Conns, Register(c) PROVE History'
    BY <2>0, <2>3 DEF Register, Goto, Closed, netVars, loopVars, tableVars, metricVars
  <2>4. ASSUME NEW c \in Conns, CheckStopCh(c) \/ ReadLocal(c) \/ Send(c) PROVE History'
    BY <2>0, <2>4 DEF CheckStopCh, ReadLocal, Send, Goto, netVars, loopVars, tableVars, metricVars
  <2>5. ASSUME NEW c \in Conns, Find(c) \/ CheckClosed(c) \/ WriteLocal(c) PROVE History'
    BY <2>0, <2>5 DEF Find, CheckClosed, WriteLocal, Goto, netVars, loopVars, tableVars, metricVars
  <2>6. ASSUME NEW p \in Procs, MarkClosed(p) PROVE History'
    BY <2>0, <2>6 DEF MarkClosed, Goto, netVars, loopVars, tableVars, metricVars
  <2>7. ASSUME NEW p \in Procs, Shut(p) PROVE History'
    BY <2>0, <2>7 DEF Shut, Goto, Closed, netVars, loopVars, tableVars, metricVars
  <2>8. ASSUME NEW p \in Procs, Remove(p) PROVE History'
    BY <2>0, <2>8 DEF Remove, Goto, netVars, loopVars, tableVars, metricVars
  <2> QED BY <1>4, <2>1, <2>2, <2>3, <2>4, <2>5, <2>6, <2>7, <2>8 DEF ClientWork
<1>5. CASE HandlerWork
  <2>0. kind = "handler"
    BY <1>5 DEF HandlerWork
  <2>1. CASE StopListener \/ StopConns
    BY <2>0, <2>1 DEF StopListener, StopConns, Unlisten, Closed, netVars, loopVars, tableVars, metricVars
  <2>2. ASSUME NEW c \in Conns, Accept(c, "check") PROVE History'
    BY <2>0, <2>2 DEF Accept, Goto, netVars, loopVars, tableVars, metricVars
  <2>3. ASSUME NEW c \in Conns, Forward(c) PROVE History'
    BY <2>0, <2>3 DEF Forward, Goto, netVars, loopVars, tableVars, metricVars
  <2>4. ASSUME NEW c \in Conns, StoreClient(c) PROVE History'
    BY <2>0, <2>4 DEF StoreClient, Goto, netVars, loopVars, tableVars, metricVars
  <2>5. ASSUME NEW c \in Conns, Count(c, "dial") PROVE History'
    BY <2>0, <2>5 DEF Count, Goto, netVars, loopVars, tableVars, metricVars
  <2>6. ASSUME NEW c \in Conns, Dial(c) PROVE History'
    BY <2>0, <2>6 DEF Dial, Goto, netVars, loopVars, tableVars, metricVars
  <2>7. ASSUME NEW c \in Conns, NEW h \in {"in", "out"}, EndCopy(c, h) PROVE History'
    BY <2>0, <2>7 DEF EndCopy, netVars, loopVars, tableVars, metricVars
  <2>8. ASSUME NEW c \in Conns, CloseClient(c) PROVE History'
    BY <2>0, <2>8 DEF CloseClient, Goto, Closed, netVars, loopVars, tableVars, metricVars
  <2>9. ASSUME NEW c \in Conns, Uncount(c) PROVE History'
    BY <2>0, <2>9 DEF Uncount, Goto, netVars, loopVars, tableVars, metricVars
  <2>10. ASSUME NEW c \in Conns, RemoveClient(c) PROVE History'
    BY <2>0, <2>10 DEF RemoveClient, Goto, netVars, loopVars, tableVars, metricVars
  <2> QED BY <1>5, <2>1, <2>2, <2>3, <2>4, <2>5, <2>6, <2>7, <2>8, <2>9, <2>10 DEF HandlerWork
<1>6. CASE HttpWork
  <2>0. kind = "http"
    BY <1>6 DEF HttpWork
  <2>1. CASE Shutdown
    BY <2>0, <2>1 DEF Shutdown, Unlisten, Closed, netVars, loopVars, tableVars, metricVars
  <2>2. ASSUME NEW c \in Conns, Accept(c, "accept") PROVE History'
    BY <2>0, <2>2 DEF Accept, Goto, netVars, loopVars, tableVars, metricVars
  <2>3. ASSUME NEW c \in Conns, BeginRequest(c) PROVE History'
    BY <2>0, <2>3 DEF BeginRequest, Goto, netVars, loopVars, tableVars, metricVars
  <2>4. ASSUME NEW c \in Conns, EndRequest(c) PROVE History'
    BY <2>0, <2>4 DEF EndRequest, Goto, Closed, netVars, loopVars, tableVars, metricVars
  <2>5. ASSUME NEW c \in Conns, AbortRequest(c) PROVE History'
    BY <2>0, <2>5 DEF AbortRequest, Goto, Closed, netVars, loopVars, tableVars, metricVars
  <2> QED BY <1>6, <2>1, <2>2, <2>3, <2>4, <2>5 DEF HttpWork
<1> QED BY <1>1, <1>2, <1>3, <1>4, <1>5, <1>6, Cases

\* What is in the table or open has somebody to see to it.
LEMMA OwnersStep == TypeOK /\ History /\ EntryHasOwner /\ SocketHasOwner /\ [Next]_vars => (EntryHasOwner /\ SocketHasOwner)'
<1> SUFFICES ASSUME TypeOK /\ History /\ EntryHasOwner /\ SocketHasOwner, [Next]_vars PROVE (EntryHasOwner /\ SocketHasOwner)'
  OBVIOUS
<1> USE ListenerAssumption, ProcsAre DEF TypeOK, History, Apart, Begun, Marked, PastClose, H, R, Stopping, EntryHasOwner, SocketHasOwner, Idle
<1>1. CASE Quiet
  BY <1>1 DEF Quiet, conns, tableVars, metricVars
<1>2. ASSUME NEW c \in Conns, Connect(c) PROVE (EntryHasOwner /\ SocketHasOwner)'
  BY <1>2 DEF Connect, loopVars, tableVars, metricVars
<1>3. CASE ServerWork
  <2>0. kind = "server"
    BY <1>3 DEF ServerWork
  <2>1. CASE Close
    BY <2>0, <2>1 DEF Close, Unlisten, Closed, netVars, loopVars, tableVars, metricVars
  <2>2. ASSUME NEW c \in Conns, Take(c) PROVE (EntryHasOwner /\ SocketHasOwner)'
    BY <2>0, <2>2 DEF Take, Goto, netVars, loopVars, tableVars, metricVars
  <2>3. ASSUME NEW c \in Conns, Store(c) PROVE (EntryHasOwner /\ SocketHasOwner)'
    BY <2>0, <2>3 DEF Store, Goto, netVars, loopVars, tableVars, metricVars
  <2>4. ASSUME NEW c \in Conns, LookUp(c) \/ ReadFirst(c) PROVE (EntryHasOwner /\ SocketHasOwner)'
    BY <2>0, <2>4 DEF LookUp, ReadFirst, Goto, Closed, netVars, loopVars, tableVars, metricVars
  <2>5. ASSUME NEW c \in Conns, CloseConn(c) \/ CloseOne(c) PROVE (EntryHasOwner /\ SocketHasOwner)'
    BY <2>0, <2>5 DEF CloseConn, CloseOne, Goto, Closed, netVars, loopVars, tableVars, metricVars
  <2>6. ASSUME NEW c \in Conns, RemoveConn(c) PROVE (EntryHasOwner /\ SocketHasOwner)'
    BY <2>0, <2>6 DEF RemoveConn, Goto, netVars, loopVars, tableVars, metricVars
  <2> QED BY <1>3, <2>1, <2>2, <2>3, <2>4, <2>5, <2>6 DEF ServerWork
<1>4. CASE ClientWork
  <2>0. kind = "client"
    BY <1>4 DEF ClientWork
  <2>1. CASE StopTunnel
    BY <2>0, <2>1 DEF StopTunnel, Unlisten, Closed, netVars, loopVars, tableVars, metricVars
  <2>2. ASSUME NEW c \in Conns, Accept(c, "check") PROVE (EntryHasOwner /\ SocketHasOwner)'
    BY <2>0, <2>2 DEF Accept, Goto, netVars, loopVars, tableVars, metricVars
  <2>3. ASSUME NEW c \in Conns, Register(c) PROVE (EntryHasOwner /\ SocketHasOwner)'
    BY <2>0, <2>3 DEF Register, Goto, Closed, netVars, loopVars, tableVars, metricVars
  <2>4. ASSUME NEW c \in Conns, CheckStopCh(c) \/ ReadLocal(c) \/ Send(c) PROVE (EntryHasOwner /\ SocketHasOwner)'
    BY <2>0, <2>4 DEF CheckStopCh, ReadLocal, Send, Goto, netVars, loopVars, tableVars, metricVars
  <2>5. ASSUME NEW c \in Conns, Find(c) \/ CheckClosed(c) \/ WriteLocal(c) PROVE (EntryHasOwner /\ SocketHasOwner)'
    BY <2>0, <2>5 DEF Find, CheckClosed, WriteLocal, Goto, netVars, loopVars, tableVars, metricVars
  <2>6. ASSUME NEW p \in Procs, MarkClosed(p) PROVE (EntryHasOwner /\ SocketHasOwner)'
    BY <2>0, <2>6 DEF MarkClosed, Goto, netVars, loopVars, tableVars, metricVars
  <2>7. ASSUME NEW p \in Procs, Shut(p) PROVE (EntryHasOwner /\ SocketHasOwner)'
    BY <2>0, <2>7 DEF Shut, Goto, Closed, netVars, loopVars, tableVars, metricVars
  <2>8. ASSUME NEW p \in Procs, Remove(p) PROVE (EntryHasOwner /\ SocketHasOwner)'
    BY <2>0, <2>8 DEF Remove, Goto, netVars, loopVars, tableVars, metricVars
  <2> QED BY <1>4, <2>1, <2>2, <2>3, <2>4, <2>5, <2>6, <2>7, <2>8 DEF ClientWork
<1>5. CASE HandlerWork
  <2>0. kind = "handler"
    BY <1>5 DEF HandlerWork
  <2>1. CASE StopListener \/ StopConns
    BY <2>0, <2>1 DEF StopListener, StopConns, Unlisten, Closed, netVars, loopVars, tableVars, metricVars
  <2>2. ASSUME NEW c \in Conns, Accept(c, "check") PROVE (EntryHasOwner /\ SocketHasOwner)'
    BY <2>0, <2>2 DEF Accept, Goto, netVars, loopVars, tableVars, metricVars
  <2>3. ASSUME NEW c \in Conns, Forward(c) PROVE (EntryHasOwner /\ SocketHasOwner)'
    BY <2>0, <2>3 DEF Forward, Goto, netVars, loopVars, tableVars, metricVars
  <2>4. ASSUME NEW c \in Conns, StoreClient(c) PROVE (EntryHasOwner /\ SocketHasOwner)'
    BY <2>0, <2>4 DEF StoreClient, Goto, netVars, loopVars, tableVars, metricVars
  <2>5. ASSUME NEW c \in Conns, Count(c, "dial") PROVE (EntryHasOwner /\ SocketHasOwner)'
    BY <2>0, <2>5 DEF Count, Goto, netVars, loopVars, tableVars, metricVars
  <2>6. ASSUME NEW c \in Conns, Dial(c) PROVE (EntryHasOwner /\ SocketHasOwner)'
    BY <2>0, <2>6 DEF Dial, Goto, netVars, loopVars, tableVars, metricVars
  <2>7. ASSUME NEW c \in Conns, NEW h \in {"in", "out"}, EndCopy(c, h) PROVE (EntryHasOwner /\ SocketHasOwner)'
    BY <2>0, <2>7 DEF EndCopy, netVars, loopVars, tableVars, metricVars
  <2>8. ASSUME NEW c \in Conns, CloseClient(c) PROVE (EntryHasOwner /\ SocketHasOwner)'
    BY <2>0, <2>8 DEF CloseClient, Goto, Closed, netVars, loopVars, tableVars, metricVars
  <2>9. ASSUME NEW c \in Conns, Uncount(c) PROVE (EntryHasOwner /\ SocketHasOwner)'
    BY <2>0, <2>9 DEF Uncount, Goto, netVars, loopVars, tableVars, metricVars
  <2>10. ASSUME NEW c \in Conns, RemoveClient(c) PROVE (EntryHasOwner /\ SocketHasOwner)'
    BY <2>0, <2>10 DEF RemoveClient, Goto, netVars, loopVars, tableVars, metricVars
  <2> QED BY <1>5, <2>1, <2>2, <2>3, <2>4, <2>5, <2>6, <2>7, <2>8, <2>9, <2>10 DEF HandlerWork
<1>6. CASE HttpWork
  <2>0. kind = "http"
    BY <1>6 DEF HttpWork
  <2>1. CASE Shutdown
    BY <2>0, <2>1 DEF Shutdown, Unlisten, Closed, netVars, loopVars, tableVars, metricVars
  <2>2. ASSUME NEW c \in Conns, Accept(c, "accept") PROVE (EntryHasOwner /\ SocketHasOwner)'
    BY <2>0, <2>2 DEF Accept, Goto, netVars, loopVars, tableVars, metricVars
  <2>3. ASSUME NEW c \in Conns, BeginRequest(c) PROVE (EntryHasOwner /\ SocketHasOwner)'
    BY <2>0, <2>3 DEF BeginRequest, Goto, netVars, loopVars, tableVars, metricVars
  <2>4. ASSUME NEW c \in Conns, EndRequest(c) PROVE (EntryHasOwner /\ SocketHasOwner)'
    BY <2>0, <2>4 DEF EndRequest, Goto, Closed, netVars, loopVars, tableVars, metricVars
  <2>5. ASSUME NEW c \in Conns, AbortRequest(c) PROVE (EntryHasOwner /\ SocketHasOwner)'
    BY <2>0, <2>5 DEF AbortRequest, Goto, Closed, netVars, loopVars, tableVars, metricVars
  <2> QED BY <1>6, <2>1, <2>2, <2>3, <2>4, <2>5 DEF HttpWork
<1> QED BY <1>1, <1>2, <1>3, <1>4, <1>5, <1>6, Cases

\* A step counts one connection more, one less, or as many as before.
Recount ==
    /\ \/ Counted' = Counted /\ active' = active
       \/ \E c \in Conns \ Counted : Counted' = Counted \cup {c} /\ active' = active + 1
       \/ \E c \in Counted : Counted' = Counted \ {c} /\ active' = active - 1
    /\ aborted' \subseteq Conns /\ \A c \in aborted' : H(c)' = "ended"

\* What each step does to the count.
LEMMA RecountStep == TypeOK /\ History /\ Counts /\ [Next]_vars => Recount
<1> SUFFICES ASSUME TypeOK /\ History /\ Counts, [Next]_vars PROVE Recount
  OBVIOUS
<1> USE ListenerAssumption, ProcsAre DEF TypeOK, History, Begun, Counts, Counted, H, Recount
<1>1. CASE Quiet
  BY <1>1 DEF Quiet, conns, tableVars, metricVars
<1>2. ASSUME NEW c \in Conns, Connect(c) PROVE Recount
  BY <1>2 DEF Connect, loopVars, tableVars, metricVars
<1>3. CASE ServerWork
  <2>0. kind = "server"
    BY <1>3 DEF ServerWork
  <2>1. CASE Close
    BY <2>0, <2>1 DEF Close, Unlisten, Closed, netVars, loopVars, tableVars, metricVars
  <2>2. ASSUME NEW c \in Conns, Take(c) PROVE Recount
    BY <2>0, <2>2 DEF Take, Goto, netVars, loopVars, tableVars, metricVars
  <2>3. ASSUME NEW c \in Conns, Store(c) PROVE Recount
    BY <2>0, <2>3 DEF Store, Goto, netVars, loopVars, tableVars, metricVars
  <2>4. ASSUME NEW c \in Conns, LookUp(c) \/ ReadFirst(c) PROVE Recount
    BY <2>0, <2>4 DEF LookUp, ReadFirst, Goto, Closed, netVars, loopVars, tableVars, metricVars
  <2>5. ASSUME NEW c \in Conns, CloseConn(c) \/ CloseOne(c) PROVE Recount
    BY <2>0, <2>5 DEF CloseConn, CloseOne, Goto, Closed, netVars, loopVars, tableVars, metricVars
  <2>6. ASSUME NEW c \in Conns, RemoveConn(c) PROVE Recount
    BY <2>0, <2>6 DEF RemoveConn, Goto, netVars, loopVars, tableVars, metricVars
  <2> QED BY <1>3, <2>1, <2>2, <2>3, <2>4, <2>5, <2>6 DEF ServerWork
<1>4. CASE ClientWork
  <2>0. kind = "client"
    BY <1>4 DEF ClientWork
  <2>1. CASE StopTunnel
    BY <2>0, <2>1 DEF StopTunnel, Unlisten, Closed, netVars, loopVars, tableVars, metricVars
  <2>2. ASSUME NEW c \in Conns, Accept(c, "check") PROVE Recount
    BY <2>0, <2>2 DEF Accept, Goto, netVars, loopVars, tableVars, metricVars
  <2>3. ASSUME NEW c \in Conns, Register(c) PROVE Recount
    BY <2>0, <2>3 DEF Register, Goto, Closed, netVars, loopVars, tableVars, metricVars
  <2>4. ASSUME NEW c \in Conns, CheckStopCh(c) \/ ReadLocal(c) \/ Send(c) PROVE Recount
    BY <2>0, <2>4 DEF CheckStopCh, ReadLocal, Send, Goto, netVars, loopVars, tableVars, metricVars
  <2>5. ASSUME NEW c \in Conns, Find(c) \/ CheckClosed(c) \/ WriteLocal(c) PROVE Recount
    BY <2>0, <2>5 DEF Find, CheckClosed, WriteLocal, Goto, netVars, loopVars, tableVars, metricVars
  <2>6. ASSUME NEW p \in Procs, MarkClosed(p) PROVE Recount
    BY <2>0, <2>6 DEF MarkClosed, Goto, netVars, loopVars, tableVars, metricVars
  <2>7. ASSUME NEW p \in Procs, Shut(p) PROVE Recount
    BY <2>0, <2>7 DEF Shut, Goto, Closed, netVars, loopVars, tableVars, metricVars
  <2>8. ASSUME NEW p \in Procs, Remove(p) PROVE Recount
    BY <2>0, <2>8 DEF Remove, Goto, netVars, loopVars, tableVars, metricVars
  <2> QED BY <1>4, <2>1, <2>2, <2>3, <2>4, <2>5, <2>6, <2>7, <2>8 DEF ClientWork
<1>5. CASE HandlerWork
  <2>0. kind = "handler"
    BY <1>5 DEF HandlerWork
  <2>1. CASE StopListener \/ StopConns
    BY <2>0, <2>1 DEF StopListener, StopConns, Unlisten, Closed, netVars, loopVars, tableVars, metricVars
  <2>2. ASSUME NEW c \in Conns, Accept(c, "check") PROVE Recount
    BY <2>0, <2>2 DEF Accept, Goto, netVars, loopVars, tableVars, metricVars
  <2>3. ASSUME NEW c \in Conns, Forward(c) PROVE Recount
    BY <2>0, <2>3 DEF Forward, Goto, netVars, loopVars, tableVars, metricVars
  <2>4. ASSUME NEW c \in Conns, StoreClient(c) PROVE Recount
    BY <2>0, <2>4 DEF StoreClient, Goto, netVars, loopVars, tableVars, metricVars
  <2>5. ASSUME NEW c \in Conns, Count(c, "dial") PROVE Recount
    <3>1. c \notin Counted /\ active' = active + 1
      BY <2>0, <2>5 DEF Count, Goto, Closed, netVars, tableVars, metricVars
    <3>2. Counted' = Counted \cup {c}
      BY <2>0, <2>5 DEF Count, Goto, Closed, netVars, tableVars, metricVars
    <3>3. aborted' \subseteq Conns /\ \A d \in aborted' : H(d)' = "ended"
      BY <2>0, <2>5 DEF Count, Goto, Closed, netVars, tableVars, metricVars
    <3> QED BY <3>1, <3>2, <3>3
  <2>6. ASSUME NEW c \in Conns, Dial(c) PROVE Recount
    <3>1. c \in Counted
      BY <2>0, <2>6 DEF Dial, Goto, Closed, netVars, tableVars, metricVars
    <3>2. \/ Counted' = Counted /\ active' = active
          \/ Counted' = Counted \ {c} /\ active' = active - 1
      BY <2>0, <2>6 DEF Dial, Goto, Closed, netVars, tableVars, metricVars
    <3>3. aborted' \subseteq Conns /\ \A d \in aborted' : H(d)' = "ended"
      BY <2>0, <2>6 DEF Dial, Goto, Closed, netVars, tableVars, metricVars
    <3> QED BY <3>1, <3>2, <3>3
  <2>7. ASSUME NEW c \in Conns, NEW h \in {"in", "out"}, EndCopy(c, h) PROVE Recount
    BY <2>0, <2>7 DEF EndCopy, netVars, loopVars, tableVars, metricVars
  <2>8. ASSUME NEW c \in Conns, CloseClient(c) PROVE Recount
    BY <2>0, <2>8 DEF CloseClient, Goto, Closed, netVars, loopVars, tableVars, metricVars
  <2>9. ASSUME NEW c \in Conns, Uncount(c) PROVE Recount
    <3>1. c \in Counted /\ active' = active - 1
      BY <2>0, <2>9 DEF Uncount, Goto, Closed, netVars, tableVars, metricVars
    <3>2. Counted' = Counted \ {c}
      BY <2>0, <2>9 DEF Uncount, Goto, Closed, netVars, tableVars, metricVars
    <3>3. aborted' \subseteq Conns /\ \A d \in aborted' : H(d)' = "ended"
      BY <2>0, <2>9 DEF Uncount, Goto, Closed, netVars, tableVars, metricVars
    <3> QED BY <3>1, <3>2, <3>3
  <2>10. ASSUME NEW c \in Conns, RemoveClient(c) PROVE Recount
    BY <2>0, <2>10 DEF RemoveClient, Goto, netVars, loopVars, tableVars, metricVars
  <2> HIDE DEF Recount, Counted, H, Counts, TypeOK, History, Begun
  <2> QED BY <1>5, <2>1, <2>2, <2>3, <2>4, <2>5, <2>6, <2>7, <2>8, <2>9, <2>10 DEF HandlerWork
<1>6. CASE HttpWork
  <2>0. kind = "http"
    BY <1>6 DEF HttpWork
  <2>1. CASE Shutdown
    BY <2>0, <2>1 DEF Shutdown, Unlisten, Closed, netVars, loopVars, tableVars, metricVars
  <2>2. ASSUME NEW c \in Conns, Accept(c, "accept") PROVE Recount
    BY <2>0, <2>2 DEF Accept, Goto, netVars, loopVars, tableVars, metricVars
  <2>3. ASSUME NEW c \in Conns, BeginRequest(c) PROVE Recount
    <3>1. c \notin Counted /\ active' = active + 1
      BY <2>0, <2>3 DEF BeginRequest, Goto, Closed, netVars, tableVars, metricVars
    <3>2. Counted' = Counted \cup {c}
      BY <2>0, <2>3 DEF BeginRequest, Goto, Closed, netVars, tableVars, metricVars
    <3>3. aborted' \subseteq Conns /\ \A d \in aborted' : H(d)' = "ended"
      BY <2>0, <2>3 DEF BeginRequest, Goto, Closed, netVars, tableVars, metricVars
    <3> QED BY <3>1, <3>2, <3>3
  <2>4. ASSUME NEW c \in Conns, EndRequest(c) PROVE Recount
    <3>1. c \in Counted /\ active' = active - 1
      BY <2>0, <2>4 DEF EndRequest, Goto, Closed, netVars, tableVars, metricVars
    <3>2. Counted' = Counted \ {c}
      BY <2>0, <2>4 DEF EndRequest, Goto, Closed, netVars, tableVars, metricVars
    <3>3. aborted' \subseteq Conns /\ \A d \in aborted' : H(d)' = "ended"
      BY <2>0, <2>4 DEF EndRequest, Goto, Closed, netVars, tableVars, metricVars
    <3> QED BY <3>1, <3>2, <3>3
  <2>5. ASSUME NEW c \in Conns, AbortRequest(c) PROVE Recount
    <3>1. active' = active
      BY <2>0, <2>5 DEF AbortRequest, Goto, Closed, netVars, tableVars, metricVars
    <3>2. Counted' = Counted
      BY <2>0, <2>5 DEF AbortRequest, Goto, Closed, netVars, tableVars, metricVars
    <3>3. aborted' \subseteq Conns /\ \A d \in aborted' : H(d)' = "ended"
      BY <2>0, <2>5 DEF AbortRequest, Goto, Closed, netVars, tableVars, metricVars
    <3> QED BY <3>1, <3>2, <3>3
  <2> QED BY <1>6, <2>1, <2>2, <2>3, <2>4, <2>5 DEF HttpWork
<1> QED BY <1>1, <1>2, <1>3, <1>4, <1>5, <1>6, Cases

LEMMA CountsStep == TypeOK /\ History /\ Counts /\ [Next]_vars => Counts' /\ active' \in Nat
<1> SUFFICES ASSUME TypeOK, History, Counts, [Next]_vars PROVE Counts' /\ active' \in Nat
  OBVIOUS
<1>1. Recount
  BY RecountStep
<1>2. Counted \subseteq Conns /\ IsFiniteSet(Counted)
  BY ListenerAssumption, FS_Subset DEF Counted, TypeOK
<1>3. Cardinality(Counted) \in Nat
  BY <1>2, FS_CardinalityType
<1>4. ASSUME NEW c \in Conns \ Counted PROVE Cardinality(Counted \cup {c}) = Cardinality(Counted) + 1
  BY <1>2, <1>4, FS_AddElement
<1>5. ASSUME NEW c \in Counted PROVE Cardinality(Counted \ {c}) = Cardinality(Counted) - 1
  BY <1>2, <1>5, FS_RemoveElement
<1>6. Counted' \subseteq Conns
  BY <1>1 DEF Counted, Recount
<1>7. Cardinality(Counted') \in Nat
  BY <1>6, ListenerAssumption, FS_Subset, FS_CardinalityType
<1>8. active' = Cardinality(Counted')
  BY <1>1, <1>3, <1>4, <1>5 DEF Recount, Counts
<1> QED BY <1>1, <1>7, <1>8 DEF Recount, Counts

\* The limit is looked at and the connection entered under one lock.
LEMMA LimitStep == TypeOK /\ LimitKept /\ [Next]_vars => LimitKept'
<1> SUFFICES ASSUME TypeOK, LimitKept, [Next]_vars, kind' = "client"
             PROVE Cardinality(table') <= MaxConnections
  BY DEF LimitKept
<1>1. kind = "client" /\ Cardinality(table) <= MaxConnections /\ IsFiniteSet(table)
  <2>1. kind' = kind
    BY Cases DEF Quiet, conns, Connect, ServerWork, ClientWork, HandlerWork, HttpWork, Close, Take,
                 Store, LookUp, CloseConn, RemoveConn, ReadFirst, CloseOne, StopTunnel, Accept,
                 Register, CheckStopCh, ReadLocal, Send, Find, CheckClosed, WriteLocal, MarkClosed,
                 Shut, Remove, StopListener, StopConns, Forward, StoreClient, Count, Dial,
                 CloseClient, Uncount, RemoveClient, EndCopy, Shutdown, BeginRequest, EndRequest,
                 AbortRequest
  <2> QED BY <2>1, ListenerAssumption, FS_Subset DEF LimitKept, TypeOK
<1>2. ASSUME NEW c \in Conns, Register(c) PROVE Cardinality(table') <= MaxConnections
  <2>1. CASE Cardinality(table) >= MaxConnections
    BY <1>1, <1>2, <2>1 DEF Register
  <2>2. CASE ~(Cardinality(table) >= MaxConnections)
    <3>1. Cardinality(table \cup {c}) <= Cardinality(table) + 1
      <4>1. Cardinality(table) \in Nat
        BY <1>1, FS_CardinalityType
      <4>2. Cardinality(table \cup {c}) = IF c \in table THEN Cardinality(table) ELSE Cardinality(table) + 1
        BY <1>1, FS_AddElement
      <4> QED BY <4>1, <4>2
    <3>2. Cardinality(table \cup {c}) \in Nat /\ Cardinality(table) \in Nat
      BY <1>1, FS_AddElement, FS_CardinalityType
    <3>3. table' = table \cup {c}
      BY <1>2, <2>2 DEF Register
    <3> QED BY <1>1, <2>2, <3>1, <3>2, <3>3, ListenerAssumption
  <2> QED BY <2>1, <2>2
<1>3. CASE \A c \in Conns : ~Register(c)
  <2>1. table' \subseteq table
    BY <1>1, <1>3, Cases, ProcsAre
       DEF Quiet, conns, tableVars, Connect, ServerWork, ClientWork, HandlerWork, HttpWork,
           StopTunnel, Accept, CheckStopCh, ReadLocal, Send, Find, CheckClosed, WriteLocal,
           MarkClosed, Shut, Remove
  <2>2. Cardinality(table') <= Cardinality(table)
    BY <1>1, <2>1, FS_Subset
  <2>3. Cardinality(table') \in Nat /\ Cardinality(table) \in Nat
    BY <1>1, <2>1, FS_Subset, FS_CardinalityType
  <2> QED BY <1>1, <2>2, <2>3, ListenerAssumption
<1> QED BY <1>2, <1>3

-----------------------------------------------------------------------------
(* Types.                                                                  *)

ConnTypes ==
    /\ sock \in [Conns -> {"none", "queued", "open", "closed"}]
    /\ proc \in [Procs -> Places]
    /\ table \subseteq Conns /\ flagged \subseteq Conns /\ closing \subseteq Conns
    /\ halves \in [Conns -> SUBSET {"in", "out"}]
    /\ aborted \subseteq Conns

LoopTypes ==
    /\ kind \in Kinds
    /\ listener \in {"none", "open", "closed"}
    /\ loop \in {"none", "listen", "check", "accept", "store", "ended"}
    /\ taken \subseteq Conns /\ (taken # {} <=> loop = "store")
    /\ stop \in {"none", "early", "closing", "signalled", "unlistened", "waiting", "done", "late"}
    /\ gone \subseteq Conns
    /\ known \in BOOLEAN

\* The connections.
LEMMA ConnTypesStep == TypeOK /\ [Next]_vars => ConnTypes'
<1> SUFFICES ASSUME TypeOK, [Next]_vars PROVE ConnTypes'
  OBVIOUS
<1> USE ListenerAssumption, ProcsAre DEF TypeOK, ConnTypes, Places
<1>1. CASE Quiet
  BY <1>1 DEF Quiet, conns, tableVars, metricVars
<1>2. ASSUME NEW c \in Conns, Connect(c) PROVE ConnTypes'
  BY <1>2 DEF Connect, loopVars, tableVars, metricVars
<1>3. CASE ServerWork
  <2>0. kind = "server"
    BY <1>3 DEF ServerWork
  <2>1. CASE Close
    BY <2>0, <2>1 DEF Close, Unlisten, Closed, netVars, loopVars, tableVars, metricVars
  <2>2. ASSUME NEW c \in Conns, Take(c) PROVE ConnTypes'
    BY <2>0, <2>2 DEF Take, Goto, netVars, loopVars, tableVars, metricVars
  <2>3. ASSUME NEW c \in Conns, Store(c) PROVE ConnTypes'
    BY <2>0, <2>3 DEF Store, Goto, netVars, loopVars, tableVars, metricVars
  <2>4. ASSUME NEW c \in Conns, LookUp(c) \/ ReadFirst(c) PROVE ConnTypes'
    BY <2>0, <2>4 DEF LookUp, ReadFirst, Goto, Closed, netVars, loopVars, tableVars, metricVars
  <2>5. ASSUME NEW c \in Conns, CloseConn(c) \/ CloseOne(c) PROVE ConnTypes'
    BY <2>0, <2>5 DEF CloseConn, CloseOne, Goto, Closed, netVars, loopVars, tableVars, metricVars
  <2>6. ASSUME NEW c \in Conns, RemoveConn(c) PROVE ConnTypes'
    BY <2>0, <2>6 DEF RemoveConn, Goto, netVars, loopVars, tableVars, metricVars
  <2> QED BY <1>3, <2>1, <2>2, <2>3, <2>4, <2>5, <2>6 DEF ServerWork
<1>4. CASE ClientWork
  <2>0. kind = "client"
    BY <1>4 DEF ClientWork
  <2>1. CASE StopTunnel
    BY <2>0, <2>1 DEF StopTunnel, Unlisten, Closed, netVars, loopVars, tableVars, metricVars
  <2>2. ASSUME NEW c \in Conns, Accept(c, "check") PROVE ConnTypes'
    BY <2>0, <2>2 DEF Accept, Goto, netVars, loopVars, tableVars, metricVars
  <2>3. ASSUME NEW c \in Conns, Register(c) PROVE ConnTypes'
    BY <2>0, <2>3 DEF Register, Goto, Closed, netVars, loopVars, tableVars, metricVars
  <2>4. ASSUME NEW c \in Conns, CheckStopCh(c) \/ ReadLocal(c) \/ Send(c) PROVE ConnTypes'
    BY <2>0, <2>4 DEF CheckStopCh, ReadLocal, Send, Goto, netVars, loopVars, tableVars, metricVars
  <2>5. ASSUME NEW c \in Conns, Find(c) \/ CheckClosed(c) \/ WriteLocal(c) PROVE ConnTypes'
    BY <2>0, <2>5 DEF Find, CheckClosed, WriteLocal, Goto, netVars, loopVars, tableVars, metricVars
  <2>6. ASSUME NEW p \in Procs, MarkClosed(p) PROVE ConnTypes'
    BY <2>0, <2>6 DEF MarkClosed, Goto, netVars, loopVars, tableVars, metricVars
  <2>7. ASSUME NEW p \in Procs, Shut(p) PROVE ConnTypes'
    BY <2>0, <2>7 DEF Shut, Goto, Closed, netVars, loopVars, tableVars, metricVars
  <2>8. ASSUME NEW p \in Procs, Remove(p) PROVE ConnTypes'
    BY <2>0, <2>8 DEF Remove, Goto, netVars, loopVars, tableVars, metricVars
  <2> QED BY <1>4, <2>1, <2>2, <2>3, <2>4, <2>5, <2>6, <2>7, <2>8 DEF ClientWork
<1>5. CASE HandlerWork
  <2>0. kind = "handler"
    BY <1>5 DEF HandlerWork
  <2>1. CASE StopListener \/ StopConns
    BY <2>0, <2>1 DEF StopListener, StopConns, Unlisten, Closed, netVars, loopVars, tableVars, metricVars
  <2>2. ASSUME NEW c \in Conns, Accept(c, "check") PROVE ConnTypes'
    BY <2>0, <2>2 DEF Accept, Goto, netVars, loopVars, tableVars, metricVars
  <2>3. ASSUME NEW c \in Conns, Forward(c) PROVE ConnTypes'
    BY <2>0, <2>3 DEF Forward, Goto, netVars, loopVars, tableVars, metricVars
  <2>4. ASSUME NEW c \in Conns, StoreClient(c) PROVE ConnTypes'
    BY <2>0, <2>4 DEF StoreClient, Goto, netVars, loopVars, tableVars, metricVars
  <2>5. ASSUME NEW c \in Conns, Count(c, "dial") PROVE ConnTypes'
    BY <2>0, <2>5 DEF Count, Goto, netVars, loopVars, tableVars, metricVars
  <2>6. ASSUME NEW c \in Conns, Dial(c) PROVE ConnTypes'
    BY <2>0, <2>6 DEF Dial, Goto, netVars, loopVars, tableVars, metricVars
  <2>7. ASSUME NEW c \in Conns, NEW h \in {"in", "out"}, EndCopy(c, h) PROVE ConnTypes'
    BY <2>0, <2>7 DEF EndCopy, netVars, loopVars, tableVars, metricVars
  <2>8. ASSUME NEW c \in Conns, CloseClient(c) PROVE ConnTypes'
    BY <2>0, <2>8 DEF CloseClient, Goto, Closed, netVars, loopVars, tableVars, metricVars
  <2>9. ASSUME NEW c \in Conns, Uncount(c) PROVE ConnTypes'
    BY <2>0, <2>9 DEF Uncount, Goto, netVars, loopVars, tableVars, metricVars
  <2>10. ASSUME NEW c \in Conns, RemoveClient(c) PROVE ConnTypes'
    BY <2>0, <2>10 DEF RemoveClient, Goto, netVars, loopVars, tableVars, metricVars
  <2> QED BY <1>5, <2>1, <2>2, <2>3, <2>4, <2>5, <2>6, <2>7, <2>8, <2>9, <2>10 DEF HandlerWork
<1>6. CASE HttpWork
  <2>0. kind = "http"
    BY <1>6 DEF HttpWork
  <2>1. CASE Shutdown
    BY <2>0, <2>1 DEF Shutdown, Unlisten, Closed, netVars, loopVars, tableVars, metricVars
  <2>2. ASSUME NEW c \in Conns, Accept(c, "accept") PROVE ConnTypes'
    BY <2>0, <2>2 DEF Accept, Goto, netVars, loopVars, tableVars, metricVars
  <2>3. ASSUME NEW c \in Conns, BeginRequest(c) PROVE ConnTypes'
    BY <2>0, <2>3 DEF BeginRequest, Goto, netVars, loopVars, tableVars, metricVars
  <2>4. ASSUME NEW c \in Conns, EndRequest(c) PROVE ConnTypes'
    BY <2>0, <2>4 DEF EndRequest, Goto, Closed, netVars, loopVars, tableVars, metricVars
  <2>5. ASSUME NEW c \in Conns, AbortRequest(c) PROVE ConnTypes'
    BY <2>0, <2>5 DEF AbortRequest, Goto, Closed, netVars, loopVars, tableVars, metricVars
  <2> QED BY <1>6, <2>1, <2>2, <2>3, <2>4, <2>5 DEF HttpWork
<1> QED BY <1>1, <1>2, <1>3, <1>4, <1>5, <1>6, Cases

\* The accept loop and Stop.  A connection is taken by a loop at "accept", and
\* stored by one that holds no other.
LEMMA LoopTypesStep == TypeOK /\ History /\ [Next]_vars => LoopTypes'
<1> SUFFICES ASSUME TypeOK, History, [Next]_vars PROVE LoopTypes'
  OBVIOUS
<1> USE DEF TypeOK, LoopTypes, netVars, loopVars
<1>1. ASSUME Network PROVE LoopTypes'
  BY <1>1 DEF Network, Connect, HangUp
<1>2. ASSUME ServerNext PROVE LoopTypes'
  <2>1. CASE StartTCPListener \/ EndLoop \/ Close \/ EndClose \/ Forget
    BY <2>1 DEF StartTCPListener, EndLoop, Close, EndClose, Forget, Unlisten
  <2>2. ASSUME NEW c \in Conns, Take(c) \/ Store(c) PROVE LoopTypes'
    BY <2>2 DEF Take, Store
  <2>3. ASSUME NEW c \in Conns, ServerHandler(c) \/ ReadFirst(c) \/ CloseOne(c) PROVE LoopTypes'
    BY <2>3 DEF ServerHandler, LookUp, CloseConn, RemoveConn, ReadFirst, CloseOne
  <2> QED BY <1>2, <2>1, <2>2, <2>3 DEF ServerNext, ServerStep
<1>3. ASSUME ClientNext PROVE LoopTypes'
  <2>1. CASE StartTunnel \/ StopTunnel \/ EndLoop \/ CheckStop
    BY <2>1 DEF StartTunnel, StopTunnel, EndLoop, CheckStop, Unlisten
  <2>2. ASSUME NEW c \in Conns, Accept(c, "check") PROVE LoopTypes'
    BY <2>2 DEF Accept
  <2>3. ASSUME NEW c \in Conns, ClientHandler(c) \/ ReadLocal(c) \/ Find(c) \/ HandleRemoteData(c)
        PROVE LoopTypes'
    BY <2>3 DEF ClientHandler, Register, CheckStopCh, Send, ReadLocal, Find, HandleRemoteData,
                CheckClosed, WriteLocal
  <2>4. ASSUME NEW p \in Procs, CloseConnection(p) PROVE LoopTypes'
    BY <2>4 DEF CloseConnection, MarkClosed, Shut, Remove
  <2> QED BY <1>3, <2>1, <2>2, <2>3, <2>4 DEF ClientNext
<1>4. ASSUME TcpNext PROVE LoopTypes'
  <2>1. CASE StartTCP \/ EndLoop \/ CheckStop \/ ContextDone \/ AcceptTimesOut
    BY <2>1 DEF StartTCP, EndLoop, CheckStop, ContextDone, AcceptTimesOut
  <2>2. CASE StopTCP \/ StopListener \/ StopConns
    BY <2>2 DEF StopTCP, StopListener, StopConns, Unlisten
  <2>3. ASSUME NEW c \in Conns, Accept(c, "check") \/ Forward(c) \/ TcpHandling(c) PROVE LoopTypes'
    BY <2>3 DEF Accept, Forward, TcpHandling, StoreClient, Count, Dial, CloseClient, Uncount,
                RemoveClient
  <2>4. ASSUME NEW c \in Conns, NEW h \in {"in", "out"}, EndCopy(c, h) PROVE LoopTypes'
    BY <2>4 DEF EndCopy
  <2> QED BY <1>4, <2>1, <2>2, <2>3, <2>4 DEF TcpNext
<1>5. ASSUME HttpNext PROVE LoopTypes'
  <2>1. CASE StartHTTP \/ ListenAndServe \/ EndLoop \/ StopUnstarted \/ Shutdown \/ EndShutdown
    BY <2>1 DEF StartHTTP, ListenAndServe, EndLoop, StopUnstarted, Shutdown, EndShutdown, Unlisten
  <2>2. ASSUME NEW c \in Conns, Accept(c, "accept") \/ HttpHandling(c) PROVE LoopTypes'
    BY <2>2 DEF Accept, HttpHandling, BeginRequest, EndRequest, AbortRequest
  <2> QED BY <1>5, <2>1, <2>2 DEF HttpNext
<1>6. CASE UNCHANGED vars
  BY <1>6 DEF vars
<1> QED BY <1>1, <1>2, <1>3, <1>4, <1>5, <1>6 DEF Next

-----------------------------------------------------------------------------
(* The theorems.                                                           *)

LEMMA Initially == Init => IInv
<1> SUFFICES ASSUME Init PROVE IInv
  OBVIOUS
<1> USE ListenerAssumption, ProcsAre DEF Init
<1>1. TypeOK
  BY DEF TypeOK, Places
<1>2. History
  BY DEF History, Apart, Begun, Marked, PastClose, H, R, Stopping
<1>3. EntryHasOwner /\ SocketHasOwner
  BY DEF EntryHasOwner, SocketHasOwner
<1>4. Counts
  <2>1. Counted = {}
    BY DEF Counted, H
  <2> QED BY <2>1, FS_EmptySet DEF Counts
<1>5. LimitKept
  BY FS_EmptySet DEF LimitKept
<1> QED BY <1>1, <1>2, <1>3, <1>4, <1>5 DEF IInv

\* The invariant: types, the history of each connection, who sees to it, the
\* count and the limit.
THEOREM Inductive == Spec => []IInv
<1>1. ASSUME IInv, [Next]_vars PROVE IInv'
  <2> USE <1>1 DEF IInv
  <2>1. Counts' /\ active' \in Nat
    BY CountsStep
  <2>2. ConnTypes' /\ LoopTypes'
    BY ConnTypesStep, LoopTypesStep
  <2>3. TypeOK'
    BY <2>1, <2>2 DEF ConnTypes, LoopTypes, TypeOK
  <2>4. History' /\ (EntryHasOwner /\ SocketHasOwner)' /\ LimitKept'
    BY HistoryStep, OwnersStep, LimitStep
  <2> QED BY <2>1, <2>3, <2>4
<1> QED BY <1>1, Initially, PTL DEF Spec

\* Every variable keeps its type; in particular the metric never goes below
\* zero.
THEOREM TypeCorrect == Spec => []TypeOK
<1>1. IInv => TypeOK
  BY DEF IInv
<1> QED BY <1>1, Inductive, PTL

\* An entry of a table has somebody who takes it out.
THEOREM EntriesAreOwned == Spec => []EntryHasOwner
<1>1. IInv => EntryHasOwner
  BY DEF IInv
<1> QED BY <1>1, Inductive, PTL

\* An accepted connection is closed by somebody on every path.
THEOREM SocketsAreOwned == Spec => []SocketHasOwner
<1>1. IInv => SocketHasOwner
  BY DEF IInv
<1> QED BY <1>1, Inductive, PTL

\* The client's limit holds whatever it is.
THEOREM LimitHolds == Spec => []LimitKept
<1>1. IInv => LimitKept
  BY DEF IInv
<1> QED BY <1>1, Inductive, PTL

\* With no goroutine left, the metric counts the aborted requests and nothing
\* else.
THEOREM CountComesBack == Spec => []CountReturns
<1>1. IInv => CountReturns
  <2> SUFFICES ASSUME IInv, \A p \in Procs : Idle(p) PROVE active = Cardinality(aborted)
    BY DEF CountReturns
  <2>1. Counted = aborted
    BY ProcsAre DEF Counted, Idle, H
  <2> QED BY <2>1 DEF IInv, Counts
<1> QED BY <1>1, Inductive, PTL
-----------------------------------------------------------------------------
(* How often the client closes a connection, and what is left at the end.  *)

\* closeConnection and Stop between them close a connection of the client once:
\* whoever has come to close it finds it open, and is alone.
ClosedOnce ==
    kind = "client" => \A c \in Conns :
        /\ H(c) = "shut" => sock[c] = "open" /\ R(c) # "shut"
        /\ R(c) = "shut" => sock[c] = "open"

\* A connection nobody has marked is in use and open, and nobody has come past
\* the mark.
Unmarked ==
    kind = "client" => \A c \in Conns \ flagged :
        /\ \/ c \in table \/ R(c) # "none"
           \/ H(c) \in {"begin", "check", "read", "send", "drop"}
           => sock[c] = "open"
        /\ H(c) \notin {"shut", "remove"} /\ R(c) \notin {"shut", "remove"}

LEMMA InitOnce == Init => Unmarked /\ ClosedOnce
  BY ProcsAre DEF Init, Unmarked, ClosedOnce, H, R

LEMMA OnceStep ==
  ASSUME TypeOK, History, Unmarked, ClosedOnce, [Next]_vars
  PROVE  Unmarked' /\ ClosedOnce'
<1> USE ListenerAssumption, ProcsAre
    DEF TypeOK, History, Apart, Begun, PastClose, H, R, Unmarked, ClosedOnce
<1>1. CASE Quiet
  BY <1>1 DEF Quiet, conns, tableVars, metricVars
<1>2. ASSUME NEW c \in Conns, Connect(c) PROVE Unmarked' /\ ClosedOnce'
  BY <1>2 DEF Connect, loopVars, tableVars, metricVars
<1>3. CASE ClientWork
  <2>0. kind = "client"
    BY <1>3 DEF ClientWork
  <2>1. CASE StopTunnel
    BY <2>0, <2>1 DEF StopTunnel, Unlisten, Closed, netVars, loopVars, tableVars, metricVars
  <2>2. ASSUME NEW c \in Conns, Accept(c, "check") PROVE Unmarked' /\ ClosedOnce'
    BY <2>0, <2>2 DEF Accept, Goto, netVars, loopVars, tableVars, metricVars
  <2>3. ASSUME NEW c \in Conns, Register(c) PROVE Unmarked' /\ ClosedOnce'
    BY <2>0, <2>3 DEF Register, Goto, Closed, netVars, loopVars, tableVars, metricVars
  <2>4. ASSUME NEW c \in Conns, CheckStopCh(c) \/ ReadLocal(c) \/ Send(c)
        PROVE  Unmarked' /\ ClosedOnce'
    BY <2>0, <2>4 DEF CheckStopCh, ReadLocal, Send, Goto, netVars, loopVars, tableVars, metricVars
  <2>5. ASSUME NEW c \in Conns, Find(c) \/ CheckClosed(c) \/ WriteLocal(c)
        PROVE  Unmarked' /\ ClosedOnce'
    BY <2>0, <2>5 DEF Find, CheckClosed, WriteLocal, Goto, netVars, loopVars, tableVars, metricVars
  <2>6. ASSUME NEW p \in Procs, MarkClosed(p) PROVE Unmarked' /\ ClosedOnce'
    <3>1. PICK c \in Conns : p = HandlerOf(c) \/ p = RemoteOf(c)
      OBVIOUS
    <3>2. ConnOf(p) = c /\ Return(p) \in {"ended", "none"}
      BY <3>1
    <3>3. /\ flagged' = flagged \cup {c}
          /\ UNCHANGED <<kind, sock, table>>
          /\ \A d \in Conns \ {c} : H(d)' = H(d) /\ R(d)' = R(d)
      BY <2>6, <3>1, <3>2 DEF MarkClosed, Goto, netVars, tableVars
    <3>4. CASE p = HandlerOf(c)
      <4>1. /\ H(c) = "drop" /\ R(c)' = R(c)
            /\ H(c)' = IF c \in flagged THEN "ended" ELSE "shut"
        BY <2>6, <3>2, <3>4 DEF MarkClosed, Goto
      <4>2. Unmarked'
        BY <2>0, <3>3
      <4>3. ClosedOnce'
        BY <2>0, <3>3, <4>1
      <4> QED BY <4>2, <4>3
    <3>5. CASE p = RemoteOf(c)
      <4>1. /\ R(c) = "drop" /\ H(c)' = H(c)
            /\ R(c)' = IF c \in flagged THEN "none" ELSE "shut"
        BY <2>6, <3>2, <3>5 DEF MarkClosed, Goto
      <4>2. Unmarked'
        BY <2>0, <3>3
      <4>3. ClosedOnce'
        BY <2>0, <3>3, <4>1
      <4> QED BY <4>2, <4>3
    <3> QED BY <3>1, <3>4, <3>5
  <2>7. ASSUME NEW p \in Procs, Shut(p) PROVE Unmarked' /\ ClosedOnce'
    <3>1. PICK c \in Conns : p = HandlerOf(c) \/ p = RemoteOf(c)
      OBVIOUS
    <3>2. ConnOf(p) = c
      BY <3>1
    <3>3. /\ UNCHANGED <<kind, flagged, table>>
          /\ \A d \in Conns \ {c} : sock'[d] = sock[d] /\ H(d)' = H(d) /\ R(d)' = R(d)
          /\ H(c) = "shut" \/ R(c) = "shut"
      BY <2>7, <3>1, <3>2 DEF Shut, Goto, Closed, tableVars
    <3>4. c \in flagged /\ ~(H(c) = "shut" /\ R(c) = "shut")
      BY <2>0, <3>3
    <3>5. ~(H(c)' = "shut") /\ ~(R(c)' = "shut")
      BY <2>7, <3>1, <3>4 DEF Shut, Goto
    <3> QED BY <2>0, <3>3, <3>4, <3>5
  <2>8. ASSUME NEW p \in Procs, Remove(p) PROVE Unmarked' /\ ClosedOnce'
    BY <2>0, <2>8 DEF Remove, Goto, netVars, loopVars, tableVars, metricVars
  <2> QED BY <1>3, <2>1, <2>2, <2>3, <2>4, <2>5, <2>6, <2>7, <2>8 DEF ClientWork
<1>4. ASSUME ServerWork \/ HandlerWork \/ HttpWork
      PROVE  kind # "client" /\ kind' = kind
  BY <1>4 DEF ServerWork, HandlerWork, HttpWork, Close, Take, Store, LookUp, CloseConn,
         RemoveConn, ReadFirst, CloseOne, StopListener, StopConns, Accept, Forward,
         StoreClient, Count, Dial, CloseClient, Uncount, RemoveClient, EndCopy, Shutdown,
         BeginRequest, EndRequest, AbortRequest
<1> QED BY <1>1, <1>2, <1>3, <1>4, Cases

\* The flag, which each of the three closers looks at in a critical section of
\* its own, keeps the second and the third from closing what the first is at.
THEOREM ConnectionClosedOnce == Spec => []ClosedOnce
<1>1. IInv /\ Unmarked /\ ClosedOnce /\ [Next]_vars => (Unmarked /\ ClosedOnce)'
  BY OnceStep DEF IInv
<1> QED
  BY <1>1, InitOnce, Inductive, PTL DEF Spec

\* The goroutines of all connections have come to their end, and Close has too.
AtRest == taken = {} /\ closing = {} /\ \A p \in Procs : Idle(p)

NothingLeft ==
    AtRest => /\ \A c \in Conns : sock[c] # "open"
              /\ table = {} \/ (kind = "server" /\ ~known)

\* When all is at rest no connection is open and the table is empty: nothing is
\* left that nobody would close, whatever the order the connections, Stop and
\* the peers came in.
THEOREM NothingIsLeft == Spec => []NothingLeft
<1>1. IInv => NothingLeft
  BY ProcsAre DEF IInv, TypeOK, EntryHasOwner, SocketHasOwner, NothingLeft, AtRest, Idle
<1> QED
  BY <1>1, Inductive, PTL
=============================================================================
