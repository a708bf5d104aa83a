------------------------- MODULE RequestForwarding --------------------------
(***************************************************************************)
(* What the server promises about an HTTP request for a tunnel, whatever   *)
(* becomes of the tunnel and of its connections: once it is received whole *)
(* it ends, once, and with an outcome that has its cause.  Nothing is said *)
(* of when its HTTP user has sent it.  The client's answer is relayed only *)
(* if the client gave one to this very request, and a request is cancelled *)
(* only by the shutdown.                                                   *)
(***************************************************************************)
CONSTANT Requests

VARIABLES
    stage,      \* stage[q]: absent, arriving, pending, or the outcome of request q
    answered,   \* the requests the client has answered
    stopping    \* whether the server is shutting down

vars == <<stage, answered, stopping>>

Outcomes == {"answered", "not_forwarded", "failed", "timeout", "cancelled"}
Stages == {"absent", "arriving", "pending"} \cup Outcomes

Init ==
    /\ stage = [q \in Requests |-> "absent"]
    /\ answered = {}
    /\ stopping = FALSE

\* A request for no tunnel the server forwards to is over at once.
Begin(q) ==
    /\ stage[q] = "absent" /\ ~stopping
    /\ \E x \in {"arriving", "not_forwarded"} : stage' = [stage EXCEPT ![q] = x]
    /\ UNCHANGED <<answered, stopping>>

\* It is received, or breaks off, or finds no connection to forward it over.
Receive(q) ==
    /\ stage[q] = "arriving"
    /\ \E x \in {"pending", "failed", "not_forwarded"} : stage' = [stage EXCEPT ![q] = x]
    /\ UNCHANGED <<answered, stopping>>

\* A client may answer late: what it answers may be over.
ClientAnswers(q) ==
    /\ stage[q] # "absent" /\ q \notin answered
    /\ answered' = answered \cup {q}
    /\ UNCHANGED <<stage, stopping>>

BeginStop == ~stopping /\ stopping' = TRUE /\ UNCHANGED <<stage, answered>>

Finish(q) ==
    /\ stage[q] = "pending"
    /\ \E outcome \in Outcomes \ {"not_forwarded"} :
           /\ outcome = "answered" => q \in answered
           /\ outcome = "cancelled" => stopping
           /\ stage' = [stage EXCEPT ![q] = outcome]
    /\ UNCHANGED <<answered, stopping>>

Next ==
    \/ \E q \in Requests : Begin(q) \/ Receive(q) \/ ClientAnswers(q) \/ Finish(q)
    \/ BeginStop

Spec == Init /\ [][Next]_vars

FairSpec == Spec /\ \A q \in Requests : WF_vars(Finish(q))
=============================================================================
