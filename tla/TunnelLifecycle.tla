--------------------------- MODULE TunnelLifecycle --------------------------
(***************************************************************************)
(* What the server promises about one tunnel, whoever removes it: it is    *)
(* opened at most once, exactly one goroutine closes it, the closing ends, *)
(* and nothing brings it back.  A restart of the process forgets every     *)
(* tunnel at once, together with the requests it had not answered.         *)
(***************************************************************************)
CONSTANT Tunnels

VARIABLE phase

Phases == {"absent", "live", "closing", "gone"}

Init == phase = [t \in Tunnels |-> "absent"]

In(x) == {t \in Tunnels : phase[t] = x}

\* The tunnels of S move to phase x together, the others stay.
Move(S, x) == phase' = [t \in Tunnels |-> IF t \in S THEN x ELSE phase[t]]

Open(t) == t \in In("absent") /\ Move({t}, "live")

\* One removal may take several tunnels out at once.
Close(S) == S # {} /\ S \subseteq In("live") /\ Move(S, "closing")

Finish(t) == t \in In("closing") /\ Move({t}, "gone")

Forget(S) == S \subseteq In("absent") /\ Move(S \cup In("live") \cup In("closing"), "gone")

Next ==
    \/ \E t \in Tunnels : Open(t) \/ Finish(t)
    \/ \E S \in SUBSET Tunnels : Close(S) \/ Forget(S)

Spec == Init /\ [][Next]_phase

FairSpec == Spec /\ \A t \in Tunnels : WF_phase(Finish(t))
=============================================================================
