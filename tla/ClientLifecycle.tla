-------------------------- MODULE ClientLifecycle ---------------------------
(***************************************************************************)
(* What the client's Tunnel promises to who starts and stops it: Stop acts *)
(* on a tunnel that is being started or is up, and on no other; and once   *)
(* stopped, or given up, it never comes up again, whatever still runs in   *)
(* it.  A call of Start that fails leaves it as it was, or is the last:    *)
(* then nothing of the tunnel remains, or what had been started by then    *)
(* is left, connected perhaps, and out of Stop's reach until it ends by    *)
(* itself.                                                                 *)
(*                                                                         *)
(* ClientTunnel implements it.  TunnelManager, which starts and stops      *)
(* tunnels, takes each of them for one of these.                           *)
(***************************************************************************)
VARIABLE state

States == {"idle", "starting", "up", "failed", "left", "stopped"}

Init == state = "idle"

Begin == state = "idle" /\ state' = "starting"

Succeed == state = "starting" /\ state' = "up"

\* Start returns an error: it may be called again, or the caller gives up.
Fail == state = "starting" /\ state' \in {"idle", "failed", "left"}

\* The goroutines and connections of a call that failed have come to an end.
Fade == state = "left" /\ state' = "failed"

Stop == state \in {"starting", "up"} /\ state' = "stopped"

Next == Begin \/ Succeed \/ Fail \/ Fade \/ Stop

Spec == Init /\ [][Next]_state
=============================================================================
