-------------------------- MODULE MCTunnelManager --------------------------
(***************************************************************************)
(* Instances of TunnelManager.  The tunnels SamePort compete for one port, *)
(* the tunnels Anonymous have no user.                                     *)
(*                                                                         *)
(* A behaviour looks at one half of what may happen: at tunnels that are   *)
(* started and stopped, those of Started, in one process and without a     *)
(* save before the last, or at saves and crashes, over tunnels that get no *)
(* further than the table, where RestartTunnel changes nothing.  What the  *)
(* halves share are the table, the owner and Close.                        *)
(***************************************************************************)
EXTENDS TunnelManager
CONSTANTS u1, SamePort, Anonymous, Started
VARIABLE half

MCUserOf == [t \in Tunnels |-> IF t \in Anonymous THEN NoUser ELSE u1]
MCPortOf == [t \in Tunnels |-> IF t \in SamePort THEN "shared" ELSE t]

MCInit == Init /\ half \in {"stops", "saves"}

InHalf ==
    \/ half = "stops" /\ created \subseteq Started /\ crashes = 0 /\ auto \notin Ticks /\ ~Saving
    \/ /\ half = "saves" /\ call[1] \notin {"restart", "mark"}
       /\ \A t \in Tunnels : stage[t] \in {"none", "begin"}

MCNext == Next /\ UNCHANGED half /\ InHalf'

MCSpec == MCInit /\ [][MCNext]_<<vars, half>>
=============================================================================
