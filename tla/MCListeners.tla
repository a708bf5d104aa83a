---------------------------- MODULE MCListeners ----------------------------
(***************************************************************************)
(* The listeners of the program one by one, and as the last of them the    *)
(* callback port of `nxpose register`, which is Registration's.            *)
(***************************************************************************)
EXTENDS Listeners, Registration

MCInit == Init /\ RegInit

MCNext ==
    \/ kind # "callback" /\ Next /\ UNCHANGED regVars
    \/ kind = "callback" /\ RegNext /\ UNCHANGED vars

MCSpec == MCInit /\ [][MCNext]_<<vars, regVars>> /\ Fairness /\ RegFairness
=============================================================================
