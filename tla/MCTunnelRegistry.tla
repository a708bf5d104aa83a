-------------------------- MODULE MCTunnelRegistry --------------------------
(***************************************************************************)
(* Instances of TunnelRegistry.  One user suffices for the limit, since    *)
(* nothing relates the counters of two users; an anonymous request shares  *)
(* the registry and the reapers with the user's.                           *)
(***************************************************************************)
EXTENDS TunnelRegistry, TLC
CONSTANTS u1, Anonymous

\* Every request is u1's, but for the Anonymous ones.
MCOwner == [r \in Requests |-> IF r \in Anonymous THEN NoUser ELSE u1]

\* The requests that are not Anonymous are interchangeable.
MCSymmetry == Permutations(Requests \ Anonymous)
=============================================================================
