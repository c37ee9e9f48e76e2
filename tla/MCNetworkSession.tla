-------------------------- MODULE MCNetworkSession --------------------------
(* Symmetry of the runs of NetworkSession that check invariants. *)
EXTENDS NetworkSession, TLC

Symmetry == Permutations(Peers)
=============================================================================
