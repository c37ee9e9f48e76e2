-------------------------- MODULE MCNetworkEntities -------------------------
(* The clients are alike.                                                  *)
EXTENDS NetworkEntities

Symmetry == Permutations(Clients)
=============================================================================
