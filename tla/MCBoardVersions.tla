--------------------------- MODULE MCBoardVersions ---------------------------
(* An instance of BoardVersions.  Users and keys are only told apart.  One *)
(* request is under way at a time while a scheduling is due.               *)
EXTENDS BoardVersions, TLC

Small ==
    prd.due > 0 => Cardinality({u \in Users : request[u] # Nothing}) <= 1

Symmetry == Permutations(Users) \cup Permutations(Keys)
=============================================================================
