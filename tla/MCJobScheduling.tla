-------------------------- MODULE MCJobScheduling --------------------------
(***************************************************************************)
(* JobScheduling for TLC. Clients, jobs and run slots are model values that *)
(* nothing orders, so that the safety runs may treat them as symmetric.    *)
(***************************************************************************)
EXTENDS JobScheduling, TLC

Symmetry == Permutations(Clients) \cup Permutations(Jobs) \cup Permutations(Runs)
=============================================================================
