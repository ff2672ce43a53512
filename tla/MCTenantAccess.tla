--------------------------- MODULE MCTenantAccess ---------------------------
(* Two users and two requests under way, any pair of which may interleave. *)
EXTENDS TenantAccess, TLC

Symmetry == Permutations(Users) \union Permutations(Requests)
=============================================================================
