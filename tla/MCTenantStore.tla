---------------------------- MODULE MCTenantStore ----------------------------
(* Small instances of TenantStore for TLC. *)
EXTENDS TenantStore, TLC

Symmetry == Permutations(Writer)
=============================================================================
