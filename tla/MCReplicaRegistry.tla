-------------------------- MODULE MCReplicaRegistry --------------------------
(* Small instances of ReplicaRegistry for TLC. *)
EXTENDS ReplicaRegistry
=============================================================================
