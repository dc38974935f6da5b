-------------------------- MODULE MCRepositoryIndex --------------------------
(* Small instances of RepositoryIndex for TLC. *)
EXTENDS RepositoryIndex, TLC

=============================================================================
