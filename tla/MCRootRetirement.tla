-------------------------- MODULE MCRootRetirement --------------------------
(* Small instances of RootRetirement for TLC. *)
EXTENDS RootRetirement
=============================================================================
