---------------------------- MODULE MCStableHash ----------------------------
(* Instances of StableHash for TLC. *)
EXTENDS StableHash
=============================================================================
