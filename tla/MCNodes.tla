------------------------------ MODULE MCNodes ------------------------------
(* Instances of Nodes for TLC. *)
EXTENDS Nodes, TLC
=============================================================================
