----------------------------- MODULE MCElection -----------------------------
(***************************************************************************)
(* An instance of Election with distinct priorities, as operators set them. *)
(***************************************************************************)
EXTENDS Election

Ranked == [n \in Nodes |-> n]
============================================================================
