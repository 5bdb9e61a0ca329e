------------------------------- MODULE MCNode -------------------------------
(* Node for TLC, see the .cfg files. *)
EXTENDS Node

=============================================================================
