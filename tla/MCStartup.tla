----------------------------- MODULE MCStartup -----------------------------
(* Startup for TLC, see the .cfg files. *)
EXTENDS Startup

=============================================================================
