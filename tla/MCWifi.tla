------------------------------ MODULE MCWifi ------------------------------
(* Wifi for TLC, see the .cfg files. *)
EXTENDS Wifi

Endless == -1

=============================================================================
