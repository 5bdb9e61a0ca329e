------------------------------- MODULE MCMqtt -------------------------------
(* Mqtt for TLC: the timeouts are a few ticks, see the .cfg files. *)
EXTENDS Mqtt

=============================================================================
