--------------------------- MODULE MCJsonBuilder ---------------------------
(* JsonBuilder for TLC, see the .cfg files.  The table has two partitions to boot *)
(* from, so that a failure may strike between two rows.                           *)
EXTENDS JsonBuilder

MCCaps == <<"any", "exec">>
MCAppPartitions == <<"factory", "ota_0">>
MCDataPartitions == <<"nvs">>

=============================================================================
