------------------------------- MODULE MCOta -------------------------------
(* Ota for TLC, see the .cfg files.  The buffers of the heap are alike, which *)
(* the runs that check no liveness property make use of.                      *)
EXTENDS Ota, TLC

BufferSymmetry == Permutations(Buffers)

=============================================================================
