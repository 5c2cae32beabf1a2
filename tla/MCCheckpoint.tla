---------------------------- MODULE MCCheckpoint ----------------------------
(* TLC instances of Checkpoint. *)
EXTENDS Checkpoint, TLC

=============================================================================
