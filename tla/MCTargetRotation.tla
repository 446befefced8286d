-------------------------- MODULE MCTargetRotation --------------------------
(* Small instances of TargetRotation for TLC. *)
EXTENDS TargetRotation
=============================================================================
