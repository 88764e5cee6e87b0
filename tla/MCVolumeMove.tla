---------------------------- MODULE MCVolumeMove ----------------------------
(* Small instances of VolumeMove for TLC. *)
EXTENDS VolumeMove
=============================================================================
