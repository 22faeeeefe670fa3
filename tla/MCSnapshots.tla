---------------------------- MODULE MCSnapshots ----------------------------
(* Instances of Snapshots for TLC: QEMU's calls may be refused, those of the *)
(* daemon are not.                                                           *)
EXTENDS Snapshots
=============================================================================
