-------------------------- MODULE MCStreamEncoder --------------------------
(* An instance of StreamEncoder for TLC: four pictures, behind a queue of two. *)
EXTENDS StreamEncoder
=============================================================================
