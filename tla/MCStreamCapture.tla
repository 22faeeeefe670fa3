-------------------------- MODULE MCStreamCapture --------------------------
(* An instance of StreamCapture for TLC: intervals of two and four ticks, *)
(* and pictures of which the first and the last differ visibly.            *)
EXTENDS StreamCapture
=============================================================================
