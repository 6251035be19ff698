---------------------------- MODULE MCAdaptiveRun ----------------------------
(* AdaptiveRun for TLC: every value comes from the .cfg file.  No symmetry *)
(* of the candidates is used, since the run checks liveness too.           *)
EXTENDS AdaptiveRun
=============================================================================
