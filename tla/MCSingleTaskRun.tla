---------------------------- MODULE MCSingleTaskRun ----------------------------
(* SingleTaskRun for TLC: a runner that succeeds with a clean patch, and   *)
(* one that fails and leaves a patch.                                      *)
EXTENDS SingleTaskRun

TwoResults == {Ran(TRUE, "clean", FALSE), Ran(FALSE, "clean", FALSE)}
=============================================================================
