------------------------ MODULE MCControllerDelivery ------------------------
(* ControllerDelivery for TLC: two backends, the first tried twice at     *)
(* most.  A setting that another one subsumes is left out: stdin does not *)
(* matter when nobody is to be asked, nor the verdict when always is set.  *)
EXTENDS ControllerDelivery

TwoBackends == {<<2, 1>>}

Distinguished == {s \in Setting : ~(s.nonInteractive /\ s.terminal) /\ ~(s.always /\ s.onUncertain)}
=============================================================================
