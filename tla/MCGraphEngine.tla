---------------------------- MODULE MCGraphEngine ----------------------------
(***************************************************************************)
(* GraphEngine for TLC.  The planner may propose anything about two        *)
(* subtasks: no dependency, one on the other (which leaves it starving),   *)
(* either on itself or on both, a circle, a name that is no subtask.  Or   *)
(* the second has an earlier entry with any dependencies, which the later  *)
(* one, with none, hides.  The candidates are interchangeable: no          *)
(* definition orders them.                                                 *)
(***************************************************************************)
EXTENDS GraphEngine, TLC

CONSTANTS s1, s2, small, large

TwoSubtasks == {s1, s2}
Free        == [deps |-> {}, parallel |-> "no"]
Once        == {[last |-> f, hidden |-> [s \in Subtasks |-> {}], described |-> d] :
                   f \in [Subtasks -> Entry], d \in BOOLEAN}
Twice       == {[last |-> [s \in Subtasks |-> Free], hidden |-> (s1 :> {} @@ s2 :> {e}), described |-> TRUE] :
                   e \in Entry}
AnyProposal == Once \cup Twice
NoOrder     == {p \in Once : Deps(p) = [s \in Subtasks |-> {}]}
OneAndTwo   == [b \in Backends |-> IF b = small THEN 1 ELSE 2]

CandidateSymmetry == Permutations(Candidates)
=============================================================================
