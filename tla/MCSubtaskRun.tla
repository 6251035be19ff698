------------------------------ MODULE MCSubtaskRun ------------------------------
(* SubtaskRun for TLC: two subtasks, independent or one after the other, a *)
(* runner that leaves a patch, clean or stray, or none, and the opinions that differ. *)
EXTENDS SubtaskRun

TwoTasks == {1, 2}

ThreeResults == {Ran(TRUE, p, FALSE) : p \in {"clean", "stray", "none"}}

TwoFindings == {"passed", "failed"}

Interruptions == {"started", "ran", "accepted"}

TwoOpinions == {"accept", "fail"}

(* In a chain three attempts are enough for a deadlock and a candidate of  *)
(* the fallback, and for a retry and a dependent subtask; of independent   *)
(* subtasks one attempt each, or two at one of them.  What follows an      *)
(* acceptance that raised is looked into with independent subtasks, of     *)
(* which the other one is tried next.                                      *)
FewAttempts ==
    LET all == Len(d.attempts[1]) + Len(d.attempts[2]) + Len(cands) IN
    IF d.deps[2] = {} THEN all <= (IF d.late THEN 1 ELSE 2) ELSE all <= 3 /\ ~d.late

IndependentOrChain == {[s \in TwoTasks |-> {}], [s \in TwoTasks |-> IF s = 2 THEN {1} ELSE {}]}
=============================================================================
