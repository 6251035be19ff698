----------------------------- MODULE MCVerifierRun -----------------------------
(* VerifierRun for TLC: reports between which the ranking tells, and the   *)
(* configurations with a pool of two.                                      *)
EXTENDS VerifierRun

Bare == [Error EXCEPT !.patch = TRUE]
RepoTest == [meta |-> None, inline |-> FALSE, paths |-> "none", validates |-> TRUE,
             passed |-> "yes", abnormal |-> FALSE]

Accepted == [Bare EXCEPT !.result = 1, !.action = "accept", !.covered = "yes", !.proven = TRUE, !.confidence = 1]
Tested   == [Bare EXCEPT !.result = 1, !.log = {RepoTest}]
Hollow   == [Accepted EXCEPT !.patch = FALSE]
Doubtful == [Bare EXCEPT !.result = 0, !.confidence = 1]
Rejected == [Bare EXCEPT !.result = 0, !.confidence = 2]

FiveReports == {Accepted, Tested, Hollow, Doubtful, Rejected}

Pools == {s \in Setting : s.width = IF s.mode = "parallel" THEN 2 ELSE 1}
=============================================================================
