---------------------------- MODULE AttemptEvidence ----------------------------
(***************************************************************************)
(* One attempt of the agentic orchestrator, the evidence gathered about it *)
(* and what is concluded from that evidence: the acceptance gate           *)
(* (core/acceptance.py), the observation on which the next step is based   *)
(* (create_attempt_observation, agentic/tools.py) and its freshness.       *)
(***************************************************************************)
EXTENDS Naturals, Sequences

(* What a runner leaves behind.  A patch is bad when it does not apply, is *)
(* not in git's format, or holds scratch or internal files, and stray when *)
(* a subtask's changes files that are not the subtask's; a debug trace     *)
(* that was found is attached as an inconclusive validation.  A runner     *)
(* that raises leaves no patch.                                            *)
Ran(ok, patch, traced) ==
    [ok |-> ok, status |-> IF ok THEN "completed" ELSE "failed", patch |-> patch,
     val |-> IF traced THEN "inconclusive" ELSE "none", review |-> "none"]

Patches == {"none", "bad", "stray", "clean"}

RunResults == {Ran(ok, p, t) : ok \in BOOLEAN, p \in Patches \ {"stray"}, t \in BOOLEAN}

(* make_validation_decision: blocking commands decide; without one the     *)
(* validation is inconclusive.                                             *)
Decided == {"passed", "failed", "inconclusive"}

(* A review: it accepts, accepts but lists issues, or fails; an outage is  *)
(* the failing one that stands for three reviews that could not be had.    *)
Verdicts == {"accept", "issues", "fail", "outage"}

Attempt == [ok : BOOLEAN, status : {"completed", "failed", "reviewed", "rejected", "accepted"},
            patch : Patches, val : Decided \cup {"none"}, review : Verdicts \cup {"none"}]

Validated(a, v) == [a EXCEPT !.val = v]

Reviewed(a, r) ==
    [a EXCEPT !.review = r, !.status = IF a.status = "failed" THEN "rejected" ELSE "reviewed"]

ReviewStatus(a) ==
    CASE a.review \in {"accept", "issues"} -> "passed"
      [] a.review = "fail" -> "failed"
      [] OTHER -> a.review

-----------------------------------------------------------------------------
(* is_attempt_acceptance_eligible.  The validation of a subtask's attempt  *)
(* is left to the integration.                                             *)
MutEligible(a, scope) ==
    /\ a.ok /\ a.status \notin {"failed", "rejected"}
    /\ a.patch = "clean"
    /\ a.review = "accept"
    /\ scope # "subtask" => a.val \in {"passed", "inconclusive"}

Eligible(a, scope) ==
    /\ a.ok /\ a.status \notin {"failed", "rejected"}
    /\ a.patch = "clean"
    /\ a.review = "accept"
    /\ scope # "subtask" => a.val = "passed"

(* The outcome of an observation, by the first thing that went wrong.      *)
Outcome(a, scope) ==
    CASE ~a.ok -> "runner_failed"
      [] a.ok /\ a.patch = "none" -> "no_patch"
      [] a.ok /\ a.patch = "bad" -> "patch_failed"
      [] a.ok /\ a.patch = "stray" -> "scope_failed"
      [] a.ok /\ a.patch = "clean" /\ a.val = "failed" -> "validation_failed"
      [] a.ok /\ a.patch = "clean" /\ a.val # "failed" /\ a.review \in {"fail", "outage"} -> "review_failed"
      [] OTHER -> IF Eligible(a, scope) THEN "accepted" ELSE "partial_progress"

(* The snapshots by which an observation is found out of date.             *)
MutSnapshot(a) == <<a.val>>

Snapshot(a) == <<a.val, ReviewStatus(a)>>

Observation(a, scope) == [outcome |-> Outcome(a, scope), seen |-> Snapshot(a)]

(* The observations, by the id of the attempt, and which one is the last.  *)
NoObservations == [of |-> <<>>, latest |-> 0]

(* create_attempt_observation: the observation of an attempt replaces the  *)
(* earlier one and becomes the latest of all.                              *)
Observing(log, id, a, scope) ==
    [of |-> [i \in DOMAIN log.of \cup {id} |-> IF i = id THEN Observation(a, scope) ELSE log.of[i]],
     latest |-> id]

Observed(log, id) == id \in DOMAIN log.of

Fresh(log, id, a) == Observed(log, id) /\ log.of[id].seen = Snapshot(a)

(* A handler that changes the evidence of an attempt refreshes its         *)
(* observation, if it has one.                                             *)
Refreshing(log, id, a, scope) == IF Observed(log, id) THEN Observing(log, id, a, scope) ELSE log

-----------------------------------------------------------------------------
(* What an attempt still lacks: allowed_next_actions (agentic/state.py)    *)
(* and the stricter reading of agentic/recovery.py.                        *)
HasPatch(a) == a.patch # "none"

NeedsValidation(a) == HasPatch(a) /\ a.val = "none"
NeedsReview(a)     == HasPatch(a) /\ a.review = "none"
ReviewMissing(a)   == NeedsReview(a) /\ a.ok

(* h_run_next_candidate_attempt: the attempt is run, validated when the    *)
(* runner succeeded, reviewed when there is a reviewer and observed.  The  *)
(* handler may raise in between, and what is done so far stays.            *)
Stages == {"ran", "validated", "reviewed", "observed"}

(* Outcomes of the handler up to a stage, as attempts.                     *)
RanThrough(stage, results, reviewer) ==
    LET validated == UNION {IF a.ok THEN {Validated(a, v) : v \in Decided} ELSE {a} : a \in results}
        reviewed  == UNION {IF a.ok /\ reviewer THEN {Reviewed(a, r) : r \in Verdicts} ELSE {a} : a \in validated}
    IN  CASE stage = "ran" -> results
          [] stage = "validated" -> validated
          [] OTHER -> reviewed
=============================================================================
