----------------------------- MODULE Decomposition -----------------------------
(***************************************************************************)
(* A decomposed task in the agentic orchestrator: its subtasks, their      *)
(* attempts and the rolling worktree to which the patch of an accepted     *)
(* subtask is applied, so that the next attempt starts from it.  What the  *)
(* handlers of agentic/tools.py do to these, as operators on a record d.   *)
(***************************************************************************)
EXTENDS AttemptEvidence, FiniteSets

CONSTANTS Tasks,   \* the subtasks, numbered in an order that respects the dependencies
          Budget,  \* state.candidate_attempts, for each subtask
          Results, \* what the runner may leave behind
          Opinions, \* what the reviewer may say
          Findings \* what a validation may come to

ASSUME DecompositionAssumption ==
    /\ Tasks \subseteq Nat \ {0} /\ IsFiniteSet(Tasks) /\ Tasks # {}
    /\ Budget \in Nat \ {0}
    /\ Results \subseteq Attempt /\ Results # {} /\ \A w \in Results : w.review = "none"
    /\ Opinions \subseteq Verdicts /\ Findings \subseteq Decided

(* An attempt is the work of the runner with its evidence, and the tree it *)
(* started from: the attempts <<s, k>> whose patches that tree holds.      *)
(* late is no field of the program's: it remembers that an acceptance has  *)
(* raised and that the status of the whole was not recomputed since.       *)
Fresh0(deps) ==
    [deps     |-> deps,
     status   |-> [s \in Tasks |-> "pending"],
     attempts |-> [s \in Tasks |-> <<>>],
     chosen   |-> [s \in Tasks |-> 0],    \* accepted_attempt_id
     applied  |-> [s \in Tasks |-> 0],    \* accepted_patch_application_status
     rolling  |-> {},                     \* patches in the rolling worktree
     exec     |-> "running",              \* decomposed_execution_status
     late     |-> FALSE]

Ready(d) ==
    {s \in Tasks : d.status[s] = "pending" /\ \A t \in d.deps[s] : d.status[t] = "accepted"}

AllAccepted(d) == \A s \in Tasks : d.status[s] = "accepted"

(* detect_decomposition_deadlock.                                          *)
Deadlocked(d) ==
    /\ Ready(d) = {}
    /\ \E s \in Tasks : d.status[s] = "failed" /\ Len(d.attempts[s]) >= Budget

(* _update_decomposed_execution_state.                                     *)
MutUpdated(d) ==
    [d EXCEPT !.exec =
        IF AllAccepted(d) THEN "completed"
        ELSE IF \E s \in Tasks : d.status[s] \in {"pending", "running"} THEN "running" ELSE @,
              !.late = FALSE]

Updated(d) ==
    [d EXCEPT !.exec =
        CASE Deadlocked(d) -> "blocked"
          [] ~Deadlocked(d) /\ AllAccepted(d) -> "completed"
          [] OTHER -> IF \E s \in Tasks : d.status[s] \in {"pending", "running"} THEN "running" ELSE @,
              !.late = FALSE]

-----------------------------------------------------------------------------
(* Acceptance.  A patch fits the tree it was made from; on another tree it *)
(* may or may not apply.                                                   *)
Fits(tree, attempt) ==
    CASE attempt.work.patch = "none" -> {FALSE}
      [] attempt.work.patch \in {"clean", "stray"} /\ attempt.base = tree -> {TRUE}
      [] OTHER -> BOOLEAN

(* Reviewed and validated: an attempt may be committed without a new one.  *)
(* The recovery does not look at the files that were changed.              *)
MutCommittable(w) == w.val = "passed"

Committable(w) == w.val = "passed" /\ ReviewStatus(w) = "passed"

CommitReady(d, s) ==
    {k \in DOMAIN d.attempts[s] :
        Committable(d.attempts[s][k].work) /\ d.attempts[s][k].work.patch # "stray"}

(* _commit_subtask_acceptance with _apply_accepted_patch_to_integration:   *)
(* the subtask is accepted before its patch is applied.                    *)
Accepting(d, s, k) ==
    [d EXCEPT !.status[s] = "accepted", !.chosen[s] = k, !.attempts[s][k].work.status = "accepted"]

Commit(d, s, k) ==
    LET c == Accepting(d, s, k)
        applied == Updated([c EXCEPT !.applied[s] = k, !.rolling = @ \cup {<<s, k>>}])
        refused == [c EXCEPT !.applied[s] = 0, !.exec = "blocked"]
    IN  CASE d.applied[s] = k -> {IF d.status[s] = "accepted" /\ d.chosen[s] = k THEN c ELSE applied}
          [] OTHER -> {IF fits THEN applied ELSE refused : fits \in Fits(d.rolling, d.attempts[s][k])}

(* It may raise after the subtask was accepted: before its patch is        *)
(* applied, when that was applied, or when the outcome is recorded.  The   *)
(* status of the whole stays what it was.                                  *)
CommitRaises(d, s, k) ==
    LET c == [Accepting(d, s, k) EXCEPT !.late = TRUE]
        there == [c EXCEPT !.rolling = @ \cup {<<s, k>>}]
        outcomes(fits) == IF fits THEN {c, there, [there EXCEPT !.applied[s] = k]}
                          ELSE {c, [c EXCEPT !.applied[s] = 0], [c EXCEPT !.applied[s] = 0, !.exec = "blocked"]}
    IN  CASE d.applied[s] = k -> IF d.status[s] = "accepted" /\ d.chosen[s] = k THEN {} ELSE {c}
          [] OTHER -> UNION {outcomes(fits) : fits \in Fits(d.rolling, d.attempts[s][k])}

(* h_review_attempt of a subtask's attempt: the gate of a subtask does not *)
(* look at the validation, and what passes it is committed.                *)
Judged(d, s, k) ==
    UNION {LET e == [d EXCEPT !.attempts[s][k].work = Reviewed(@, r)] IN
           IF Eligible(e.attempts[s][k].work, "subtask") THEN Commit(e, s, k) ELSE {e} : r \in Opinions}

JudgingRaises(d, s, k) ==
    UNION {LET e == [d EXCEPT !.attempts[s][k].work = Reviewed(@, r)] IN
           IF Eligible(e.attempts[s][k].work, "subtask") THEN CommitRaises(e, s, k) ELSE {} : r \in Opinions}

-----------------------------------------------------------------------------
(* h_run_next_subtask_attempt, up to the stage at which it raises: the     *)
(* backend is not found, or the work is done up to the stage; accepted is  *)
(* the stage in which what passes the review is committed.  Validated is   *)
(* what the plan holds focused commands for.                               *)
Begun(d, s) == [d EXCEPT !.status[s] = "running", !.exec = "running"]

Attempted(d, s) ==
    {[Begun(d, s) EXCEPT !.attempts[s] = Append(@, [work |-> w, base |-> d.rolling])] : w \in Results}

Checked(d, s, focused) ==
    LET k == Len(d.attempts[s]) IN
    IF focused /\ d.attempts[s][k].work.ok
    THEN {[d EXCEPT !.attempts[s][k].work = Validated(@, v)] : v \in Findings}
    ELSE {d}

(* After the review: what passed it is committed already, unless a focused *)
(* validation has failed; then the subtask is tried again or has failed.   *)
Settled(d, s) ==
    LET w == d.attempts[s][Len(d.attempts[s])].work IN
    Updated(IF Eligible(w, "subtask") /\ w.val # "failed" THEN d
            ELSE [d EXCEPT !.status[s] = IF Len(d.attempts[s]) >= Budget THEN "failed" ELSE "pending"])

Tried(d, s, stage, focused, reviewer) ==
    LET validated == UNION {Checked(e, s, focused) : e \in Attempted(d, s)}
        judged(e) == LET k == Len(e.attempts[s]) IN
                     IF reviewer /\ e.attempts[s][k].work.ok THEN Judged(e, s, k) ELSE {e}
        reviewed == UNION {judged(e) : e \in validated}
    IN  CASE stage = "started" -> {Begun(d, s)}
          [] stage = "ran" -> Attempted(d, s)
          [] stage = "validated" -> validated
          [] stage = "reviewed" -> reviewed
          [] stage = "accepted" ->
                IF reviewer THEN UNION {JudgingRaises(e, s, Len(e.attempts[s])) : e \in validated} ELSE {}
          [] OTHER -> {Settled(e, s) : e \in reviewed}

(* What a call for the subtask leads to: the last attempt that may be      *)
(* committed is, a spent budget fails the subtask, or it is tried.         *)
MutMet(d, s) == \A t \in d.deps[s] : d.status[t] \in {"accepted", "running"}

Met(d, s) == \A t \in d.deps[s] : d.status[t] = "accepted"

MutSpent(d, s) == Len(d.attempts[s]) > Budget

Spent(d, s) == Len(d.attempts[s]) >= Budget

Run(d, s, stage, focused, reviewer) ==
    LET ready == CommitReady(d, s)
        last == CHOOSE k \in ready : \A j \in ready : j <= k
    IN  CASE d.status[s] = "accepted" -> {}
          [] d.status[s] # "accepted" /\ ready # {} ->
                IF stage = "accepted" THEN CommitRaises(d, s, last) ELSE Commit(d, s, last)
          [] OTHER -> IF ~Met(d, s) THEN {}
                      ELSE IF Spent(d, s) THEN {Updated([d EXCEPT !.status[s] = "failed"])}
                      ELSE Tried(d, s, stage, focused, reviewer)

-----------------------------------------------------------------------------
(* h_integrate: the accepted patches are applied, dependencies first, to a *)
(* fresh copy of the repository.  The sets of subtasks whose patches may   *)
(* turn out to apply.                                                      *)
Chosen(d, s) == d.attempts[s][d.chosen[s]]

Integrated(d) ==
    {made \in SUBSET Tasks :
        \A s \in Tasks : (s \in made) \in Fits({<<t, d.chosen[t]>> : t \in {u \in made : u < s}}, Chosen(d, s))}
=============================================================================
