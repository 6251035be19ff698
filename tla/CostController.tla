---------------------------- MODULE CostController ----------------------------
(***************************************************************************)
(* CostPolicyVillaniOps.run of cost_policy/executor.py: the controller     *)
(* that classifies a task, plans which backends to try and how often, and  *)
(* judges one attempt after the other, with decide_next_action of          *)
(* controller/state_machine.py, the acceptance gate of core/acceptance.py  *)
(* and the human approval of controller/human_approval.py.                 *)
(*                                                                         *)
(* The controller is one thread.  What varies is what its calls return:    *)
(* the runner, the reviewer and the human answer anything they can, every  *)
(* call may raise, and the process may be killed, after which only         *)
(* decision.json counts, written at the very end.                          *)
(***************************************************************************)
EXTENDS Naturals, Sequences, FiniteSets

CONSTANTS Strategies,  \* max_attempts of each planned backend, as sequences
          Settings     \* how the command was called, see Setting

ASSUME StrategyAssumption == Strategies \subseteq Seq(Nat \ {0}) \ {<<>>}

(* nonInteractive, and what makes the run ask a human: always (the command *)
(* line or the strategy says so), or on an uncertain review.  terminal:    *)
(* stdin is a tty.                                                         *)
Setting == [nonInteractive : BOOLEAN, always : BOOLEAN, onUncertain : BOOLEAN, terminal : BOOLEAN]

ASSUME SettingAssumption == Settings \subseteq Setting

VARIABLES
    pc,        \* where the controller is
    setting,
    strategy,  \* strategy.attempts: how often each backend may be tried
    k, j,      \* current_plan_index and the attempt on it, from 1
    cur,       \* meta: the attempt at work
    state,     \* recorder.current_state
    tried,     \* attempts begun on each planned backend
    winner,    \* accepted
    lastAction,\* decision_steps[-1].controller_action
    decision   \* decision.json

judged   == <<winner, lastAction>>
locals   == <<setting, strategy, k, j, cur, tried, judged>>
ctrlVars == <<pc, locals, state, decision>>

Recommendations == {"accept", "retry_same_backend", "escalate", "ask_human", "fail"}
Answers         == {"accept", "reject", "retry", "escalate", "fail"}

(* ReviewResult.  faultless: passed, and no issues.                        *)
Review == [verdict : {"pass", "fail", "uncertain"}, recommends : Recommendations,
           faultless : BOOLEAN, wantsHuman : BOOLEAN]

NoReview == [verdict |-> "none", recommends |-> "none", faultless |-> FALSE, wantsHuman |-> FALSE]

(* What capture_worktree finds.  flawed: a patch that the gate rejects for *)
(* what it touches, of which the human may still be shown everything;      *)
(* empty also when the agent only made new files, which git diff HEAD does *)
(* not show.                                                               *)
Patches == {"good", "flawed", "empty"}

PatchAcceptable(a) == a.patch = "good"

NoAttempt == [status |-> "none", exit |-> 0, patch |-> "empty", review |-> NoReview,
              human |-> "none", action |-> "none"]

NoDecision == [made |-> FALSE, accepted |-> FALSE, action |-> "none", completed |-> FALSE]

Init ==
    /\ pc = "classify" /\ state = "planned"
    /\ setting \in Settings
    /\ strategy = <<>> /\ k = 1 /\ j = 1
    /\ cur = NoAttempt /\ tried = <<>>
    /\ winner = NoAttempt /\ lastAction = "none"
    /\ decision = NoDecision

-----------------------------------------------------------------------------
(* The run ends: the locals go with the process.                           *)
Forget ==
    /\ strategy' = <<>> /\ k' = 1 /\ j' = 1 /\ cur' = NoAttempt
    /\ tried' = <<>> /\ winner' = NoAttempt /\ lastAction' = "none" /\ state' = "planned"
    /\ setting' = [x \in DOMAIN setting |-> FALSE]

FinalAction == IF winner # NoAttempt THEN "accept"
               ELSE IF lastAction # "none" THEN lastAction ELSE "fail"

Finalize ==
    /\ pc = "finalize" /\ pc' = "done"
    /\ decision' = [made |-> TRUE, accepted |-> winner # NoAttempt, action |-> FinalAction,
                    completed |-> winner # NoAttempt \/ FinalAction = "fail"]
    /\ Forget

(* Classification and planning; when one raises, the run has failed before *)
(* any attempt.                                                            *)
Classify ==
    /\ pc = "classify"
    /\ \/ pc' = "plan" /\ state' = "classifying"
       \/ pc' = "finalize" /\ state' = "failed"
    /\ UNCHANGED <<locals, decision>>

MakePlan ==
    /\ pc = "plan"
    /\ \/ /\ strategy' \in Strategies
          /\ tried' = [i \in DOMAIN strategy' |-> 0]
          /\ pc' = "attempt" /\ state' = "planning"
       \/ pc' = "finalize" /\ state' = "failed" /\ UNCHANGED <<strategy, tried>>
    /\ UNCHANGED <<setting, k, j, cur, winner, lastAction, decision>>

StartAttempt ==
    /\ pc = "attempt" /\ pc' = "run"
    /\ tried' = [tried EXCEPT ![k] = @ + 1]
    /\ cur' = [NoAttempt EXCEPT !.status = "running"]
    /\ state' = "attempting"
    /\ UNCHANGED <<setting, strategy, k, j, winner, lastAction, decision>>

(* The runner comes back, and capture_worktree with its patch.             *)
RunAttempt ==
    /\ pc = "run" /\ pc' = "review" /\ state' = "reviewing"
    /\ \E exit \in {0, 1}, patch \in Patches :
          cur' = [cur EXCEPT !.exit = exit, !.patch = patch]
    /\ UNCHANGED <<setting, strategy, k, j, tried, winner, lastAction, decision>>

(* A review that fails or is malformed counts as an uncertain one.         *)
Fallback == [verdict |-> "uncertain", recommends |-> IF setting.nonInteractive THEN "fail" ELSE "ask_human",
             faultless |-> FALSE, wantsHuman |-> ~setting.nonInteractive]

HumanNeeded(r) ==
    \/ setting.always
    \/ setting.onUncertain /\ r.verdict = "uncertain"
    \/ r.wantsHuman
    \/ r.recommends = "ask_human"

LooksClean(r) == cur.exit = 0 /\ r.faultless /\ r.verdict = "pass" /\ r.recommends = "accept"

TakeReview ==
    /\ pc = "review"
    /\ \E r \in Review \cup {Fallback} :
         /\ cur' = [cur EXCEPT !.review = r,
                               !.status = IF cur.exit # 0 THEN "failed"
                                          ELSE IF LooksClean(r) /\ ~HumanNeeded(r) THEN "validated"
                                          ELSE "candidate"]
         /\ IF HumanNeeded(r) THEN pc' = "human" /\ state' = "human_review"
                              ELSE pc' = "decide" /\ state' = "deciding"
    /\ UNCHANGED <<setting, strategy, k, j, tried, winner, lastAction, decision>>

(* A terminal is asked, three times at most; else the answer is skipped.   *)
Asks == ~setting.nonInteractive /\ setting.terminal

AskHuman ==
    /\ pc = "human" /\ pc' = "decide" /\ state' = "deciding"
    /\ \E h \in IF Asks THEN Answers ELSE {"skipped"} :
         cur' = [cur EXCEPT !.human = h,
                            !.status = IF h = "accept" THEN "human_approved" ELSE "rejected"]
    /\ UNCHANGED <<setting, strategy, k, j, tried, winner, lastAction, decision>>

-----------------------------------------------------------------------------
(* human_override_blockers.  Its other conditions hold for every answer of *)
(* a provider: the human was asked, for a reason, and shown the patch, the *)
(* files, the review and the blockers.                                     *)
MutOverride(a) == a.human = "accept"

Override(a) == a.human = "accept" /\ a.patch # "empty"

(* is_attempt_acceptance_eligible, as it is asked here: without a run      *)
(* state.                                                                  *)
Eligible(a) ==
    IF a.human = "accept" THEN Override(a)
    ELSE /\ a.status = "validated" /\ a.exit = 0 /\ PatchAcceptable(a)
         /\ a.review.verdict = "pass" /\ a.review.recommends = "accept" /\ a.review.faultless

MutAttemptsRemain == j <= strategy[k]

AttemptsRemain == j < strategy[k]
EscalationAvailable == k < Len(strategy)

RetryOrEscalateOrFail ==
    IF AttemptsRemain THEN "retry_same_backend" ELSE IF EscalationAvailable THEN "escalate" ELSE "fail"

(* decide_next_action, for an attempt that has a review.                   *)
AnswerDecides(h) ==
    CASE h = "accept"   -> IF Override(cur) THEN "accept" ELSE RetryOrEscalateOrFail
      [] h = "escalate" -> IF EscalationAvailable THEN "escalate" ELSE "fail"
      [] h = "fail"     -> "fail"
      [] OTHER          -> RetryOrEscalateOrFail

MutReviewDecides(r) ==
    IF Eligible(cur) THEN "accept"
    ELSE IF r.verdict = "uncertain" THEN "ask_human"
    ELSE RetryOrEscalateOrFail

ReviewDecides(r) ==
    IF Eligible(cur) /\ r.verdict = "pass" /\ r.recommends = "accept" THEN "accept"
    ELSE IF r.verdict = "uncertain" /\ (r.wantsHuman \/ r.recommends = "ask_human")
         THEN IF setting.nonInteractive THEN RetryOrEscalateOrFail ELSE "ask_human"
    ELSE IF r.recommends = "escalate" /\ EscalationAvailable THEN "escalate"
    ELSE RetryOrEscalateOrFail

NextAction == IF cur.human \in Answers THEN AnswerDecides(cur.human) ELSE ReviewDecides(cur.review)

(* next_state                                                              *)
StateAfter(action) ==
    CASE action = "accept"             -> "accepted"
      [] action = "retry_same_backend" -> "retrying"
      [] action = "escalate"           -> "escalating"
      [] action = "ask_human"          -> "human_review"
      [] OTHER                         -> "failed"

Decide ==
    LET action == NextAction IN
    /\ pc = "decide"
    /\ lastAction' = action /\ state' = StateAfter(action)
    /\ IF action = "accept"
       THEN /\ winner' = [cur EXCEPT !.action = action,
                                     !.status = IF cur.human = "accept" THEN "human_approved" ELSE "validated"]
            /\ pc' = "finalize" /\ UNCHANGED cur
       ELSE /\ cur' = [cur EXCEPT !.action = action]
            /\ pc' = "next" /\ UNCHANGED winner
    /\ UNCHANGED <<setting, strategy, k, j, tried, decision>>

(* Anything above raises: before the decision, once its step is recorded,  *)
(* or when the accepted attempt is written, which stays accepted.          *)
AttemptRaises ==
    /\ pc \in {"run", "review", "human", "decide"}
    /\ pc' = "next" /\ state' = "failed"
    /\ \/ cur' = [cur EXCEPT !.status = "failed"] /\ UNCHANGED <<lastAction, winner>>
       \/ /\ pc = "decide"
          /\ cur' = [cur EXCEPT !.status = "failed", !.action = NextAction]
          /\ lastAction' = NextAction
          /\ winner' \in {winner} \cup (IF NextAction = "accept" THEN {cur'} ELSE {})
    /\ UNCHANGED <<setting, strategy, k, j, tried, decision>>

(* The end of the loop body: continue, or break to the next backend.       *)
MutContinues == cur.action = "retry_same_backend" /\ cur.review.recommends = "retry_same_backend"

MutStays == cur.human # "fail" /\ cur.action # "fail"

Continues ==
    /\ cur.human # "fail"
    /\ \/ cur.action = "retry_same_backend"
       \/ cur.review.recommends = "retry_same_backend"
       \/ cur.human = "retry"

MutMoreBackends == winner = NoAttempt /\ k < Len(strategy) /\ state # "failed"

MoreBackends == winner = NoAttempt /\ k < Len(strategy)

Advance ==
    /\ pc = "next"
    /\ cur' = NoAttempt
    /\ IF Continues /\ AttemptsRemain THEN pc' = "attempt" /\ j' = j + 1 /\ k' = k
       ELSE IF MoreBackends THEN pc' = "attempt" /\ k' = k + 1 /\ j' = 1
       ELSE pc' = "finalize" /\ UNCHANGED <<j, k>>
    /\ UNCHANGED <<setting, strategy, tried, winner, lastAction, state, decision>>

(* The process is killed, or a write of the exception handler raises.      *)
Dies ==
    /\ pc # "done" /\ pc' = "done"
    /\ Forget /\ UNCHANGED decision

CtrlStep ==
    \/ Classify \/ MakePlan \/ StartAttempt \/ RunAttempt \/ TakeReview \/ AskHuman
    \/ Decide \/ AttemptRaises \/ Advance \/ Finalize
=============================================================================
