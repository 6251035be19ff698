----------------------------- MODULE SingleTaskRun -----------------------------
(***************************************************************************)
(* One run of the agentic orchestrator on execution_path=single_task: one  *)
(* attempt after the other, each with the evidence on the last.  As in     *)
(* AdaptiveRun the model calls tools, which the policy of                  *)
(* agentic/state_tooling.py admits or refuses and agentic/tools.py         *)
(* executes, or it calls none, and then agentic/recovery.py goes on.  A    *)
(* refused call changes nothing that is modelled here.                     *)
(***************************************************************************)
EXTENDS AttemptEvidence, FiniteSets

CONSTANTS Results,    \* what the runner may leave behind
          Budget,     \* state.candidate_attempts
          MaxTurns,   \* max_turns of OpsRunner
          None,       \* no selection
          RejectAll   \* the selection with decision=reject_all

ASSUME SingleTaskAssumption ==
    /\ Results \subseteq RunResults
    /\ Budget \in Nat \ {0} /\ MaxTurns \in Nat
    /\ None # RejectAll /\ {None, RejectAll} \cap (1..Budget) = {}

VARIABLES
    pc,         \* turn, calls, last or done
    turn,       \* turns begun in the loop of OpsRunner.run
    reviewer,   \* ctx.reviewer is not None
    attempts,   \* state.candidates
    obs,        \* state.attempt_observations, by attempt
    selection,  \* state.selection
    final,      \* state.final_decision: how, why and with what the run ended
    unattended  \* history: the model has called no tool, no handler raised

loopVars == <<pc, turn, unattended>>
dataVars == <<attempts, obs, selection, final>>
vars == <<loopVars, reviewer, dataVars>>

Open == [decision |-> "none", blockers |-> "none", winner |-> None]

Init ==
    /\ pc = "turn" /\ turn = 0 /\ unattended = TRUE
    /\ reviewer \in BOOLEAN
    /\ attempts = <<>> /\ obs = NoObservations /\ selection = None /\ final = Open

Active == final = Open
Ids    == DOMAIN attempts
IsGood(i) == Eligible(attempts[i], "candidate")
Good   == {i \in Ids : IsGood(i)}
IsFresh(i) == Fresh(obs, i, attempts[i])

-----------------------------------------------------------------------------
(* OpsRunState.allowed_next_actions on this path.  ops_finalize_run has    *)
(* conditions of its own, and the policy lets observations and further     *)
(* attempts through at any time, after the end of the run too.             *)
Unvalidated == {i \in Ids : NeedsValidation(attempts[i])}
Unreviewed  == {i \in Ids : NeedsReview(attempts[i])}

MutAllowed(tool) ==
    /\ Active
    /\ tool = CASE Unvalidated # {} -> "validate"
                [] Unvalidated = {} /\ Unreviewed # {} -> "review"
                [] OTHER -> "select"

Allowed(tool) ==
    /\ Active
    /\ tool = CASE Good # {} -> "select"
                [] Good = {} /\ Unvalidated # {} -> "validate"
                [] Good = {} /\ Unvalidated = {} /\ Unreviewed # {} -> "review"
                [] OTHER -> IF (\A i \in Ids : IsFresh(i)) /\ Len(attempts) >= Budget
                            THEN "select" ELSE "go on"

(* The tools, as what they do to the state of the run.                     *)

(* h_run_next_candidate_attempt, up to the stage at which it raises.       *)
MutWithinBudget == Len(attempts) <= Budget

WithinBudget == Len(attempts) < Budget

RunNext(stage) ==
    /\ WithinBudget
    /\ \E a \in RanThrough(stage, Results, reviewer) :
          /\ attempts' = Append(attempts, a)
          /\ obs' = IF stage = "observed" THEN Observing(obs, Len(attempts) + 1, a, "candidate") ELSE obs
    /\ UNCHANGED <<selection, final>>

(* h_observe_completed_attempt.                                            *)
Observe(i) ==
    /\ obs' = Observing(obs, i, attempts[i], "candidate")
    /\ UNCHANGED <<attempts, selection, final>>

(* h_validation of a candidate.                                            *)
Validate(i) ==
    /\ Allowed("validate")
    /\ \E v \in Decided :
          LET a == Validated(attempts[i], v) IN
          /\ attempts' = [attempts EXCEPT ![i] = a]
          /\ obs' = Refreshing(obs, i, a, "candidate")
    /\ UNCHANGED <<selection, final>>

(* h_review_attempt.  The scope is what the caller says; only under that   *)
(* of a candidate is the observation refreshed.                            *)
Review(i, scope) ==
    /\ Allowed("review") /\ reviewer
    /\ \E r \in Verdicts :
          LET a == Reviewed(attempts[i], r) IN
          /\ attempts' = [attempts EXCEPT ![i] = a]
          /\ obs' = IF scope = "integration" THEN obs ELSE Refreshing(obs, i, a, "candidate")
    /\ UNCHANGED <<selection, final>>

(* h_select_winner.                                                        *)
MaySelect(x) == Allowed("select") /\ x \in Good \cup {RejectAll}

Select(x) ==
    /\ MaySelect(x)
    /\ selection' = x
    /\ UNCHANGED <<attempts, obs, final>>

(* h_finalize.                                                             *)
Conclude(d, b, w) == final' = [decision |-> d, blockers |-> b, winner |-> w]

MayAccept == Active /\ selection \in Good

Accept ==
    /\ MayAccept
    /\ Conclude("accepted", "none", selection)
    /\ UNCHANGED <<attempts, obs, selection>>

MutPending(i) ==
    attempts[i].status = "completed" /\ HasPatch(attempts[i]) /\ attempts[i].review = "none"

Pending(i) ==
    \/ attempts[i].status = "completed" /\ HasPatch(attempts[i]) /\ attempts[i].review = "none"
    \/ attempts[i].review \in {"accept", "issues"} /\ attempts[i].val = "none"
    \/ IsGood(i)

GiveUp(d, b) ==
    /\ Active
    /\ b = "fatal" \/ \A i \in Ids : ~Pending(i)
    /\ Conclude(d, b, None)
    /\ UNCHANGED <<attempts, obs, selection>>

-----------------------------------------------------------------------------
(* recommend_next_agentic_action on this path.                             *)
First(S) == CHOOSE i \in S : \A j \in S : i <= j

Do(tool, i) == [tool |-> tool, id |-> i]

MutRecommendation ==
    CASE selection \in Good -> Do("accept", selection)
      [] OTHER -> IF Good # {} THEN Do("select", First(Good))
                  ELSE IF Len(attempts) < Budget THEN Do("run", None) ELSE Do("reject_all", None)

Recommendation ==
    LET noReview == {i \in Ids : ReviewMissing(attempts[i])}
        stale == {i \in Ids : ~IsFresh(i)}
    IN  CASE selection \in Good -> Do("accept", selection)
          [] selection \notin Good /\ Ids = {} -> Do("run", None)
          [] OTHER ->
             CASE Unvalidated # {} -> Do("ask", First(Unvalidated))
               [] Unvalidated = {} /\ noReview # {} -> Do("review", First(noReview))
               [] OTHER ->
                  CASE stale # {} -> Do("observe", First(stale))
                    [] stale = {} /\ Good # {} -> Do("select", First(Good))
                    [] OTHER ->
                       CASE obs.of[obs.latest].outcome = "accepted" -> Do("select", obs.latest)
                         [] obs.of[obs.latest].outcome # "accepted" /\ Len(attempts) < Budget -> Do("run", None)
                         [] OTHER -> Do("reject_all", None)

(* The recommended tool is executed like a call of the model's.  The       *)
(* validation is only put to the model, and reject_all carries a field     *)
(* that the tool's input does not have, so that it is refused.             *)
Executed(rec) ==
    \/ rec.tool = "accept" /\ Accept
    \/ rec.tool = "run" /\ RunNext("observed")
    \/ rec.tool = "review" /\ Review(rec.id, "candidate")
    \/ rec.tool = "observe" /\ Observe(rec.id)
    \/ rec.tool = "select" /\ Select(rec.id)

Refused(rec) ==
    \/ rec.tool \in {"ask", "reject_all"}
    \/ rec.tool = "accept" /\ ~MayAccept
    \/ rec.tool = "run" /\ ~WithinBudget
    \/ rec.tool = "review" /\ ~(Allowed("review") /\ reviewer)
    \/ rec.tool = "select" /\ ~MaySelect(rec.id)

Recover == Executed(Recommendation) \/ (Refused(Recommendation) /\ UNCHANGED dataVars)

-----------------------------------------------------------------------------
(* The loop of OpsRunner.run.                                              *)
InTurn == pc = "turn" /\ Active /\ turn < MaxTurns

ProviderFails ==
    /\ InTurn
    /\ Conclude("failed", "provider", None)
    /\ pc' = "done"
    /\ UNCHANGED <<turn, unattended, reviewer, attempts, obs, selection>>

ModelCallsTools ==
    /\ InTurn
    /\ pc' = "calls" /\ unattended' = FALSE
    /\ UNCHANGED <<turn, reviewer, dataVars>>

ToolCall ==
    /\ pc = "calls"
    /\ \/ \E stage \in Stages : RunNext(stage)
       \/ \E i \in Ids : Observe(i) \/ Validate(i)
       \/ \E i \in Ids, scope \in {"candidate", "integration"} : Review(i, scope)
       \/ \E x \in Ids \cup {RejectAll} : Select(x)
       \/ Accept
       \/ \E d \in {"rejected", "failed"}, b \in {"plain", "fatal"} : GiveUp(d, b)
    /\ UNCHANGED <<loopVars, reviewer>>

EndOfCalls ==
    /\ pc = "calls"
    /\ pc' = "turn" /\ turn' = turn + 1
    /\ UNCHANGED <<unattended, reviewer, dataVars>>

MutNoToolCall ==
    /\ InTurn /\ Recover
    /\ UNCHANGED <<loopVars, reviewer>>

NoToolCall ==
    /\ InTurn /\ Recover
    /\ turn' = turn + 1
    /\ UNCHANGED <<pc, unattended, reviewer>>

(* A handler that the recovery has called raises.                          *)
RecoveryInterrupted ==
    /\ InTurn /\ Recommendation.tool = "run"
    /\ \E stage \in Stages \ {"observed"} : RunNext(stage)
    /\ turn' = turn + 1 /\ unattended' = FALSE
    /\ UNCHANGED <<pc, reviewer>>

(* After the loop one more recommendation is executed, and a run that is   *)
(* still active fails.                                                     *)
MutLeaveLoop ==
    /\ pc = "turn"
    /\ \/ ~Active /\ pc' = "done"
       \/ Active /\ turn >= MaxTurns /\ pc' = "last"
    /\ UNCHANGED <<turn, unattended, reviewer, dataVars>>

LeaveLoop ==
    /\ pc = "turn"
    /\ \/ ~Active /\ pc' = "done" /\ UNCHANGED dataVars
       \/ Active /\ turn >= MaxTurns /\ pc' = "last" /\ Recover
    /\ UNCHANGED <<turn, unattended, reviewer>>

WrapUp ==
    /\ pc = "last"
    /\ IF Active THEN Conclude("failed", "max_turns", None) ELSE UNCHANGED final
    /\ pc' = "done"
    /\ UNCHANGED <<turn, unattended, reviewer, attempts, obs, selection>>

Next ==
    \/ ProviderFails \/ ModelCallsTools \/ ToolCall \/ EndOfCalls
    \/ NoToolCall \/ RecoveryInterrupted \/ LeaveLoop \/ WrapUp

Spec == Init /\ [][Next]_vars

(* The model answers, or its provider fails: create_message has a timeout. *)
(* A response has finitely many calls.                                     *)
FairSpec == Spec /\ WF_vars(NoToolCall) /\ WF_vars(EndOfCalls) /\ WF_vars(LeaveLoop) /\ WF_vars(WrapUp)

-----------------------------------------------------------------------------
(* The types, and the budget.                                              *)
TypeOK ==
    /\ pc \in {"turn", "calls", "last", "done"} /\ turn \in 0..MaxTurns
    /\ reviewer \in BOOLEAN /\ unattended \in BOOLEAN
    /\ attempts \in Seq(Attempt) /\ Len(attempts) <= Budget
    /\ DOMAIN obs.of \subseteq Ids
    /\ selection \in Ids \cup {None, RejectAll}
    /\ final.decision \in {"none", "accepted", "rejected", "failed"}
    /\ final.winner \in Ids \cup {None}

(* Accepted is only work whose runner succeeded, with a clean patch, whose *)
(* latest validation has passed and whose latest review accepts it; and    *)
(* it is the work that was selected.  Calls that the same response makes   *)
(* after the end do not change that.                                       *)
AcceptedOnEvidence ==
    final.decision = "accepted" =>
        /\ final.winner = selection /\ selection \in Ids
        /\ LET a == attempts[selection] IN
           a.ok /\ a.patch = "clean" /\ a.val = "passed" /\ a.review = "accept"

(* Evidence that made an attempt acceptable is not called into question    *)
(* again: once there is an eligible attempt nobody validates or reviews,   *)
(* so that what was selected is eligible when the run is finalized.        *)
EligibleStays == [][\A i \in Good : Eligible(attempts'[i], "candidate")]_vars

(* An observation by which the next step is chosen tells the truth: an     *)
(* attempt observed as accepted is eligible, one that changed since it was *)
(* observed is found stale, but for a change that leaves an observation of *)
(* partial progress short of the truth.                                    *)
ObservationsHold ==
    \A i \in DOMAIN obs.of :
        /\ obs.of[i].outcome = "accepted" => i \in Good
        /\ IsFresh(i) => obs.of[i].outcome \in {Outcome(attempts[i], "candidate"), "partial_progress"}

(* Evidence first: the recovery starts a further attempt only when no      *)
(* attempt is eligible and everything known about each of the earlier ones *)
(* has been gathered and observed.                                         *)
NoBlindRetry ==
    [][pc = "turn" /\ turn' = turn + 1 /\ Len(attempts') > Len(attempts) =>
          /\ Good = {}
          /\ \A i \in Ids : ~NeedsValidation(attempts[i]) /\ ~ReviewMissing(attempts[i]) /\ IsFresh(i)]_vars

(* A run that has an eligible attempt fails only on a fatal blocker, at    *)
(* the turn limit or with its provider.                                    *)
GoodWorkNotDiscarded ==
    [][Active /\ ~Active' /\ Good # {} /\ final'.decision # "accepted"
          => final'.blockers \in {"fatal", "max_turns", "provider"}]_vars

(* Types and limits, and what acceptance rests on: the parts above.        *)
SingleTaskInv == TypeOK /\ AcceptedOnEvidence

(* Good work stays good, and is not thrown away: the parts above.          *)
GoodWorkKept == EligibleStays /\ GoodWorkNotDiscarded

(* The recovery alone brings a run home: when the model never calls a tool *)
(* and the turns suffice for the attempts, the selection and the verdict,  *)
(* the run is accepted if any of its attempts is eligible.                 *)
UnattendedDelivers ==
    pc = "done" /\ unattended /\ final.blockers # "provider" /\ Good # {} /\ Budget + 1 <= MaxTurns =>
        final.decision = "accepted"

(* Every run comes to an end.                                              *)
RunEnds == <>(pc = "done")
=============================================================================
