----------------------------- MODULE AdaptiveRun -----------------------------
(***************************************************************************)
(* One run of the adaptive orchestrator (OpsRunner.run, agentic/runner.py) *)
(* with more than one candidate attempt.  In each turn the model either    *)
(* calls tools, which execute_tool_with_policy runs one after the other,   *)
(* or calls none, and then agentic/recovery.py recommends an action that   *)
(* the runner may execute itself.  The tool handlers are those of          *)
(* agentic/tools.py; the launch, whose threads TournamentLaunch models, is *)
(* one step here.                                                          *)
(*                                                                         *)
(* On this path no tool attaches a review to a candidate, so               *)
(* is_attempt_acceptance_eligible always answers no (review_missing); the  *)
(* candidate that the tournament ranking selected is exempt from it.       *)
(*                                                                         *)
(* A definition named Mut... is a mistake one could make in this code; the *)
(* properties below are checked to fail when it takes the place of the     *)
(* definition that follows it.                                             *)
(***************************************************************************)
EXTENDS Naturals, FiniteSets

CONSTANTS Candidates,   \* identities of the candidate attempts
          None,         \* no candidate
          RejectAll,    \* the selection with decision=reject_all
          MaxTurns,     \* max_turns of OpsRunner
          MaxRecovery,  \* max_recovery_attempts of OpsRunner
          MaxCalls      \* bound on the tool calls of one model response

ASSUME RunAssumption ==
    /\ None \notin Candidates /\ RejectAll \notin Candidates /\ None # RejectAll
    /\ MaxTurns \in Nat /\ MaxRecovery \in Nat /\ MaxCalls \in Nat \ {0}

VARIABLES
    pc,            \* turn, calls, recover, last, wrapup, done or crashed
    turn,          \* turns begun in the loop of OpsRunner.run
    calls,         \* tool calls of the current response already executed
    rec,           \* the recommended tool, while it is being executed
    status,        \* state.status
    phase,         \* state.phase; "working" stands for all before finalizing
    prep,          \* what was submitted: nothing, an investigation, a plan
    path,          \* state.execution_path
    cands,         \* what became of each candidate of state.candidates
    reviewed,      \* every complete candidate has a risk review
    ranked,        \* state.tournament_ranking is not None
    winner,        \* state.tournament_ranking.selected_candidate_id
    selection,     \* state.selection
    decision,      \* state.final_decision["decision"]
    finalPatch,    \* whose patch final_decision["selected_patch_path"] is
    finalBlockers, \* kind of state.final_decision["blockers"]
    recoveries,    \* state.recovery_count, up to MaxRecovery + 1
    lastError      \* state.last_error is not None

ctlVars   == <<pc, turn, calls, rec, recoveries, lastError>>
tourVars  == <<cands, reviewed, ranked, winner>>
finalVars == <<status, decision, finalPatch, finalBlockers>>
vars == <<ctlVars, phase, prep, path, tourVars, selection, finalVars>>

(* good: completed with a patch, hence materializable; broken: failed with *)
(* a captured patch; bare: ended without a patch; running: a placeholder   *)
(* that an aborted launch left behind.                                     *)
Fates   == {"good", "broken", "bare"}
Present == {c \in Candidates : cands[c] # "absent"}
Running == {c \in Candidates : cands[c] = "running"}
Good    == {c \in Candidates : cands[c] = "good"}
Active  == status = "active"
Tournament == path = "candidate_tournament"

Init ==
    /\ pc = "turn" /\ turn = 0 /\ calls = 0 /\ rec = "ask"
    /\ status = "active" /\ phase = "working"
    /\ prep = "none" /\ path = "unknown"
    /\ cands = [c \in Candidates |-> "absent"]
    /\ reviewed = FALSE /\ ranked = FALSE /\ winner = None
    /\ selection = None
    /\ decision = "none" /\ finalPatch = None /\ finalBlockers = "none"
    /\ recoveries = 0 /\ lastError = FALSE

-----------------------------------------------------------------------------
(* Who calls a tool, and what the caller does with the result.             *)

ByModel == pc = "calls" /\ calls < MaxCalls
Recommended(t) == pc \in {"recover", "last"} /\ rec = t

MutOneMore(n) == n + 1

OneMore(n) == IF n > MaxRecovery THEN n ELSE n + 1

MutReturn(ok) ==
    /\ \/ /\ pc = "calls"
          /\ calls' = calls + 1 /\ UNCHANGED <<pc, turn>>
          /\ recoveries' = IF ok THEN recoveries ELSE OneMore(recoveries)
       \/ /\ pc = "recover"
          /\ pc' = "turn" /\ UNCHANGED <<turn, calls>>
          /\ recoveries' = IF ok THEN 0 ELSE OneMore(recoveries)
       \/ /\ pc = "last"
          /\ pc' = "wrapup" /\ UNCHANGED <<turn, calls>>
          /\ recoveries' = IF ok THEN recoveries ELSE OneMore(recoveries)
    /\ rec' = "ask"
    /\ lastError' = ~ok

Return(ok) ==
    /\ \/ /\ pc = "calls"
          /\ calls' = calls + 1 /\ UNCHANGED <<pc, turn>>
          /\ recoveries' = IF ok THEN recoveries ELSE OneMore(recoveries)
       \/ /\ pc = "recover"
          /\ pc' = "turn" /\ turn' = turn + 1 /\ UNCHANGED calls
          /\ recoveries' = IF ok THEN 0 ELSE OneMore(recoveries)
       \/ /\ pc = "last"
          /\ pc' = "wrapup" /\ UNCHANGED <<turn, calls>>
          /\ recoveries' = IF ok THEN recoveries ELSE OneMore(recoveries)
    /\ rec' = "ask"
    /\ lastError' = ~ok

(* The policy or the handler refuses the call. *)
Refuse ==
    /\ Return(FALSE)
    /\ UNCHANGED <<phase, prep, path, tourVars, selection, finalVars>>

(* state.status, state.phase and state.final_decision at the end of a run. *)
Conclude(d, c, b) ==
    /\ status' = IF d = "accepted" THEN "completed" ELSE "failed"
    /\ phase' = status'
    /\ decision' = d /\ finalPatch' = c /\ finalBlockers' = b

-----------------------------------------------------------------------------
(* commit_tournament_selection, from the ranking <<rk, w>>: a best-effort  *)
(* ranking replaces a missing winner, and the winner, or else the first    *)
(* materializable candidate of the ranking, becomes the selection.  A      *)
(* selected candidate stays selected.                                      *)
Preferred(w) == IF w \in Good THEN {w} ELSE Good

MutCommit(rk, w) ==
    /\ IF w = None /\ Good # {} THEN ranked' = TRUE /\ winner' \in Good
                               ELSE ranked' = rk /\ winner' = w
    /\ IF Good = {} THEN UNCHANGED selection ELSE selection' \in Preferred(winner')

Commit(rk, w) ==
    /\ IF w = None /\ Good # {} THEN ranked' = TRUE /\ winner' \in Good
                               ELSE ranked' = rk /\ winner' = w
    /\ IF selection \in Candidates \/ Good = {} THEN UNCHANGED selection
                               ELSE selection' \in Preferred(winner')

PhaseAfterCommit ==
    IF selection' \in Candidates /\ (selection \notin Candidates \/ selection = winner')
    THEN "finalizing" ELSE phase

-----------------------------------------------------------------------------
(* The tools.                                                              *)

SubmitInvestigation ==
    /\ ByModel
    /\ \/ /\ Active /\ prep = "none"
          /\ prep' = "investigated" /\ phase' = "working"
          /\ Return(TRUE)
          /\ UNCHANGED <<path, tourVars, selection, finalVars>>
       \/ ~(Active /\ prep = "none") /\ Refuse

(* h_plan commits the planned path at once, unless one is set already.     *)
SubmitPlan ==
    /\ ByModel
    /\ \/ /\ Active /\ prep = "investigated"
          /\ prep' = "planned" /\ phase' = "working"
          /\ path' = "candidate_tournament"
          /\ Return(TRUE)
          /\ UNCHANGED <<tourVars, selection, finalVars>>
       \/ ~(Active /\ prep = "investigated") /\ Refuse

(* ops_select_execution_path with a path that adaptive runs do not have:   *)
(* the policy lets it through at any time and h_select_path forces the     *)
(* tournament.                                                             *)
SelectForeignPath ==
    /\ ByModel
    /\ path' = "candidate_tournament" /\ phase' = "working"
    /\ Return(TRUE)
    /\ UNCHANGED <<prep, tourVars, selection, finalVars>>

(* h_launch_tournament_candidates.  A launch that raises may leave         *)
(* placeholders behind.                                                    *)
LaunchAllowed == Tournament /\ prep = "planned"

LaunchCandidates ==
    /\ ByModel \/ Recommended("launch")
    /\ \/ ~LaunchAllowed /\ Refuse
       \/ /\ LaunchAllowed /\ Present # {}
          /\ Return(TRUE)
          /\ UNCHANGED <<phase, prep, path, tourVars, selection, finalVars>>
       \/ /\ LaunchAllowed /\ Present = {}
          /\ phase' = "working"
          /\ \E ok \in BOOLEAN :
                /\ cands' \in [Candidates ->
                      {"absent"} \cup Fates \cup (IF ok THEN {} ELSE {"running"})]
                /\ Return(ok)
          /\ UNCHANGED <<prep, path, reviewed, ranked, winner, selection, finalVars>>

(* h_evaluate_tournament: reviews, comparisons, a new ranking of all the   *)
(* candidates, and the commit.  It may raise before the ranking is made,   *)
(* before the selection is committed, or when that is recorded.            *)
PossibleWinners == IF Present = {} THEN {None} ELSE Present

EvaluateTournament ==
    /\ ByModel
    /\ \/ ~Tournament /\ Refuse
       \/ /\ Tournament
          /\ \E w \in PossibleWinners : Commit(TRUE, w)
          /\ phase' = PhaseAfterCommit
          /\ reviewed' = TRUE
          /\ \E ok \in BOOLEAN : Return(ok)
          /\ UNCHANGED <<prep, path, cands, finalVars>>
       \/ /\ Tournament
          /\ reviewed' \in {reviewed, TRUE}
          /\ \/ UNCHANGED <<ranked, winner>>
             \/ ranked' = TRUE /\ winner' \in PossibleWinners
          /\ Return(FALSE)
          /\ UNCHANGED <<phase, prep, path, cands, selection, finalVars>>

(* h_select_winner, for one candidate or for none of them.                 *)
MutSelectAllowed ==
    Active /\ prep = "planned" /\ Tournament /\ Present # {} /\ ranked

SelectAllowed ==
    Active /\ prep = "planned" /\ Tournament /\ Present # {}
        /\ ranked /\ selection \notin Candidates

MutSelectable(x) == x = RejectAll \/ x = winner

Selectable(x) == x = RejectAll \/ (x = winner /\ x \notin Running)

SelectWinner(x) ==
    /\ ByModel \/ (x = RejectAll /\ Recommended("reject_all"))
    /\ LET ok == SelectAllowed /\ Selectable(x)
       IN  \/ /\ ok
              /\ selection' = x /\ phase' = "finalizing"
              /\ Return(TRUE)
              /\ UNCHANGED <<prep, path, tourVars, finalVars>>
           \/ ~ok /\ Refuse

(* h_finalize with decision=accepted, for attempt x or for the selected    *)
(* one.  The selection is committed first if there is none, and stays      *)
(* committed when it cannot be recorded or the call is refused.            *)
FinalizeAccepted(x) ==
    /\ ByModel \/ (x = selection /\ Recommended("finalize"))
    /\ LET commits == selection = None /\ Tournament
           allowed == Running = {} /\ selection' # None
           accepts == /\ selection' \in Candidates /\ x \in {None, selection'}
                      /\ ranked' /\ selection' = winner'
       IN  \/ /\ IF commits THEN Commit(ranked, winner)
                            ELSE UNCHANGED <<ranked, winner, selection>>
              /\ IF allowed /\ Active /\ accepts
                 THEN /\ Conclude("accepted",
                              IF cands[selection'] = "bare" THEN None ELSE selection', "none")
                      /\ Return(TRUE)
                 ELSE /\ phase' = IF commits THEN PhaseAfterCommit ELSE phase
                      /\ Return(allowed /\ ~Active)
                      /\ UNCHANGED finalVars
           \/ /\ commits /\ Commit(ranked, winner) /\ phase' = PhaseAfterCommit
              /\ Return(FALSE)
              /\ UNCHANGED finalVars
    /\ UNCHANGED <<prep, path, cands, reviewed>>

(* h_finalize with another decision d and blockers b.  A candidate that    *)
(* could still be reviewed stands in the way, unless a blocker is fatal.   *)
MutPending(b) == FALSE

Pending(b) == Good # {} /\ b # "fatal"

FinalizeOtherwise(d, b) ==
    /\ ByModel
    /\ LET allowed == /\ Running = {}
                      /\ \/ lastError \/ b # "none"
                         \/ d = "rejected" /\ Present # {}
                         \/ d = "failed" /\ recoveries > 0
       IN  \/ /\ allowed /\ Active /\ ~Pending(b)
              /\ Conclude(d, None, b)
              /\ Return(TRUE)
              /\ UNCHANGED <<prep, path, tourVars, selection>>
           \/ /\ allowed /\ ~Active
              /\ Return(TRUE)
              /\ UNCHANGED <<phase, prep, path, tourVars, selection, finalVars>>
           \/ ~(allowed /\ (Active => ~Pending(b))) /\ Refuse

(* Tools that are always allowed and change nothing the run depends on     *)
(* (ops_get_state, ops_inspect_repo, ops_submit_classification).           *)
Observe ==
    /\ ByModel
    /\ Return(TRUE)
    /\ UNCHANGED <<phase, prep, path, tourVars, selection, finalVars>>

(* An input that fails validation, or a tool blocked on adaptive runs.     *)
InvalidCall == ByModel /\ Refuse

(* A name that is no tool: counted, but not recorded as state.last_error.  *)
UnknownTool ==
    /\ ByModel
    /\ calls' = calls + 1 /\ recoveries' = OneMore(recoveries)
    /\ UNCHANGED <<pc, turn, rec, lastError, phase, prep, path, tourVars, selection, finalVars>>

-----------------------------------------------------------------------------
(* recommend_next_agentic_action: what it recommends (rec'), having        *)
(* committed a selection if it could.  It fails on a selection that        *)
(* rejects all candidates, whose attempt it looks up.                      *)
RecommendationFails == Tournament /\ Present # {} /\ selection = RejectAll

Recommend ==
    /\ IF Tournament /\ Present # {} /\ selection = None
       THEN Commit(ranked, winner) /\ phase' = PhaseAfterCommit
       ELSE UNCHANGED <<ranked, winner, selection, phase>>
    /\ rec' = CASE ~Tournament -> "ask"
               [] Tournament /\ Present = {} -> "launch"
               [] Tournament /\ Present # {} /\ selection' \in Candidates -> "finalize"
               [] OTHER -> IF ~ranked' /\ ~reviewed /\ \E c \in Present : cands[c] = "broken"
                           THEN "evaluate" ELSE "reject_all"

Deterministic == {"launch", "finalize", "reject_all"}

-----------------------------------------------------------------------------
(* The loop of OpsRunner.run.                                              *)

InTurn == pc = "turn" /\ Active /\ turn < MaxTurns

(* create_message raises: _finalize_provider_failure. *)
ProviderFails ==
    /\ InTurn
    /\ Conclude("failed", None, "provider")
    /\ pc' = "done"
    /\ UNCHANGED <<turn, calls, rec, recoveries, lastError, prep, path, tourVars, selection>>

ModelCallsTools ==
    /\ InTurn
    /\ pc' = "calls" /\ calls' = 0
    /\ UNCHANGED <<turn, rec, recoveries, lastError, phase, prep, path, tourVars,
                   selection, finalVars>>

EndOfCalls ==
    /\ pc = "calls" /\ calls > 0
    /\ pc' = "turn" /\ turn' = turn + 1 /\ calls' = 0
    /\ UNCHANGED <<rec, recoveries, lastError, phase, prep, path, tourVars, selection, finalVars>>

(* handle_no_tool_call: a deterministic recommendation is executed next, a *)
(* recommended tool that is not is only put to the model, and with no      *)
(* recommendation the run fails after MaxRecovery such turns.              *)
NoToolCall ==
    /\ InTurn /\ ~RecommendationFails
    /\ Recommend
    /\ \/ /\ rec' \in Deterministic
          /\ pc' = "recover"
          /\ UNCHANGED <<turn, recoveries, finalVars>>
       \/ /\ rec' = "evaluate"
          /\ pc' = "turn" /\ turn' = turn + 1
          /\ UNCHANGED <<recoveries, finalVars>>
       \/ /\ rec' = "ask" /\ recoveries < MaxRecovery
          /\ pc' = "turn" /\ turn' = turn + 1 /\ recoveries' = recoveries + 1
          /\ UNCHANGED finalVars
    /\ UNCHANGED <<calls, lastError, prep, path, cands, reviewed>>

NoProgress ==
    /\ InTurn /\ ~Tournament /\ recoveries >= MaxRecovery
    /\ recoveries' = MaxRecovery + 1
    /\ Conclude("failed", None, "no_progress")
    /\ pc' = "done"
    /\ UNCHANGED <<turn, calls, rec, lastError, prep, path, tourVars, selection>>

(* After the loop: one more recommendation is executed, then the run fails *)
(* if it is still active.                                                  *)
LeaveLoop ==
    /\ pc = "turn"
    /\ \/ /\ ~Active
          /\ pc' = "done" /\ rec' = rec
          /\ UNCHANGED <<ranked, winner, selection, phase>>
       \/ /\ Active /\ turn >= MaxTurns /\ ~RecommendationFails
          /\ Recommend
          /\ pc' = IF rec' \in Deterministic THEN "last" ELSE "wrapup"
    /\ UNCHANGED <<turn, calls, recoveries, lastError, prep, path, cands, reviewed, finalVars>>

MutWrapUp ==
    /\ pc = "wrapup"
    /\ pc' = "done"
    /\ UNCHANGED <<turn, calls, rec, recoveries, lastError, phase, prep, path, tourVars,
                   selection, finalVars>>

WrapUp ==
    /\ pc = "wrapup"
    /\ IF Active THEN Conclude("failed", None, "max_turns") ELSE UNCHANGED <<phase, finalVars>>
    /\ pc' = "done"
    /\ UNCHANGED <<turn, calls, rec, recoveries, lastError, prep, path, tourVars, selection>>

(* The exception of recommend_next_agentic_action leaves OpsRunner.run.    *)
RecoveryRaises ==
    /\ pc = "turn" /\ Active /\ RecommendationFails
    /\ pc' = "crashed"
    /\ UNCHANGED <<turn, calls, rec, recoveries, lastError, phase, prep, path, tourVars,
                   selection, finalVars>>

ToolCall ==
    \/ SubmitInvestigation \/ SubmitPlan \/ SelectForeignPath
    \/ LaunchCandidates \/ EvaluateTournament
    \/ \E x \in Candidates \cup {RejectAll} : SelectWinner(x)
    \/ \E x \in Candidates \cup {None} : FinalizeAccepted(x)
    \/ \E d \in {"rejected", "failed"}, b \in {"none", "plain", "fatal"} : FinalizeOtherwise(d, b)
    \/ Observe \/ InvalidCall \/ UnknownTool

Next ==
    \/ ToolCall
    \/ ProviderFails \/ ModelCallsTools \/ EndOfCalls
    \/ NoToolCall \/ NoProgress \/ LeaveLoop \/ WrapUp \/ RecoveryRaises

Spec == Init /\ [][Next]_vars
FairSpec == Spec /\ WF_vars(Next)

-----------------------------------------------------------------------------
Blockers == {"none", "plain", "fatal", "max_turns", "no_progress", "provider"}

(* Every variable has its type. *)
TypeOK ==
    /\ pc \in {"turn", "calls", "recover", "last", "wrapup", "done", "crashed"}
    /\ turn \in 0..MaxTurns /\ calls \in 0..MaxCalls
    /\ rec \in {"ask", "launch", "finalize", "evaluate", "reject_all"}
    /\ status \in {"active", "completed", "failed"}
    /\ phase \in {"working", "finalizing", "completed", "failed"}
    /\ prep \in {"none", "investigated", "planned"}
    /\ path \in {"unknown", "candidate_tournament"}
    /\ cands \in [Candidates -> {"absent", "running"} \cup Fates]
    /\ reviewed \in BOOLEAN /\ ranked \in BOOLEAN
    /\ winner \in Candidates \cup {None}
    /\ selection \in Candidates \cup {None, RejectAll}
    /\ decision \in {"none", "accepted", "rejected", "failed"}
    /\ finalPatch \in Candidates \cup {None}
    /\ finalBlockers \in Blockers
    /\ recoveries \in 0..MaxRecovery + 1 /\ lastError \in BOOLEAN

(* An accepted run rests on the committed selection: it is a candidate     *)
(* that ran to its end, the final patch is that candidate's (or it has     *)
(* none), and no work was running when it was accepted.  This still holds  *)
(* after the tool calls that the same response makes after the end.        *)
AcceptedIsSelected ==
    status = "completed" =>
        /\ decision = "accepted"
        /\ selection \in Candidates
        /\ cands[selection] \in Fates /\ Running = {}
        /\ finalPatch = IF cands[selection] = "bare" THEN None ELSE selection

(* Work that could be delivered is not thrown away: a run that has a       *)
(* materializable candidate and ends without an accepted one does so on a  *)
(* fatal blocker, on the turn limit or with its provider, never on an      *)
(* ordinary rejection and never for lack of progress.                      *)
GoodWorkNotDiscarded ==
    [][Active /\ status' = "failed" /\ Good # {}
        => finalBlockers' \in {"fatal", "max_turns", "provider"}]_vars

(* The loop is left only with a final decision in place.                   *)
EndsDecided == pc = "done" => status # "active" /\ decision # "none"

(* Only a candidate that ended and was ranked is ever selected: no         *)
(* placeholder that an aborted launch left running, no candidate that a    *)
(* later evaluation has yet to see.                                        *)
SelectedHasEnded ==
    selection \in Candidates => cands[selection] \in Fates /\ ranked

(* What the decisions of a run rest on: the parts above.                   *)
DecisionInv == TypeOK /\ AcceptedIsSelected /\ SelectedHasEnded /\ EndsDecided

(* The run keeps the promise of RunOutcome: once it is over its verdict    *)
(* never changes, and a selected candidate is never exchanged for another, *)
(* not by another evaluation, a reject_all, the recovery, or the calls     *)
(* that a response still makes after the end.                              *)
Outcome == INSTANCE RunOutcome WITH
    chosen <- selection, verdict <- IF Active THEN "open" ELSE decision

ImplementsOutcome == Outcome!OutcomeSpec

(* Every run ends.                                                         *)
RunEnds == <>(pc \in {"done", "crashed"})
=============================================================================
