-------------------------- MODULE AdaptiveRunProofs --------------------------
(***************************************************************************)
(* Theorems about AdaptiveRun, for any set of candidates and any limits.   *)
(* The argument: every step of the run is one of five kinds (StepKinds);   *)
(* the invariant RunInv and the refinement of RunOutcome follow from the     *)
(* kinds alone, without looking at the tools again.                        *)
(***************************************************************************)
EXTENDS AdaptiveRun, TLAPS

(* TypeOK by parts. *)
CtlTypes ==
    /\ pc \in {"turn", "calls", "recover", "last", "wrapup", "done", "crashed"}
    /\ turn \in 0..MaxTurns /\ calls \in 0..MaxCalls
    /\ rec \in {"ask", "launch", "finalize", "evaluate", "reject_all"}
    /\ recoveries \in 0..MaxRecovery + 1 /\ lastError \in BOOLEAN

TourTypes ==
    /\ cands \in [Candidates -> {"absent", "running"} \cup Fates]
    /\ ranked \in BOOLEAN
    /\ winner \in Candidates \cup {None}
    /\ selection \in Candidates \cup {None, RejectAll}

FinalTypes ==
    /\ status \in {"active", "completed", "failed"}
    /\ decision \in {"none", "accepted", "rejected", "failed"}
    /\ finalPatch \in Candidates \cup {None}
    /\ finalBlockers \in Blockers

PlanTypes ==
    /\ phase \in {"working", "finalizing", "completed", "failed"}
    /\ prep \in {"none", "investigated", "planned"}
    /\ path \in {"unknown", "candidate_tournament"}
    /\ reviewed \in BOOLEAN

(* A turn that is under way has been counted against the limit. *)
TurnInv == pc \in {"calls", "recover"} => turn < MaxTurns

(* The ranking names a candidate that is there. *)
WinnerInv == winner \in Candidates => winner \in Present /\ ranked

(* Candidates exist only on the tournament path. *)
PathInv == Present # {} => Tournament

(* A run that is over has a decision. *)
DecidedInv == ~Active => decision # "none"

RunInv ==
    /\ TourTypes /\ FinalTypes
    /\ WinnerInv /\ PathInv /\ DecidedInv
    /\ SelectedHasEnded /\ AcceptedIsSelected

-----------------------------------------------------------------------------
(* The five kinds of step.                                                 *)

(* Nothing that the outcome rests on moves. *)
Idle ==
    /\ UNCHANGED <<cands, ranked, winner, selection, finalVars>>
    /\ path' \in {path, "candidate_tournament"}

(* The candidates come into being, all at once and only once. *)
Launches ==
    /\ Tournament /\ Present = {}
    /\ cands' \in [Candidates -> {"absent", "running"} \cup Fates]
    /\ UNCHANGED <<path, ranked, winner, selection, finalVars>>

(* A ranking is made, and a candidate that has ended is selected, unless   *)
(* one is selected already.                                                *)
Commits ==
    /\ UNCHANGED <<cands, path>>
    /\ ranked' \in BOOLEAN /\ (ranked => ranked')
    /\ winner' \in Present \cup {None} /\ (winner' # None => ranked')
    /\ \/ selection' = selection
       \/ /\ selection \notin Candidates
          /\ selection' = RejectAll \/ (selection' \in Present \ Running /\ ranked')

(* The run ends with the selected candidate. *)
Accepts ==
    /\ Commits /\ Active /\ Running = {} /\ selection' \in Candidates
    /\ status' = "completed" /\ decision' = "accepted"
    /\ finalPatch' = IF cands[selection'] = "bare" THEN None ELSE selection'
    /\ finalBlockers' \in Blockers

(* The run ends without one. *)
Fails ==
    /\ UNCHANGED <<cands, path, ranked, winner, selection>>
    /\ Active /\ status' = "failed" /\ decision' \in {"rejected", "failed"}
    /\ finalPatch' = None /\ finalBlockers' \in Blockers
    /\ Good # {} => finalBlockers' \in {"fatal", "max_turns", "provider"}

(* commit_tournament_selection, from the ranking at hand or from a new one *)
LEMMA CommitCommits ==
    ASSUME TourTypes, WinnerInv, SelectedHasEnded, NEW rk \in BOOLEAN, NEW w,
           w \in Present \cup {None}, w # None => rk, ranked => rk,
           Commit(rk, w), UNCHANGED <<cands, path>>
    PROVE  Commits
  <1>1. Good \subseteq Present \ Running /\ Present \subseteq Candidates
    BY DEF Good, Present, Running
  <1>2. None \notin Candidates
    BY RunAssumption
  <1>3. CASE w = None /\ Good # {}
    <2>1. ranked' = TRUE /\ winner' \in Good
      BY <1>3 DEF Commit
    <2> QED BY <1>1, <1>2, <1>3, <2>1 DEF Commit, Commits, Preferred
  <1>4. CASE ~(w = None /\ Good # {})
    <2>1. ranked' = rk /\ winner' = w
      BY <1>4 DEF Commit
    <2> QED BY <1>1, <1>2, <1>4, <2>1 DEF Commit, Commits, Preferred
  <1> QED BY <1>3, <1>4

LEMMA StepKinds ==
    ASSUME RunInv, [Next]_vars
    PROVE  \/ Idle
           \/ Launches
           \/ Commits /\ UNCHANGED finalVars
           \/ Accepts
           \/ Fails
  <1> USE DEF ctlVars, tourVars, finalVars
  <1>1. ASSUME SubmitInvestigation \/ SubmitPlan \/ SelectForeignPath PROVE Idle
    BY <1>1 DEF SubmitInvestigation, SubmitPlan, SelectForeignPath, Refuse, Idle
  <1>2. ASSUME LaunchCandidates PROVE Idle \/ Launches
    BY <1>2 DEF LaunchCandidates, LaunchAllowed, Refuse, Idle, Launches, Fates
  <1>3. ASSUME EvaluateTournament PROVE Idle \/ (Commits /\ UNCHANGED finalVars)
    <2>1. CASE Refuse
      BY <2>1 DEF Refuse, Idle
    <2>2. CASE \E w \in PossibleWinners : Commit(TRUE, w) /\ UNCHANGED <<path, cands, finalVars>>
      <3>1. PICK w \in PossibleWinners : Commit(TRUE, w) /\ UNCHANGED <<path, cands, finalVars>>
        BY <2>2
      <3>2. w \in Present \cup {None}
        BY DEF PossibleWinners
      <3> QED BY <3>1, <3>2, CommitCommits DEF RunInv
    <2>3. CASE /\ \/ UNCHANGED <<ranked, winner>>
                  \/ ranked' = TRUE /\ winner' \in PossibleWinners
               /\ UNCHANGED <<path, cands, selection, finalVars>>
      BY <2>3, RunAssumption DEF RunInv, TourTypes, WinnerInv, PossibleWinners, Commits, Idle
    <2> QED BY <1>3, <2>1, <2>2, <2>3 DEF EvaluateTournament
  <1>4. ASSUME NEW x \in Candidates \cup {RejectAll}, SelectWinner(x)
        PROVE  Idle \/ (Commits /\ UNCHANGED finalVars)
    <2>1. CASE Refuse
      BY <2>1 DEF Refuse, Idle
    <2>2. CASE /\ SelectAllowed /\ Selectable(x) /\ selection' = x
               /\ UNCHANGED <<path, cands, ranked, winner, finalVars>>
      BY <2>2, RunAssumption
         DEF RunInv, TourTypes, WinnerInv, SelectAllowed, Selectable, Commits, Running
    <2> QED BY <1>4, <2>1, <2>2 DEF SelectWinner
  <1>5. ASSUME NEW x \in Candidates \cup {None}, FinalizeAccepted(x)
        PROVE  (Commits /\ UNCHANGED finalVars) \/ Accepts
    <2>1. UNCHANGED <<cands, path>>
      BY <1>5 DEF FinalizeAccepted
    <2>2. Commits
      <3>1. CASE Commit(ranked, winner)
        BY <2>1, <3>1, CommitCommits, RunAssumption DEF RunInv, TourTypes, WinnerInv
      <3>2. CASE UNCHANGED <<ranked, winner, selection>>
        BY <2>1, <3>2, RunAssumption DEF RunInv, TourTypes, WinnerInv, Commits
      <3> QED BY <1>5, <3>1, <3>2 DEF FinalizeAccepted
    <2>3. CASE UNCHANGED finalVars
      BY <2>2, <2>3
    <2>4. CASE /\ Active /\ Running = {} /\ selection' \in Candidates
               /\ Conclude("accepted",
                           IF cands[selection'] = "bare" THEN None ELSE selection', "none")
      BY <2>2, <2>4 DEF Accepts, Conclude, Blockers
    <2> QED BY <1>5, <2>3, <2>4 DEF FinalizeAccepted
  <1>6. ASSUME NEW d \in {"rejected", "failed"}, NEW b \in {"none", "plain", "fatal"},
               FinalizeOtherwise(d, b)
        PROVE  Idle \/ Fails
    <2>1. CASE Refuse
      BY <2>1 DEF Refuse, Idle
    <2>2. CASE Active /\ ~Pending(b) /\ Conclude(d, None, b)
               /\ UNCHANGED <<path, tourVars, selection>>
      BY <2>2 DEF Fails, Conclude, Pending, Blockers
    <2>3. CASE UNCHANGED <<path, tourVars, selection, finalVars>>
      BY <2>3 DEF Idle
    <2> QED BY <1>6, <2>1, <2>2, <2>3 DEF FinalizeOtherwise
  <1>7. ASSUME Observe \/ InvalidCall \/ UnknownTool PROVE Idle
    BY <1>7 DEF Observe, InvalidCall, UnknownTool, Refuse, Idle
  <1>8. ASSUME ProviderFails \/ NoProgress PROVE Fails
    BY <1>8 DEF ProviderFails, NoProgress, InTurn, Conclude, Fails, Blockers, RunInv, PathInv,
                Good, Present
  <1>9. ASSUME ModelCallsTools \/ EndOfCalls \/ RecoveryRaises \/ UNCHANGED vars PROVE Idle
    BY <1>9 DEF ModelCallsTools, EndOfCalls, RecoveryRaises, vars, Idle
  <1>10. ASSUME Recommend, UNCHANGED <<path, cands, finalVars>>
         PROVE  Idle \/ (Commits /\ UNCHANGED finalVars)
    <2>1. CASE Commit(ranked, winner)
      BY <1>10, <2>1, CommitCommits, RunAssumption DEF RunInv, TourTypes, WinnerInv
    <2>2. CASE UNCHANGED <<ranked, winner, selection>>
      BY <1>10, <2>2 DEF Idle
    <2> QED BY <1>10, <2>1, <2>2 DEF Recommend
  <1>11. ASSUME NoToolCall \/ LeaveLoop PROVE Idle \/ (Commits /\ UNCHANGED finalVars)
    <2>1. UNCHANGED <<path, cands, finalVars>>
      BY <1>11 DEF NoToolCall, LeaveLoop
    <2>2. Recommend \/ UNCHANGED <<ranked, winner, selection>>
      BY <1>11 DEF NoToolCall, LeaveLoop
    <2> QED BY <1>10, <2>1, <2>2 DEF Idle
  <1>12. ASSUME WrapUp PROVE Idle \/ Fails
    BY <1>12 DEF WrapUp, Conclude, Idle, Fails, Blockers
  <1> QED BY <1>1, <1>2, <1>3, <1>4, <1>5, <1>6, <1>7, <1>8, <1>9, <1>11, <1>12 DEF Next, ToolCall

-----------------------------------------------------------------------------
(* The invariant.                                                          *)

LEMMA RunInit == Init => RunInv
  BY RunAssumption DEF Init, RunInv, TourTypes, FinalTypes, WinnerInv, PathInv, DecidedInv,
       SelectedHasEnded, AcceptedIsSelected, Active, Present, Blockers

LEMMA RunStep == RunInv /\ [Next]_vars => RunInv'
  <1> SUFFICES ASSUME RunInv, [Next]_vars PROVE RunInv'
    OBVIOUS
  <1> USE DEF RunInv, finalVars
  <1>1. CASE Idle
    BY <1>1 DEF Idle, TourTypes, FinalTypes, WinnerInv, PathInv, DecidedInv, Present, Running,
         Active, Tournament, SelectedHasEnded, AcceptedIsSelected
  <1>2. CASE Launches
    <2>1. selection \notin Candidates /\ winner \notin Candidates
      BY <1>2 DEF Launches, WinnerInv, SelectedHasEnded, Present, Fates, TourTypes
    <2>2. TourTypes' /\ FinalTypes'
      BY <1>2 DEF Launches, TourTypes, FinalTypes
    <2> QED BY <1>2, <2>1, <2>2 DEF Launches, WinnerInv, PathInv, DecidedInv, Active, Tournament,
                 SelectedHasEnded, AcceptedIsSelected
  <1>3. ASSUME Commits
        PROVE  TourTypes' /\ WinnerInv' /\ PathInv' /\ SelectedHasEnded'
    <2>1. Present' = Present /\ Present \subseteq Candidates
      BY <1>3 DEF Commits, Present
    <2>2. TourTypes'
      BY <1>3, <2>1, RunAssumption DEF Commits, TourTypes, Running
    <2>3. WinnerInv' /\ PathInv'
      BY <1>3, <2>1, RunAssumption DEF Commits, WinnerInv, PathInv, Tournament
    <2>4. SelectedHasEnded'
      <3>1. CASE selection' = selection
        BY <1>3, <3>1 DEF Commits, SelectedHasEnded
      <3>2. CASE selection' = RejectAll
        BY <3>2, RunAssumption DEF SelectedHasEnded
      <3>3. CASE selection' \in Present \ Running /\ ranked'
        BY <1>3, <3>3 DEF Commits, SelectedHasEnded, Present, Running, Fates, TourTypes
      <3> QED BY <1>3, <3>1, <3>2, <3>3 DEF Commits
    <2> QED BY <2>2, <2>3, <2>4
  <1>4. CASE Commits /\ UNCHANGED finalVars
    <2>1. FinalTypes' /\ DecidedInv'
      BY <1>4 DEF FinalTypes, DecidedInv, Active
    <2>2. AcceptedIsSelected'
      BY <1>4 DEF Commits, AcceptedIsSelected, Running
    <2> QED BY <1>3, <1>4, <2>1, <2>2
  <1>5. CASE Accepts
    <2>1. SelectedHasEnded'
      BY <1>3, <1>5 DEF Accepts
    <2>2. FinalTypes' /\ DecidedInv'
      BY <1>5, RunAssumption DEF Accepts, FinalTypes, DecidedInv, Active
    <2>3. AcceptedIsSelected'
      BY <1>5, <2>1 DEF Accepts, Commits, AcceptedIsSelected, SelectedHasEnded, Running
    <2> QED BY <1>3, <1>5, <2>1, <2>2, <2>3 DEF Accepts
  <1>6. CASE Fails
    BY <1>6 DEF Fails, TourTypes, FinalTypes, WinnerInv, PathInv, DecidedInv, Present, Running,
         Active, Tournament, SelectedHasEnded, AcceptedIsSelected
  <1> QED BY <1>1, <1>2, <1>4, <1>5, <1>6, StepKinds

(* RunInv holds throughout: what AcceptedIsSelected needs to be inductive  *)
(* is that the winner of a ranking and the selection are candidates that   *)
(* are there, and that candidates exist only on the tournament path.       *)
THEOREM RunInvariance == Spec => []RunInv
  BY RunInit, RunStep, PTL DEF Spec

(* An accepted run rests on its committed selection, and on one that ended *)
(* (h_finalize and what the same response still calls after it).           *)
THEOREM AcceptedRests == Spec => []AcceptedIsSelected
  <1>1. RunInv => AcceptedIsSelected
    BY DEF RunInv
  <1> QED BY <1>1, RunInvariance, PTL

(* Only a candidate that ended and was ranked is ever selected             *)
(* (commit_tournament_selection and h_select_winner).                      *)
THEOREM SelectionEnded == Spec => []SelectedHasEnded
  <1>1. RunInv => SelectedHasEnded
    BY DEF RunInv
  <1> QED BY <1>1, RunInvariance, PTL

(* Work that could be delivered is not thrown away by an ordinary          *)
(* rejection (the pending-review check of h_finalize) nor for lack of      *)
(* progress (handle_no_tool_call).                                         *)
THEOREM WorkKept == Spec => GoodWorkNotDiscarded
  <1>1. RunInv /\ [Next]_vars =>
          [Active /\ status' = "failed" /\ Good # {}
             => finalBlockers' \in {"fatal", "max_turns", "provider"}]_vars
    <2> SUFFICES ASSUME RunInv, [Next]_vars, Active, status' = "failed", Good # {}
                 PROVE  finalBlockers' \in {"fatal", "max_turns", "provider"}
      OBVIOUS
    <2>1. Fails
      BY StepKinds DEF Idle, Launches, Accepts, Active, finalVars
    <2> QED BY <2>1 DEF Fails
  <1> QED BY <1>1, RunInvariance, PTL DEF Spec, GoodWorkNotDiscarded

-----------------------------------------------------------------------------
(* The loop and its exits.                                                 *)

LEMMA DoneStep == RunInv /\ EndsDecided /\ [Next]_vars => EndsDecided'
  <1> SUFFICES ASSUME RunInv, EndsDecided, [Next]_vars, pc' = "done" PROVE EndsDecided'
    BY DEF EndsDecided
  <1>1. DecidedInv'
    BY RunStep DEF RunInv
  <1> SUFFICES ~Active'
    BY <1>1 DEF EndsDecided, DecidedInv, Active
  <1> USE DEF ctlVars, tourVars, finalVars, Active
  <1>8. ASSUME NEW ok, Return(ok) PROVE FALSE
    BY <1>8 DEF Return
  <1>2. ~ToolCall
    BY <1>8 DEF ToolCall, SubmitInvestigation, SubmitPlan, SelectForeignPath, LaunchCandidates,
         EvaluateTournament, SelectWinner, FinalizeAccepted, FinalizeOtherwise, Observe,
         InvalidCall, UnknownTool, Refuse, ByModel
  <1>3. CASE ProviderFails \/ NoProgress
    BY <1>3 DEF ProviderFails, NoProgress, Conclude
  <1>4. CASE ModelCallsTools \/ EndOfCalls \/ NoToolCall \/ RecoveryRaises
    BY <1>4 DEF ModelCallsTools, EndOfCalls, NoToolCall, RecoveryRaises
  <1>5. CASE LeaveLoop
    BY <1>5 DEF LeaveLoop
  <1>6. CASE WrapUp
    BY <1>6 DEF WrapUp, Conclude
  <1>7. CASE UNCHANGED vars
    BY <1>7 DEF vars, EndsDecided
  <1> QED BY <1>2, <1>3, <1>4, <1>5, <1>6, <1>7 DEF Next

(* The loop of OpsRunner.run is left only with a final decision.           *)
THEOREM Decided == Spec => []EndsDecided
  <1>1. Init => EndsDecided
    BY DEF Init, EndsDecided
  <1> QED BY <1>1, DoneStep, RunInvariance, PTL DEF Spec

-----------------------------------------------------------------------------
(* The refinement.                                                         *)

(* The run implements RunOutcome: one verdict, one chosen candidate.       *)
THEOREM OutcomeRefinement == Spec => ImplementsOutcome
  <1>1. Init => Outcome!OutcomeInit
    BY DEF Init, Outcome!OutcomeInit, Active
  <1>2. RunInv /\ [Next]_vars => [Outcome!OutcomeNext]_(Outcome!outcomeVars)
    <2> SUFFICES ASSUME RunInv, [Next]_vars, ~UNCHANGED Outcome!outcomeVars
                 PROVE  Outcome!OutcomeNext
      OBVIOUS
    <2> USE DEF finalVars, Outcome!outcomeVars, Active
    <2>1. CASE Idle \/ Launches
      BY <2>1 DEF Idle, Launches
    <2>2. CASE Commits /\ UNCHANGED finalVars
      BY <2>2 DEF Commits, Present, Outcome!OutcomeNext, Outcome!Choose
    <2>3. CASE Accepts
      <3>1. Outcome!Reach("accepted")
        BY <2>3 DEF Accepts, Outcome!Reach
      <3>2. CASE selection' = selection
        BY <3>1, <3>2 DEF Outcome!OutcomeNext
      <3>3. CASE selection \notin Candidates
        BY <2>3, <3>1, <3>3 DEF Accepts, Outcome!OutcomeNext, Outcome!Choose
      <3> QED BY <2>3, <3>2, <3>3 DEF Accepts, Commits
    <2>4. CASE Fails
      BY <2>4 DEF Fails, Outcome!OutcomeNext, Outcome!Reach
    <2> QED BY <2>1, <2>2, <2>3, <2>4, StepKinds
  <1> QED BY <1>1, <1>2, RunInvariance, PTL DEF Spec, ImplementsOutcome, Outcome!OutcomeSpec

-----------------------------------------------------------------------------
(* Types.                                                                  *)

CtlInv == CtlTypes /\ TurnInv

LEMMA OneMoreType == recoveries \in 0..MaxRecovery + 1 => OneMore(recoveries) \in 0..MaxRecovery + 1
  BY RunAssumption DEF OneMore

(* What execute_tool_with_policy counts stays within its bounds.           *)
LEMMA ReturnTypes ==
    ASSUME CtlInv, NEW ok \in BOOLEAN, Return(ok), pc = "calls" => calls < MaxCalls
    PROVE  CtlInv'
  <1> USE DEF CtlInv, CtlTypes, TurnInv
  <1>1. lastError' \in BOOLEAN
    BY Zenon DEF Return
  <1>2. recoveries' \in 0..MaxRecovery + 1
    BY OneMoreType, RunAssumption DEF Return
  <1>3. /\ pc' \in {"calls", "turn", "wrapup"} /\ rec' = "ask"
        /\ turn' \in 0..MaxTurns /\ calls' \in 0..MaxCalls
        /\ pc' = "calls" => turn' < MaxTurns
    BY RunAssumption DEF Return
  <1> QED BY <1>1, <1>2, <1>3

LEMMA RefuseTypes ==
    ASSUME CtlInv, Refuse, pc = "calls" => calls < MaxCalls
    PROVE  CtlInv'
  BY ReturnTypes DEF Refuse

(* Every tool but one that does not exist comes back through Return.        *)
LEMMA ToolReturns ==
    ASSUME ToolCall, ~UnknownTool
    PROVE  \E ok \in BOOLEAN : Return(ok)
  <1>1. ASSUME NEW x \in Candidates \cup {None}, FinalizeAccepted(x)
        PROVE  \E ok \in BOOLEAN : Return(ok)
    <2>1. Return(TRUE) \/ Return(FALSE) \/ Return(/\ Running = {} /\ selection' # None
                                                  /\ ~Active)
      BY <1>1 DEF FinalizeAccepted
    <2> QED BY <2>1
  <1>2. ASSUME Return(TRUE) \/ Return(FALSE) PROVE \E ok \in BOOLEAN : Return(ok)
    BY <1>2
  <1> QED BY <1>1, <1>2 DEF ToolCall, SubmitInvestigation, SubmitPlan,
           SelectForeignPath, LaunchCandidates, EvaluateTournament, SelectWinner,
           FinalizeOtherwise, Observe, InvalidCall, Refuse

LEMMA CtlStep == CtlInv /\ [Next]_vars => CtlInv'
  <1> SUFFICES ASSUME CtlInv, [Next]_vars PROVE CtlInv'
    OBVIOUS
  <1> USE DEF ctlVars, tourVars, finalVars
  <1>1. CASE ToolCall
    <2>1. CASE UnknownTool
      <3>1. recoveries' \in 0..MaxRecovery + 1
        BY <2>1, OneMoreType DEF UnknownTool, CtlInv, CtlTypes
      <3> QED BY <2>1, <3>1, RunAssumption DEF UnknownTool, ByModel, CtlInv, CtlTypes, TurnInv
    <2>2. CASE ~UnknownTool
      <3>1. pc = "calls" => calls < MaxCalls
        BY <1>1, <2>2 DEF ToolCall, SubmitInvestigation, SubmitPlan, SelectForeignPath,
             LaunchCandidates, EvaluateTournament, SelectWinner, FinalizeAccepted,
             FinalizeOtherwise, Observe, InvalidCall, ByModel, Recommended
      <3>2. \E ok \in BOOLEAN : Return(ok)
        BY <1>1, <2>2, ToolReturns
      <3> QED BY <3>1, <3>2, ReturnTypes
    <2> QED BY <2>1, <2>2
  <1>2. CASE ProviderFails \/ WrapUp \/ RecoveryRaises
    BY <1>2 DEF ProviderFails, WrapUp, RecoveryRaises, CtlInv, CtlTypes, TurnInv
  <1>3. CASE ModelCallsTools
    BY <1>3, RunAssumption DEF ModelCallsTools, InTurn, CtlInv, CtlTypes, TurnInv
  <1>4. CASE EndOfCalls
    BY <1>4, RunAssumption DEF EndOfCalls, CtlInv, CtlTypes, TurnInv
  <1>5. ASSUME Recommend PROVE rec' \in {"ask", "launch", "finalize", "evaluate", "reject_all"}
    BY <1>5 DEF Recommend
  <1>6. CASE NoToolCall
    BY <1>5, <1>6, RunAssumption DEF NoToolCall, InTurn, CtlInv, CtlTypes, TurnInv
  <1>7. CASE NoProgress
    BY <1>7, RunAssumption DEF NoProgress, CtlInv, CtlTypes, TurnInv
  <1>8. CASE LeaveLoop
    BY <1>5, <1>8 DEF LeaveLoop, CtlInv, CtlTypes, TurnInv
  <1>9. CASE UNCHANGED vars
    BY <1>9 DEF vars, CtlInv, CtlTypes, TurnInv
  <1> QED BY <1>1, <1>2, <1>3, <1>4, <1>6, <1>7, <1>8, <1>9 DEF Next

LEMMA PlanStep == RunInv /\ PlanTypes /\ [Next]_vars => PlanTypes'
  <1> SUFFICES ASSUME RunInv, PlanTypes, [Next]_vars PROVE PlanTypes'
    OBVIOUS
  <1> USE DEF tourVars, PlanTypes
  <1>1. path' \in {"unknown", "candidate_tournament"}
    BY StepKinds DEF Idle, Launches, Commits, Accepts, Fails
  <1>2. reviewed' \in BOOLEAN
    <2>1. reviewed' = reviewed \/ reviewed' = TRUE
      BY DEF Next, vars, ToolCall, SubmitInvestigation, SubmitPlan, SelectForeignPath,
             LaunchCandidates, EvaluateTournament, SelectWinner, FinalizeAccepted,
             FinalizeOtherwise, Observe, InvalidCall, UnknownTool, Refuse, ProviderFails,
             ModelCallsTools, EndOfCalls, NoToolCall, NoProgress, LeaveLoop, WrapUp,
             RecoveryRaises
    <2> QED BY <2>1
  <1>3. prep' \in {"none", "investigated", "planned"}
    BY DEF Next, vars, ToolCall, SubmitInvestigation, SubmitPlan, SelectForeignPath,
           LaunchCandidates, EvaluateTournament, SelectWinner, FinalizeAccepted,
           FinalizeOtherwise, Observe, InvalidCall, UnknownTool, Refuse, ProviderFails,
           ModelCallsTools, EndOfCalls, NoToolCall, NoProgress, LeaveLoop, WrapUp,
           RecoveryRaises
  <1>4. phase' \in {"working", "finalizing", "completed", "failed"}
    <2>1. PhaseAfterCommit \in {"finalizing", phase}
      BY DEF PhaseAfterCommit
    <2>2. ASSUME NEW d, NEW c, NEW b, Conclude(d, c, b) PROVE phase' \in {"completed", "failed"}
      BY <2>2 DEF Conclude
    <2>3. ASSUME Recommend PROVE phase' \in {"finalizing", phase}
      BY <2>1, <2>3 DEF Recommend
    <2>4. ASSUME ToolCall PROVE phase' \in {"working", "finalizing", "completed", "failed", phase}
      BY <2>1, <2>2, <2>4
         DEF ToolCall, SubmitInvestigation, SubmitPlan, SelectForeignPath,
             LaunchCandidates, EvaluateTournament, SelectWinner, FinalizeAccepted,
             FinalizeOtherwise, Observe, InvalidCall, UnknownTool, Refuse
    <2>5. ASSUME ~ToolCall PROVE phase' \in {"working", "finalizing", "completed", "failed", phase}
      BY <2>2, <2>3, <2>5
         DEF Next, vars, ProviderFails, ModelCallsTools, EndOfCalls, NoToolCall, NoProgress,
             LeaveLoop, WrapUp, RecoveryRaises
    <2> QED BY <2>4, <2>5
  <1> QED BY <1>1, <1>2, <1>3, <1>4

LEMMA TypesInit == Init => CtlInv /\ PlanTypes
  <1> SUFFICES ASSUME Init PROVE CtlInv /\ PlanTypes
    OBVIOUS
  <1>1. lastError \in BOOLEAN /\ reviewed \in BOOLEAN
    BY DEF Init
  <1>2. turn \in 0..MaxTurns /\ calls \in 0..MaxCalls /\ recoveries \in 0..MaxRecovery + 1
    BY RunAssumption DEF Init
  <1> QED BY <1>1, <1>2 DEF Init, CtlInv, CtlTypes, TurnInv, PlanTypes

(* Every variable has its type: the turns, the calls of a response and the *)
(* recoveries stay within the limits of OpsRunner.run.                     *)
THEOREM TypeCorrect == Spec => []TypeOK
  <1>1. Init => CtlInv /\ PlanTypes
    BY TypesInit
  <1>2. CtlInv /\ PlanTypes /\ RunInv => TypeOK
    BY DEF CtlInv, CtlTypes, PlanTypes, RunInv, TourTypes, FinalTypes, TypeOK
  <1> QED BY <1>1, <1>2, CtlStep, PlanStep, RunInvariance, PTL DEF Spec

(* What the decisions of a run rest on, for any candidates and limits.     *)
THEOREM DecisionSafety == Spec => []DecisionInv
  BY TypeCorrect, AcceptedRests, SelectionEnded, Decided, PTL DEF DecisionInv

-----------------------------------------------------------------------------
(* A run comes to rest.  A turn that is left is worth more than any way    *)
(* through it, with all the calls of a response.                           *)
TurnWorth == MaxCalls + 2

PlaceLeft ==
    CASE pc = "turn"    -> 3
      [] pc = "last"    -> 2
      [] pc = "wrapup"  -> 1
      [] pc = "calls"   -> 4 + (MaxCalls - calls)
      [] pc = "recover" -> 4
      [] OTHER          -> 0

TurnsLeft == IF pc \in {"calls", "recover"} THEN MaxTurns - turn - 1 ELSE MaxTurns - turn

Effort == TurnWorth * TurnsLeft + PlaceLeft

(* The steps of a run, at most. *)
RunSteps == TurnWorth * MaxTurns + 3

LeftTypes == TurnsLeft \in Nat /\ PlaceLeft \in Nat

LEMMA EffortTypes == CtlInv => LeftTypes
  <1> USE RunAssumption DEF CtlInv, CtlTypes, TurnInv
  <1>1. CtlInv => TurnsLeft \in Nat
    BY DEF TurnsLeft
  <1>2. CtlInv => PlaceLeft \in Nat
    BY DEF PlaceLeft
  <1> QED BY <1>1, <1>2 DEF LeftTypes

LEMMA EffortTypesNext == CtlInv' => LeftTypes'
  BY EffortTypes, PTL

LEMMA WayDrops ==
    ASSUME NEW w \in Nat, NEW r \in Nat, NEW s \in Nat, NEW p \in Nat, NEW q \in Nat,
           \/ s = r /\ q < p
           \/ r = s + 1 /\ q < p + w
    PROVE  w * s + q < w * r + p
  <1>1. w * (s + 1) = w * s + w /\ w * s \in Nat
    OBVIOUS
  <1> QED BY <1>1

(* How the parts of the loop move the two counters. *)
LEMMA LoopMoves ==
    ASSUME CtlInv, Next
    PROVE  \/ TurnsLeft' = TurnsLeft /\ PlaceLeft' < PlaceLeft
           \/ TurnsLeft = TurnsLeft' + 1 /\ PlaceLeft' < PlaceLeft + TurnWorth
  <1> DEFINE Drops == \/ TurnsLeft' = TurnsLeft /\ PlaceLeft' < PlaceLeft
                      \/ TurnsLeft = TurnsLeft' + 1 /\ PlaceLeft' < PlaceLeft + TurnWorth
  <1> USE RunAssumption DEF CtlInv, CtlTypes, TurnInv, TurnsLeft, PlaceLeft, TurnWorth, ctlVars
  <1>1. ASSUME NEW ok \in BOOLEAN, Return(ok), pc = "calls" => calls < MaxCalls PROVE Drops
    <2>1. CASE pc = "calls"
      BY <1>1, <2>1 DEF Return
    <2>2. CASE pc = "recover"
      BY <1>1, <2>2 DEF Return
    <2>3. CASE pc = "last"
      BY <1>1, <2>3 DEF Return
    <2> QED BY <1>1, <2>1, <2>2, <2>3 DEF Return
  <1>2. CASE UnknownTool
    BY <1>2 DEF UnknownTool, ByModel
  <1>3. ASSUME ToolCall, ~UnknownTool PROVE Drops
    <2>1. pc = "calls" => calls < MaxCalls
      BY <1>3 DEF ToolCall, SubmitInvestigation, SubmitPlan, SelectForeignPath,
           LaunchCandidates, EvaluateTournament, SelectWinner, FinalizeAccepted,
           FinalizeOtherwise, Observe, InvalidCall, ByModel, Recommended
    <2>2. \E ok \in BOOLEAN : Return(ok)
      BY <1>3, ToolReturns
    <2> HIDE DEF Drops
    <2> QED BY <1>1, <2>1, <2>2
  <1>4. CASE ProviderFails \/ NoProgress
    BY <1>4 DEF ProviderFails, NoProgress, InTurn
  <1>5. CASE ModelCallsTools
    BY <1>5 DEF ModelCallsTools, InTurn
  <1>6. CASE EndOfCalls
    BY <1>6 DEF EndOfCalls
  <1>7. CASE NoToolCall
    <2>1. /\ pc = "turn" /\ turn < MaxTurns /\ calls' = calls
          /\ \/ pc' = "recover" /\ turn' = turn
             \/ pc' = "turn" /\ turn' = turn + 1
      BY <1>7 DEF NoToolCall, InTurn
    <2> QED BY <2>1
  <1>8. CASE LeaveLoop
    <2>1. pc = "turn" /\ turn' = turn /\ pc' \in {"done", "last", "wrapup"}
      BY <1>8 DEF LeaveLoop
    <2> QED BY <2>1
  <1>9. CASE WrapUp \/ RecoveryRaises
    BY <1>9 DEF WrapUp, RecoveryRaises
  <1> QED BY <1>2, <1>3, <1>4, <1>5, <1>6, <1>7, <1>8, <1>9 DEF Next

(* A run comes to rest: what is left to do is a natural number, and every  *)
(* tool call, refused or not, every step of the recovery and of the loop   *)
(* makes it smaller.  So the loop is left, whatever the model answers and  *)
(* whatever its calls come to, after RunSteps steps at most, for any bound *)
(* on the calls of one response.                                           *)
THEOREM RunBounded ==
    Spec => Effort = RunSteps /\ [](Effort \in Nat) /\ [][Effort' < Effort]_vars
  <1>1. Spec => []CtlInv
    BY TypesInit, CtlStep, PTL DEF Spec
  <1>2. CtlInv => Effort \in Nat
    <2>1. \A m, n, k \in Nat : m * n + k \in Nat
      OBVIOUS
    <2>2. TurnWorth \in Nat
      BY RunAssumption DEF TurnWorth
    <2> QED BY <2>1, <2>2, EffortTypes DEF Effort, LeftTypes
  <1>3. CtlInv /\ [Next]_vars => [Effort' < Effort]_vars
    <2> SUFFICES ASSUME CtlInv, Next PROVE Effort' < Effort
      OBVIOUS
    <2>1. CtlInv'
      BY CtlStep
    <2>2. /\ TurnsLeft \in Nat /\ PlaceLeft \in Nat /\ TurnWorth \in Nat
          /\ TurnsLeft' \in Nat /\ PlaceLeft' \in Nat
      BY <2>1, EffortTypes, EffortTypesNext, RunAssumption DEF LeftTypes, TurnWorth
    <2>3. TurnWorth' = TurnWorth
      BY DEF TurnWorth
    <2> QED BY <2>2, <2>3, LoopMoves, WayDrops DEF Effort
  <1>4. Init => Effort = RunSteps
    BY RunAssumption DEF Init, Effort, RunSteps, TurnsLeft, PlaceLeft
  <1> QED BY <1>1, <1>2, <1>3, <1>4, PTL DEF Spec

(* What the runner is about to execute on its own is a call it can make:   *)
(* one of the three deterministic tools, and to accept only a candidate.   *)
CanAct ==
    pc \in {"recover", "last"} =>
        rec \in Deterministic /\ (rec = "finalize" => selection \in Candidates)

LEMMA CanActStep == RunInv /\ CanAct /\ [Next]_vars => CanAct'
  <1> SUFFICES ASSUME RunInv, CanAct, [Next]_vars, pc' \in {"recover", "last"} PROVE CanAct'
    BY DEF CanAct
  <1> USE DEF tourVars, finalVars
  <1>1. ASSUME Recommend PROVE rec' = "finalize" => selection' \in Candidates
    BY <1>1 DEF Recommend
  <1>2. CASE NoToolCall \/ LeaveLoop
    <2>1. Recommend /\ rec' \in Deterministic
      BY <1>2 DEF NoToolCall, LeaveLoop
    <2> QED BY <1>1, <2>1 DEF CanAct
  <1>3. CASE UNCHANGED vars
    BY <1>3 DEF vars, ctlVars, CanAct
  <1>4. ~ToolCall
    <2>1. ASSUME NEW ok, Return(ok) PROVE pc' \notin {"recover", "last"}
      BY <2>1 DEF Return
    <2>2. ~UnknownTool
      BY DEF UnknownTool, ByModel
    <2> QED BY <2>1, <2>2, ToolReturns
  <1>5. ~(ProviderFails \/ NoProgress \/ ModelCallsTools \/ EndOfCalls \/ WrapUp \/ RecoveryRaises)
    BY DEF ProviderFails, NoProgress, ModelCallsTools, EndOfCalls, WrapUp, RecoveryRaises
  <1> QED BY <1>2, <1>3, <1>4, <1>5 DEF Next

(* The recovery never gets stuck on its own advice: whenever the runner    *)
(* is to execute what recommend_next_agentic_action recommended, that is a *)
(* launch, a reject_all or the acceptance of a selected candidate.         *)
THEOREM RecoveryCanAct == Spec => []CanAct
  <1>1. Init => CanAct
    BY DEF Init, CanAct
  <1> QED BY <1>1, CanActStep, RunInvariance, PTL DEF Spec
=============================================================================
