------------------------------- MODULE SubtaskRun -------------------------------
(***************************************************************************)
(* One run of the agentic orchestrator on execution_path=                  *)
(* decomposed_subtasks, from the acceptance of the decomposition: subtasks *)
(* one attempt at a time, their integration, its repair, and the fallback  *)
(* to full-task candidates when the subtasks are deadlocked.  The model's  *)
(* responses call tools in any order; a response without a call lets       *)
(* agentic/recovery.py go on.  The turn limit may end the run at any turn. *)
(***************************************************************************)
EXTENDS Decomposition

CONSTANTS Dependencies, \* the possible functions from a subtask to those it needs
          Raises        \* the stages of an attempt at which its handler may raise

ASSUME DependenciesAssumption ==
    /\ Raises \subseteq {"started", "accepted"} \cup Stages
    /\ \A deps \in Dependencies : deps \in [Tasks -> SUBSET Tasks] /\ \A s \in Tasks : \A t \in deps[s] : t < s

VARIABLES
    d,           \* the subtasks, see Decomposition
    integration, \* state.integration: None or one attempt
    fallback,    \* state.fallback_execution_path is set
    cands,       \* state.candidates of the fallback
    repair,      \* state.candidates holds a repair with a patch and no review
    selection,   \* state.selection
    final,       \* how the run has ended: state.status
    reviewer,    \* ctx.reviewer is not None
    focused      \* the validation plan has commands for subtasks

workVars   == <<d, integration, fallback, cands, repair>>
configVars == <<reviewer, focused>>
vars == <<workVars, selection, final, configVars>>

None == [ok |-> FALSE, status |-> "none", patch |-> "none", val |-> "none", review |-> "none"]

Pick(what, id) == [what |-> what, id |-> id]

Init ==
    /\ \E deps \in Dependencies : d = Fresh0(deps)
    /\ integration = None /\ fallback = FALSE /\ cands = <<>> /\ repair = FALSE
    /\ selection = Pick("none", 0) /\ final = "none"
    /\ reviewer \in BOOLEAN /\ focused \in BOOLEAN

Active == final = "none"

WorkStages == (Raises \cap Stages) \cup {"observed"}

Good == {i \in DOMAIN cands : Eligible(cands[i], "candidate")}

Quiet == \A s \in Tasks : d.status[s] # "running"

GoodIntegration == integration # None /\ Eligible(integration, "integration") /\ AllAccepted(d)

-----------------------------------------------------------------------------
(* OpsRunState.allowed_next_actions on this path: the tools it names.  The *)
(* policy lets the next subtask and, after the fallback has started, the   *)
(* next candidate through without it.                                      *)
CandidateTools ==
    IF Good # {} THEN {"select"}
    ELSE IF \E i \in DOMAIN cands : NeedsValidation(cands[i]) THEN {"validate"}
    ELSE IF \E i \in DOMAIN cands : ReviewMissing(cands[i]) THEN {"review"}
    ELSE {}

SubtaskTools ==
    IF d.exec = "blocked" THEN {"select"} \cup (IF cands = <<>> THEN {"fallback"} ELSE {})
    ELSE IF \E s \in Tasks : d.status[s] = "pending" THEN {}
    ELSE IF AllAccepted(d) /\ integration = None THEN {"integrate"}
    ELSE IF integration # None /\ integration.val \in {"failed", "inconclusive"} THEN {"repair"}
    ELSE {"validate", "review", "select"}

MutAllowed(tool) == Active /\ tool \in SubtaskTools \cup {"integrate"}

Allowed(tool) == Active /\ tool \in IF fallback THEN CandidateTools ELSE SubtaskTools

(* The tools, as what they do to the state of the run.                     *)
RunSubtask(s, stage) ==
    /\ d' \in Run(d, s, stage, focused, reviewer)
    /\ UNCHANGED <<integration, fallback, cands, repair, selection, final>>

ReviewSubtask(s, k) ==
    /\ Allowed("review") /\ reviewer
    /\ d' \in Judged(d, s, k) \cup (IF "accepted" \in Raises THEN JudgingRaises(d, s, k) ELSE {})
    /\ UNCHANGED <<integration, fallback, cands, repair, selection, final>>

ValidateSubtask(s, k) ==
    /\ Allowed("validate")
    /\ \E v \in Findings : d' = [d EXCEPT !.attempts[s][k].work = Validated(@, v)]
    /\ UNCHANGED <<integration, fallback, cands, repair, selection, final>>

(* h_integrate, with its own check that every subtask is accepted.         *)
Integrate ==
    /\ Allowed("integrate") /\ Quiet
    /\ IF AllAccepted(d) THEN \E made \in Integrated(d) : integration' = Ran(made = Tasks, "clean", FALSE)
       ELSE integration' = Ran(FALSE, "none", FALSE)
    /\ UNCHANGED <<d, fallback, cands, repair, selection, final>>

ValidateIntegration ==
    /\ Allowed("validate") /\ integration # None
    /\ \E v \in Findings : integration' = Validated(integration, v)
    /\ UNCHANGED <<d, fallback, cands, repair, selection, final>>

ReviewIntegration ==
    /\ Allowed("review") /\ integration # None /\ reviewer
    /\ \E r \in Opinions : integration' = [integration EXCEPT !.review = r]
    /\ UNCHANGED <<d, fallback, cands, repair, selection, final>>

(* h_run_next_integration_repair_attempt: the candidate is recorded, and   *)
(* its validation raises because h_validation does not know its scope.  A  *)
(* candidate whose runner failed is reviewed no more than validated.       *)
Repair ==
    /\ Allowed("repair")
    /\ \E w \in Results : repair' = (repair \/ (w.ok /\ HasPatch(w)))
    /\ UNCHANGED <<d, integration, fallback, cands, selection, final>>

StartFallback ==
    /\ Allowed("fallback") /\ Deadlocked(d)
    /\ fallback' = TRUE
    /\ UNCHANGED <<d, integration, cands, repair, selection, final>>

RunCandidate(stage) ==
    /\ fallback /\ Len(cands) < Budget
    /\ \E w \in RanThrough(stage, Results, reviewer) :
          w.review \in Opinions \cup {"none"} /\ w.val \in Findings \cup {"none"} /\ cands' = Append(cands, w)
    /\ UNCHANGED <<d, integration, fallback, repair, selection, final>>

ValidateCandidate(i) ==
    /\ Allowed("validate")
    /\ \E v \in Findings : cands' = [cands EXCEPT ![i] = Validated(@, v)]
    /\ UNCHANGED <<d, integration, fallback, repair, selection, final>>

ReviewCandidate(i) ==
    /\ Allowed("review") /\ reviewer
    /\ \E r \in Opinions : cands' = [cands EXCEPT ![i] = Reviewed(@, r)]
    /\ UNCHANGED <<d, integration, fallback, repair, selection, final>>

(* h_select_winner: the integration, a candidate of the fallback, or none: *)
(* who asks for a selection asks for one with decision=select, so that     *)
(* reject_all is the same as none.                                         *)
Selectable(x) ==
    \/ x = Pick("none", 0)
    \/ x = Pick("integration", 0) /\ ~fallback /\ GoodIntegration
    \/ x.what = "candidate" /\ fallback /\ x.id \in Good

Choices == {Pick("none", 0), Pick("integration", 0)} \cup {Pick("candidate", i) : i \in DOMAIN cands}

Select(x) ==
    /\ Allowed("select") /\ Selectable(x)
    /\ selection' = x
    /\ UNCHANGED <<workVars, final>>

(* h_finalize.  On this path only the integration can be accepted.         *)
MutMayAccept == selection.what = "integration" /\ integration.ok

MayAccept == selection.what = "integration" /\ GoodIntegration

Accept ==
    /\ Active /\ Quiet /\ MayAccept
    /\ final' = "accepted"
    /\ UNCHANGED <<workVars, selection>>

Pending(i) ==
    \/ cands[i].status = "completed" /\ HasPatch(cands[i]) /\ cands[i].review = "none"
    \/ cands[i].review \in {"accept", "issues"} /\ cands[i].val = "none"
    \/ i \in Good

GiveUp(decision, blocker) ==
    /\ Active /\ Quiet
    /\ decision = "failed" /\ (\E s \in Tasks : d.status[s] = "pending" /\ d.attempts[s] = <<>>)
          => blocker \in {"fatal", "deadlock"}
    /\ repair \/ (\E i \in DOMAIN cands : Pending(i)) => blocker = "fatal"
    /\ final' = "failed"
    /\ UNCHANGED <<workVars, selection>>

-----------------------------------------------------------------------------
(* recommend_next_agentic_action on this path: the first rule that holds.  *)
RecoveryReady == {s \in Tasks : d.status[s] # "accepted" /\ \E k \in DOMAIN d.attempts[s] : Committable(d.attempts[s][k].work)}

Rule(tool, when) == [tool |-> tool, when |-> when]

MutRules ==
    <<Rule("accept", (selection.what = "integration" /\ GoodIntegration) \/ (selection.what = "candidate" /\ selection.id \in Good)),
      Rule("fallback", Deadlocked(d) /\ ~fallback /\ cands = <<>>),
      Rule("candidate", fallback /\ cands = <<>>),
      Rule("repair", integration.val \in {"failed", "inconclusive"}),
      Rule("commit", RecoveryReady # {}),
      Rule("select", GoodIntegration \/ Good # {}),
      Rule("run", Ready(d) # {} /\ \A s \in Ready(d) : d.attempts[s] = <<>>),
      Rule("nothing", TRUE)>>

Rules ==
    <<Rule("accept", (selection.what = "integration" /\ GoodIntegration) \/ (selection.what = "candidate" /\ selection.id \in Good)),
      Rule("fallback", Deadlocked(d) /\ ~fallback /\ cands = <<>>),
      Rule("candidate", fallback /\ cands = <<>>),
      Rule("repair", integration.val \in {"failed", "inconclusive"}),
      Rule("commit", RecoveryReady # {}),
      Rule("run", Ready(d) # {}),
      Rule("select", GoodIntegration \/ Good # {}),
      Rule("nothing", fallback /\ \E i \in DOMAIN cands : NeedsValidation(cands[i])),
      Rule("review", fallback /\ \E i \in DOMAIN cands : ReviewMissing(cands[i])),
      Rule("candidate", fallback /\ Len(cands) < Budget),
      Rule("reject", ~fallback /\ (integration # None \/ repair)),
      Rule("nothing", TRUE)>>

Recommended == Rules[CHOOSE i \in DOMAIN Rules : Rules[i].when /\ \A j \in 1..(i - 1) : ~Rules[j].when].tool

-----------------------------------------------------------------------------
(* The loop of OpsRunner.run.  A response may hold any number of calls, in *)
(* any order, and the recovery executes the tool it recommends as a call   *)
(* like the others.  Calls of the response that has got the run accepted   *)
(* may still follow; a run that has failed is not followed further.        *)
Going == final # "failed"

Call ==
    /\ Going
    /\ \/ \E s \in Tasks, stage \in Raises \cup {"observed"} : RunSubtask(s, stage)
       \/ \E s \in Tasks : \E k \in DOMAIN d.attempts[s] : ReviewSubtask(s, k) \/ ValidateSubtask(s, k)
       \/ Integrate \/ ValidateIntegration \/ ReviewIntegration \/ Repair \/ StartFallback
       \/ \E stage \in WorkStages : RunCandidate(stage)
       \/ \E i \in DOMAIN cands : ValidateCandidate(i) \/ ReviewCandidate(i)
       \/ \E x \in Choices : Select(x)
       \/ Accept
       \/ \E decision \in {"rejected", "failed"}, b \in {"plain", "deadlock", "fatal"} : GiveUp(decision, b)
    /\ UNCHANGED configVars

(* The turn limit, no progress or the provider.                            *)
Stop ==
    /\ Active
    /\ final' = "failed"
    /\ UNCHANGED <<workVars, selection, configVars>>

Next == Call \/ Stop

Spec == Init /\ [][Next]_vars

-----------------------------------------------------------------------------
(* The types, and the budget of every subtask and of the fallback.         *)
TypeOK ==
    /\ d.status \in [Tasks -> {"pending", "running", "accepted", "failed"}]
    /\ \A s \in Tasks :
          /\ Len(d.attempts[s]) <= Budget
          /\ \A k \in DOMAIN d.attempts[s] : d.attempts[s][k].work \in Attempt
          /\ d.chosen[s] \in 0..Len(d.attempts[s]) /\ d.applied[s] \in 0..Len(d.attempts[s])
    /\ d.rolling \subseteq {<<s, k>> : s \in Tasks, k \in 1..Budget}
    /\ d.exec \in {"running", "blocked", "completed"}
    /\ Len(cands) <= Budget
    /\ final \in {"none", "accepted", "failed"}

(* An accepted run is the integration of accepted subtasks: all of their   *)
(* patches applied in one fresh copy, and that copy validated and reviewed.*)
(* Neither a subtask nor a candidate of the fallback is accepted as the    *)
(* whole.  What the same response calls later does not change that.        *)
FinalIsIntegrated ==
    final = "accepted" =>
        /\ AllAccepted(d) /\ selection.what = "integration"
        /\ integration.ok /\ integration.val = "passed" /\ integration.review = "accept"

(* A subtask is attempted only after everything it depends on has been     *)
(* accepted, and that is not taken back.                                   *)
DependenciesFirst ==
    \A s \in Tasks : d.attempts[s] # <<>> \/ d.status[s] # "pending" =>
        \A t \in d.deps[s] : d.status[t] = "accepted"

(* Nobody's word but the reviewer's accepts a subtask: the attempt that is *)
(* chosen when it becomes accepted has passed its review.                  *)
AcceptedOnReview ==
    [][\A s \in Tasks : d.status[s] # "accepted" /\ d'.status[s] = "accepted" =>
          d'.chosen[s] # 0 /\ ReviewStatus(Chosen(d', s).work) = "passed"]_vars

(* The integration is made when every subtask is accepted, and none loses  *)
(* that afterwards; a fallback and an integration exclude each other.      *)
IntegrationWaits == integration # None => AllAccepted(d) /\ ~fallback

(* Types and limits, and what comes after what: the parts above.           *)
SubtaskInv == TypeOK /\ DependenciesFirst /\ IntegrationWaits

(* When the subtasks are deadlocked and nothing runs, the status says so:  *)
(* that status is what opens the fallback.  Only an acceptance that raises *)
(* after it has marked the subtask leaves the status behind, until the     *)
(* next call that brings it up to date.                                    *)
DeadlockSeen == Deadlocked(d) /\ Quiet => d.exec = "blocked" \/ d.late

(* The recovery alone drives the subtasks to their end: before a fallback, *)
(* when a subtask is ready, the tool it recommends is one that the handler *)
(* does not refuse, and what comes of it is an attempt more or settles a   *)
(* subtask, also when the handler raises later on; when it raises before   *)
(* the runner has started, there is nothing yet.  One case is left out, in *)
(* which the code does not do so: a subtask that has failed although the   *)
(* recovery, which does not look at its stray changes, holds an attempt at *)
(* it to be ready for a commit.  It recommends that commit at every turn,  *)
(* and the handler refuses it.                                             *)
Rank(e, s) == CASE e.status[s] = "accepted" -> 2 [] e.status[s] = "failed" -> 1 [] OTHER -> 0

Advanced(e) ==
    /\ \A s \in Tasks : Rank(d, s) <= Rank(e, s)
    /\ \E s \in Tasks : Rank(d, s) < Rank(e, s) \/ Len(d.attempts[s]) < Len(e.attempts[s])

Mistaken == {s \in RecoveryReady : d.status[s] = "failed" /\ CommitReady(d, s) = {}}

RecoveryAdvances ==
    Active /\ ~fallback /\ Ready(d) # {} =>
        /\ Recommended \in {"commit", "run"}
        /\ \A s \in IF Recommended = "commit" THEN RecoveryReady \ Mistaken ELSE Ready(d) :
              LET outcomes == UNION {Run(d, s, stage, focused, reviewer) : stage \in Stages \cup {"accepted"}} IN
              outcomes # {} /\ \A e \in outcomes : Advanced(e)

(* An attempt at a subtask starts from the accepted subtasks: from the     *)
(* patches of the attempts that were accepted, of all of them and of no    *)
(* other attempt.                                                          *)
BuiltOnAccepted ==
    [][\A s \in Tasks : Len(d'.attempts[s]) > Len(d.attempts[s]) =>
          d'.attempts[s][Len(d'.attempts[s])].base
              = {<<t, d.chosen[t]>> : t \in {u \in Tasks : d.status[u] = "accepted"}}]_vars
=============================================================================
