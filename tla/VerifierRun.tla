------------------------------- MODULE VerifierRun -------------------------------
(***************************************************************************)
(* The verifier orchestrators (orchestrator/verifier_parallel.py and       *)
(* verifier_sequential.py) and the materialize command (materialize.py).   *)
(*                                                                         *)
(* A run works on copies of the repository, has every candidate verified,  *)
(* selects one, applies its patch to the repository and leaves files from  *)
(* which materialize can apply it again.  The process may die at any step, *)
(* inside a write too; the user may run materialize at any time, and may   *)
(* restore the repository.                                                 *)
(***************************************************************************)
EXTENDS Evidence, Sequences, Functions

CONSTANTS Reports,   \* what a verified candidate may amount to
          N,         \* cfg.candidates
          Settings,  \* the configurations
          Older,     \* the winner of an earlier orchestration in the workspace
          Absent,    \* no such file
          Torn,      \* a file cut off by the death of the process: read as {}
          MaxUser    \* bound on the user's actions

Candidates == 1..N

Setting == [mode : {"parallel", "sequential"}, onAllFail : {"fail", "random", "best-confidence"},
            keep : BOOLEAN, width : Candidates]

(* What the files of the orchestration directory say, by their names.      *)
Content(f) ==
    CASE f = "selection"   -> [winner : Candidates \cup {None}, fallback : BOOLEAN, result : {1, 0, None}]
      [] f = "decision"    -> [winner : Candidates \cup {None}]
      [] f = "integration" -> [winner : Candidates \cup {None}, status : {"skipped", "integrated", "failed"}]
      [] f = "materialization" ->
             [winner : Candidates \cup {None}, fallback : BOOLEAN, result : {1, 0, None},
              status : {"no_winner", "selected", "integration_failed"}]
      [] OTHER -> [winner : Candidates \cup {None}, status : {"completed", "failed"}]

Names == {"selection", "decision", "integration", "materialization", "orchestration"}

ASSUME VerifierAssumption ==
    /\ N \in Nat \ {0} /\ MaxUser \in Nat /\ Settings \subseteq Setting
    /\ Older \notin 1..N /\ None \notin (1..N) \cup {Older}
    /\ \A r \in Reports : r \in Report /\ IsFiniteSet(r.log)
    /\ \A f \in Names : Absent \notin Content(f) /\ Torn \notin Content(f)

VARIABLES
    setting,   \* the configuration
    older,     \* whether the workspace holds an earlier run with a winner
    pc,        \* where the thread of run() is
    stage,     \* per candidate: waiting, running, ran, verified
    report,    \* per candidate: what is known once it is verified
    rows,      \* candidates with a row in candidates.jsonl, and what it says
    sel,       \* the selection in memory
    integ,     \* the status of the integration record in memory
    file,      \* the files of the orchestration directory
    trees,     \* candidates whose worktree exists
    repo,      \* the patches in the user's repository
    applied,   \* the patches this run or materialize has applied, in order
    user       \* number of actions of the user

vars == <<setting, older, pc, stage, report, rows, sel, integ, file, trees, repo, applied, user>>

Init ==
    /\ setting \in {s \in Settings : s.mode = "sequential" => s.width = 1}
    /\ older \in BOOLEAN
    /\ pc = "collect"
    /\ stage = [c \in Candidates |-> "waiting"]
    /\ report = [c \in Candidates |-> Error]
    /\ rows = [c \in Candidates |-> "none"]
    /\ sel = NoSelection /\ integ = "none"
    /\ file = [f \in Names |-> Absent]
    /\ trees = {} /\ repo = {} /\ applied = <<>> /\ user = 0

InStage(s) == {c \in Candidates : stage[c] = s}

-----------------------------------------------------------------------------
(* The thread of run() verifies a candidate when its future is done, and   *)
(* only then looks at the next one: as_completed, or the sequential loop.  *)
Successful(c) == stage[c] = "verified" /\ report[c].result = 1

MutMayRun(c) == Cardinality(InStage("running")) < setting.width

MutPool(c) ==
    setting.mode = "parallel" \/ \A d \in 1..(c - 1) : rows[d] # "none" /\ ~Successful(d)

MayRun(c) ==
    IF setting.mode = "parallel" THEN Cardinality(InStage("running")) < setting.width
    ELSE \A d \in 1..(c - 1) : stage[d] = "verified" /\ rows[d] # "none" /\ ~Successful(d)

(* _run_candidate: a copy with a baseline of its own, then the runner.     *)
StartCandidate(c) ==
    /\ pc = "collect" /\ stage[c] = "waiting"
    /\ \A d \in 1..(c - 1) : stage[d] # "waiting"
    /\ MayRun(c)
    /\ stage' = [stage EXCEPT ![c] = "running"]
    /\ trees' = trees \cup {c}
    /\ UNCHANGED <<setting, older, pc, report, rows, sel, integ, file, repo, applied, user>>

(* The copy fails, the runner raises, times out or ends, the patch is      *)
(* captured or not: the future returns in every case.                      *)
CandidateEnds(c) ==
    /\ pc = "collect" /\ stage[c] = "running"
    /\ stage' = [stage EXCEPT ![c] = "ran"]
    /\ UNCHANGED <<setting, older, pc, report, rows, sel, integ, file, trees, repo, applied, user>>

(* _run_verifier: its verdict, or an error when there is no debug trace,   *)
(* the process fails or its output cannot be parsed.  A patch captured     *)
(* before the error is kept.                                               *)
Verify(c) ==
    /\ pc = "collect" /\ stage[c] = "ran"
    /\ \E r \in Reports \cup Errors :
          /\ report' = [report EXCEPT ![c] = r]
          /\ stage' = [stage EXCEPT ![c] = "verified"]
    /\ UNCHANGED <<setting, older, pc, rows, sel, integ, file, trees, repo, applied, user>>

(* The rows of verifier-parallel are written when all are verified, in     *)
(* order; verifier-sequential writes each one at once, and those of the    *)
(* candidates it skips after a success.                                    *)
MutMayRecord(c) == stage[c] = "verified" /\ \A d \in 1..(c - 1) : rows[d] # "none"

MayRecord(c) ==
    /\ stage[c] = "verified"
    /\ setting.mode = "parallel" => \A d \in Candidates : stage[d] = "verified"
    /\ \A d \in 1..(c - 1) : rows[d] # "none"

Record(c) ==
    /\ pc = "collect" /\ rows[c] = "none" /\ MayRecord(c)
    /\ rows' = [rows EXCEPT ![c] = IF setting.mode = "sequential" /\ Successful(c)
                                   THEN "selected" ELSE "verified"]
    /\ UNCHANGED <<setting, older, pc, stage, report, sel, integ, file, trees, repo, applied, user>>

RecordSkipped(c) ==
    /\ pc = "collect" /\ rows[c] = "none" /\ setting.mode = "sequential"
    /\ \E d \in 1..(c - 1) : rows[d] = "selected"
    /\ \A d \in 1..(c - 1) : rows[d] # "none"
    /\ rows' = [rows EXCEPT ![c] = "skipped"]
    /\ UNCHANGED <<setting, older, pc, stage, report, sel, integ, file, trees, repo, applied, user>>

(* _first_success_selection: the success that ended the loop, and only     *)
(* without one the fallback among all that were attempted.                 *)
FirstSuccess(R, onAllFail) ==
    IF WithResult(R, 1) # {} THEN {Selected(First(WithResult(R, 1)))} ELSE SelectWinner(R, onAllFail)

Choices(R) ==
    IF setting.mode = "parallel" THEN ParallelSelection(R, setting.onAllFail)
    ELSE FirstSuccess(R, setting.onAllFail)

MutSelect ==
    /\ pc = "collect" /\ \A c \in Candidates : rows[c] # "none"
    /\ sel' \in Choices([c \in InStage("verified") |-> report[c]])
    /\ pc' = IF sel'.winner = None THEN "selection" ELSE "apply"
    /\ UNCHANGED <<setting, older, stage, report, rows, integ, file, trees, repo, applied, user>>

Select ==
    /\ pc = "collect" /\ \A c \in Candidates : rows[c] # "none"
    /\ sel' \in Choices([c \in InStage("verified") |-> report[c]])
    /\ pc' = "selection"
    /\ UNCHANGED <<setting, older, stage, report, rows, integ, file, trees, repo, applied, user>>

-----------------------------------------------------------------------------
(* The writes that follow.  write_json replaces a file in place.           *)
Write(f, v) == file' = [file EXCEPT ![f] = v]

Selection == [winner |-> sel.winner, fallback |-> sel.fallback,
              result |-> IF sel.winner = None THEN None ELSE report[sel.winner].result]

WriteSelection ==
    /\ pc = "selection"
    /\ Write("selection", Selection)
    /\ IF sel.winner = None THEN pc' = "integration" /\ integ' = "skipped"
       ELSE pc' = "decision" /\ UNCHANGED integ
    /\ UNCHANGED <<setting, older, stage, report, rows, sel, trees, repo, applied, user>>

WriteDecision ==
    /\ pc = "decision"
    /\ Write("decision", [winner |-> sel.winner])
    /\ pc' = "apply"
    /\ UNCHANGED <<setting, older, stage, report, rows, sel, integ, trees, repo, applied, user>>

(* safe_apply without options.  It raises when the repository is dirty, or *)
(* when git apply refuses the patch: an empty one, or one that conflicts.  *)
MayApply == sel.winner \notin repo /\ report[sel.winner].patch

PatchApplied ==
    /\ MayApply
    /\ repo' = repo \cup {sel.winner} /\ applied' = Append(applied, sel.winner)

Apply ==
    /\ pc = "apply" /\ PatchApplied
    /\ integ' = "integrated"
    /\ pc' = "integration"
    /\ UNCHANGED <<setting, older, stage, report, rows, sel, file, trees, user>>

(* It may also raise after git apply, when its report cannot be written:   *)
(* without a branch nothing is rolled back.                                *)
ApplyFails ==
    /\ pc = "apply"
    /\ PatchApplied \/ UNCHANGED <<repo, applied>>
    /\ integ' = "failed"
    /\ pc' = "integration"
    /\ UNCHANGED <<setting, older, stage, report, rows, sel, file, trees, user>>

MutWriteIntegration ==
    /\ pc = "integration"
    /\ Write("integration", [winner |-> IF integ = "integrated" THEN sel.winner ELSE None, status |-> integ])
    /\ pc' = "materialization"
    /\ UNCHANGED <<setting, older, stage, report, rows, sel, integ, trees, repo, applied, user>>

WriteIntegration ==
    /\ pc = "integration"
    /\ Write("integration", [winner |-> sel.winner, status |-> integ])
    /\ pc' = "materialization"
    /\ UNCHANGED <<setting, older, stage, report, rows, sel, integ, trees, repo, applied, user>>

(* _materialization_record.  Selected covers every winner: one that is not *)
(* a fallback has the result 1.                                            *)
MaterializationStatus ==
    IF sel.winner = None THEN "no_winner"
    ELSE IF integ \in {"integrated", "skipped"} \/ sel.fallback \/ report[sel.winner].result = 1
    THEN "selected" ELSE "integration_failed"

WriteMaterialization ==
    /\ pc = "materialization"
    /\ Write("materialization",
             [winner |-> sel.winner, fallback |-> sel.fallback, result |-> Selection.result,
              status |-> MaterializationStatus])
    /\ pc' = IF sel.winner = None THEN "orchestration" ELSE "selection again"
    /\ UNCHANGED <<setting, older, stage, report, rows, sel, integ, trees, repo, applied, user>>

(* The paths are added to selection.json, and decision.json is rewritten.  *)
RewriteSelection ==
    /\ pc = "selection again"
    /\ Write("selection", Selection)
    /\ pc' = "decision again"
    /\ UNCHANGED <<setting, older, stage, report, rows, sel, integ, trees, repo, applied, user>>

RewriteDecision ==
    /\ pc = "decision again"
    /\ Write("decision", [winner |-> sel.winner])
    /\ pc' = "orchestration"
    /\ UNCHANGED <<setting, older, stage, report, rows, sel, integ, trees, repo, applied, user>>

MutStatus == IF sel.winner # None \/ setting.onAllFail = "fail" THEN "completed" ELSE "failed"

Status ==
    IF integ = "integrated" \/ (integ = "skipped" /\ sel.winner # None) THEN "completed" ELSE "failed"

WriteOrchestration ==
    /\ pc = "orchestration"
    /\ Write("orchestration", [winner |-> sel.winner, status |-> Status])
    /\ pc' = "cleanup"
    /\ UNCHANGED <<setting, older, stage, report, rows, sel, integ, trees, repo, applied, user>>

Cleanup ==
    /\ pc = "cleanup"
    /\ trees' = IF ~setting.keep /\ integ = "integrated" THEN {} ELSE trees
    /\ pc' = "done"
    /\ UNCHANGED <<setting, older, stage, report, rows, sel, integ, file, repo, applied, user>>

-----------------------------------------------------------------------------
(* The process dies, perhaps in the middle of a write.                     *)
Written ==
    CASE pc \in {"selection", "selection again"} -> {"selection"}
      [] pc \in {"decision", "decision again"}   -> {"decision"}
      [] pc \in Names \ {"selection", "decision"} -> {pc}
      [] OTHER -> {}

Dies ==
    /\ pc \notin {"done", "dead"}
    /\ pc' = "dead"
    /\ \/ UNCHANGED file
       \/ \E f \in Written : Write(f, Torn)
    /\ UNCHANGED <<setting, older, stage, report, rows, sel, integ, trees, repo, applied, user>>

(* selection_from_orchestration_dir: what materialize finds in the         *)
(* directory of the run.  A file that cannot be read counts as empty, but  *)
(* for materialization.json, whose presence decides.                       *)
Readable(f) == file[f] \notin {Absent, Torn}

MutNamed == {f \in {"materialization", "orchestration"} : Readable(f) /\ file[f].winner # None}

Named == {f \in Names \ {"decision"} : Readable(f) /\ file[f].winner # None}

NamedWinner ==
    CASE "materialization" \in Named -> file["materialization"].winner
      [] "materialization" \notin Named /\ "selection" \in Named -> file["selection"].winner
      [] Named \subseteq {"integration", "orchestration"} /\ "integration" \in Named ->
            file["integration"].winner
      [] Named = {"orchestration"} -> file["orchestration"].winner
      [] OTHER -> None

RecordOf == IF Readable("materialization") THEN "materialization" ELSE "selection"

MutResultAllows == Readable(RecordOf) => file[RecordOf].result \in {1, None}

ResultAllows ==
    Readable(RecordOf) => file[RecordOf].result \in {1, None} \/ file[RecordOf].fallback

Blocked ==
    \/ file["materialization"] = Torn
    \/ Readable("materialization") /\ file["materialization"].status # "selected"

Found == IF Blocked \/ ~ResultAllows THEN None ELSE NamedWinner

(* The newest selection wins, so that an older run's patch is applied when *)
(* this one has none.                                                      *)
Newest == IF Found # None THEN Found ELSE IF older THEN Older ELSE None

Applicable(c) == c \notin repo /\ (c \in Candidates => report[c].patch)

(* materialize_latest.  It neither looks whether the repository is dirty   *)
(* nor whether the run is still at work.                                   *)
Materialize ==
    /\ user < MaxUser /\ user' = user + 1
    /\ Newest # None /\ Applicable(Newest)
    /\ repo' = repo \cup {Newest} /\ applied' = Append(applied, Newest)
    /\ UNCHANGED <<setting, older, pc, stage, report, rows, sel, integ, file, trees>>

(* The user brings the repository back to where it was.                    *)
Restore ==
    /\ user < MaxUser /\ user' = user + 1
    /\ repo # {} /\ repo' = {}
    /\ UNCHANGED <<setting, older, pc, stage, report, rows, sel, integ, file, trees, applied>>

RunStep ==
    \/ \E c \in Candidates :
          \/ StartCandidate(c) \/ CandidateEnds(c) \/ Verify(c) \/ Record(c) \/ RecordSkipped(c)
    \/ Select \/ WriteSelection \/ WriteDecision \/ Apply \/ ApplyFails \/ WriteIntegration
    \/ WriteMaterialization \/ RewriteSelection \/ RewriteDecision \/ WriteOrchestration \/ Cleanup

Next == RunStep \/ Dies \/ Materialize \/ Restore

Spec == Init /\ [][Next]_vars

-----------------------------------------------------------------------------
(* The types, and the width of the pool.                                   *)
TypeOK ==
    /\ \A f \in Names : file[f] \in Content(f) \cup {Absent, Torn}
    /\ Cardinality(InStage("running")) <= setting.width
    /\ setting \in Settings /\ older \in BOOLEAN
    /\ stage \in [Candidates -> {"waiting", "running", "ran", "verified"}]
    /\ report \in [Candidates -> Reports \cup Errors]
    /\ rows \in [Candidates -> {"none", "verified", "selected", "skipped"}]
    /\ sel.winner \in InStage("verified") \cup {None} /\ sel.fallback \in BOOLEAN
    /\ integ \in {"none", "skipped", "integrated", "failed"}
    /\ trees \subseteq Candidates /\ repo \subseteq Candidates \cup {Older}
    /\ applied \in Seq(Candidates \cup {Older})

AppliedHere == Range(applied) \ {Older}

(* Whatever brought a candidate's patch into the repository, the run or a  *)
(* materialize at any moment, the candidate was the right one.  With a     *)
(* success among those verified it is a success, the first one of          *)
(* verifier-sequential and one that no other outranks in                   *)
(* verifier-parallel; without one the user has asked for a fallback, and a *)
(* candidate that failed goes before one whose verifier failed.            *)
Justified(c) ==
    LET successes == {d \in Candidates : Successful(d)} IN
    IF successes # {}
    THEN /\ c \in successes
         /\ \A d \in successes : IF setting.mode = "parallel" THEN ~Outranks(report[d], report[c])
                                                            ELSE c <= d
    ELSE /\ setting.onAllFail # "fail"
         /\ report[c].result = 0 \/ \A d \in InStage("verified") : report[d].result = None

AppliedIsJustified == \A c \in AppliedHere : Justified(c)

(* verifier-sequential pays for a candidate only when every earlier one    *)
(* has been verified, recorded, and found wanting.                         *)
NoneAfterSuccess ==
    setting.mode = "sequential" =>
        \A c \in Candidates, d \in Candidates :
            d < c /\ stage[c] # "waiting" => rows[d] = "verified" /\ ~Successful(d)

(* verifier-parallel selects only when every candidate was verified.       *)
SelectsAmongAll ==
    setting.mode = "parallel" /\ (\E c \in Candidates : rows[c] # "none") => InStage("verified") = Candidates

(* All the files that name a winner name the same one, and so does the row *)
(* of the candidate that ended verifier-sequential.                        *)
RecordsAgree ==
    /\ \A f \in Names : Readable(f) => file[f].winner = sel.winner
    /\ \A c \in Candidates : rows[c] = "selected" /\ sel # NoSelection => sel.winner = c

(* The patch that the run brought into the repository is found again by    *)
(* materialize, after a death of the process too, unless that left         *)
(* materialization.json cut off.                                           *)
FoundAgain == integ = "integrated" /\ file["materialization"] # Torn => Found = sel.winner

(* When the run has ended materialize finds its winner, applied or not,    *)
(* and nothing of this run when it had none.                               *)
EndIsMaterializable == pc = "done" => Found = sel.winner

(* A run reported as completed has its winner's patch applied.             *)
CompletedIsApplied ==
    Readable("orchestration") /\ file["orchestration"].status = "completed" => sel.winner \in AppliedHere

(* Whom the run paid for, and what it calls completed: the parts above.    *)
VerifierInv == TypeOK /\ NoneAfterSuccess /\ SelectsAmongAll /\ CompletedIsApplied

(* materialize finds the winner, in the middle of the run and at its end.  *)
WinnerIsFound == FoundAgain /\ EndIsMaterializable

(* What a verifier orchestrator promises: see PatchDelivery.               *)
Chosen == IF \E f \in Names : Readable(f) THEN sel.winner ELSE None

Delivery == INSTANCE PatchDelivery WITH chosen <- Chosen, delivered <- repo \ {Older}

Delivers == Delivery!DeliverySpec
=============================================================================
