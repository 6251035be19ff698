# A TLA+ model of villani-ops

villani-ops runs a coding agent several times on one task, decides which of the
results is good enough, and puts that result into the user's repository. This
directory holds TLA+ modules that model the program, the TLC configurations that
model-check them, and theorems about them that TLAPS proves. Paths are relative to
the repository; `agentic/tools.py` stands for `villani_ops/agentic/tools.py`, and so on.

1. [Inventory](#1-inventory): the system's parts, their state, what is hard about them
2. [Plan](#2-plan): the modules, in the order in which they are written
3. [Modules](#3-the-modules): how state and actions correspond to the code
4. [Runs](#4-the-runs): what each run checks, bounds, fairness
5. [Proofs](#5-the-proofs): what is proved, from what, along which argument
6. [Findings](#6-findings): where the code and its documents disagree
7. [Limits](#7-what-is-not-modelled): assumptions, abstractions, what is left out

## 1. Inventory

### How the parts interact

`cli/main.py` starts one of three drivers:

* the **agentic orchestrator** (`agentic/runner.py`, `OpsRunner.run`), the default. A
  model is asked, turn after turn, which tools to call. `agentic/state_tooling.py`
  (`execute_tool_with_policy`) checks each call against what the state allows;
  `agentic/tools.py` holds the handlers, which mutate one shared `OpsState`
  (`agentic/state.py`) and save it to `state.json` after every call; when the model
  calls no tool, `agentic/recovery.py` recommends an action that the runner may execute;
* the **verifier orchestrators** (`orchestrator/`): candidates are run in parallel or
  one after the other, a verifier judges each, one is selected and applied;
* the **graph engine** (`orchestration/`) and the **cost-policy controller**
  (`cost_policy/executor.py`, `controller/`), the older drivers behind
  `controller/executor.py`.

All of them run agents through `runners/` in isolated copies of the repository
(`isolation/`, `agentic/git_artifacts.py`), call models through `llm/`, record usage
through `telemetry/usage.py`, and write run directories through `core/durable_io.py`
and `storage/files.py`. `materialize.py` and `git_ops.py` later apply the winning patch.
The viewer, the reports and the CLI read those files.

### Components

| component | state it keeps | operations | hard behaviour | what makes it correct |
|---|---|---|---|---|
| tournament launch (`h_launch_tournament_candidates`) | candidates, evidence packets, counters in `OpsState`; `runner_summary.json`, `evidence.json` per candidate; `state.json`; a thread pool and its futures | schedule, submit, collect, persist, drain | workers finish in any order, a write or an event record raises anywhere, the deadline passes, the process is killed between two writes | parallelism bound, write-ahead of placeholders, artifacts before state, truthful files, batch barrier, nothing left running, complete when returned |
| adaptive orchestrator, tournament path | phase, status, path, candidates, ranking, selection, final decision, recovery counter | the tools, the turn loop, recovery | any tool in any order, several per response, also after the end; recovery acts on its own; selection and ranking may drift apart | one verdict, one selected candidate, acceptance rests on it, good work is not discarded, the run ends with a decision |
| adaptive orchestrator, single-task path | attempts, reviews, validations, failure observations, acceptance blockers | run attempt, validate, review, record observation, select, finalize | evidence that is stale when the gate reads it, retry after a failed attempt, exhausted attempts | only a validated and reviewed attempt is accepted; attempts stay in budget; every failed attempt is observed before the next |
| decomposed and fallback paths | plan, subtasks and their attempts, rolling worktree, integration, candidates of the fallback | run a subtask, validate, review, commit, integrate, repair, fall back, select, finalize | a handler raises between two of its stages, dependencies deadlock, acceptance is recorded before the patch is applied | dependencies respected, the end rests on a complete integration, a deadlock is noticed, the recovery gets on, an attempt builds on what was accepted |
| tournament evaluation | pairwise comparisons, reviews, ranking, budgets | review, compare, rank, commit | budgets expire half-way, a write raises between two comparisons, the tool is called again when the reviews have changed | no pair is compared twice, no model work is thrown away, the time to finalize is kept, an undefeated candidate is first, what is selected can be delivered |
| graph engine | node statuses, attempts, plan, winner | validate and activate a plan, schedule ready nodes, run code nodes in parallel, skip, finalize | nodes finish in any order, a failed dependency starves its successors, a plan goes round in circles | the loop ends with every node terminal, nothing runs before its dependencies, per-backend limits, only plans that can be executed are activated |
| backend limiter (`core/concurrency.py`) | a bounded semaphore per backend | acquire, run, release | a body that raises | never more than `max_parallel` bodies per backend, slots are returned |
| verifier orchestrators | candidate results, selection, integration and materialisation records | run candidate, verify, select, integrate, record | futures in any order, verifier errors, apply fails after the decision is written, the process dies in a write, the user materialises meanwhile | whatever was applied deserved it, records agree with each other, the winner is found again, nobody is paid for in vain |
| cost-policy controller | state machine, plan index, attempt counters, the accepted attempt | classify, plan, attempt, review, decide, ask, retry, escalate | the decision is made in one place and followed in another; any call raises | acceptance rests on evidence or on a human who was asked, no attempt is wasted, an escalation moves on, a run gives up only at the end of its plan |
| materialisation and git application | repository, branches, working tree, remote, artifacts | check, branch, apply, commit, push, roll back, find the winner of a run | failure or a kill between any two git commands, the user edits meanwhile | no work is lost, a rollback that is reported brings back the branch, what is committed is the patch, what is delivered was accepted |
| usage telemetry | records appended by threads, summaries | record, summarise | lost or doubled counts | totals are sums of what was recorded |
| durable storage | files | atomic replace with retries | crash between temporary file and rename | a reader sees the old or the new content |
| verifier, policy engine, performance mode, classification, review | none that outlives a call | normalise model answers | malformed answers | defaults are the cautious ones |
| runners, isolation | processes, worktrees | run, time out, capture a patch | timeouts | a run always ends with a result or an exception |
| reports, viewer, CLI | none | format | none | not modelled |

`PROJECT.json` lists the same components with their sources and status, and under
`hazards` what is hard to test in each, at its line.

## 2. Plan

In this order, the most consequential behaviour first. All of it exists.

1. `CandidateLedger`, the record of attempts, implemented by `TournamentLaunch`;
   `TournamentLaunchProofs`.
2. `RunOutcome`, the two decisions of one run, implemented by `AdaptiveRun`, which takes the
   launch as one step whose outcomes are the final states of `TournamentLaunch`;
   `AdaptiveRunProofs`.
3. `GraphRun`, executing a graph of nodes, implemented by `GraphEngine` with
   `PlanValidation`; `GraphEngineProofs`.
4. `PatchDelivery`, bringing one chosen patch into a repository, implemented by
   `VerifierRun` over the pure operators of `Evidence`; `VerifierRunProofs`.
5. `AttemptEvidence`, the gate and the observations, used by `SingleTaskRun` and, through
   `Decomposition`, by `SubtaskRun`; `SingleTaskRunProofs`, `SubtaskRunProofs`.
6. `TournamentEvaluation`, the tool that `AdaptiveRun` takes as one step;
   `TournamentEvaluationProofs`.
7. `CostController` and `GitApply`, composed by `ControllerDelivery`;
   `ControllerDeliveryProofs`.
8. The part of termination that is a safety property, behind `LaunchEnds` and `RunEnds`: a
   measure that every step of the launch, of a turn, of the graph's loop and of a verifier run
   uses up (`LaunchBounded`, `RunBounded`), and that none of them is stuck before its end
   (`LaunchNeverStuck`, `RunNeverStuck`).

What remains is beyond the prover: that under the fairness stated the bounded run is therefore
taken to its end, which TLC checks.

Modules with theorems stay free of RECURSIVE operators; parameters are CONSTANTS with
named assumptions; invariants are conjunctions of named parts, because the proofs reuse
the parts. A run names the conjunction (`LaunchInv`, `DecisionInv`, ...) and the parts are
what section 4 explains.

## 3. The modules

### CandidateLedger and TournamentLaunch

`CandidateLedger` says what a reader of `state.json` may rely on: attempts are opened in
the order of their numbers, at most `MaxParallel` are open at once, a closed attempt keeps
its result, and a launch that returned leaves none open.

`TournamentLaunch` models `h_launch_tournament_candidates` with
`_persist_tournament_state` and the error handler of `execute_tool_with_policy`.

| variable | code |
|---|---|
| `pc`, `after`, `wr` | position of the main thread; where `_persist_tournament_state` returns to; which candidate's files it writes |
| `off`, `made` | the loop variable over batches (0-based); `len(made)`, that is `next_index - 1` |
| `cands` | `status` of every entry of `state.candidates` |
| `worker` | each future: idle, queued, running, or its outcome (completed, failed, raised) |
| `evidence` | keys of `state.candidate_evidence_packets` |
| `launched`, `completed`, `limitReason` | the counters and the launch-limit reason of `OpsState` |
| `deadlinePassed` | `time.time() >= state.candidate_generation_deadline` |
| `summaryFile`, `evidenceFile`, `stateFile` | what `runner_summary.json`, `evidence.json` and `state.json` say |
| `torn` | those of the per-candidate files that are cut off: opened and not written |

Main-thread actions, in code order: `Begin`; `StartBatch`, `DeadlineReached` or
`AllBatchesDone` at the head of the batch loop; `Schedule` (placeholder, then persist),
`Submit` or `SubmitFails`; `BatchScheduled`; `TakeResult(c)` for any finished future
(`as_completed`), whose result takes the placeholder's place in memory; `StorePacket`, which
builds its evidence packet and in doing so writes `evidence.json` for the first time, then
persists; `EndBatch`; `Drain` (the pool's `with` block waits, the policy's handler saves and
reports the error, or its own save raises). The persist loop is `WriteSummary`,
`WriteEvidence`, `SaveState`; `WriteFails` is the exception of any of the writes. Workers:
`StartWorker`, `FinishWorker`. The clock: `DeadlinePasses`.

`state.json` goes through `durable_write_text` and is replaced in one step. The files of a
candidate go through `write_text` (`agentic/artifacts.py:8-14`), which empties the file when
it opens it: `Truncate` is a step of its own before `WriteSummary`, `WriteEvidence` or
`StorePacket`, and an exception in between leaves the file in `torn`. Hence every reachable
state of these files is one that a killed process can leave.

### RunOutcome and AdaptiveRun

`RunOutcome` says what a run promises its caller: a chosen candidate is never given up,
a verdict is reached once, and acceptance is only of a chosen candidate.

`AdaptiveRun` models `OpsRunner.run` with more than one candidate attempt.

| variable | code |
|---|---|
| `pc`, `turn`, `calls`, `rec` | position in the loop of `OpsRunner.run`; its turn; calls of the current response already executed; the tool recovery recommended |
| `status`, `phase`, `path`, `selection` | the fields of `OpsState`; phases before finalizing are one value |
| `prep` | whether an investigation and a plan were accepted |
| `cands` | what became of each candidate: absent, running, good (materializable), broken (failed with a patch), bare (no patch) |
| `reviewed`, `ranked`, `winner` | risk reviews exist; `state.tournament_ranking` and its `selected_candidate_id` |
| `decision`, `finalPatch`, `finalBlockers` | `state.final_decision` |
| `recoveries`, `lastError` | `state.recovery_count`, `state.last_error is not None` |

One action per tool (`SubmitInvestigation`, `SubmitPlan`, `SelectForeignPath`,
`LaunchCandidates`, `EvaluateTournament`, `SelectWinner`, `FinalizeAccepted`,
`FinalizeOtherwise`, and `Observe` for those that change nothing here), `InvalidCall` and
`UnknownTool` for what the policy rejects, and the loop: `ProviderFails`,
`ModelCallsTools`, `EndOfCalls`, `NoToolCall`, `NoProgress`, `LeaveLoop`, `WrapUp`,
`RecoveryRaises`. Each tool action is the whole of `execute_tool_with_policy`: policy,
handler, counters, `last_error` (`Return(ok)` and `Refuse`). `Commit(rk, w)` is
`commit_tournament_selection`, called from evaluation, finalization and recovery;
`Recommend` is `recommend_next_agentic_action`.

### GraphRun and GraphEngine

`GraphRun` says what executing a graph promises: a node is executed at most once and only
after what it needs, an executed or skipped node stays so, only the planner's node may
exchange the untouched nodes and say what the new ones need, and the verdict comes last.

`GraphEngine` models `OrchestrationEngine.run` with `OrchestrationGraph`, `GraphScheduler`
and `BackendConcurrencyLimiter`.

| variable | code |
|---|---|
| `dependsOn` | `depends_on` of every subtask, once a plan is active |
| `pc`, `todo` | position of the main thread; the ready nodes of this round still to execute |
| `status`, `decomposed` | `status` of every node (pending and ready are `waiting`, a node of the other graph is `absent`); `context.decomposed_active` |
| `worker`, `backend` | each future of a pool: queued, busy, returned, raised, collected; `assigned_backend` |
| `fate`, `review` | whether `node.result` of a candidate describes a clean exit with a patch; its `acceptance_eligible` in `context.attempts` |
| `tries`, `accepted`, `told` | attempts made of a subtask; `context.accepted_subtasks`; whether its code node's result names an accepted attempt |
| `sound` | history: subtasks of which some attempt had exit code 0, a patch and a review without complaint |
| `integ` | `context.integration`: which tree the worktree holds, which subtasks went in, what the last validation said and about which tree, what the final review captured and said |
| `winner`, `decision` | `context.winner`, `decision.json` |

The loop is `SkipDoomed` and `NoReadyNodes` (a pass of the scheduler), `StartPool` or
`StartRound`, `RunCode`, `EndRound`, `Finalize`, and `RunFails` for an exception outside
the handlers. Threads: `Acquire`, `CandidateReturns`, `CandidateRaises`,
`SubtaskAttempt`, `SubtaskReturns`, `SubtaskRaises`; the main thread meets them in
`Collect`, `EndPool` and, after an exception, `PoolUnwound`. The handlers that run on the
main thread alone are one action each; every one has the alternatives that it settles its
node, that it raises after its effect, and that it raises before it. A single ready code
node, which the code runs on the main thread, is a pool of one. `Edges` is the union of the
dependencies of both graphs; `Needs` keeps those whose node is present.

`PlanValidation` models what decides whether a plan becomes the graph:
`validate_decomposition_plan` of `orchestration/planner.py` with its depth-first search,
`repair_decomposition_plan_schema`, and the revision of a plan that a model has found
wanting. A plan is a list of entries, and nothing keeps two of them from having one id; a plan
of the module has for each subtask its last entry, the one the dict of the dependencies keeps
(`Deps`), and the set of those before it, which that one hides (`hidden`). `AcceptedPlans` is
what can come out of any proposal; `Accepted` the dependencies of those that name every subtask
once; `TwinsAccepted` says that there are others. `Runnable` is the reference against which the
search is checked.

A graph made of a plan with twins has two nodes of one id, of which `graph.get` finds the first
only. `TwinPlan` is the switch to such a plan. From there on the model follows the run no
further: it is `astray` (section 6 says what the code does with it). It is an outcome that
`RunEnds` names, not one that the specification leaves out.

### PatchDelivery, Evidence and VerifierRun

`PatchDelivery` says what a verifier orchestrator promises together with `materialize`: one
candidate at most is chosen, it is on record before its patch reaches the repository, and no
other candidate's patch does.

`Evidence` holds, as operators, what `orchestrator/selection.py` computes: where a test comes
from (`TestSource`), which statements count as seen at runtime (`Behaviour`), what is at risk
or missing (`Risks`, `MissingFlags`), the key by which candidates are ranked (`RankKey`,
`Outranks`), and the selection of both orchestrators with its fallbacks
(`SelectWinner`, `FirstSuccess` in `VerifierRun`, `ParallelSelection`).

`VerifierRun` models `VerifierParallelOrchestrator.run`, `VerifierSequentialOrchestrator.run`,
and `materialize` on the directory they leave.

| variable | code |
|---|---|
| `setting`, `older` | the config (mode, `on_all_fail`, `keep_worktrees`, `parallelism`); whether the workspace has an earlier run with a winner |
| `pc` | which statement of `run` comes next, from `collect` to `done` or `dead` |
| `stage`, `report` | each candidate's `CandidateResult`: waiting, running, ran, verified, and what the verifier and the debug directory say of it |
| `rows` | its row in `candidates.jsonl` |
| `sel`, `integ` | `selection` and the status of the integration record in memory |
| `file` | `selection.json`, `decision.json`, `integration.json`, `materialization.json`, `orchestration.json`: absent, torn, or what they say |
| `trees` | worktrees that exist |
| `repo`, `applied` | the patches in the user's repository, and those applied so far |
| `user` | actions the user has taken (bounded) |

Actions in code order: `StartCandidate`, `CandidateEnds`, `Verify`, `Record`,
`RecordSkipped`, `Select`, `WriteSelection`, `WriteDecision`, `Apply` or `ApplyFails`,
`WriteIntegration`, `WriteMaterialization`, `RewriteSelection`, `RewriteDecision`,
`WriteOrchestration`, `Cleanup`. `ApplyFails` may have applied the patch, when `safe_apply` can
not write its own artifact. A verifier that raises leaves a report of `Errors`, with the patch
that was captured before or without. `Dies` ends the process at any step and may leave the file
that was being written cut off, since `write_json` is not atomic. `Materialize` and
`Restore` are the user's. `Found` is what `selection_from_orchestration_dir` makes of the files.

### AttemptEvidence and SingleTaskRun

`AttemptEvidence` holds what the single-task, the decomposed and the fallback path share: an
attempt and its evidence, `is_attempt_acceptance_eligible` (`Eligible`), the observation and
its freshness (`Observation`, `Snapshot`, `Fresh`), and how far a handler has got when it
raises (`Stages`, `RanThrough`).

`SingleTaskRun` models a run of `OpsRunner.run` on `execution_path=single_task`.

| variable | code |
|---|---|
| `pc`, `turn` | position in the loop, its turn |
| `reviewer` | whether a review backend is configured |
| `attempts`, `obs` | `state.candidates`, `state.attempt_observations` by attempt and the last of them |
| `selection`, `final` | `state.selection`, `state.final_decision` |
| `unattended` | history: so far the model has called no tool and no handler raised |

`RunNext(stage)`, `Observe`, `Validate`, `Review`, `Select`, `Accept` and `GiveUp` are the
tools; `Allowed` is `allowed_next_actions` as `execute_tool_with_policy` asks it;
`Recommendation` is `recommend_next_agentic_action`. The loop is `ModelCallsTools`,
`ToolCall`, `EndOfCalls`, `NoToolCall`, `ProviderFails`, `RecoveryInterrupted`,
`LeaveLoop` and `WrapUp`.

### Decomposition and SubtaskRun

`Decomposition` holds, as operators on one record `d`, what the handlers do to the subtasks:
their dependencies and status, their attempts with the tree each started from, the attempt
that was accepted (`chosen`) and the one that was applied (`applied`), the patches in the
rolling worktree (`rolling`) and `decomposed_execution_status` (`exec`). `CommitRaises` is an
acceptance that raises after the subtask was marked accepted: before its patch is applied, when
it is applied, or when the outcome is recorded. The status of the whole is then not recomputed,
which the field `late` remembers.

`SubtaskRun` models a run from the acceptance of the decomposition on.

| variable | code |
|---|---|
| `d` | the subtasks, as above |
| `integration` | `state.integration` |
| `fallback`, `cands` | `state.fallback_execution_path`, and `state.candidates` of the fallback |
| `repair` | whether `state.candidates` holds an integration repair with a patch and no review |
| `selection`, `final` | `state.selection`, how the run ended |
| `reviewer`, `focused` | whether there is a reviewer, and validation commands for subtasks |

`RunSubtask`, `ReviewSubtask`, `ValidateSubtask`, `Integrate`, `ValidateIntegration`,
`ReviewIntegration`, `Repair`, `StartFallback`, `RunCandidate`, `ValidateCandidate`,
`ReviewCandidate`, `Select`, `Accept` and `GiveUp` are the tools; `Rules` is the order of the
recommendations of `agentic/recovery.py` on this path. The recovery executes its
recommendation as a call like any other, so that `Call` covers it; what it recommends matters
to `RecoveryAdvances` only.

### TournamentEvaluation

`TournamentEvaluation` models `h_evaluate_tournament`, which `AdaptiveRun` takes as one step.

| variable | code |
|---|---|
| `pc`, `todo` | idle, reviewing, comparing, committing; the candidates or pairs left to do |
| `asked` | the prompts sent for the present review or comparison that got no answer, of at most three (`Requests`) |
| `reviews`, `comparisons` | `state.candidate_risk_reviews`, `state.pairwise_comparisons`: by whom, and with what outcome |
| `ranking`, `selection`, `coverage` | `state.tournament_ranking`, `state.selection`, the claim of pairwise coverage |
| `left`, `due`, `spent`, `compared` | time left of the run and of the evaluation; reviews paid; comparisons made by a model in this evaluation |
| `overdrawn`, `bought`, `late` | history: requests for a comparison made on the reserve, those of them that were answered, requests made past the guard |
| `evaluations` | calls of the tool (bounded) |
| `material`, `planned`, `backend` | candidates with a patch; whether the budget policy is the planned one; whether there is a model |

`Begin` or `EvaluateInHaste`, or `BeginRaises` between two of the deterministic reviews;
`AskForReview`, `LeaveReview`, `EndReviews`; `AskForComparison`, `FallsBack`; `Rank`; `Commit`;
`Raises` at any point, after which the next call goes on from what is in the state. Each prompt
is a step of its own: the budget is looked at before the first of the three (`asked = 0`) and
not before the others (`AskedAgain`), as in the code.
`RecoveryCommits`, the recovery's own call of `commit_tournament_selection`; `TimePasses`.

### CostController, GitApply and ControllerDelivery

`CostController` models `CostPolicyVillaniOps.run` with `decide_next_action`, the gate and the
human approval.

| variable | code |
|---|---|
| `pc` | where the controller is |
| `setting`, `strategy` | the command line and whether stdin is a terminal; `max_attempts` of each planned backend |
| `k`, `j`, `tried` | plan index, attempt on it, attempts begun on each backend |
| `cur` | the attempt at work: status, exit code, patch, review, human answer, action |
| `state`, `lastAction` | `recorder.current_state`, the last decision step |
| `winner`, `decision` | the accepted attempt, `decision.json` |

`GitApply` models `safe_apply` and the commands `apply`, `branch` and `pr`: `isRepo`,
`branches`, `head`, `tip` (the changes committed on each), `tree` (the changes that are not
committed), the command at work `cmd` with its artifact `art`, the `remote`, and the number
of `calls`. Every git process is a step that may fail; between two of them the user may edit
and the command may be killed. What follows a commit, `git rev-parse` and the writing of the
artifact, may fail as well and then leads into the rollback.

`ControllerDelivery` composes them: the controller works on worktrees, so that the user's
repository is chosen, among all that it may then look like, when the run ends (`Reveal`); the
commands begin after that, since before it there is no `decision.json`.

Definitions named `Mut...` are mistakes one could make in this code. They take no part in
the specifications. With one of them in the place of the definition after it, TLC finds the
property violated that `PROJECT.json` pairs it with.

The modules `MC...` are the ones TLC runs.

## 4. The runs

All runs switch deadlock detection off: a launch, a run or a command that ended has no next
step, which is what it should do.

| run | question | bounds and why they are enough |
|---|---|---|
| `tournament_launch` | does the launch keep its limits and its files truthful, and end, whatever raises? | 5 candidates, 3 in parallel: a full batch followed by a partial one, so both the barrier between batches and the smaller pool of the last one occur, with up to three workers overlapping |
| `adaptive_run` | what may an accepted, a failed and a finished run look like? | 3 candidates, 4 turns of up to 2 calls, 2 recoveries. Investigation and plan fit in one response, launch and evaluation in the next, a re-evaluation and the finalization in the third, and the fourth turn is left for recovery; a third candidate distinguishes the selected, the newly ranked and another one |
| `graph_engine` | does the engine execute any plan in order, and what does a winner rest on? | 2 candidates (hence 2 attempts per subtask), 2 subtasks with any dependencies the planner may propose, circles and unknown names included, or free of dependencies with a second entry for one of them that proposes any; a backend of width 1 and one of width 2: two agents can compete for one slot, a retry exists, a subtask starves |
| `verifier_run` | is what was applied the right candidate, and is it found again? | 3 candidates, five reports between which every rule of the selection tells, a pool of two so that one candidate waits, an older run in the workspace or none, two actions of the user: a materialize and a restore, or two materializes |
| `controller_delivery` | what does the controller accept and when does it give up; what do the commands leave of the repository? | a plan of two backends, 2 and 1 attempts: a retry, an escalation and an end of the plan; all settings but those another one subsumes; two commands, so that one meets what the other left |
| `single_task_run` | what does acceptance rest on, and does the recovery do without the model? | 2 attempts, 3 turns: the second attempt is the retry and the third turn the verdict; two results of the runner: good, failed with a patch (one without a patch is what `subtask_run` has) |
| `subtask_run` | in what order may things happen to subtasks, and does the recovery get on? | 2 subtasks, independent or in a chain, 2 attempts each, whose patch is clean, strays or is missing; three attempts in a chain (a retry and a dependent, or a deadlock and a candidate of the fallback), two of independent subtasks; a handler may raise after its beginning, after the agent ran or after the acceptance; once the last has happened, a chain begins no further attempt and independent subtasks one (`FewAttempts`), which is enough for a deadlock that nobody noticed |
| `tournament_evaluation` | does an evaluation survive an interruption and keep its budgets? | 3 candidates: the smallest number with more than one pair and with a winner of all; 2 evaluations, of which the first may break off anywhere; 8 units of time with a guard of 1: an answer, or a request without one, takes one or two of them, so that the three reviews and three comparisons of an evaluation can all be made by the model, and a slow answer or a repeated request crosses the guard or the reserve; evaluations of 3 units with reserves of 2 and 1, so that the planned policy leaves off after a comparison or pays one from the reserve |
| `tournament_launch_stale`, `graph_engine_sound`, `controller_human_failure`, `subtask_base` | one statement each that a comment, prompt or check makes and the code does not keep (section 6) | smaller instances |

What the properties say, with the parts of those that combine several:

* `LaunchInv`: `TypeOK`; `ParallelBound` and `BatchBarrier`, the limits of the backend hold
  whatever the order in which workers finish, and a batch starts only when all results of
  the earlier ones are on disk; `ReturnedComplete` and `NoOrphanWorker`, how a launch ends.
* `FilesHonest`: `WriteAhead`, `ArtifactsAhead`, `FilesTruthful`, `OneFileTorn`. No worker
  exists that `state.json` does not know; a result in `state.json` has its artifacts, whole but
  for one that is being written again; no file that is whole claims a result that a worker did
  not produce; no more than one file is cut off, and none when the launch returns. `LaunchEnds`: the launch comes to its end.
* `DecisionInv`: `TypeOK`; `AcceptedIsSelected`, `SelectedHasEnded`, `EndsDecided`: what
  acceptance rests on, also after the calls that a response makes after `ops_finalize_run`,
  and that the loop is left with a decision. `GoodWorkNotDiscarded`: with a materializable
  candidate at hand a run fails only on a fatal blocker, on the turn limit or with its
  provider. `RunEnds`: the loop is left.
* `EngineInv`: `TypeOK`; `BackendLimit`; `DependenciesPresent`, no agent works on a subtask
  without the patches it builds on; `NothingLeft`, no agent works while the main loop decides
  or after the run; `WinnerHasEvidence`. `EvidenceFrozen`: a late exception of a thread cannot
  change what was reviewed. `ReviewSeesValidatedTree`: the final patch and the validation are
  about the same tree. `PlanRunnable`: the depth-first search and the repair of a revised plan
  let only plans through that can be executed, of those that name every subtask once. `RunEnds`:
  every run comes to an end or meets a plan with twins.
* `VerifierInv`: `TypeOK`; `NoneAfterSuccess`, verifier-sequential pays for a candidate only
  when every earlier one was found wanting; `SelectsAmongAll`; `CompletedIsApplied`.
  `AppliedIsJustified`: whatever brought a patch into the repository, at whatever moment, its
  candidate deserved it. `RecordsAgree`. `WinnerIsFound`: `materialize` finds the winner, in
  the middle of the run and after its end, unless `materialization.json` was cut off.
* `ControllerInv`: `TypeOK`; `AcceptedOnEvidence`; `GivesUpAtTheEnd`, a run that accepts
  nothing has tried the last backend of its plan; `NeverAsksUnattended`; `DeliveredIsAccepted`;
  `RolledBackIsBack`. `NoAttemptWasted`, `EscalationMovesOn`: the counters of the controller,
  with their exceptions. `WorkKept`: what a failing, killed or raced command loses is no more than the commits of a
  branch it was told to delete, and the commit it has just made when something fails after it.
  `OnlyThePatchIsCommitted`: unless the user edits after the look at the tree or forces it.
* `SingleTaskInv`: `TypeOK`, `AcceptedOnEvidence`. `ObservationsHold`: an observation that is
  taken for fresh tells the truth. `GoodWorkKept`: `EligibleStays`, `GoodWorkNotDiscarded`.
  `NoBlindRetry`: the recovery starts a further attempt only when all is known of the earlier
  ones. `UnattendedDelivers`: the recovery alone brings a run home. `RunEnds`.
* `SubtaskInv`: `TypeOK` with the budgets; `DependenciesFirst`; `IntegrationWaits`.
  `FinalIsIntegrated`: what an accepted run rests on. `DeadlockSeen`: a deadlock is
  noticed, so that the fallback opens, unless an acceptance has raised since. `RecoveryAdvances`: what the recovery recommends is
  not refused and gets the subtasks on, but for the one case named by `Mistaken` (see section
  6). `AcceptedOnReview`.
* `EvaluationInv`: `TypeOK`; `GuardKept`, no model is asked for a first time past the guard, so
  that the requests made there are in a whole run at most the two smaller prompts of one answer;
  `ReserveHeld`, one comparison at most is bought from the reserve, and what else is spent on it
  went into pairs no model answered for; `SelectionDeliverable`.
  `ComparedOnce`, `ModelWorkKept`: across interruptions and re-evaluations. `CoverageEarned`:
  the claim of complete coverage is true. `UndefeatedFirst`: no score outweighs having beaten
  everybody.
* `ImplementsLedger`, `ImplementsOutcome`, `ImplementsGraphRun`, `Delivers`: the refinements.

Symmetry: only `graph_engine_sound` uses it, for its candidates. Elsewhere candidates are numbered
and taken in order, or the run checks liveness too.

Fairness. In `TournamentLaunch` weak fairness of the main thread, which is never blocked
except on a future, and of every worker, because `run_task` runs the agent with a timeout.
In `AdaptiveRun` weak fairness of the whole next-state relation: the loop is sequential
and every model request and tool call returns or raises. In `GraphEngine` weak fairness of
`Progress`, which is all but `RunFails`: the main thread and the pool's threads are scheduled
and no step of the run can be undone or repeated, agents and validation commands have
timeouts, and no failure is owed to anybody. In `SingleTaskRun` weak fairness of `NoToolCall`,
`EndOfCalls`, `LeaveLoop` and `WrapUp`: a response has finitely many calls, and the loop goes
on after them. Nothing is ever assumed about what a model answers. The other modules state
safety only: their processes may be killed at any step, and who calls what is up to a model
or a user.

## 5. The proofs

`TournamentLaunchProofs` proves `LaunchInv`, `FilesHonest` and the refinement of
`CandidateLedger` for any number of candidates and any parallelism (`LaunchAssumption`: both
are positive naturals). None of the properties is inductive. The inductive invariant `IInv`
adds:

* `Aligned`: `off` is a multiple of `MaxParallel`. The batch of a candidate is then its
  number divided by the batch size, which `BatchBarrier` needs.
* `PositionInv`: for each value of `pc`, how far `made` is in the current batch.
* `WorkerInv`, `RecordInv`: which workers can exist, and that a memory record is the
  placeholder or the worker's own result.
* `FileInv`, `PassInv`, `LagInv`: files follow memory. The per-candidate files written so
  far in a persist pass agree with memory, and `state.json` lags by at most the
  candidate that the pass is about. `OneFileTorn` is needed beside them: the file that is cut
  off is the one about to be written, so that the end of a pass leaves none.

`TypeStep`, `AlignedStep` and so on prove one conjunct each, with a step per action.

`AdaptiveRunProofs` proves `DecisionInv`, `GoodWorkNotDiscarded` and the refinement of
`RunOutcome` for any set of candidates and any limits (`RunAssumption`). `StepKinds` shows
that every step of the run is one of five kinds: idle, launch, commit, accept, fail. The
invariant `RunInv` adds to `AcceptedIsSelected` and `SelectedHasEnded` that the ranking's
winner exists, that candidates exist only on the tournament path, and that a finished run
has a decision. It is preserved by each kind, and the refinement and
`GoodWorkNotDiscarded` follow from the kinds without looking at the tools again. The types
of the counters need `TurnInv`: a turn under way has been counted against the limit.

`VerifierRunProofs` first proves about the selection, for any finite set of reports with finite logs:
`Exceeds` is irreflexive and transitive (`ExceedsIrreflexive`, `ExceedsTransitive`), hence
`Outranks` is well founded on a finite set and `Best` is not empty (`BestExists`); what
`ParallelSelection` picks deserves it (`SelectionDeserved`, `ParallelDeserved`).
`FirstIsLeast` is about the choice by number.

It then proves all five properties of `verifier_run` for any number of candidates,
any pool, any reports and any number of user actions (`VerifierAssumption`: reports have
finite logs, the older winner and the marks of absent and torn files are none of the things
they are compared with). Its invariant is `IInv`, with a lemma per conjunct:

* `Types`, and `PoolInv`: candidates start in order, at most `width` of them run, and a row
  says what became of its candidate. `NoneAfterSuccess` needs both.
* `SelInv`: the selection was made among the verified candidates and is `Justified`. It is
  where those lemmas are used.
* `FileInv`: a file that can be read says what is in memory. `RecordsAgree` follows.
* `TimeInv`: which files exist at which `pc`; a process that died leaves a prefix of them, the
  last perhaps torn.
* `RepoInv`: this run's patch is in the repository only after it was recorded, and is the
  winner's.

Every step is of one of three kinds (`StepKinds`): it gathers, it selects, or it comes after
the selection and leaves what was gathered alone. `AppliedIsJustified` follows from `SelInv`
and `RepoInv`; the refinement from `FileInv`, `TimeInv` and `RepoInv`.

`SingleTaskRunProofs` proves the five safety properties of `single_task_run` for any results of
the runner, any budget and any turn limit (`SingleTaskAssumption`). `StepIs` shows that, whoever
takes a step, it does one of six things to the data of the run: run an attempt, observe one,
judge one (validate or review), select, accept, end otherwise. The argument:

* `Kept`: an attempt that is eligible is changed by none of them, because judging is allowed
  only while no attempt is (`NoneGood`). `GoodWorkKept` follows, and that `selection` still names
  an eligible attempt when the run is finalized and after it (`Accepted`).
* `Records`: every observation was made of an attempt with the same runner's result as it has
  now, and the one that says accepted is of an attempt that is eligible now. It is needed because
  `ObservationsHold` alone does not say what a stale observation once was.
* `RecommendsRun`, `CourseOfRecovery`: what the recovery recommends, by the cases of
  `recommend_next_agentic_action`. `NoBlindRetry` is the first of them and `OnlyRunsAdd`.
* `Course`: while the model calls no tool, one turn has gone to each attempt, and a further one
  to the selection; or the run waits for a validation or review that nobody makes, or its budget
  is used. `UnattendedDelivers` follows. That `Budget + 1` turns suffice is used where the loop
  is left with an eligible attempt: it is selected by then.

`ControllerDeliveryProofs` proves all five properties of the controller's run and the delivery,
for any strategies, settings and number of commands (`StrategyAssumption`, `SettingAssumption`,
`GitAssumption`: strategies are not empty and their limits positive, the names are distinct). The
invariant has two halves that hardly meet:

* `CtrlInv`, of the controller: `Count` says how often each backend was tried (the one at work as
  often as the attempt's number, those after it never), `Reasons` why an attempt that is about to
  be left was not retried or was escalated, `Evidence` what an accepted attempt rests on.
  `DecisionIs` is the lemma about `decide_next_action` behind the last two.
* `Delivery`, of the repository: untouched until the run is over, then `GitInv`, which
  the first half of the module shows to be kept by every command. `Place` says that a command is on the branch
  it found or on the one it made, whose commit is that of the other until the command commits;
  a rollback before the commit that deletes the branch therefore deletes nothing; after it, it
  deletes what was committed, which is what `CommitDeleted` says (`NothingIsLost`). `Contents` says
  what the working tree and the commit hold, `Rightful` that the patch is nowhere unless it was
  accepted, `Back` what a rollback that says it succeeded has left.

`GraphEngineProofs` proves all four safety properties of `graph_engine` and the refinement of
`GraphRun`, for any candidates, subtasks, backends, limits and proposed plans
(`EngineAssumption`, `PlanAssumption`: the two are finite, their names and `None` distinct, and
every backend has a positive limit). The invariant `IInv` ties the threads to the graph:

* `ThreadsInStep` says for every place a thread can be in what the status of its code node is,
  and that it was taken only for a node whose needs are satisfied; outside a pool there is none.
  Without it a late exception could change what a review has seen. `RoundInStep` says the same
  of what a round still has to execute.
* `PlannerFirst`: nothing that follows the decomposition is touched before it is decided. It is
  why the replacement of the graph, the one step that changes edges and nodes, loses nothing
  (`ReplacementImplements`).
* `ReviewsFollow`, `EvidenceReviewed`, `WinnerAfterReviews`: what is in `context.attempts`, and
  that a winner is chosen after it. `EvidenceFrozen` and `WinnerHasEvidence` follow.
* `SubtasksInOrder`, `NothingAccepted`: an agent is told to be accepted only by a gate that
  rejects. `IntegrationFollows`, `ValidatedTree` are about the integration.

All other steps are plain: they keep the edges and what was dealt with, and each part of `IInv`
has a lemma that says so of the four kinds of plain step. The refinement uses the same kinds:
`ViewOf` reads the state of a node as `GraphRun` does, `SatisfiedMayRun` shows that a ready node
may run there.

`PlanRunnable` rests on a section about the depth-first search of `Cyclic`, which is a recursive
function of a subtask and the path to it (written over pairs, since the prover does not take
functions of two arguments). A subtask is `Clear` of a path when it lies in a set of subtasks
without circles that holds all its members depend on and none of the path; `ClearEquation` shows
that this is the equation of the search. `SearchDecides`: what the search does not report is
clear; else there would be a longest path with which it misses one, and it would miss one with
a longer path too. `AcyclicPlansRun` then orders the subtasks by how many each depends on.

`SubtaskRunProofs` proves all five properties of `subtask_run` for any subtasks and dependencies,
any budget and any results (`DecompositionAssumption`, `DependenciesAssumption`: the subtasks are
finitely many and numbered so that dependencies come first, the runner leaves something, without
a review of its own). The operators of `Decomposition` come first: `CommitIs`, `JudgedIs`, `TriedIs`
and `RunIs` say that they keep the record sound, touch one subtask, accept it only with an
attempt that passed its review, and leave the status of the whole true unless that subtask
still runs or its acceptance raised (`RaisedIs`). A step of the run is then a `Change` of one subtask or leaves the subtasks alone. The
inductive invariant adds to the properties that candidates exist only in a fallback
(`CandidatesOnlyInFallback`), which `RecoveryAdvances` needs: with a subtask ready there is no
integration (`IntegrationWaits`) and no candidate, so that the first four rules of the recovery
do not apply (`RecommendedIs`), and what a call leads to is an advance (`CallAdvances`).

`TournamentEvaluationProofs` proves all five properties of `tournament_evaluation` for any
candidates, times, reserves and number of calls (`EvaluationAssumption`: the candidates are
finitely many numbers and `None` is none of them). What is sorted holds every element once
(`SortedIs`). The inductive invariant adds to what the run checks:

* `Waiting`, of the pairs still to compare: they are of different candidates with a patch, no two of
  them are the same pair the one or the other way round, and none has been compared.
  `ComparedOnce` alone is not inductive, for a list of pairs with a repetition would break it.
  `PairsAreNew` shows that the list has none, from the order in which it is made.
* `Honest`: a comparison is of two candidates with a patch and is won by one of them or none.
  `Reserve`, `Waking`: what has been drawn on the reserve, and asked past the guard, by how
  many prompts of the present answer have been sent. `Thrift`: the reviews paid.

`UndefeatedFirst` is a count. Each of the others gives the undefeated candidate a comparison
that it won, a different one for each (`WinsOfUndefeated`); a win of any other is over a third
candidate, since that pair was compared once only (`WinsOfOthers`). So it has more wins by a
model than any other (`UndefeatedWinsMost`), and they come first in the key of the ranking.

The sorts of the code are sets of sorted lists in the module, which a step takes a member of.
`OrdersAreDecided` shows that this neither blocks a step nor leaves open what the code decides:
a finite set can be listed by any keys of one length (`OrderExists`, `SortedExists`), and in one
way only when no two keys are the same (`SortedIsUnique`), as for the candidates and the pairs.

Termination is proved as far as it is a safety property, in the last section of
`TournamentLaunchProofs`, `AdaptiveRunProofs`, `SingleTaskRunProofs`, `GraphEngineProofs` and
`VerifierRunProofs`. `Effort` is a natural number, so many at most when the run starts, and every
step makes it smaller, the failures and the deaths too, whoever is scheduled: `LaunchBounded` and
the four `RunBounded`.

* The launch: what the main thread still has to make, to begin and to collect (`Road`), each worth
  a pass over the files; what is left of the pass under way; the steps of the workers; and the
  deadline, whose passing is a step too.
* The adaptive run: the turns left, each worth more than a response with all its calls. `MaxCalls`
  bounds in the model how many tools a response calls; the theorem is for any such number.
* The single-task run has no such bound, and a further call within a response leaves the measure as
  it is. So only a response without end could keep the run from ending.
* The graph engine, up to its end or to a plan with twins: how far each node is from being dealt with, the attempts each subtask has left,
  and a whole graph more until the decomposition is decided, since replacing the graph makes nodes
  `waiting` again. Both are sizes of sets of pairs, of a node with a number up to its `Level`, so
  that a lemma on what a step takes out of the set (`Loses`, `NodeAdvances`) stands for sums.
* The verifier run: how far each candidate is from its row, counted likewise, and the way of
  `run()` after that. `materialize` and the user's restoring leave the measure as it is.

`LaunchNeverStuck` and `RunNeverStuck` say that before the end the guard of some step holds. A
guard is stated as a predicate of the state and not as ENABLED, which the prover does not know.
The launch waits only for workers that run or can be started; the graph engine needs a backend
(`Backends # {}`), since the code can give no node to a pool without one, and that no plan with
twins is accepted (`~TwinsAccepted`), with which the bound of `RunBounded` is one of the steps
up to `TwinPlan` only; a verifier run needs
`RowsTell`, that in `verifier-sequential` a candidate recorded as verified was no success, for
else the ones after it would neither be run nor skipped, and that a selection among candidates
always has a result (`SelectionExists`). `RecoveryCanAct` is the part of it for the adaptive run
that is not plain: what the recovery recommends can be called.

Only model-checked: the conclusion from both under fairness, `LaunchEnds` and the three `RunEnds`,
since liveness is beyond the prover; and the runs that show a violation.

## 6. Findings

Each is a run whose property restates what a sentence or a check of the repository assumes, and
TLC's counterexample is an execution of the code.

* `RunningMeansRunning`: when a write or an event record raises during the launch, the
  placeholders stay `running` though the pool has been drained. The policy refuses to
  finalize "while work is running", a second launch answers `already_launched`, and the run
  can only end on its turn limit.
* `SoundIsAccepted`: the graph engine asks the acceptance gate about a subtask attempt
  before it stores the review and while the status is still `running`. The gate rejects
  every attempt, the retries are told to use review issues that do not exist, and no
  decomposed run is ever accepted. Subtasks with dependencies
  never start, and the repair and acceptance of integrated patches see empty integrations.
* `HumanFailureStops`: `decide_next_action` answers a human's `fail` with `should_stop`, but the
  controller only leaves the loop over the attempts of this backend and goes on with the next.
* `BuiltOnAccepted`: a subtask's attempt may start from a tree that holds the patch of an
  attempt that was not accepted, or lacks one that was: a commit is taken back when the
  focused validation has failed but its patch is not, and an acceptance whose patch does not
  apply stands.

Seen on the way, without a run of their own.

Adaptive and tournament runs:

* `hydrate_tournament_state_from_artifacts` (`agentic/tools.py:1464-1490`), called by the launch,
  the evaluation and the recovery, parses every file of the run directory that memory has no
  counterpart of. One that a failed write has cut off raises out of each of these calls.
* After a second evaluation ranks another candidate first, the committed selection can never be
  accepted, because the exemption from review belongs to the ranking's winner. That winner
  may be a candidate that failed or has no patch.
* Calls after `ops_finalize_run` in the same response overwrite the phase.
* After a selection that rejects all candidates, a response without a tool call raises
  `AttributeError` out of the run.
* The `reject_all` that recovery recommends with `failure_observations` is refused by the schema
  of the tool (`agentic/tools.py:285`, `352`) every time, though
  `tests/test_agentic_adaptive_recovery.py:64-70` and `107-117` expect the recommendation.
* A re-evaluation labels comparisons that a model made before as made by the fallback, and
  applies the penalties of the reviews once more. Three sizes of prompt are tried with one look
  at the guard: the two smaller ones may be sent past it, and as long as no model has compared in
  an evaluation, every pair may cost three unanswered prompts on the reserve
  (`agentic/tools.py:1668-1671`). `GuardKept` and `ReserveHeld` state what is left of both. A late re-evaluation ranks by number of patch and replaces a ranking
  that rested on comparisons; the selection stays.

Single-task and decomposed runs:

* A response may finalize the run and then start another attempt.
* An acceptance may raise after the subtask was marked accepted: when the rolling worktree is
  copied, when the outcome is written or recorded (`agentic/tools.py:688-697`). The status of the
  whole is not recomputed and stays `running` from `agentic/tools.py:1917`. If the other subtasks
  have failed, the recovery recommends the fallback at every turn and the policy refuses it
  (`agentic/state_tooling.py:47`); only another call for a subtask whose budget is used would bring
  the status up to date. It is the case that `DeadlockSeen` leaves out (`late`).
* A failed attempt with a patch and no trace stalls the deterministic recovery, and so does an
  eligible attempt next to one that lacks evidence: what is recommended is refused until the
  turns are used up. `retry_review_infrastructure` cannot be reached.
* A review of a rejected attempt sets it to `reviewed`; a review in the scope `integration` does
  not refresh the observation of a candidate.
* Once a validation of the integration has not passed, only repair is allowed, which always
  raises after its runner has succeeded; such a run can never be accepted. Neither can one that
  has fallen back (`agentic/tools.py:2507-2509`). The recovery never integrates.
* A subtask that failed can still be committed by the recovery; a later review can replace the
  accepted attempt when the integration has been made.
* The recovery holds an attempt to be ready for a commit when its validation and its review
  have passed (`agentic/recovery.py:101-106`); the handler asks in addition that its changes stay
  in the subtask's scope (`_subtask_commit_ready` in `agentic/tools.py`). After a subtask has
  failed with such an attempt the recovery recommends its commit at every turn, the handler
  answers that the budget is exhausted, and another subtask that is ready is never run. It is
  the case that `RecoveryAdvances` leaves out (`Mistaken`).
* An unknown name of a backend leaves its subtask `running`, so that the run cannot be finalized.
* A dependency on an unknown subtask raises `KeyError` out of `h_validate_decomposition`
  (`agentic/tools.py:426`), two lines before it would have been reported.

Graph engine:

* `validate_decomposition_plan` (`orchestration/planner.py:335-390`) never asks whether two
  subtasks have one id. The planner's answer is made unique when it is normalised and the
  reviser's when its schema is repaired, but a first answer that already has the right form
  (`orchestration/planner.py:540`) is not. The dict of the dependencies keeps the last entry of an
  id, so that a circle through an earlier one is not found. Of two nodes with one id `graph.get` and
  `mark_...` (`orchestration/graph.py:17-26`, `48-59`) touch the first: the second stays ready, and
  the loop of `run` (`orchestration/engine.py:203-223`) executes it again and again, unless it waits
  for a dependency that is never satisfied. Nothing bounds that loop. `PlanRunnable`,
  `ImplementsGraphRun` and `RunEnds` are about the plans without such twins; the run reaches
  `astray` with the others.
* A run whose verify node failed or was skipped is accepted all the same, because
  the select node sets the winner before it can fail; a revised plan's dependencies on unknown
  subtasks are dropped by the repair of its schema.

Verifier orchestrators and delivery:

* The status `integration_failed` cannot be reached. When the newest run has no winner,
  `materialize` applies the one of an older run. A `materialization.json` that was cut off makes it
  ignore the run although its other files name the winner.
* The preference for strong acceptance is without effect in verifier-parallel, where the ranking
  decides; a test of the candidate's own that passes can lower its rank.
* When `git rev-parse` or the writing of the artifact fails after a successful commit
  (`git_ops.py:64`, `66`), the except block checks the original branch out and, the tree being
  clean, deletes the branch it made with the commit on it (`git_ops.py:72-76`): the patch is out of
  reach of every branch, and with `--force` the user's uncommitted work, which that commit took
  along, is too. The artifact reports `rollback_succeeded`. `WorkKept` names this as `CommitDeleted`.
  When only the patch was applied, without a branch, the same failure leaves it in the tree and
  reports that applying it has failed.
* On a detached HEAD a rollback leaves the user on the branch that was created and reports
  `rollback_succeeded` (`git_ops.py:72-76`). Outside a repository a commit is refused after the
  patch was applied (`git_ops.py:60`). The working tree may get dirty between the look at it and
  `git add .`.
* When the human asks to escalate and the reviewer to retry, the same backend is tried again
  (`cost_policy/executor.py:241`). An exception while the accepted attempt is written keeps it
  accepted with the state failed. Without a terminal a run may end with the action `ask_human`.
* `capture_worktree` takes `git diff HEAD`, so that new files are not part of the patch.

## 7. What is not modelled

Abstractions of `TournamentLaunch`: the replacement of `state.json` is one atomic step, which holds
for `durable_write_text` up to its rename; retries inside it are part of it. The plain writes of
`runner_summary.json` and `evidence.json` are two steps, the opening that empties the file and the
write. `patch.diff`, `reviews/`, `comparisons/`, `selection.json` and `final_report.md`, which a pass
also writes, plainly and between those two and `state.json`, are left out, their failures being those of `WriteFails`;
`KeyboardInterrupt` and a kill are covered only in so far as any reachable state may be the
last one. `_run_attempt` is a worker that ends with one of three outcomes.

Abstractions of `AdaptiveRun`: the order of the ranking below its winner; the text of
reviews and comparisons; an existing patch or worktree does not vanish during the run; a
plan commits its path at once, as `h_plan` does; a wrong `selected_patch_path` is refused
like a wrong attempt; `hydrate_tournament_state_from_artifacts` finds nothing newer than
memory within one run, since memory is ahead of the files (`TournamentLaunch` shows that it
is), and where it raises on a file cut off, in the launch or the evaluation, the call has failed; the
same exception out of the recovery (`agentic/recovery.py:117`), which ends the run, is not modelled;
the recovery counter saturates one above its limit, where no comparison can tell the
difference; a save that raises inside the policy's own error handler is an outcome
of `TournamentLaunch` (`escaped`) and not of `AdaptiveRun`. No tool on this path attaches a
review to a candidate, so that the acceptance gate always answers `review_missing`, and only
the ranking's winner is exempt. The checks at the start of `OpsRunner.run` are left out.

Abstractions of `GraphEngine`: the classify node is always in the graph; of the planner only
its proposals and what the validation makes of them; which backend the policy chooses is left
open; the order of the ready nodes of a round is; what a run does after it has switched to a plan with
two subtasks of one id is not followed; which of several hidden entries of an id comes first is left
open; a validation command is taken to leave the
tree as it is; `node.result` and the node's status are set in one step, as nobody reads them
in between; telemetry, costs and the contents of files are left out. Because the gate rejects
every subtask attempt, the model, like the code, never integrates a patch; the properties of
the integration are stated for the code as it is.

Abstractions of `Evidence` and `VerifierRun`: the regular expressions that read commands and
statements are their verdicts; a report is an input, whatever the verifier made of the
trace; the comparison of successful candidates by a model is left out, because it is advisory
and decides nothing; a random fallback may pick any candidate that the code may pick; the
rewritten `task.json` names no winner.

Abstractions of `SingleTaskRun` and `SubtaskRun`: a patch is clean, bad, stray or none;
validation commands are their verdict; a call that the policy or the handler refuses changes
only counters and events and is left out; in `SubtaskRun` the turns are not counted and the end
of the loop is one action, the submission of the plan comes before the first state, and a patch
fits the tree it was made from while on another it may or may not apply.

Abstractions of `TournamentEvaluation`: of a review's scores only the critical gap is kept;
candidates between which the wins, the losses and the gap do not tell may be ranked in any order, and are
reviewed and compared in the order of their numbers; a comparison is its winner; the answer of a
model takes as long as any of `CallTimes`, prompt by prompt; all patches have one size and cost.

Abstractions of `CostController` and `GitApply`: the policy's strategy and the classifier's number
are inputs; a patch is good, flawed or empty; the contents of a commit or of the working tree are
a set of three kinds of change; `gh` is there or not.

Nothing in the code resumes a run from `state.json`; there is therefore no recovery
after a crash to model, only what the files say.

Not modelled, because they have no state that outlives a call or no decision reads it: the
verifier's extraction of text and its prompts, the scoring tables of the policy engine, the
normalisation of answers in performance mode and in the classifier, usage telemetry (records
appended under a lock and summed up), reports, viewer, CLI formatting. The submission of a
decomposition and its deterministic validation on the agentic path, whose one defect is listed
above, how a patch is captured from a worktree, and the retries of a rename are left out of
components that are modelled otherwise. `PROJECT.json` gives status and reason for each.
