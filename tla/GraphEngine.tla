----------------------------- MODULE GraphEngine -----------------------------
(***************************************************************************)
(* One run of the graph engine (orchestration/engine.py) over the graph of *)
(* orchestration/graph.py: prepare, generate candidates on a thread pool,  *)
(* review them, select and verify; or, when the decomposition is accepted, *)
(* run subtasks on the pool, integrate, validate, repair, review, verify.  *)
(*                                                                         *)
(* A node is a pair of its kind and of the candidate or subtask it is for. *)
(* The main loop executes the ready nodes of a round one after the other   *)
(* (their order, that of the graph, matters to nothing here); code nodes   *)
(* run on worker threads.  Any handler may raise, which fails its node;    *)
(* whatever raises outside a handler ends the run.  A plan that names one  *)
(* subtask twice makes two nodes of one id, and the run goes astray: it is *)
(* followed no further.                                                    *)
(*                                                                         *)
(* A definition named Mut... is a mistake one could make in this code; the *)
(* properties below are checked to fail when it takes the place of the     *)
(* definition that follows it.                                             *)
(***************************************************************************)
EXTENDS PlanValidation

CONSTANTS Candidates,   \* the candidate attempts asked for
          Backends,
          MaxParallel,  \* max_parallel of each backend
          None,         \* no candidate, subtask or backend
          Integrated    \* the winner "integrated_decomposition"

ASSUME EngineAssumption ==
    /\ IsFiniteSet(Candidates) /\ Candidates # {}
    /\ Candidates \cap Subtasks = {}
    /\ None \notin Candidates \cup Subtasks \cup Backends
    /\ Integrated \notin Candidates \cup {None}
    /\ MaxParallel \in [Backends -> Nat \ {0}]

VARIABLES
    dependsOn,   \* the dependencies of each subtask of the plan that is executed
    pc,          \* loop, round, pool, unwinding, done, crashed or astray
    todo,        \* ready nodes of this round not executed yet
    decomposed,  \* context.decomposed_active
    status,      \* status of every node; absent when not in the graph
    worker,      \* what the thread of each code node is doing
    backend,     \* assigned_backend of each code node in the pool
    fate,        \* node.result of each candidate's code node
    review,      \* acceptance_eligible of each candidate in context.attempts
    tries,       \* attempts made of each subtask
    sound,       \* subtasks of which some attempt was beyond reproach
    accepted,    \* subtasks in context.accepted_subtasks
    told,        \* subtasks whose code node's result names an accepted attempt
    integ,       \* context.integration
    winner,      \* context.winner
    decision     \* decision.json

graphv == <<todo, decomposed, status>>
poolv  == <<worker, backend>>
candv  == <<fate, review>>
subv   == <<tries, sound, accepted, told>>
endv   == <<integ, winner, decision>>
vars   == <<dependsOn, pc, graphv, poolv, candv, subv, endv>>

-----------------------------------------------------------------------------
(* The graph.                                                              *)

Owners         == Candidates \cup Subtasks
Code(x)        == <<"code", x>>
Review(x)      == <<"review", x>>
Only(kind)     == <<kind, None>>
Prep           == {Only("classify"), Only("investigate"), Only("plan")}
Decompose      == Only("decompose")
Select         == Only("select")
Verify         == Only("verify")
Integrate      == Only("integrate")
Validate       == Only("integration_validate")
Repair         == Only("integration_repair")
FinalReview    == Only("final_review")
CodeAndReview(X) == {Code(x) : x \in X} \cup {Review(x) : x \in X}

FixedGraph      == Prep \cup {Decompose, Select, Verify} \cup CodeAndReview(Candidates)
DecomposedGraph == Prep \cup {Decompose, Integrate, Validate, Repair, FinalReview, Verify}
                        \cup CodeAndReview(Subtasks)
Nodes           == FixedGraph \cup DecomposedGraph

(* The dependencies in either graph: only Verify has one in each.          *)
Edges(n) ==
    CASE n = Only("investigate")  -> {Only("classify")}
      [] n = Only("plan")         -> {Only("investigate")}
      [] n = Decompose            -> {Only("plan")}
      [] n[1] = "code"            -> IF n[2] \in Subtasks /\ dependsOn[n[2]] # {}
                                     THEN {Review(s) : s \in dependsOn[n[2]]}
                                     ELSE {Decompose}
      [] n[1] = "review"          -> {Code(n[2])}
      [] n = Select               -> {Review(c) : c \in Candidates}
      [] n = Integrate            -> {Review(s) : s \in Subtasks}
      [] n = Validate             -> {Integrate}
      [] n = Repair               -> {Validate}
      [] n = FinalReview          -> {Repair}
      [] n = Verify               -> {Select, FinalReview}
      [] OTHER                    -> {}

Needs(n) == {d \in Edges(n) : status[d] # "absent"}

Broken   == {"failed", "skipped"}
Terminal == Broken \cup {"succeeded"}

(* dependency_satisfied(d, n).  The review node of a subtask only sums its *)
(* attempts up; a dependent subtask needs an accepted one.                 *)
MutSatisfied(d, n) ==
    \/ status[d] = "succeeded"
    \/ status[d] = "skipped" /\ d \in {Decompose, Repair}
    \/ status[d] \in Broken /\ n[1] = "review" /\ d[1] = "code"
    \/ status[d] \in Broken /\ n = Select /\ d[1] = "review"

Satisfied(d, n) ==
    \/ /\ status[d] = "succeeded"
       /\ n[1] = "code" /\ n[2] \in Subtasks /\ d[1] = "review" => d[2] \in told
    \/ status[d] = "skipped" /\ d \in {Decompose, Repair}
    \/ status[d] \in Broken /\ n[1] = "review" /\ d[1] = "code"
    \/ status[d] \in Broken /\ n = Select /\ d[1] = "review"

Waiting == {n \in Nodes : status[n] = "waiting"}
Doomed  == {n \in Waiting : \E d \in Needs(n) : ~Satisfied(d, n) /\ status[d] \in Broken}

MutReady == {n \in Waiting : Needs(n) = {} \/ \E d \in Needs(n) : Satisfied(d, n)}

MutReadyAgain == {n \in Nodes : status[n] \in {"waiting", "failed"} /\ \A d \in Needs(n) : Satisfied(d, n)}

Ready == {n \in Waiting : \A d \in Needs(n) : Satisfied(d, n)}

ReadyCode == {x \in Owners : Code(x) \in Ready}

Init ==
    /\ dependsOn = [s \in Subtasks |-> {}]
    /\ pc = "loop" /\ todo = {} /\ decomposed = FALSE
    /\ status = [n \in Nodes |-> IF n \in FixedGraph THEN "waiting" ELSE "absent"]
    /\ worker = [x \in Owners |-> "none"] /\ backend = [x \in Owners |-> None]
    /\ fate = [c \in Candidates |-> "none"] /\ review = [c \in Candidates |-> "none"]
    /\ tries = [s \in Subtasks |-> 0] /\ sound = {} /\ accepted = {} /\ told = {}
    /\ integ = [tree |-> "none", merged |-> {}, conflicts |-> FALSE, passed |-> FALSE,
                validated |-> "none", captured |-> "none", patch |-> FALSE,
                approved |-> FALSE]
    /\ winner = None /\ decision = "none"

-----------------------------------------------------------------------------
(* The main loop of OrchestrationEngine.run.                               *)

(* next_ready_nodes passes over the nodes in the order of the graph; here  *)
(* every doomed node is skipped before anything starts.                    *)
SkipDoomed(n) ==
    /\ pc = "loop" /\ n \in Doomed
    /\ status' = [status EXCEPT ![n] = "skipped"]
    /\ UNCHANGED <<pc, todo, decomposed, poolv, candv, subv, endv>>

MutNoReadyNodes ==
    /\ pc = "loop" /\ Doomed = {} /\ Ready = {} /\ Waiting # {}
    /\ UNCHANGED vars

(* A node that is neither ready nor doomed, as a subtask whose dependency  *)
(* ended without an accepted attempt: everything left is skipped.          *)
NoReadyNodes ==
    /\ pc = "loop" /\ Doomed = {} /\ Ready = {} /\ Waiting # {}
    /\ status' = [n \in Nodes |-> IF n \in Waiting THEN "skipped" ELSE status[n]]
    /\ UNCHANGED <<pc, todo, decomposed, poolv, candv, subv, endv>>

(* Code nodes X go to the pool, each with the backend the policy chose.    *)
Submit(X) ==
    /\ \E b \in [X -> Backends] :
          backend' = [x \in Owners |-> IF x \in X THEN b[x] ELSE backend[x]]
    /\ worker' = [x \in Owners |-> IF x \in X THEN "queued" ELSE worker[x]]
    /\ pc' = "pool"
    /\ UNCHANGED <<decomposed, status, candv, subv, endv>>

StartPool ==
    /\ pc = "loop" /\ Doomed = {} /\ Cardinality(ReadyCode) > 1
    /\ Submit(ReadyCode)
    /\ UNCHANGED todo

StartRound ==
    /\ pc = "loop" /\ Doomed = {} /\ Ready # {} /\ Cardinality(ReadyCode) <= 1
    /\ todo' = Ready /\ pc' = "round"
    /\ UNCHANGED <<decomposed, status, poolv, candv, subv, endv>>

(* The only ready code node runs on the main thread: a pool of one.        *)
RunCode(x) ==
    /\ pc = "round" /\ Code(x) \in todo
    /\ todo' = todo \ {Code(x)}
    /\ Submit({x})

EndRound ==
    /\ pc = "round" /\ todo = {}
    /\ pc' = "loop"
    /\ UNCHANGED <<graphv, poolv, candv, subv, endv>>

(* The report is written last, after decision.json, and may fail.          *)
Finalize ==
    /\ pc = "loop" /\ Waiting = {}
    /\ decision' = IF winner # None THEN "accepted" ELSE "failed"
    /\ pc' \in {"done", "crashed"}
    /\ UNCHANGED <<graphv, poolv, candv, subv, integ, winner>>

(* The policy finds no backend for a role, a step cannot be recorded, the  *)
(* graph or the decision cannot be written.                                *)
RunFails ==
    /\ pc \in {"loop", "round"}
    /\ pc' = "crashed"
    /\ UNCHANGED <<dependsOn, graphv, poolv, candv, subv, endv>>

-----------------------------------------------------------------------------
(* The worker threads.                                                     *)

Busy == {x \in Owners : worker[x] = "busy"}

MutAcquire(x) ==
    /\ worker[x] = "queued"
    /\ Cardinality({y \in Busy : backend[y] = backend[x]}) <= MaxParallel[backend[x]]
    /\ worker' = [worker EXCEPT ![x] = "busy"]
    /\ status' = [status EXCEPT ![Code(x)] = "running"]
    /\ UNCHANGED <<pc, todo, decomposed, backend, candv, subv, endv>>

(* BackendConcurrencyLimiter.run: a semaphore per backend.                 *)
Acquire(x) ==
    /\ worker[x] = "queued"
    /\ Cardinality({y \in Busy : backend[y] = backend[x]}) < MaxParallel[backend[x]]
    /\ worker' = [worker EXCEPT ![x] = "busy"]
    /\ status' = [status EXCEPT ![Code(x)] = "running"]
    /\ UNCHANGED <<pc, todo, decomposed, backend, candv, subv, endv>>

Leave(x, how, st) ==
    /\ worker[x] = "busy"
    /\ worker' = [worker EXCEPT ![x] = how]
    /\ status' = [status EXCEPT ![Code(x)] = st]
    /\ UNCHANGED <<pc, todo, decomposed, backend, endv>>

(* A good result: exit code 0, no error, a patch and changed files.        *)
CandidateReturns(c) ==
    /\ \/ fate' = [fate EXCEPT ![c] = "good"] /\ Leave(c, "returned", "succeeded")
       \/ /\ fate' = [fate EXCEPT ![c] = "bad"]
          /\ \E st \in {"succeeded", "failed"} : Leave(c, "returned", st)
    /\ UNCHANGED <<review, subv>>

(* An artifact or a step cannot be written: before there is a result, or   *)
(* after it, before or after _finish.                                      *)
CandidateRaises(c) ==
    /\ \/ Leave(c, "raised", "running") /\ UNCHANGED fate
       \/ /\ \E f \in {"good", "bad"} : fate' = [fate EXCEPT ![c] = f]
          /\ \E st \in {"running", "succeeded"} : Leave(c, "raised", st)
    /\ UNCHANGED <<review, subv>>

(* The central gate of core/acceptance.py, for an attempt with the given   *)
(* status that is flawless or not and has its review attached or not.      *)
AcceptanceEligible(flawless, st, reviewed) ==
    flawless /\ reviewed /\ st \in {"completed", "reviewed", "validated", "accepted"}

(* _run_subtask_attempt asks the gate before it stores the review and the  *)
(* status in the attempt.                                                  *)
SubtaskEligible(flawless) == AcceptanceEligible(flawless, "running", FALSE)

MutAttemptsLeft(s) == s \notin accepted /\ tries[s] <= Cardinality(Candidates)

(* Every subtask gets as many attempts as candidates were asked for.       *)
AttemptsLeft(s) == s \notin accepted /\ tries[s] < Cardinality(Candidates)

SubtaskAttempt(s) ==
    /\ worker[s] = "busy" /\ AttemptsLeft(s)
    /\ tries' = [tries EXCEPT ![s] = @ + 1]
    /\ \E flawless \in BOOLEAN :
          /\ sound' = IF flawless THEN sound \cup {s} ELSE sound
          /\ accepted' = IF SubtaskEligible(flawless) THEN accepted \cup {s} ELSE accepted
    /\ UNCHANGED <<pc, graphv, poolv, candv, told, endv>>

SubtaskReturns(s) ==
    /\ ~AttemptsLeft(s)
    /\ told' = told \cup ({s} \cap accepted)
    /\ Leave(s, "returned", "succeeded")
    /\ UNCHANGED <<candv, tries, sound, accepted>>

(* run_one catches what the code node of a subtask raises.                 *)
SubtaskRaises(s) ==
    /\ told' \in {told, told \cup ({s} \cap accepted)}
    /\ Leave(s, "returned", "failed")
    /\ UNCHANGED <<candv, tries, sound, accepted>>

Work ==
    \/ \E x \in Owners : Acquire(x)
    \/ \E c \in Candidates : CandidateReturns(c) \/ CandidateRaises(c)
    \/ \E s \in Subtasks : SubtaskAttempt(s) \/ SubtaskReturns(s) \/ SubtaskRaises(s)

(* as_completed on the main thread, which may fail to write the artifacts; *)
(* the pool then still waits for every thread before the run ends.         *)
Collect(x) ==
    /\ pc = "pool" /\ worker[x] \in {"returned", "raised"}
    /\ status' = IF worker[x] = "raised" THEN [status EXCEPT ![Code(x)] = "failed"] ELSE status
    /\ worker' = [worker EXCEPT ![x] = "collected"]
    /\ pc' \in {"pool", "unwinding"}
    /\ UNCHANGED <<todo, decomposed, backend, candv, subv, endv>>

AllCollected == \A x \in Owners : worker[x] \in {"none", "collected"}

EndPool ==
    /\ pc = "pool" /\ AllCollected
    /\ worker' = [x \in Owners |-> IF worker[x] = "collected" THEN "none" ELSE worker[x]]
    /\ backend' = [x \in Owners |-> None]
    /\ pc' = "round"
    /\ UNCHANGED <<graphv, candv, subv, endv>>

NoneAtWork == \A x \in Owners : worker[x] \notin {"queued", "busy"}

MutPoolUnwound ==
    /\ pc = "unwinding"
    /\ pc' = "crashed"
    /\ UNCHANGED <<graphv, poolv, candv, subv, endv>>

PoolUnwound ==
    /\ pc = "unwinding" /\ NoneAtWork
    /\ pc' = "crashed"
    /\ UNCHANGED <<graphv, poolv, candv, subv, endv>>

-----------------------------------------------------------------------------
(* The handlers of the other nodes, executed by the main loop.             *)

Settle(n, st) ==
    /\ pc = "round" /\ n \in todo
    /\ todo' = todo \ {n}
    /\ status' = [status EXCEPT ![n] = st]
    /\ UNCHANGED <<pc, poolv, subv, decision>>

Ends == {"succeeded", "failed"}

Prepare(n) ==
    /\ n \in Prep
    /\ \E st \in Ends : Settle(n, st)
    /\ UNCHANGED <<decomposed, candv, integ, winner>>

KeepCandidates ==
    /\ \E st \in Ends \cup {"skipped"} : Settle(Decompose, st)
    /\ UNCHANGED <<decomposed, candv, integ, winner>>

(* The decomposition is accepted: the graph is replaced by the one of the  *)
(* subtasks before the node settles.                                       *)
ReplaceGraph ==
    /\ pc = "round" /\ Decompose \in todo
    /\ dependsOn' \in Accepted
    /\ todo' = todo \ {Decompose}
    /\ decomposed' = TRUE
    /\ \E st \in Ends :
          status' = [n \in Nodes |-> IF n = Decompose THEN st
                                     ELSE IF n \in Prep THEN status[n]
                                     ELSE IF n \in DecomposedGraph THEN "waiting" ELSE "absent"]
    /\ UNCHANGED <<pc, poolv, candv, subv, endv>>

(* Two subtasks of the accepted plan have one id, and so have their nodes. *)
(* graph.get finds the first of them only, so that the second is executed  *)
(* again and again and never gets a status.                                *)
TwinPlan ==
    /\ pc = "round" /\ Decompose \in todo /\ TwinsAccepted
    /\ pc' = "astray"
    /\ UNCHANGED <<graphv, poolv, candv, subv, endv>>

MutCandidateEligible(c, passes) == AcceptanceEligible(passes, "validated", TRUE)

CandidateEligible(c, passes) == AcceptanceEligible(fate[c] = "good" /\ passes, "validated", TRUE)

(* A candidate is reviewed whatever became of its code node.               *)
ReviewCandidate(c) ==
    /\ \/ /\ \E passes \in BOOLEAN :
                review' = [review EXCEPT ![c] = IF CandidateEligible(c, passes)
                                                THEN "eligible" ELSE "ineligible"]
          /\ \E st \in Ends : Settle(Review(c), st)
       \/ Settle(Review(c), "failed") /\ UNCHANGED review
    /\ UNCHANGED <<decomposed, fate, integ, winner>>

SummarizeSubtask(s) ==
    /\ \E st \in Ends : Settle(Review(s), st)
    /\ UNCHANGED <<decomposed, candv, integ, winner>>

Selectable == {c \in Candidates : review[c] = "eligible"}

(* An eligible candidate, or none; the winner is set before _finish.       *)
SelectNode ==
    /\ winner' \in Selectable \cup {None}
    /\ \E st \in Ends : Settle(Select, st)
    /\ UNCHANGED <<decomposed, candv, integ>>

(* Some of the accepted patches are left out for overreach; a patch that   *)
(* git does not apply is a conflict.  When the handler raises early there  *)
(* is only a worktree, and integrated_subtasks defaults to all accepted.   *)
IntegrateNode ==
    /\ \/ /\ \E M \in SUBSET accepted : \E c \in {FALSE, M # {}} :
                integ' = [integ EXCEPT !.tree = "merged", !.merged = M, !.conflicts = c]
          /\ \E st \in Ends : Settle(Integrate, st)
       \/ /\ integ' = [integ EXCEPT !.tree = "merged", !.merged = accepted]
          /\ Settle(Integrate, "failed")
       \/ Settle(Integrate, "failed") /\ UNCHANGED integ
    /\ UNCHANGED <<decomposed, candv, winner>>

ValidateNode ==
    /\ \/ /\ \E ok \in BOOLEAN : integ' = [integ EXCEPT !.passed = ok, !.validated = integ.tree]
          /\ \E st \in Ends : Settle(Validate, st)
       \/ Settle(Validate, "failed") /\ UNCHANGED integ
    /\ UNCHANGED <<decomposed, candv, winner>>

RepairNeeded == integ.conflicts \/ ~integ.passed

MutAfterRepair(ok) == [integ EXCEPT !.tree = "repaired", !.passed = ok]

AfterRepair(ok) == [integ EXCEPT !.tree = "repaired", !.passed = ok, !.validated = "repaired"]

(* The agent repairs in the worktree, then the validation runs again; both *)
(* may raise, which leaves the first validation in place.                  *)
RepairNode ==
    /\ \/ ~RepairNeeded /\ UNCHANGED integ /\ \E st \in {"skipped", "failed"} : Settle(Repair, st)
       \/ /\ RepairNeeded
          /\ \E ok \in BOOLEAN : integ' = AfterRepair(ok)
          /\ \E st \in Ends : Settle(Repair, st)
       \/ /\ RepairNeeded
          /\ integ' \in {integ, [integ EXCEPT !.tree = "repaired"]}
          /\ Settle(Repair, "failed")
    /\ UNCHANGED <<decomposed, candv, winner>>

(* Fails at once when the integration made no worktree.                    *)
FinalReviewNode ==
    /\ \/ /\ integ.tree # "none"
          /\ \E p, a \in BOOLEAN :
                integ' = [integ EXCEPT !.captured = integ.tree, !.patch = p, !.approved = a]
          /\ \E st \in Ends : Settle(FinalReview, st)
       \/ Settle(FinalReview, "failed") /\ UNCHANGED integ
    /\ UNCHANGED <<decomposed, candv, winner>>

IntegrationAccepted == integ.passed /\ integ.patch /\ integ.approved /\ integ.merged # {}

VerifyNode ==
    /\ \/ /\ winner' = IF ~decomposed THEN winner
                       ELSE IF IntegrationAccepted THEN Integrated ELSE None
          /\ \E st \in Ends : Settle(Verify, st)
       \/ Settle(Verify, "failed") /\ UNCHANGED winner
    /\ UNCHANGED <<decomposed, candv, integ>>

ExecuteNode ==
    \/ \E n \in Prep : Prepare(n)
    \/ KeepCandidates
    \/ \E c \in Candidates : ReviewCandidate(c)
    \/ \E s \in Subtasks : SummarizeSubtask(s)
    \/ SelectNode \/ IntegrateNode \/ ValidateNode \/ RepairNode \/ FinalReviewNode
    \/ VerifyNode

WithinPlan ==
    \/ \E n \in Nodes : SkipDoomed(n)
    \/ NoReadyNodes \/ StartPool \/ StartRound \/ EndRound \/ Finalize
    \/ \E x \in Owners : RunCode(x) \/ Collect(x)
    \/ Work \/ EndPool \/ PoolUnwound
    \/ ExecuteNode \/ TwinPlan

Progress == (WithinPlan /\ UNCHANGED dependsOn) \/ ReplaceGraph

Next == Progress \/ RunFails

Spec == Init /\ [][Next]_vars

(* The main thread and the pool are scheduled, and every agent, model and  *)
(* git call has a timeout or ends; no failure is ever owed to anybody.     *)
FairSpec == Spec /\ WF_vars(Progress)

-----------------------------------------------------------------------------
Statuses == Terminal \cup {"absent", "waiting", "running"}
Trees    == {"none", "merged", "repaired"}

(* Every variable has its type. *)
TypeOK ==
    /\ dependsOn \in [Subtasks -> SUBSET Subtasks]
    /\ pc \in {"loop", "round", "pool", "unwinding", "done", "crashed", "astray"}
    /\ todo \subseteq Nodes /\ decomposed \in BOOLEAN
    /\ status \in [Nodes -> Statuses]
    /\ worker \in [Owners -> {"none", "queued", "busy", "returned", "raised", "collected"}]
    /\ backend \in [Owners -> Backends \cup {None}]
    /\ fate \in [Candidates -> {"none", "good", "bad"}]
    /\ review \in [Candidates -> {"none", "eligible", "ineligible"}]
    /\ tries \in [Subtasks -> 0..Cardinality(Candidates)]
    /\ sound \subseteq Subtasks /\ accepted \subseteq Subtasks /\ told \subseteq Subtasks
    /\ integ \in [tree : Trees, merged : SUBSET Subtasks, conflicts : BOOLEAN, passed : BOOLEAN,
                   validated : Trees, captured : Trees, patch : BOOLEAN, approved : BOOLEAN]
    /\ winner \in Candidates \cup {Integrated, None}
    /\ decision \in {"none", "accepted", "failed"}

(* A backend never runs more agents than its max_parallel, whichever nodes *)
(* the policy gave it.                                                     *)
BackendLimit ==
    \A b \in Backends : Cardinality({x \in Busy : backend[x] = b}) <= MaxParallel[b]

(* What was reviewed stays as it was reviewed: once a candidate is in      *)
(* context.attempts no thread and no late exception changes its result or  *)
(* the status of its code node.                                            *)
EvidenceFrozen ==
    [][\A c \in Candidates : review[c] # "none" =>
         fate'[c] = fate[c] /\ status'[Code(c)] = status[Code(c)]]_vars

(* A candidate that wins produced a patch without an error and passed the  *)
(* gate with its review, and no other thread or subtask was in the run.    *)
WinnerHasEvidence ==
    winner \in Candidates =>
        fate[winner] = "good" /\ review[winner] = "eligible" /\ ~decomposed /\ Busy = {}

(* An agent only ever works on a subtask on top of the accepted patches of *)
(* all its dependencies, as it is about to find them in the shared list.   *)
DependenciesPresent == \A s \in Subtasks : tries[s] > 0 => dependsOn[s] \subseteq accepted

(* The subtasks that the run switches to can be done one after the other:  *)
(* no plan goes round in circles or waits for a subtask that nobody has,   *)
(* whatever the planner, the reviewer and the reviser answered. A plan     *)
(* with one id twice is the exception: it goes astray before it runs.      *)
PlanRunnable == [][decomposed' /\ ~decomposed => Runnable(dependsOn')]_vars

(* The final patch of an integration that counts as validated was taken    *)
(* from the tree that the validation passed on, whatever raised between.   *)
ReviewSeesValidatedTree ==
    integ.captured # "none" /\ integ.passed => integ.captured = integ.validated

(* No agent is at work while the main loop decides about the graph, nor    *)
(* after the run ended; once there is a decision, every node has a         *)
(* terminal status.                                                        *)
NothingLeft ==
    /\ pc \in {"loop", "round", "done", "crashed", "astray"} => NoneAtWork
    /\ decision # "none" => \A n \in Nodes : status[n] \in Terminal \cup {"absent"}

(* What holds at every moment of a run: the parts above.                   *)
EngineInv ==
    /\ TypeOK /\ BackendLimit /\ DependenciesPresent /\ NothingLeft
    /\ WinnerHasEvidence

(* The run executes its graph as GraphRun promises: every node at most     *)
(* once and after the nodes it needs, with a verdict at the very end. Of a *)
(* plan with one id twice that is not so, and the run does not execute it  *)
(* here (TwinPlan).                                                        *)
Run == INSTANCE GraphRun WITH
    before <- [n \in Nodes |-> Edges(n)], Planner <- Decompose, InitialNodes <- FixedGraph,
    node <- [n \in Nodes |-> IF status[n] \in {"succeeded", "failed"} THEN "executed"
                             ELSE IF status[n] = "absent" THEN "out" ELSE status[n]],
    verdict <- IF decision # "none" THEN decision ELSE IF pc = "crashed" THEN "lost" ELSE "open"

ImplementsGraphRun == Run!GraphSpec

(* Every run of the engine ends, unless the plan it switches to names one  *)
(* subtask twice.                                                          *)
RunEnds == <>(pc \in {"done", "crashed", "astray"})

-----------------------------------------------------------------------------
(* What texts in the code say and the code does not do.                    *)

(* A retry tells the agent "Previous attempt did not pass                  *)
(* validation/review": an attempt with exit code 0, a patch and a review   *)
(* without any complaint is accepted.                                      *)
SoundIsAccepted == sound \subseteq accepted
=============================================================================
