---------------------------- MODULE GraphEngineProofs ----------------------------
(***************************************************************************)
(* Proofs about GraphEngine, for any candidates, subtasks, backends and    *)
(* proposed plans.                                                         *)
(*                                                                         *)
(* The inductive invariant IInv ties the threads to the graph: where each  *)
(* thread is says what the status of its code node is, what a round still  *)
(* has to do is waiting with its needs satisfied, and nothing after the    *)
(* decomposition is touched before it is decided. A plain step (any but    *)
(* the replacement of the graph) keeps the edges and what was dealt with;  *)
(* from that each part of IInv is shown by a lemma of its own. The same    *)
(* lemmas give the refinement of GraphRun. A section of its own shows that *)
(* the depth-first search finds a cycle unless the plan can be carried out.*)
(***************************************************************************)
EXTENDS GraphEngine, FiniteSetTheorems, WellFoundedInduction, TLAPS

(* The nodes that are not in the graph of the moment are absent. *)
GraphOfTheMoment == IF decomposed THEN DecomposedGraph ELSE FixedGraph

GraphShape == \A n \in Nodes : status[n] = "absent" <=> n \notin GraphOfTheMoment

(* Where each thread is says what the status of its code node is, and that *)
(* what the node needs is satisfied; only in a pool is a thread anywhere.  *)
ThreadStatus(x) ==
    /\ worker[x] = "queued"    => status[Code(x)] = "waiting"
    /\ worker[x] = "busy"      => status[Code(x)] = "running"
    /\ worker[x] = "raised"    => status[Code(x)] \in {"running", "succeeded"}
    /\ worker[x] \in {"returned", "collected"} => status[Code(x)] \in Ends

ThreadsInStep ==
    /\ pc \in {"loop", "round", "done", "astray"} => \A x \in Owners : worker[x] = "none"
    /\ pc = "crashed" => NoneAtWork
    /\ \A x \in Owners : ThreadStatus(x)
    /\ \A x \in Owners : worker[x] # "none" =>
          /\ backend[x] \in Backends
          /\ Code(x) \notin todo
          /\ \A m \in Needs(Code(x)) : Satisfied(m, Code(x))
    /\ \A n \in Nodes : status[n] = "running" =>
          \E x \in Owners : n = Code(x) /\ worker[x] \in {"busy", "raised"}

(* What a round still has to execute is waiting, and what it needs is      *)
(* satisfied; between rounds nothing is left.                              *)
RoundInStep ==
    /\ pc \in {"loop", "done"} => todo = {}
    /\ \A n \in todo : status[n] = "waiting" /\ \A m \in Needs(n) : Satisfied(m, n)

(* Until the decomposition is decided, nothing that follows it is touched. *)
PlannerFirst ==
    status[Decompose] = "waiting" =>
        ~decomposed /\ \A n \in FixedGraph \ (Prep \cup {Decompose}) : status[n] = "waiting"

(* A review is dealt with after its code node, whose thread is gone.       *)
ReviewsFollow == \A x \in Owners : status[Review(x)] \in Terminal => status[Code(x)] \in Terminal /\ worker[x] = "none"

(* What is in context.attempts was reviewed, and eligible is a good result.*)
EvidenceReviewed ==
    /\ \A c \in Candidates : review[c] # "none" => status[Review(c)] \in Terminal
    /\ \A c \in Candidates : review[c] = "eligible" => fate[c] = "good"

(* A winner is chosen after every candidate was reviewed.                  *)
WinnerAfterReviews ==
    winner \in Candidates =>
        /\ ~decomposed /\ review[winner] = "eligible"
        /\ \A x \in Owners : worker[x] = "none"
        /\ \A c \in Candidates : status[Code(c)] \in Terminal

DecisionAtTheEnd ==
    /\ pc = "done" => decision # "none"
    /\ decision # "none" =>
          pc \in {"done", "crashed"} /\ \A n \in Nodes : status[n] \in Terminal \cup {"absent"}

(* A subtask is attempted only in a decomposed run; what a code node tells *)
(* is accepted.                                                            *)
SubtasksInOrder ==
    /\ ~decomposed => \A s \in Subtasks : tries[s] = 0
    /\ told \subseteq accepted

(* Only a plan with one id twice leads astray.                             *)
AstrayByTwins == pc = "astray" => TwinsAccepted

(* The steps of the integration follow one another.                        *)
IntegrationFollows ==
    /\ status[FinalReview] \in Terminal => status[Repair] \in Terminal
    /\ status[Repair] \in Terminal => status[Validate] \in Terminal
    /\ status[Validate] \in Terminal => status[Integrate] \in Terminal

(* A validation that has passed is of the tree there is, unless the repair *)
(* has failed; then nothing is captured any more.                          *)
ValidatedTree ==
    /\ integ.passed => status[Validate] \in Terminal
    /\ integ.passed /\ status[Repair] # "failed" => integ.tree = integ.validated
    /\ integ.captured # "none" => status[FinalReview] \in Terminal

IInv ==
    /\ TypeOK /\ GraphShape /\ ThreadsInStep /\ RoundInStep /\ PlannerFirst
    /\ ReviewsFollow /\ EvidenceReviewed /\ WinnerAfterReviews /\ DecisionAtTheEnd
    /\ SubtasksInOrder /\ DependenciesPresent /\ AstrayByTwins
    /\ IntegrationFollows /\ ValidatedTree /\ ReviewSeesValidatedTree /\ BackendLimit

-----------------------------------------------------------------------------
(* The nodes and what they need.                                           *)

LEMMA NodesOf ==
    /\ \A x \in Owners : Code(x) \in Nodes /\ Review(x) \in Nodes
    /\ Prep \cup {Decompose, Select, Verify, Integrate, Validate, Repair, FinalReview} \subseteq Nodes
    /\ \A n \in Nodes : n[1] = "code" => \E x \in Owners : n = Code(x)
    /\ \A n \in Nodes : n[1] = "review" => \E x \in Owners : n = Review(x)
    /\ FixedGraph \subseteq Nodes /\ DecomposedGraph \subseteq Nodes
  BY DEF Nodes, FixedGraph, DecomposedGraph, CodeAndReview, Owners, Code, Review, Prep, Decompose,
         Select, Verify, Integrate, Validate, Repair, FinalReview, Only

LEMMA CodeEdges ==
    ASSUME NEW x \in Owners
    PROVE  /\ Edges(Code(x)) = IF x \in Subtasks /\ dependsOn[x] # {}
                               THEN {Review(s) : s \in dependsOn[x]} ELSE {Decompose}
           /\ Edges(Review(x)) = {Code(x)}
  BY DEF Edges, Code, Review, Only, Decompose, Select, Integrate, Validate, Repair, FinalReview, Verify

LEMMA FixedEdges ==
    /\ Edges(Only("classify")) = {}
    /\ Edges(Only("investigate")) = {Only("classify")}
    /\ Edges(Only("plan")) = {Only("investigate")}
    /\ Edges(Decompose) = {Only("plan")}
    /\ Edges(Select) = {Review(c) : c \in Candidates}
    /\ Edges(Integrate) = {Review(s) : s \in Subtasks}
    /\ Edges(Validate) = {Integrate}
    /\ Edges(Repair) = {Validate}
    /\ Edges(FinalReview) = {Repair}
    /\ Edges(Verify) = {Select, FinalReview}
  BY DEF Edges, Only, Decompose, Select, Integrate, Validate, Repair, FinalReview, Verify

(* Only the review of an attempt needs its code node.                      *)
LEMMA WhoNeedsCode ==
    ASSUME NEW n \in Nodes, NEW x \in Owners, Code(x) \in Edges(n)
    PROVE  n = Review(x)
  <1>1. CASE n[1] = "code"
    <2>1. PICK y \in Owners : n = Code(y) BY <1>1, NodesOf
    <2>2. Code(x) \in {Review(s) : s \in dependsOn[y]} \/ Code(x) = Decompose BY <2>1, CodeEdges
    <2> QED BY <2>2 DEF Code, Review, Decompose, Only
  <1>2. CASE n[1] = "review"
    <2>1. PICK y \in Owners : n = Review(y) BY <1>2, NodesOf
    <2>2. Code(x) = Code(y) BY <2>1, CodeEdges
    <2> QED BY <2>1, <2>2 DEF Code
  <1>3. CASE n[1] \notin {"code", "review"}
    BY <1>3, FixedEdges DEF Nodes, FixedGraph, DecomposedGraph, CodeAndReview, Owners, Prep,
           Code, Review, Decompose, Only, Select, Verify, Integrate, Validate, Repair, FinalReview
  <1> QED BY <1>1, <1>2, <1>3

-----------------------------------------------------------------------------
(* The steps, as what they do to the graph, the rounds and the threads.    *)

(* A handler of the main loop ends a node that is not a code node.         *)
Handled(n, st) == n[1] # "code" /\ Settle(n, st) /\ UNCHANGED decomposed

(* A thread ends, with the status its code node then has.                  *)
Left(x, how, st) ==
    /\ Leave(x, how, st)
    /\ \/ how = "returned" /\ st \in Ends
       \/ how = "raised" /\ st \in {"running", "succeeded"}

(* A step that has nothing to do with the graph, the rounds or the threads.*)
Aside == UNCHANGED <<pc, graphv, poolv>>

Plain == (WithinPlan /\ UNCHANGED dependsOn) \/ RunFails \/ UNCHANGED vars

LEMMA NextIsPlain ==
    ASSUME [Next]_vars
    PROVE  Plain \/ ReplaceGraph
  BY DEF Next, Progress, Plain

LEMMA Handlers ==
    ASSUME ExecuteNode
    PROVE  \E n \in Nodes, st \in Terminal : Handled(n, st)
  <1> USE NodesOf DEF Handled, Terminal, Broken, Ends
  <1>1. ASSUME NEW n \in Prep, Prepare(n) PROVE \E st \in Terminal : Handled(n, st)
    BY <1>1 DEF Prepare, Prep, Only
  <1>2. CASE KeepCandidates
    BY <1>2 DEF KeepCandidates, Decompose, Only
  <1>3. ASSUME NEW c \in Candidates, ReviewCandidate(c) PROVE \E st \in Terminal : Handled(Review(c), st)
    BY <1>3 DEF ReviewCandidate, Review
  <1>4. ASSUME NEW s \in Subtasks, SummarizeSubtask(s) PROVE \E st \in Terminal : Handled(Review(s), st)
    BY <1>4 DEF SummarizeSubtask, Review
  <1>5. CASE SelectNode
    BY <1>5 DEF SelectNode, Select, Only
  <1>6. CASE IntegrateNode
    BY <1>6 DEF IntegrateNode, Integrate, Only
  <1>7. CASE ValidateNode
    BY <1>7 DEF ValidateNode, Validate, Only
  <1>8. CASE RepairNode
    <2>1. \E st \in Terminal : Settle(Repair, st) BY <1>8 DEF RepairNode
    <2> QED BY <1>8, <2>1 DEF RepairNode, Repair, Only
  <1>9. CASE FinalReviewNode
    BY <1>9 DEF FinalReviewNode, FinalReview, Only
  <1>10. CASE VerifyNode
    BY <1>10 DEF VerifyNode, Verify, Only
  <1> QED BY <1>1, <1>2, <1>3, <1>4, <1>5, <1>6, <1>7, <1>8, <1>9, <1>10 DEF ExecuteNode, Owners

LEMMA Workers ==
    ASSUME Work
    PROVE  /\ told \subseteq told'
           /\ \/ \E x \in Owners : Acquire(x)
              \/ \E x \in Owners, how \in {"returned", "raised"}, st \in Ends \cup {"running"} : Left(x, how, st)
              \/ Aside
  <1> USE DEF Left, Ends, Owners, Aside
  <1>1. ASSUME NEW x \in Owners, Acquire(x) PROVE told' = told
    BY <1>1 DEF Acquire, subv
  <1>2. ASSUME NEW c \in Candidates, CandidateReturns(c)
        PROVE  told' = told /\ \E st \in Ends : Left(c, "returned", st)
    BY <1>2 DEF CandidateReturns, subv
  <1>3. ASSUME NEW c \in Candidates, CandidateRaises(c)
        PROVE  told' = told /\ \E st \in Ends \cup {"running"} : Left(c, "raised", st)
    BY <1>3 DEF CandidateRaises, subv
  <1>4. ASSUME NEW s \in Subtasks, SubtaskAttempt(s) PROVE told' = told /\ Aside
    BY <1>4 DEF SubtaskAttempt
  <1>5. ASSUME NEW s \in Subtasks, SubtaskReturns(s)
        PROVE  told \subseteq told' /\ \E st \in Ends : Left(s, "returned", st)
    BY <1>5 DEF SubtaskReturns
  <1>6. ASSUME NEW s \in Subtasks, SubtaskRaises(s)
        PROVE  told \subseteq told' /\ \E st \in Ends : Left(s, "returned", st)
    BY <1>6 DEF SubtaskRaises
  <1> QED BY <1>1, <1>2, <1>3, <1>4, <1>5, <1>6 DEF Work

(* Which of the steps a plain step is.                                     *)
LEMMA PlainKinds ==
    ASSUME Plain
    PROVE  /\ dependsOn' = dependsOn /\ decomposed' = decomposed /\ told \subseteq told'
           /\ \/ \E n \in Nodes : SkipDoomed(n)
              \/ NoReadyNodes \/ StartPool \/ StartRound \/ EndRound \/ Finalize \/ RunFails \/ TwinPlan
              \/ \E x \in Owners : RunCode(x) \/ Acquire(x) \/ Collect(x)
              \/ \E x \in Owners, how \in {"returned", "raised"}, st \in Ends \cup {"running"} : Left(x, how, st)
              \/ EndPool \/ PoolUnwound
              \/ \E n \in Nodes, st \in Terminal : Handled(n, st)
              \/ Aside
  <1>1. CASE Work /\ UNCHANGED dependsOn
    <2>1. decomposed' = decomposed
      BY <1>1 DEF Work, Acquire, CandidateReturns, CandidateRaises, SubtaskAttempt, SubtaskReturns, SubtaskRaises,
                  Leave, graphv
    <2> QED BY <1>1, <2>1, Workers
  <1>2. CASE ExecuteNode /\ UNCHANGED dependsOn
    BY <1>2, Handlers DEF Handled, Settle, subv
  <1>3. CASE RunFails \/ UNCHANGED vars
    BY <1>3 DEF RunFails, vars, graphv, subv, Aside
  <1>4. CASE UNCHANGED dependsOn /\ (NoReadyNodes \/ StartPool \/ StartRound \/ EndRound \/ Finalize \/ TwinPlan
                                    \/ EndPool \/ PoolUnwound)
    BY <1>4 DEF NoReadyNodes, StartPool, StartRound, EndRound, Finalize, TwinPlan, EndPool, PoolUnwound, Submit, graphv, subv
  <1>5. CASE UNCHANGED dependsOn /\ \E n \in Nodes : SkipDoomed(n)
    BY <1>5 DEF SkipDoomed, subv
  <1>6. CASE UNCHANGED dependsOn /\ \E x \in Owners : RunCode(x) \/ Collect(x)
    BY <1>6 DEF RunCode, Collect, Submit, subv
  <1> QED BY <1>1, <1>2, <1>3, <1>4, <1>5, <1>6 DEF Plain, WithinPlan

-----------------------------------------------------------------------------
(* What a plain step leaves of the graph.                                  *)

(* A node stays in the graph or out of it, and one that was dealt with     *)
(* stays so; of the code nodes of raised attempts the status may turn.     *)
LEMMA StatusKept ==
    ASSUME TypeOK, ThreadsInStep, RoundInStep, Plain
    PROVE  /\ status' \in [Nodes -> Statuses]
           /\ \A m \in Nodes :
                 /\ status[m] = "absent" <=> status'[m] = "absent"
                 /\ status[m] \in Terminal => status'[m] \in Terminal
                 /\ status[m] \in Terminal /\ m[1] # "code" => status'[m] = status[m]
                 /\ status'[m] = "waiting" => status[m] = "waiting"
  <1> DEFINE Kept ==
        /\ status' \in [Nodes -> Statuses]
        /\ \A m \in Nodes :
              /\ status[m] = "absent" <=> status'[m] = "absent"
              /\ status[m] \in Terminal => status'[m] \in Terminal
              /\ status[m] \in Terminal /\ m[1] # "code" => status'[m] = status[m]
              /\ status'[m] = "waiting" => status[m] = "waiting"
  <1> SUFFICES Kept OBVIOUS
  <1>0. status \in [Nodes -> Statuses] BY DEF TypeOK
  <1> USE <1>0 DEF Statuses, Terminal, Broken
  <1>1. ASSUME NEW n \in Nodes, SkipDoomed(n) PROVE Kept
    BY <1>1 DEF SkipDoomed, Doomed, Waiting
  <1>2. CASE NoReadyNodes
    BY <1>2 DEF NoReadyNodes, Waiting
  <1>3. CASE UNCHANGED status
    BY <1>3
  <1>4. ASSUME NEW x \in Owners, Acquire(x) PROVE Kept
    <2>1. status[Code(x)] = "waiting" /\ Code(x) \in Nodes /\ worker[x] = "queued"
      BY <1>4, NodesOf DEF Acquire, ThreadsInStep, ThreadStatus
    <2> QED BY <1>4, <2>1 DEF Acquire
  <1>5. ASSUME NEW x \in Owners, NEW how \in {"returned", "raised"}, NEW st \in Ends \cup {"running"}, Left(x, how, st)
        PROVE  Kept
    <2>1. status[Code(x)] = "running" /\ Code(x) \in Nodes
      BY <1>5, NodesOf DEF Left, Leave, ThreadsInStep, ThreadStatus
    <2> QED BY <1>5, <2>1 DEF Left, Leave, Ends
  <1>6. ASSUME NEW x \in Owners, Collect(x) PROVE Kept
    <2>1. Code(x) \in Nodes /\ Code(x)[1] = "code" BY NodesOf DEF Code
    <2>2. status[Code(x)] \in {"running", "succeeded", "failed"}
      BY <1>6 DEF Collect, ThreadsInStep, ThreadStatus, Ends
    <2> QED BY <1>6, <2>1, <2>2 DEF Collect
  <1>7. ASSUME NEW n \in Nodes, NEW st \in Terminal, Handled(n, st) PROVE Kept
    <2>1. status[n] = "waiting" BY <1>7 DEF Handled, Settle, RoundInStep
    <2> QED BY <1>7, <2>1 DEF Handled, Settle
  <1>8. CASE StartPool \/ StartRound \/ EndRound \/ Finalize \/ RunFails \/ TwinPlan \/ EndPool \/ PoolUnwound
             \/ Aside
    <2>1. UNCHANGED status
      BY <1>8 DEF StartPool, StartRound, EndRound, Finalize, RunFails, TwinPlan, EndPool, PoolUnwound, Submit, graphv, Aside
    <2> QED BY <1>3, <2>1
  <1>10. ASSUME NEW x \in Owners, RunCode(x) PROVE Kept
    <2>1. UNCHANGED status BY <1>10 DEF RunCode, Submit
    <2> QED BY <1>3, <2>1
  <1> HIDE <1>0 DEF Kept, Statuses, Terminal, Broken
  <1> QED BY PlainKinds, <1>1, <1>2, <1>4, <1>5, <1>6, <1>7, <1>8, <1>10

(* Which edges there are, whatever plan is executed.                       *)
LEMMA EdgesAreNodes ==
    ASSUME TypeOK, NEW n \in Nodes
    PROVE  Edges(n) \subseteq Nodes
  <1>0. Subtasks \subseteq Owners /\ Candidates \subseteq Owners BY DEF Owners
  <1>1. CASE n[1] = "code"
    <2>1. PICK x \in Owners : n = Code(x) BY <1>1, NodesOf
    <2>2. x \in Subtasks => dependsOn[x] \subseteq Subtasks BY DEF TypeOK
    <2> QED BY <1>0, <2>1, <2>2, CodeEdges, NodesOf
  <1>2. CASE n[1] = "review"
    <2>1. PICK x \in Owners : n = Review(x) BY <1>2, NodesOf
    <2> QED BY <2>1, CodeEdges, NodesOf
  <1>3. CASE n[1] \notin {"code", "review"}
    <2>1. n \in Prep \cup {Decompose, Select, Verify, Integrate, Validate, Repair, FinalReview}
      BY <1>3 DEF Nodes, FixedGraph, DecomposedGraph, CodeAndReview, Code, Review
    <2> QED BY <1>0, <2>1, FixedEdges, NodesOf DEF Prep
  <1> QED BY <1>1, <1>2, <1>3

(* What a node needs is still what it needs, and satisfied if it was.      *)
LEMMA NeedsKept ==
    ASSUME TypeOK, ThreadsInStep, RoundInStep, Plain, NEW n \in Nodes
    PROVE  /\ Edges(n)' = Edges(n) /\ Edges(n) \subseteq Nodes
           /\ Needs(n)' = Needs(n)
           /\ \A m \in Needs(n) : Satisfied(m, n) => Satisfied(m, n)'
  <1>1. Edges(n)' = Edges(n)
    <2>1. dependsOn' = dependsOn BY PlainKinds
    <2> QED BY <2>1 DEF Edges
  <1>2. Edges(n) \subseteq Nodes BY EdgesAreNodes
  <1>3. Needs(n)' = Needs(n)
    BY <1>1, <1>2, StatusKept DEF Needs
  <1>4. ASSUME NEW m \in Needs(n), Satisfied(m, n) PROVE Satisfied(m, n)'
    <2>1. m \in Nodes /\ m \in Edges(n) BY <1>2 DEF Needs
    <2>2. told \subseteq told' BY PlainKinds
    <2>3. status[m] \in Terminal BY <1>4 DEF Satisfied, Terminal, Broken
    <2>4. CASE m[1] # "code"
      <3>1. status'[m] = status[m] BY <2>1, <2>3, <2>4, StatusKept
      <3> QED BY <1>4, <2>2, <3>1 DEF Satisfied
    <2>5. CASE m[1] = "code"
      <3>1. PICK x \in Owners : m = Code(x) BY <2>1, <2>5, NodesOf
      <3>2. n = Review(x) BY <2>1, <3>1, WhoNeedsCode
      <3>3. status'[m] \in Terminal BY <2>1, <2>3, StatusKept
      <3> QED BY <3>1, <3>2, <3>3 DEF Satisfied, Terminal, Code, Review
    <2> QED BY <2>4, <2>5
  <1> QED BY <1>1, <1>2, <1>3, <1>4

LEMMA GraphShapeKept ==
    ASSUME TypeOK, ThreadsInStep, RoundInStep, GraphShape, Plain
    PROVE  GraphShape'
  <1>1. decomposed' = decomposed BY PlainKinds
  <1>2. GraphOfTheMoment' = GraphOfTheMoment
    BY <1>1 DEF GraphOfTheMoment, DecomposedGraph, FixedGraph
  <1> QED BY <1>2, StatusKept DEF GraphShape

LEMMA RoundKept ==
    ASSUME TypeOK, ThreadsInStep, RoundInStep, Plain
    PROVE  RoundInStep'
  <1> DEFINE Waits(m) == status[m] = "waiting" /\ \A k \in Needs(m) : Satisfied(k, m)
  <1>1. todo \subseteq Nodes /\ status \in [Nodes -> Statuses] BY DEF TypeOK
  <1>2. ASSUME pc' \in {"loop", "done"} => todo' = {},
               \A m \in todo' : m \in Nodes /\ Waits(m) /\ status'[m] = status[m]
        PROVE  RoundInStep'
    <2> SUFFICES ASSUME NEW m \in todo' PROVE status'[m] = "waiting" /\ \A k \in Needs(m)' : Satisfied(k, m)'
      BY <1>2 DEF RoundInStep
    <2> QED BY <1>2, NeedsKept
  <1>3. \A m \in todo : m \in Nodes /\ Waits(m) BY <1>1 DEF RoundInStep
  <1>4. pc = "loop" => todo = {} BY DEF RoundInStep
  <1> HIDE DEF Waits
  <1>5. ASSUME NEW n \in Nodes, SkipDoomed(n) PROVE RoundInStep'
    <2>1. pc' = "loop" /\ todo' = {} BY <1>4, <1>5 DEF SkipDoomed
    <2> QED BY <1>2, <2>1
  <1>6. CASE NoReadyNodes
    <2>1. pc' = "loop" /\ todo' = {} BY <1>4, <1>6 DEF NoReadyNodes
    <2> QED BY <1>2, <2>1
  <1>7. CASE StartPool
    <2>1. pc' = "pool" /\ todo' = todo /\ status' = status BY <1>7 DEF StartPool, Submit
    <2> QED BY <1>2, <1>3, <2>1
  <1>8. CASE StartRound
    <2>1. pc' = "round" /\ todo' = Ready /\ status' = status BY <1>8 DEF StartRound
    <2>2. \A m \in todo' : m \in Nodes /\ Waits(m) BY <2>1 DEF Ready, Waiting, Waits
    <2> QED BY <1>2, <2>1, <2>2
  <1>9. CASE EndRound \/ Finalize
    <2>1. todo' = {} BY <1>4, <1>9 DEF EndRound, Finalize, graphv
    <2> QED BY <1>2, <2>1
  <1>10. CASE RunFails \/ TwinPlan \/ EndPool \/ PoolUnwound \/ Aside
    <2>1. todo' = todo /\ status' = status /\ (pc' \in {"crashed", "round", "astray"} \/ pc' = pc)
      BY <1>10 DEF RunFails, TwinPlan, EndPool, PoolUnwound, Aside, graphv
    <2> QED BY <1>2, <1>3, <1>4, <2>1 DEF RoundInStep
  <1>11. ASSUME NEW x \in Owners, RunCode(x) PROVE RoundInStep'
    <2>1. pc' = "pool" /\ todo' \subseteq todo /\ status' = status BY <1>11 DEF RunCode, Submit
    <2> QED BY <1>2, <1>3, <2>1
  <1>12. ASSUME NEW x \in Owners, worker[x] # "none", todo' = todo, pc' \in {pc, "unwinding"},
                \A m \in Nodes : m # Code(x) => status'[m] = status[m]
         PROVE  RoundInStep'
    <2>1. Code(x) \notin todo BY <1>12 DEF ThreadsInStep
    <2> QED BY <1>2, <1>3, <1>12, <2>1 DEF RoundInStep
  <1>13. ASSUME NEW x \in Owners, Acquire(x) PROVE RoundInStep'
    <2>1. worker[x] # "none" /\ todo' = todo /\ pc' = pc BY <1>13 DEF Acquire
    <2>2. \A m \in Nodes : m # Code(x) => status'[m] = status[m] BY <1>1, <1>13 DEF Acquire
    <2> QED BY <1>12, <2>1, <2>2
  <1>14. ASSUME NEW x \in Owners, Collect(x) PROVE RoundInStep'
    <2>1. worker[x] # "none" /\ todo' = todo /\ pc' \in {pc, "unwinding"} BY <1>14 DEF Collect
    <2>2. \A m \in Nodes : m # Code(x) => status'[m] = status[m] BY <1>1, <1>14 DEF Collect
    <2> QED BY <1>12, <2>1, <2>2
  <1>15. ASSUME NEW x \in Owners, NEW how \in {"returned", "raised"}, NEW st \in Ends \cup {"running"}, Left(x, how, st)
         PROVE  RoundInStep'
    <2>1. worker[x] # "none" /\ todo' = todo /\ pc' = pc BY <1>15 DEF Left, Leave
    <2>2. \A m \in Nodes : m # Code(x) => status'[m] = status[m] BY <1>1, <1>15 DEF Left, Leave
    <2> QED BY <1>12, <2>1, <2>2
  <1>16. ASSUME NEW n \in Nodes, NEW st \in Terminal, Handled(n, st) PROVE RoundInStep'
    <2>1. pc' = "round" /\ todo' = todo \ {n} BY <1>16 DEF Handled, Settle
    <2>2. \A m \in Nodes : m # n => status'[m] = status[m] BY <1>1, <1>16 DEF Handled, Settle
    <2> QED BY <1>2, <1>3, <2>1, <2>2
  <1> QED BY PlainKinds, <1>5, <1>6, <1>7, <1>8, <1>9, <1>10, <1>11, <1>13, <1>14, <1>15, <1>16

(* The parts of ThreadsInStep in a step that moves at most one thread.     *)
LEMMA ThreadsKept ==
    ASSUME TypeOK, ThreadsInStep, RoundInStep, Plain
    PROVE  ThreadsInStep'
  <1> DEFINE Fit(x) == /\ backend[x] \in Backends /\ Code(x) \notin todo
                       /\ \A m \in Needs(Code(x)) : Satisfied(m, Code(x))
             Main == /\ pc \in {"loop", "round", "done", "astray"} => \A x \in Owners : worker[x] = "none"
                     /\ pc = "crashed" => NoneAtWork
             Runs == \A n \in Nodes : status[n] = "running" =>
                        \E x \in Owners : n = Code(x) /\ worker[x] \in {"busy", "raised"}
  <1>1. todo \subseteq Nodes /\ status \in [Nodes -> Statuses]
        /\ worker \in [Owners -> {"none", "queued", "busy", "returned", "raised", "collected"}]
        /\ backend \in [Owners -> Backends \cup {None}]
    BY DEF TypeOK
  <1>2. \A x \in Owners : Code(x) \in Nodes BY NodesOf
  <1>3. \A x, y \in Owners : Code(x) = Code(y) => x = y BY DEF Code
  <1>4. Main /\ Runs /\ \A x \in Owners : ThreadStatus(x) /\ (worker[x] # "none" => Fit(x))
    BY DEF ThreadsInStep
  <1>5. ASSUME Main', Runs', \A x \in Owners : ThreadStatus(x)', \A x \in Owners : worker'[x] # "none" => Fit(x)'
        PROVE  ThreadsInStep'
    BY <1>5 DEF ThreadsInStep
  <1>6. ASSUME NEW x \in Owners, backend'[x] = backend[x], Code(x) \notin todo', Fit(x) PROVE Fit(x)'
    <2>1. \A m \in Needs(Code(x))' : Satisfied(m, Code(x))' BY <1>2, <1>6, NeedsKept
    <2> QED BY <1>6, <2>1 DEF Code
  <1>7. ASSUME NEW x \in Owners, backend'[x] \in Backends, Code(x) \notin todo', status[Code(x)] = "waiting",
               \A m \in Needs(Code(x)) : Satisfied(m, Code(x))
        PROVE  Fit(x)'
    <2>1. \A m \in Needs(Code(x))' : Satisfied(m, Code(x))' BY <1>2, <1>7, NeedsKept
    <2> QED BY <1>7, <2>1 DEF Code
  <1> HIDE DEF Fit
  \* No thread is anywhere, before and after the step.
  <1>8. ASSUME \A x \in Owners : worker[x] = "none", worker' = worker, \A n \in Nodes : status'[n] = "running" => status[n] = "running"
        PROVE  ThreadsInStep'
    <2>1. Main' /\ Runs' BY <1>4, <1>8 DEF NoneAtWork
    <2>2. \A x \in Owners : ThreadStatus(x)' BY <1>8 DEF ThreadStatus
    <2> QED BY <1>5, <1>8, <2>1, <2>2
  <1>9. ASSUME NEW n \in Nodes, SkipDoomed(n) PROVE ThreadsInStep'
    <2>1. worker' = worker /\ \A x \in Owners : worker[x] = "none" BY <1>4, <1>9 DEF SkipDoomed, poolv
    <2>2. \A k \in Nodes : status'[k] = "running" => status[k] = "running" BY <1>1, <1>9 DEF SkipDoomed
    <2> QED BY <1>8, <2>1, <2>2
  <1>10. CASE NoReadyNodes
    <2>1. worker' = worker /\ \A x \in Owners : worker[x] = "none" BY <1>4, <1>10 DEF NoReadyNodes, poolv
    <2>2. \A k \in Nodes : status'[k] = "running" => status[k] = "running" BY <1>1, <1>10 DEF NoReadyNodes
    <2> QED BY <1>8, <2>1, <2>2
  <1>11. CASE StartRound \/ EndRound \/ Finalize \/ RunFails \/ TwinPlan
    <2>1. worker' = worker /\ (\A x \in Owners : worker[x] = "none") /\ status' = status
      BY <1>4, <1>11 DEF StartRound, EndRound, Finalize, RunFails, TwinPlan, poolv, graphv
    <2> QED BY <1>8, <2>1
  <1>12. ASSUME NEW n \in Nodes, NEW st \in Terminal, Handled(n, st) PROVE ThreadsInStep'
    <2>1. worker' = worker /\ \A x \in Owners : worker[x] = "none" BY <1>4, <1>12 DEF Handled, Settle, poolv
    <2>2. \A k \in Nodes : status'[k] = "running" => status[k] = "running"
      BY <1>1, <1>12 DEF Handled, Settle, Terminal, Broken
    <2> QED BY <1>8, <2>1, <2>2
  <1>13. ASSUME NEW X \in SUBSET Owners, pc \in {"loop", "round"}, Submit(X),
                \A x \in X : Code(x) \notin todo' /\ status[Code(x)] = "waiting" /\ \A m \in Needs(Code(x)) : Satisfied(m, Code(x))
         PROVE  ThreadsInStep'
    <2>1. pc' = "pool" /\ status' = status /\ \A x \in Owners : worker[x] = "none" BY <1>4, <1>13 DEF Submit
    <2>2. \A x \in Owners : worker'[x] = IF x \in X THEN "queued" ELSE "none" BY <1>13, <2>1 DEF Submit
    <2>3. \A x \in X : backend'[x] \in Backends BY <1>13 DEF Submit
    <2>4. Main' /\ Runs' BY <1>4, <2>1
    <2>5. \A x \in Owners : ThreadStatus(x)' BY <1>13, <2>1, <2>2 DEF ThreadStatus
    <2>6. \A x \in Owners : worker'[x] # "none" => Fit(x)' BY <1>7, <1>13, <2>2, <2>3
    <2> QED BY <1>5, <2>4, <2>5, <2>6
  <1>14. CASE StartPool
    <2>1. ReadyCode \in SUBSET Owners /\ pc = "loop" /\ todo' = {} /\ Submit(ReadyCode)
      BY <1>14 DEF StartPool, ReadyCode, RoundInStep
    <2>2. \A x \in ReadyCode : status[Code(x)] = "waiting" /\ \A m \in Needs(Code(x)) : Satisfied(m, Code(x))
      BY DEF ReadyCode, Ready, Waiting
    <2> QED BY <1>13, <2>1, <2>2
  <1>15. ASSUME NEW x \in Owners, RunCode(x) PROVE ThreadsInStep'
    <2>1. {x} \in SUBSET Owners /\ pc = "round" /\ Code(x) \notin todo' /\ Submit({x}) BY <1>15 DEF RunCode
    <2>2. status[Code(x)] = "waiting" /\ \A m \in Needs(Code(x)) : Satisfied(m, Code(x))
      BY <1>15 DEF RunCode, RoundInStep
    <2> QED BY <1>13, <2>1, <2>2
  \* One thread moves.
  <1>16. ASSUME NEW x \in Owners, worker[x] # "none", todo' = todo, backend' = backend, pc' \in {pc, "unwinding"},
                \A y \in Owners : y # x => worker'[y] = worker[y],
                \A m \in Nodes : m # Code(x) => status'[m] = status[m],
                ThreadStatus(x)', worker'[x] \in {"queued", "busy"} => worker[x] \in {"queued", "busy"},
                status'[Code(x)] = "running" => worker'[x] \in {"busy", "raised"}
         PROVE  ThreadsInStep'
    <2>1. Main' BY <1>4, <1>16 DEF NoneAtWork
    <2>2. Runs' BY <1>2, <1>3, <1>4, <1>16
    <2>3. ASSUME NEW y \in Owners PROVE ThreadStatus(y)'
      <3>1. CASE y = x BY <1>16, <3>1
      <3>2. CASE y # x
        <4>1. Code(y) # Code(x) /\ Code(y) \in Nodes BY <1>2, <1>3, <3>2
        <4> QED BY <1>4, <1>16, <3>2, <4>1 DEF ThreadStatus, Code
      <3> QED BY <3>1, <3>2
    <2>4. ASSUME NEW y \in Owners, worker'[y] # "none" PROVE Fit(y)'
      <3>1. worker[y] # "none" BY <1>16, <2>4
      <3>2. Fit(y) BY <1>4, <3>1
      <3>3. Code(y) \notin todo' BY <1>16, <3>2 DEF Fit
      <3> QED BY <1>6, <1>16, <3>2, <3>3
    <2> QED BY <1>5, <2>1, <2>2, <2>3, <2>4
  <1>17. ASSUME NEW x \in Owners, Acquire(x) PROVE ThreadsInStep'
    <2>1. /\ worker[x] = "queued" /\ todo' = todo /\ backend' = backend /\ pc' = pc
          /\ \A y \in Owners : y # x => worker'[y] = worker[y]
          /\ worker'[x] = "busy" /\ status'[Code(x)] = "running"
          /\ \A m \in Nodes : m # Code(x) => status'[m] = status[m]
      BY <1>1, <1>2, <1>17 DEF Acquire
    <2>2. ThreadStatus(x)' BY <2>1 DEF ThreadStatus, Code
    <2> QED BY <1>16, <2>1, <2>2
  <1>18. ASSUME NEW x \in Owners, NEW how \in {"returned", "raised"}, NEW st \in Ends \cup {"running"}, Left(x, how, st)
         PROVE  ThreadsInStep'
    <2>1. /\ worker[x] = "busy" /\ todo' = todo /\ backend' = backend /\ pc' = pc
          /\ \A y \in Owners : y # x => worker'[y] = worker[y]
          /\ worker'[x] = how /\ status'[Code(x)] = st
          /\ \A m \in Nodes : m # Code(x) => status'[m] = status[m]
      BY <1>1, <1>2, <1>18 DEF Left, Leave
    <2>2. ThreadStatus(x)' /\ (st = "running" => how = "raised")
      BY <1>18, <2>1 DEF ThreadStatus, Code, Left, Ends
    <2> QED BY <1>16, <1>18, <2>1, <2>2
  <1>19. ASSUME NEW x \in Owners, Collect(x) PROVE ThreadsInStep'
    <2>1. /\ worker[x] \in {"returned", "raised"} /\ todo' = todo /\ backend' = backend /\ pc' \in {pc, "unwinding"}
          /\ \A y \in Owners : y # x => worker'[y] = worker[y]
          /\ worker'[x] = "collected"
          /\ \A m \in Nodes : m # Code(x) => status'[m] = status[m]
      BY <1>1, <1>2, <1>19 DEF Collect
    <2>2. status'[Code(x)] \in Ends
      BY <1>1, <1>2, <1>4, <1>19 DEF Collect, ThreadStatus, Ends
    <2>3. ThreadStatus(x)' BY <2>1, <2>2 DEF ThreadStatus, Code
    <2> QED BY <1>16, <2>1, <2>2, <2>3 DEF Ends
  <1>20. CASE EndPool
    <2>1. pc' = "round" /\ status' = status /\ todo' = todo /\ \A x \in Owners : worker'[x] = "none"
      BY <1>20 DEF EndPool, AllCollected, graphv
    <2>2. Runs' BY <1>1, <1>4, <1>20, <2>1 DEF EndPool, AllCollected
    <2>3. Main' /\ \A x \in Owners : ThreadStatus(x)' BY <2>1 DEF ThreadStatus
    <2> QED BY <1>5, <2>1, <2>2, <2>3
  <1>21. CASE PoolUnwound
    <2>1. pc' = "crashed" /\ status' = status /\ todo' = todo /\ worker' = worker /\ backend' = backend /\ NoneAtWork
      BY <1>21 DEF PoolUnwound, graphv, poolv
    <2>2. Main' /\ Runs' BY <1>4, <2>1 DEF NoneAtWork
    <2>3. \A x \in Owners : ThreadStatus(x)' BY <1>4, <2>1 DEF ThreadStatus
    <2>4. \A x \in Owners : worker'[x] # "none" => Fit(x)'
      <3>1. \A x \in Owners : worker'[x] # "none" => Fit(x) /\ Code(x) \notin todo'
        BY <1>4, <2>1 DEF Fit
      <3> QED BY <1>6, <2>1, <3>1
    <2> QED BY <1>5, <2>2, <2>3, <2>4
  <1>22. CASE Aside
    <2>1. pc' = pc /\ status' = status /\ todo' = todo /\ worker' = worker /\ backend' = backend
      BY <1>22 DEF Aside, graphv, poolv
    <2>2. Main' /\ Runs' BY <1>4, <2>1 DEF NoneAtWork
    <2>3. \A x \in Owners : ThreadStatus(x)' BY <1>4, <2>1 DEF ThreadStatus
    <2>4. \A x \in Owners : worker'[x] # "none" => Fit(x)'
      <3>1. \A x \in Owners : worker'[x] # "none" => Fit(x) /\ Code(x) \notin todo'
        BY <1>4, <2>1 DEF Fit
      <3> QED BY <1>6, <2>1, <3>1
    <2> QED BY <1>5, <2>2, <2>3, <2>4
  <1> QED BY PlainKinds, <1>9, <1>10, <1>11, <1>12, <1>14, <1>15, <1>17, <1>18, <1>19, <1>20, <1>21, <1>22

-----------------------------------------------------------------------------
(* What comes before what, in a plain step.                                *)

(* What the loop deals with besides code nodes: it skips, or it executes a *)
(* node of the round.                                                      *)
LEMMA LoopDeals ==
    ASSUME TypeOK, ThreadsInStep, RoundInStep, Plain, NEW n \in Nodes, n[1] # "code", status'[n] # status[n]
    PROVE  /\ pc \in {"loop", "round"} /\ worker' = worker /\ status[n] = "waiting"
           /\ \A x \in Owners : worker[x] = "none"
           /\ \/ n \in Doomed \/ NoReadyNodes
              \/ /\ \A m \in Needs(n) : Satisfied(m, n)
                 /\ \A m \in Nodes : m # n => status'[m] = status[m]
  <1>1. status \in [Nodes -> Statuses] /\ \A x \in Owners : n # Code(x)
    BY DEF TypeOK, Code
  <1>2. ASSUME NEW m \in Nodes, SkipDoomed(m) PROVE n = m
    BY <1>1, <1>2 DEF SkipDoomed
  <1>3. ASSUME NEW m \in Nodes, NEW st \in Terminal, Handled(m, st) PROVE n = m
    BY <1>1, <1>3 DEF Handled, Settle
  <1>4. ASSUME NEW x \in Owners, Acquire(x) \/ Collect(x) \/ RunCode(x) PROVE FALSE
    BY <1>1, <1>4 DEF Acquire, Collect, RunCode, Submit
  <1>5. ASSUME NEW x \in Owners, NEW how \in {"returned", "raised"}, NEW st \in Ends \cup {"running"}, Left(x, how, st)
        PROVE  FALSE
    BY <1>1, <1>5 DEF Left, Leave
  <1>6. ~(StartPool \/ StartRound \/ EndRound \/ Finalize \/ RunFails \/ TwinPlan \/ EndPool \/ PoolUnwound \/ Aside)
    BY DEF StartPool, StartRound, EndRound, Finalize, RunFails, TwinPlan, EndPool, PoolUnwound, Submit, graphv, Aside
  <1>7. CASE SkipDoomed(n)
    BY <1>7 DEF SkipDoomed, Doomed, Waiting, ThreadsInStep, poolv
  <1>8. CASE NoReadyNodes
    BY <1>8 DEF NoReadyNodes, Waiting, ThreadsInStep, poolv
  <1>9. ASSUME NEW st \in Terminal, Handled(n, st)
        PROVE  /\ pc = "round" /\ worker' = worker /\ status[n] = "waiting"
               /\ \A x \in Owners : worker[x] = "none"
               /\ \A m \in Needs(n) : Satisfied(m, n)
               /\ \A m \in Nodes : m # n => status'[m] = status[m]
    BY <1>1, <1>9 DEF Handled, Settle, ThreadsInStep, RoundInStep, poolv
  <1> QED BY PlainKinds, <1>2, <1>3, <1>4, <1>5, <1>6, <1>7, <1>8, <1>9

(* A node that needs one other is dealt with after that one.               *)
LEMMA AfterItsNeed ==
    ASSUME TypeOK, ThreadsInStep, RoundInStep, Plain,
           NEW n \in Nodes, NEW m \in Nodes, n[1] # "code", n # m, Edges(n) = {m},
           status[n] = "absent" <=> status[m] = "absent",
           status[n] \in Terminal => status[m] \in Terminal, status'[n] \in Terminal
    PROVE  status'[m] \in Terminal
  <1>1. status \in [Nodes -> Statuses] BY DEF TypeOK
  <1>2. CASE status'[n] = status[n] BY <1>2, StatusKept
  <1>3. CASE status'[n] # status[n]
    <2>1. status[n] = "waiting" BY <1>3, LoopDeals
    <2>2. status[m] # "absent" /\ Needs(n) = {m} BY <2>1 DEF Needs
    <2>3. CASE n \in Doomed
      <3>1. status[m] \in Terminal BY <2>2, <2>3 DEF Doomed, Terminal
      <3> QED BY <3>1, StatusKept
    <2>4. CASE NoReadyNodes
      <3>1. \A x \in Owners : worker[x] = "none" BY <1>3, LoopDeals
      <3>2. status[m] # "running" BY <3>1 DEF ThreadsInStep
      <3>3. status[m] \in Terminal \cup {"waiting"} BY <1>1, <2>2, <3>2 DEF Statuses
      <3> QED BY <2>4, <3>3 DEF NoReadyNodes, Waiting, Terminal, Broken
    <2>5. CASE Satisfied(m, n) /\ status'[m] = status[m]
      BY <2>5 DEF Satisfied, Terminal, Broken
    <2> QED BY <1>3, <2>2, <2>3, <2>4, <2>5, LoopDeals
  <1> QED BY <1>2, <1>3

(* The two nodes of an attempt are both in the graph, or neither is.       *)
LEMMA SameGraph ==
    ASSUME GraphShape
    PROVE  /\ \A x \in Owners : status[Code(x)] = "absent" <=> status[Review(x)] = "absent"
           /\ \A x \in Owners : status[Code(x)] # "absent" <=> (x \in Subtasks <=> decomposed)
           /\ \A n \in {Integrate, Validate, Repair, FinalReview} : status[n] # "absent" <=> decomposed
           /\ status[Select] # "absent" <=> ~decomposed
  <1>1. \A x \in Owners : Code(x) \in Nodes /\ Review(x) \in Nodes BY NodesOf
  <1>2. \A x \in Owners : /\ Code(x) \in FixedGraph <=> x \in Candidates
                          /\ Review(x) \in FixedGraph <=> x \in Candidates
                          /\ Code(x) \in DecomposedGraph <=> x \in Subtasks
                          /\ Review(x) \in DecomposedGraph <=> x \in Subtasks
    BY DEF FixedGraph, DecomposedGraph, CodeAndReview, Code, Review, Prep, Decompose, Select, Verify, Integrate,
           Validate, Repair, FinalReview, Only
  <1>3. \A n \in {Integrate, Validate, Repair, FinalReview} : n \in Nodes /\ n \in DecomposedGraph /\ n \notin FixedGraph
    BY NodesOf DEF FixedGraph, DecomposedGraph, CodeAndReview, Code, Review, Prep, Decompose, Select, Verify, Integrate,
           Validate, Repair, FinalReview, Only
  <1>4. Select \in Nodes /\ Select \in FixedGraph /\ Select \notin DecomposedGraph
    BY NodesOf DEF FixedGraph, DecomposedGraph, CodeAndReview, Code, Review, Prep, Decompose, Select, Verify, Integrate,
           Validate, Repair, FinalReview, Only
  <1>5. Candidates \cap Subtasks = {} BY EngineAssumption
  <1> QED BY <1>1, <1>2, <1>3, <1>4, <1>5 DEF GraphShape, GraphOfTheMoment, Owners

(* Before the decomposition is decided nothing after it can move.          *)
LEMMA HeldBack ==
    ASSUME TypeOK, GraphShape, PlannerFirst, status[Decompose] = "waiting",
           NEW n \in FixedGraph \ (Prep \cup {Decompose})
    PROVE  /\ status[n] = "waiting" /\ Needs(n) # {}
           /\ \A m \in Needs(n) : status[m] = "waiting"
  <1>1. ~decomposed /\ status[n] = "waiting" BY DEF PlannerFirst
  <1>2. \A x \in Candidates : Code(x) \in FixedGraph \ (Prep \cup {Decompose})
                              /\ Review(x) \in FixedGraph \ (Prep \cup {Decompose})
    BY DEF FixedGraph, CodeAndReview, Code, Review, Prep, Decompose, Only
  <1>3. Select \in FixedGraph \ (Prep \cup {Decompose})
    BY DEF FixedGraph, Prep, Decompose, Only, Select
  <1>4. (\A x \in Candidates : status[Code(x)] = "waiting" /\ status[Review(x)] = "waiting") /\ status[Select] = "waiting"
    BY <1>2, <1>3 DEF PlannerFirst
  <1>5. ASSUME NEW x \in Candidates, n = Code(x) PROVE Needs(n) = {Decompose}
    <2>1. Edges(n) = {Decompose} BY <1>5, CodeEdges, EngineAssumption DEF Owners
    <2> QED BY <2>1 DEF Needs
  <1>6. ASSUME NEW x \in Candidates, n = Review(x) PROVE Needs(n) = {Code(x)}
    <2>1. Edges(n) = {Code(x)} BY <1>6, CodeEdges DEF Owners
    <2> QED BY <1>4, <2>1 DEF Needs
  <1>7. CASE n = Select
    <2>1. Needs(n) = {Review(c) : c \in Candidates} BY <1>4, <1>7, FixedEdges DEF Needs
    <2>2. Candidates # {} BY EngineAssumption
    <2> QED BY <1>1, <1>4, <2>1, <2>2
  <1>8. CASE n = Verify
    <2>1. status[FinalReview] = "absent" BY <1>1, SameGraph
    <2>2. Needs(n) = {Select} BY <1>4, <1>8, <2>1, FixedEdges DEF Needs
    <2> QED BY <1>1, <1>4, <2>2
  <1>9. (\E x \in Candidates : n = Code(x) \/ n = Review(x)) \/ n = Select \/ n = Verify
    BY DEF FixedGraph, CodeAndReview
  <1> QED BY <1>1, <1>4, <1>5, <1>6, <1>7, <1>8, <1>9

LEMMA PlannerKept ==
    ASSUME TypeOK, ThreadsInStep, RoundInStep, GraphShape, PlannerFirst, Plain
    PROVE  PlannerFirst'
  <1> DEFINE After == FixedGraph \ (Prep \cup {Decompose})
  <1>1. Decompose \in Nodes /\ After \subseteq Nodes /\ Decompose[1] # "code"
    BY NodesOf DEF Decompose, Only
  <1>2. decomposed' = decomposed /\ status \in [Nodes -> Statuses] BY PlainKinds DEF TypeOK
  <1> SUFFICES ASSUME status'[Decompose] = "waiting" PROVE ~decomposed /\ \A n \in After : status'[n] = "waiting"
    BY <1>2 DEF PlannerFirst
  <1>3. status[Decompose] = "waiting" BY <1>1, StatusKept
  <1>4. ~decomposed BY <1>3 DEF PlannerFirst
  <1>5. ~NoReadyNodes BY <1>1, <1>3 DEF NoReadyNodes, Waiting
  <1>6. ASSUME NEW n \in After, n[1] # "code", status'[n] # status[n] PROVE FALSE
    <2>1. PICK m \in Needs(n) : status[m] = "waiting" BY <1>3, HeldBack
    <2>2. \A k \in Needs(n) : status[k] = "waiting" BY <1>3, HeldBack
    <2>3. ~Satisfied(m, n) BY <2>1 DEF Satisfied, Broken
    <2>4. n \notin Doomed BY <2>2 DEF Doomed, Broken
    <2> QED BY <1>1, <1>5, <1>6, <2>1, <2>3, <2>4, LoopDeals
  <1>7. ASSUME NEW n \in After, n[1] = "code", status'[n] # status[n] PROVE FALSE
    <2>1. PICK x \in Owners : n = Code(x) BY <1>1, <1>7, NodesOf
    <2>2. PICK m \in Needs(n) : status[m] = "waiting" BY <1>3, HeldBack
    <2>3. ~Satisfied(m, n) BY <2>2 DEF Satisfied, Broken
    <2>4. worker[x] = "none" BY <2>1, <2>2, <2>3 DEF ThreadsInStep
    <2>5. status[n] = "waiting" BY <1>3, HeldBack
    <2>6. \A k \in Needs(n) : status[k] = "waiting" BY <1>3, HeldBack
    <2>7. n \notin Doomed /\ n \notin todo BY <2>2, <2>3, <2>6 DEF Doomed, Broken, RoundInStep
    <2>8. \A y \in Owners : Code(y) = n => y = x BY <2>1 DEF Code
    <2>9. ~(\E k \in Nodes : SkipDoomed(k)) BY <1>1, <1>2, <1>7, <2>7 DEF SkipDoomed
    <2>10. ~(\E y \in Owners : RunCode(y) \/ Acquire(y) \/ Collect(y))
      <3>1. ASSUME NEW y \in Owners, RunCode(y) PROVE FALSE BY <1>7, <3>1 DEF RunCode, Submit
      <3>2. ASSUME NEW y \in Owners, Acquire(y) \/ Collect(y) PROVE FALSE
        BY <1>1, <1>2, <1>7, <2>1, <2>4, <2>8, <3>2 DEF Acquire, Collect
      <3> QED BY <3>1, <3>2
    <2>11. ASSUME NEW y \in Owners, NEW how, NEW st, Left(y, how, st) PROVE FALSE
      BY <1>1, <1>2, <1>7, <2>1, <2>4, <2>8, <2>11 DEF Left, Leave
    <2>12. ASSUME NEW k \in Nodes, NEW st, Handled(k, st) PROVE FALSE
      BY <1>2, <1>7, <2>12 DEF Handled, Settle
    <2>13. ~(StartPool \/ StartRound \/ EndRound \/ Finalize \/ RunFails \/ TwinPlan \/ EndPool \/ PoolUnwound \/ Aside)
      BY <1>7 DEF StartPool, StartRound, EndRound, Finalize, RunFails, TwinPlan, EndPool, PoolUnwound, Submit, graphv, Aside
    <2> QED BY PlainKinds, <1>5, <2>9, <2>10, <2>11, <2>12, <2>13
  <1>8. \A n \in After : status[n] = "waiting" BY <1>3, HeldBack
  <1> QED BY <1>4, <1>6, <1>7, <1>8

(* A thread is taken only for a code node that is waiting.                 *)
LEMMA IdleKept ==
    ASSUME TypeOK, ThreadsInStep, RoundInStep, Plain, NEW x \in Owners,
           worker[x] = "none", status[Code(x)] # "waiting"
    PROVE  worker'[x] = "none"
  <1>1. worker \in [Owners -> {"none", "queued", "busy", "returned", "raised", "collected"}] BY DEF TypeOK
  <1>2. ASSUME NEW y \in Owners, RunCode(y) PROVE worker'[x] = "none"
    BY <1>2 DEF RunCode, Submit, RoundInStep
  <1>3. CASE StartPool
    BY <1>3 DEF StartPool, Submit, ReadyCode, Ready, Waiting
  <1>4. ASSUME NEW y \in Owners, Acquire(y) \/ Collect(y) PROVE worker'[x] = "none"
    BY <1>1, <1>4 DEF Acquire, Collect
  <1>5. ASSUME NEW y \in Owners, NEW how, NEW st, Left(y, how, st) PROVE worker'[x] = "none"
    BY <1>1, <1>5 DEF Left, Leave
  <1>6. CASE EndPool BY <1>6 DEF EndPool
  <1>7. CASE NoReadyNodes \/ StartRound \/ EndRound \/ Finalize \/ RunFails \/ TwinPlan \/ PoolUnwound \/ Aside
             \/ (\E n \in Nodes : SkipDoomed(n)) \/ (\E n \in Nodes, st \in Terminal : Handled(n, st))
    BY <1>7 DEF NoReadyNodes, StartRound, EndRound, Finalize, RunFails, TwinPlan, PoolUnwound, Aside, SkipDoomed, Handled, Settle, poolv
  <1> QED BY PlainKinds, <1>2, <1>3, <1>4, <1>5, <1>6, <1>7

LEMMA ReviewsFollowKept ==
    ASSUME TypeOK, ThreadsInStep, RoundInStep, GraphShape, ReviewsFollow, Plain
    PROVE  ReviewsFollow'
  <1> SUFFICES ASSUME NEW x \in Owners, status'[Review(x)] \in Terminal
               PROVE  status'[Code(x)] \in Terminal /\ worker'[x] = "none"
    BY DEF ReviewsFollow, Terminal, Broken, Review, Code
  <1>1. /\ Code(x) \in Nodes /\ Review(x) \in Nodes /\ Review(x)[1] # "code" /\ Review(x) # Code(x)
        /\ Edges(Review(x)) = {Code(x)}
    BY NodesOf, CodeEdges DEF Review, Code
  <1>2. status[Review(x)] = "absent" <=> status[Code(x)] = "absent" BY SameGraph
  <1>3. status[Review(x)] \in Terminal => status[Code(x)] \in Terminal BY DEF ReviewsFollow
  <1>4. status'[Code(x)] \in Terminal BY <1>1, <1>2, <1>3, AfterItsNeed
  <1>5. CASE status'[Review(x)] = status[Review(x)]
    <2>1. status[Code(x)] \in Terminal /\ worker[x] = "none" BY <1>5 DEF ReviewsFollow
    <2> QED BY <1>4, <2>1, IdleKept DEF Terminal, Broken
  <1>6. CASE status'[Review(x)] # status[Review(x)]
    <2>1. worker' = worker /\ worker[x] = "none" BY <1>1, <1>6, LoopDeals
    <2> QED BY <1>4, <2>1
  <1> QED BY <1>5, <1>6

LEMMA IntegrationFollowsKept ==
    ASSUME TypeOK, ThreadsInStep, RoundInStep, GraphShape, IntegrationFollows, Plain
    PROVE  IntegrationFollows'
  <1> DEFINE Stages == {Integrate, Validate, Repair, FinalReview}
  <1>1. \A n \in Stages : n \in Nodes /\ n[1] # "code" /\ (status[n] # "absent" <=> decomposed)
    BY SameGraph, NodesOf DEF Integrate, Validate, Repair, FinalReview, Only
  <1>2. Integrate # Validate /\ Validate # Repair /\ Repair # FinalReview
    BY DEF Integrate, Validate, Repair, FinalReview, Only
  <1>3. Edges(Validate) = {Integrate} /\ Edges(Repair) = {Validate} /\ Edges(FinalReview) = {Repair}
    BY FixedEdges
  <1>4. ASSUME NEW n \in Stages, NEW m \in Stages, n # m, Edges(n) = {m}, status[n] \in Terminal => status[m] \in Terminal
        PROVE  status'[n] \in Terminal => status'[m] \in Terminal
    BY <1>1, <1>4, AfterItsNeed
  <1>5. /\ status'[FinalReview] \in Terminal => status'[Repair] \in Terminal
        /\ status'[Repair] \in Terminal => status'[Validate] \in Terminal
        /\ status'[Validate] \in Terminal => status'[Integrate] \in Terminal
    BY <1>2, <1>3, <1>4 DEF IntegrationFollows
  <1> QED BY <1>5 DEF IntegrationFollows, Terminal, Broken, Integrate, Validate, Repair, FinalReview, Only

-----------------------------------------------------------------------------
(* The step that exchanges the graph.  It finds everything that follows    *)
(* the decomposition untouched and leaves it so.                           *)
LEMMA ReplacedGraph ==
    ASSUME TypeOK, ThreadsInStep, RoundInStep, GraphShape, PlannerFirst, ReplaceGraph
    PROVE  /\ pc = "round" /\ pc' = "round" /\ ~decomposed /\ decomposed' /\ Decompose \in todo
           /\ status[Decompose] = "waiting" /\ status'[Decompose] \in Ends
           /\ todo' \subseteq Prep
           /\ \A n \in Prep : status'[n] = status[n] /\ status[n] # "absent"
           /\ \A n \in Nodes \ (Prep \cup {Decompose}) :
                 status'[n] = IF n \in DecomposedGraph THEN "waiting" ELSE "absent"
           /\ status' \in [Nodes -> Statuses]
           /\ \A x \in Owners : worker[x] = "none" /\ worker'[x] = "none"
           /\ UNCHANGED <<backend, fate, review, tries, sound, accepted, told, integ, winner, decision>>
  <1>0. status \in [Nodes -> Statuses] /\ todo \subseteq Nodes BY DEF TypeOK
  <1>1. pc = "round" /\ pc' = "round" /\ Decompose \in todo /\ decomposed' /\ todo' = todo \ {Decompose}
    BY DEF ReplaceGraph
  <1>2. status[Decompose] = "waiting" /\ ~decomposed BY <1>1 DEF RoundInStep, PlannerFirst
  <1>3. /\ Prep \cup {Decompose} \subseteq Nodes /\ Prep \subseteq FixedGraph /\ Decompose \notin Prep
    BY NodesOf DEF FixedGraph, Prep, Decompose, Only
  <1>4. PICK st \in Ends : status' = [n \in Nodes |-> IF n = Decompose THEN st
                                     ELSE IF n \in Prep THEN status[n]
                                     ELSE IF n \in DecomposedGraph THEN "waiting" ELSE "absent"]
    BY DEF ReplaceGraph
  <1>5. \A n \in Prep : status'[n] = status[n] /\ status[n] # "absent"
    BY <1>2, <1>3, <1>4 DEF GraphShape, GraphOfTheMoment
  <1>6. \A n \in Nodes \ (Prep \cup {Decompose}) : status'[n] = IF n \in DecomposedGraph THEN "waiting" ELSE "absent"
    BY <1>4
  <1>7. status'[Decompose] \in Ends BY <1>3, <1>4
  <1>8. status' \in [Nodes -> Statuses]
    BY <1>0, <1>3, <1>4 DEF Statuses, Terminal, Broken, Ends
  <1>9. \A x \in Owners : worker[x] = "none" /\ worker'[x] = "none"
    BY <1>1 DEF ThreadsInStep, ReplaceGraph, poolv
  <1>10. todo' \subseteq Prep
    <2> SUFFICES ASSUME NEW n \in todo, n # Decompose PROVE n \in Prep
      BY <1>1
    <2>1. n \in Nodes /\ status[n] = "waiting" /\ \A m \in Needs(n) : Satisfied(m, n) BY <1>0 DEF RoundInStep
    <2>2. n \in FixedGraph BY <1>2, <2>1 DEF GraphShape, GraphOfTheMoment
    <2>3. ASSUME n \notin Prep PROVE FALSE
      <3>1. PICK m \in Needs(n) : status[m] = "waiting" BY <1>2, <2>2, <2>3, HeldBack
      <3> QED BY <2>1, <3>1 DEF Satisfied, Broken
    <2> QED BY <2>3
  <1>11. UNCHANGED <<backend, fate, review, tries, sound, accepted, told, integ, winner, decision>>
    BY DEF ReplaceGraph, poolv, candv, subv, endv
  <1> QED BY <1>1, <1>2, <1>5, <1>6, <1>7, <1>8, <1>9, <1>10, <1>11

LEMMA GraphReplaced ==
    ASSUME TypeOK, ThreadsInStep, RoundInStep, GraphShape, PlannerFirst, ReplaceGraph
    PROVE  /\ GraphShape' /\ ThreadsInStep' /\ RoundInStep' /\ PlannerFirst' /\ ReviewsFollow' /\ IntegrationFollows'
  <1> USE ReplacedGraph
  <1>1. status' \in [Nodes -> Statuses] /\ \A n \in Nodes : n \in Prep \cup {Decompose} \/ n \notin Prep \cup {Decompose}
    OBVIOUS
  <1>2. Prep \cup {Decompose} \subseteq DecomposedGraph BY DEF DecomposedGraph
  <1>3. GraphShape'
    <2>1. GraphOfTheMoment' = DecomposedGraph BY DEF GraphOfTheMoment, DecomposedGraph
    <2>2. status'[Decompose] # "absent" BY DEF Ends
    <2> QED BY <1>2, <2>1, <2>2 DEF GraphShape
  <1>4. \A x \in Owners : /\ Code(x) \in Nodes \ (Prep \cup {Decompose})
                          /\ Review(x) \in Nodes \ (Prep \cup {Decompose})
    BY NodesOf DEF Code, Review, Prep, Decompose, Only
  <1>5. ThreadsInStep'
    <2>1. \A n \in Nodes : status'[n] # "running"
      <3>1. ASSUME NEW n \in Prep PROVE status'[n] # "running"
        <4>1. n \in Nodes /\ \A x \in Owners : n # Code(x) BY NodesOf, <1>4
        <4> QED BY <4>1 DEF ThreadsInStep
      <3>2. status'[Decompose] # "running" BY DEF Ends
      <3> QED BY <3>1, <3>2
    <2>2. \A x \in Owners : ThreadStatus(x)' BY DEF ThreadStatus
    <2> QED BY <2>1, <2>2 DEF ThreadsInStep, NoneAtWork
  <1>6. RoundInStep'
    <2> SUFFICES ASSUME NEW n \in todo' PROVE status'[n] = "waiting" /\ \A m \in Needs(n)' : Satisfied(m, n)'
      BY DEF RoundInStep
    <2>1. n \in Prep /\ n \in todo BY DEF ReplaceGraph
    <2>2. Edges(n) \subseteq Prep /\ Edges(n)' = Edges(n)
      <3>1. Edges(n) \subseteq Prep BY <2>1, FixedEdges DEF Prep
      <3>2. n[1] # "code" BY <2>1 DEF Prep, Only
      <3> QED BY <3>1, <3>2 DEF Edges
    <2>3. Needs(n)' = Needs(n) /\ \A m \in Needs(n) : status'[m] = status[m] BY <2>2 DEF Needs
    <2>4. \A m \in Needs(n) : Satisfied(m, n)' BY <2>1, <2>3 DEF Satisfied, RoundInStep
    <2> QED BY <2>1, <2>3, <2>4 DEF RoundInStep
  <1>7. PlannerFirst'
    <2>1. status'[Decompose] # "waiting" BY DEF Ends
    <2> QED BY <2>1 DEF PlannerFirst
  <1>8. ReviewsFollow'
    <2>1. \A x \in Owners : status'[Review(x)] \notin Terminal BY <1>4 DEF Terminal, Broken
    <2> QED BY <2>1 DEF ReviewsFollow, Terminal, Broken, Review
  <1>9. IntegrationFollows'
    <2>1. \A n \in {Integrate, Validate, Repair, FinalReview} : n \in Nodes \ (Prep \cup {Decompose})
      BY NodesOf DEF Prep, Decompose, Integrate, Validate, Repair, FinalReview, Only
    <2>2. \A n \in {Integrate, Validate, Repair, FinalReview} : status'[n] \notin Terminal
      BY <2>1 DEF Terminal, Broken
    <2> QED BY <2>2 DEF IntegrationFollows, Terminal, Broken, Integrate, Validate, Repair, FinalReview, Only
  <1> QED BY <1>3, <1>5, <1>6, <1>7, <1>8, <1>9

-----------------------------------------------------------------------------
(* Evidence, winner, subtasks and integration.                             *)

(* Which steps write the variables that are not of the graph.              *)
LEMMA Writers ==
    ASSUME Plain
    PROVE  /\ fate' = fate \/ \E c \in Candidates : CandidateReturns(c) \/ CandidateRaises(c)
           /\ review' = review \/ \E c \in Candidates : ReviewCandidate(c)
           /\ UNCHANGED <<tries, accepted, sound>> \/ \E s \in Subtasks : SubtaskAttempt(s)
           /\ told' = told \/ \E s \in Subtasks : SubtaskReturns(s) \/ SubtaskRaises(s)
           /\ winner' = winner \/ SelectNode \/ VerifyNode
           /\ integ' = integ \/ IntegrateNode \/ ValidateNode \/ RepairNode \/ FinalReviewNode
           /\ (decision' = decision /\ (pc \in {"done", "crashed"} => pc' = pc) /\ (pc' = "done" => pc = "done")) \/ Finalize
  <1> USE DEF candv, subv, endv, graphv, poolv
  <1>1. CASE \E n \in Nodes : SkipDoomed(n) BY <1>1 DEF SkipDoomed
  <1>2. CASE NoReadyNodes \/ EndPool \/ PoolUnwound BY <1>2 DEF NoReadyNodes, EndPool, PoolUnwound
  <1>3. CASE StartPool \/ StartRound \/ EndRound BY <1>3 DEF StartPool, StartRound, EndRound, Submit
  <1>4. CASE Finalize \/ RunFails \/ TwinPlan BY <1>4 DEF Finalize, RunFails, TwinPlan
  <1>5. CASE \E x \in Owners : RunCode(x) \/ Collect(x) BY <1>5 DEF RunCode, Collect, Submit
  <1>6. CASE UNCHANGED vars BY <1>6 DEF vars
  <1>7. CASE \E x \in Owners : Acquire(x) BY <1>7 DEF Acquire
  <1>8. CASE \E c \in Candidates : CandidateReturns(c) \/ CandidateRaises(c)
    BY <1>8 DEF CandidateReturns, CandidateRaises, Leave
  <1>9. CASE \E s \in Subtasks : SubtaskAttempt(s) BY <1>9 DEF SubtaskAttempt
  <1>10. CASE \E s \in Subtasks : SubtaskReturns(s) \/ SubtaskRaises(s) BY <1>10 DEF SubtaskReturns, SubtaskRaises, Leave
  <1>11. CASE \E n \in Prep : Prepare(n) BY <1>11 DEF Prepare, Settle
  <1>12. CASE KeepCandidates BY <1>12 DEF KeepCandidates, Settle
  <1>13. CASE \E c \in Candidates : ReviewCandidate(c) BY <1>13 DEF ReviewCandidate, Settle
  <1>14. CASE \E s \in Subtasks : SummarizeSubtask(s) BY <1>14 DEF SummarizeSubtask, Settle
  <1>15. CASE SelectNode BY <1>15 DEF SelectNode, Settle
  <1>16. CASE IntegrateNode BY <1>16 DEF IntegrateNode, Settle
  <1>17. CASE ValidateNode BY <1>17 DEF ValidateNode, Settle
  <1>18. CASE RepairNode BY <1>18 DEF RepairNode, Settle
  <1>19. CASE FinalReviewNode BY <1>19 DEF FinalReviewNode, Settle
  <1>20. CASE VerifyNode BY <1>20 DEF VerifyNode, Settle
  <1> QED BY <1>1, <1>2, <1>3, <1>4, <1>5, <1>6, <1>7, <1>8, <1>9, <1>10, <1>11, <1>12, <1>13, <1>14, <1>15, <1>16,
             <1>17, <1>18, <1>19, <1>20 DEF Plain, WithinPlan, Work, ExecuteNode

(* What a handler finds.                                                   *)
LEMMA AtHandler ==
    ASSUME TypeOK, ThreadsInStep, RoundInStep, NEW n \in Nodes, NEW st, Settle(n, st)
    PROVE  /\ status[n] = "waiting" /\ status'[n] = st
           /\ \A m \in Nodes : m # n => status'[m] = status[m]
           /\ \A m \in Needs(n) : Satisfied(m, n) /\ status[m] \in Terminal
           /\ \A x \in Owners : worker[x] = "none" /\ worker'[x] = "none"
           /\ UNCHANGED <<pc, tries, sound, accepted, told, decision>>
  <1>1. status \in [Nodes -> Statuses] BY DEF TypeOK
  <1>2. \A m \in Needs(n) : Satisfied(m, n) /\ status[m] \in Terminal
    BY DEF Settle, RoundInStep, Satisfied, Terminal, Broken
  <1> QED BY <1>1, <1>2 DEF Settle, RoundInStep, ThreadsInStep, poolv, subv

LEMMA EvidenceKept ==
    ASSUME TypeOK, ThreadsInStep, RoundInStep, ReviewsFollow, EvidenceReviewed, Plain
    PROVE  EvidenceReviewed'
  <1> USE NodesOf DEF EvidenceReviewed, Owners
  <1>0. fate \in [Candidates -> {"none", "good", "bad"}] /\ review \in [Candidates -> {"none", "eligible", "ineligible"}]
    BY DEF TypeOK
  <1>1. CASE review' = review /\ fate' = fate
    BY <1>1, StatusKept DEF Review
  <1>2. ASSUME NEW c \in Candidates, CandidateReturns(c) \/ CandidateRaises(c) PROVE EvidenceReviewed'
    <2>1. worker[c] = "busy" /\ review' = review /\ \A d \in Candidates : d # c => fate'[d] = fate[d]
      BY <1>0, <1>2 DEF CandidateReturns, CandidateRaises, Leave
    <2>2. review[c] = "none" BY <2>1 DEF ReviewsFollow
    <2> QED BY <2>1, <2>2, StatusKept DEF Review
  <1>3. ASSUME NEW c \in Candidates, ReviewCandidate(c) PROVE EvidenceReviewed'
    <2>1. fate' = fate /\ \A d \in Candidates : d # c => review'[d] = review[d] BY <1>0, <1>3 DEF ReviewCandidate
    <2>2. PICK st : Settle(Review(c), st) BY <1>3 DEF ReviewCandidate
    <2>3. review'[c] # review[c] => status'[Review(c)] \in Terminal
      BY <1>3, AtHandler DEF ReviewCandidate, Terminal, Broken, Ends
    <2>4. review'[c] = "eligible" => fate[c] = "good"
      BY <1>0, <1>3 DEF ReviewCandidate, CandidateEligible, AcceptanceEligible
    <2>5. \A d \in Candidates : status[Review(d)] \in Terminal => status'[Review(d)] \in Terminal BY StatusKept
    <2> QED BY <2>1, <2>3, <2>4, <2>5 DEF Review, Terminal, Broken
  <1> QED BY Writers, <1>1, <1>2, <1>3

(* What was reviewed stays as it was reviewed.                             *)
LEMMA FrozenStep ==
    ASSUME TypeOK, ThreadsInStep, RoundInStep, GraphShape, PlannerFirst, ReviewsFollow, EvidenceReviewed,
           [Next]_vars, NEW c \in Candidates, review[c] # "none"
    PROVE  fate'[c] = fate[c] /\ status'[Code(c)] = status[Code(c)]
  <1>0. /\ c \in Owners /\ Code(c) \in Nodes /\ Review(c) \in Nodes /\ Code(c)[1] = "code"
        /\ status \in [Nodes -> Statuses] /\ fate \in [Candidates -> {"none", "good", "bad"}]
    BY NodesOf DEF TypeOK, Owners, Code
  <1>1. status[Review(c)] \in Terminal /\ status[Code(c)] \in Terminal /\ worker[c] = "none"
    BY <1>0 DEF ReviewsFollow, EvidenceReviewed
  <1>2. ~ReplaceGraph
    <2>1. Review(c) \in FixedGraph \ (Prep \cup {Decompose})
      BY DEF FixedGraph, CodeAndReview, Review, Prep, Decompose, Only
    <2>2. status[Decompose] # "waiting" BY <1>1, <2>1, HeldBack DEF Terminal, Broken
    <2> QED BY <2>2, ReplacedGraph
  <1>3. Plain BY <1>2, NextIsPlain
  <1>4. fate'[c] = fate[c]
    <2>1. ASSUME NEW d \in Candidates, CandidateReturns(d) \/ CandidateRaises(d) PROVE fate'[c] = fate[c]
      BY <1>0, <1>1, <2>1 DEF CandidateReturns, CandidateRaises, Leave
    <2> QED BY <1>3, <2>1, Writers
  <1>5. status'[Code(c)] = status[Code(c)]
    <2>0. \A y \in Owners : y # c => Code(y) # Code(c) BY DEF Code
    <2>1. ASSUME NEW n \in Nodes, SkipDoomed(n) PROVE status'[Code(c)] = status[Code(c)]
      BY <1>0, <1>1, <2>1 DEF SkipDoomed, Doomed, Waiting, Terminal, Broken
    <2>2. CASE NoReadyNodes BY <1>0, <1>1, <2>2 DEF NoReadyNodes, Waiting, Terminal, Broken
    <2>3. ASSUME NEW x \in Owners, Acquire(x) \/ Collect(x) PROVE status'[Code(c)] = status[Code(c)]
      BY <1>0, <1>1, <2>0, <2>3 DEF Acquire, Collect
    <2>4. ASSUME NEW x \in Owners, RunCode(x) PROVE status'[Code(c)] = status[Code(c)]
      BY <2>4 DEF RunCode, Submit
    <2>5. ASSUME NEW x \in Owners, NEW how, NEW st, Left(x, how, st) PROVE status'[Code(c)] = status[Code(c)]
      BY <1>0, <1>1, <2>0, <2>5 DEF Left, Leave
    <2>6. ASSUME NEW n \in Nodes, NEW st, Handled(n, st) PROVE status'[Code(c)] = status[Code(c)]
      BY <1>0, <2>6 DEF Handled, Settle
    <2>7. CASE StartPool \/ StartRound \/ EndRound \/ Finalize \/ RunFails \/ TwinPlan \/ EndPool \/ PoolUnwound \/ Aside
      BY <2>7 DEF StartPool, StartRound, EndRound, Finalize, RunFails, TwinPlan, EndPool, PoolUnwound, Submit, graphv, Aside
    <2> QED BY <1>3, PlainKinds, <2>1, <2>2, <2>3, <2>4, <2>5, <2>6, <2>7
  <1> QED BY <1>4, <1>5

LEMMA WinnerKept ==
    ASSUME TypeOK, ThreadsInStep, RoundInStep, GraphShape, ReviewsFollow, EvidenceReviewed, WinnerAfterReviews, Plain
    PROVE  WinnerAfterReviews'
  <1>0. decomposed' = decomposed /\ Candidates \subseteq Owners /\ review \in [Candidates -> {"none", "eligible", "ineligible"}]
    BY PlainKinds DEF Owners, TypeOK
  <1>1. Integrated \notin Candidates /\ None \notin Candidates /\ Integrated # None BY EngineAssumption
  <1>2. CASE winner' = winner
    <2>1. SUFFICES ASSUME winner \in Candidates
                   PROVE  /\ review'[winner] = "eligible" /\ \A x \in Owners : worker'[x] = "none"
                          /\ \A c \in Candidates : status'[Code(c)] \in Terminal
      BY <1>0, <1>2 DEF WinnerAfterReviews, Terminal, Broken, Code
    <2>2. review'[winner] = "eligible"
      <3>1. status[Review(winner)] \in Terminal BY <2>1 DEF EvidenceReviewed, WinnerAfterReviews
      <3>2. ASSUME NEW c \in Candidates, ReviewCandidate(c) PROVE review'[winner] = review[winner]
        <4>1. PICK st : Settle(Review(c), st) BY <3>2 DEF ReviewCandidate
        <4>2. status[Review(c)] = "waiting" BY <1>0, <4>1, AtHandler, NodesOf
        <4>3. c # winner BY <3>1, <4>2 DEF Terminal, Broken
        <4> QED BY <1>0, <2>1, <3>2, <4>3 DEF ReviewCandidate
      <3> QED BY <2>1, <3>2, Writers DEF WinnerAfterReviews
    <2>3. \A x \in Owners : status[Code(x)] # "waiting"
      <3>1. \A x \in Candidates : status[Code(x)] # "waiting" BY <2>1 DEF WinnerAfterReviews, Terminal, Broken
      <3>2. \A x \in Subtasks : status[Code(x)] = "absent" BY <2>1, SameGraph DEF WinnerAfterReviews, Owners
      <3> QED BY <3>1, <3>2 DEF Owners
    <2>4. \A x \in Owners : worker'[x] = "none" BY <2>1, <2>3, IdleKept DEF WinnerAfterReviews
    <2>5. \A c \in Candidates : status'[Code(c)] \in Terminal
      BY <1>0, <2>1, StatusKept, NodesOf DEF WinnerAfterReviews
    <2> QED BY <2>2, <2>4, <2>5
  <1>3. CASE SelectNode
    <2>1. PICK st : Settle(Select, st) BY <1>3 DEF SelectNode
    <2>2. /\ Select \in Nodes /\ status[Select] = "waiting" /\ (\A m \in Needs(Select) : status[m] \in Terminal)
          /\ (\A m \in Nodes : m # Select => status'[m] = status[m]) /\ \A x \in Owners : worker'[x] = "none"
      BY <2>1, AtHandler, NodesOf
    <2>3. ~decomposed BY <2>2, SameGraph
    <2>4. ASSUME NEW c \in Candidates PROVE status'[Code(c)] \in Terminal
      <3>1. c \in Owners /\ c \notin Subtasks BY <1>0, EngineAssumption
      <3>2. status[Review(c)] # "absent" BY <2>3, <3>1, SameGraph
      <3>3. Review(c) \in Needs(Select) BY <3>2, FixedEdges DEF Needs
      <3>4. status[Code(c)] \in Terminal BY <2>2, <3>1, <3>3 DEF ReviewsFollow
      <3>5. Code(c) \in Nodes /\ Code(c) # Select BY <3>1, NodesOf DEF Code, Select, Only
      <3> QED BY <2>2, <3>4, <3>5
    <2>5. review' = review /\ winner' \in Candidates \cup {None} BY <1>3 DEF SelectNode, Selectable, candv
    <2>6. winner' \in Candidates => review'[winner'] = "eligible" BY <1>1, <1>3, <2>5 DEF SelectNode, Selectable
    <2> QED BY <1>0, <1>1, <2>2, <2>3, <2>4, <2>5, <2>6 DEF WinnerAfterReviews, Terminal, Broken, Code
  <1>4. CASE VerifyNode
    <2>1. winner' = winner \/ winner' \in {Integrated, None}
      BY <1>4 DEF VerifyNode
    <2>2. CASE winner' \in {Integrated, None} BY <1>1, <2>2 DEF WinnerAfterReviews
    <2> QED BY <1>2, <2>1, <2>2
  <1> QED BY <1>2, <1>3, <1>4, Writers

LEMMA DecisionKept ==
    ASSUME TypeOK, ThreadsInStep, RoundInStep, DecisionAtTheEnd, Plain
    PROVE  DecisionAtTheEnd'
  <1>0. status \in [Nodes -> Statuses] /\ status' \in [Nodes -> Statuses] BY StatusKept DEF TypeOK
  <1>1. CASE Finalize
    <2>1. pc = "loop" /\ pc' \in {"done", "crashed"} /\ Waiting = {} /\ decision' # "none" /\ status' = status
      BY <1>1 DEF Finalize, graphv
    <2>2. ASSUME NEW n \in Nodes PROVE status[n] \in Terminal \cup {"absent"}
      <3>1. status[n] # "running" BY <2>1 DEF ThreadsInStep
      <3>2. status[n] # "waiting" BY <2>1 DEF Waiting
      <3> QED BY <1>0, <3>1, <3>2 DEF Statuses
    <2> QED BY <2>1, <2>2 DEF DecisionAtTheEnd, Terminal, Broken
  <1>2. CASE decision' = decision /\ (pc \in {"done", "crashed"} => pc' = pc) /\ (pc' = "done" => pc = "done")
    BY <1>2, StatusKept DEF DecisionAtTheEnd, Terminal, Broken
  <1> QED BY <1>1, <1>2, Writers

LEMMA AstrayKept ==
    ASSUME AstrayByTwins, Plain
    PROVE  AstrayByTwins'
  <1>1. CASE TwinPlan
    BY <1>1 DEF TwinPlan, AstrayByTwins, TwinsAccepted
  <1>2. ASSUME pc' \in {"loop", "round", "pool", "unwinding", "done", "crashed"} \/ pc' = pc PROVE AstrayByTwins'
    BY <1>2 DEF AstrayByTwins, TwinsAccepted
  <1>3. CASE \/ \E n \in Nodes : SkipDoomed(n)
             \/ NoReadyNodes \/ StartPool \/ StartRound \/ EndRound \/ Finalize \/ RunFails
             \/ EndPool \/ PoolUnwound \/ Aside
    <2>1. pc' \in {"loop", "round", "pool", "unwinding", "done", "crashed"} \/ pc' = pc
      BY <1>3 DEF SkipDoomed, NoReadyNodes, StartPool, StartRound, EndRound, Finalize, RunFails, EndPool, PoolUnwound,
                  Aside, Submit
    <2> QED BY <1>2, <2>1
  <1>4. ASSUME NEW x \in Owners, RunCode(x) \/ Acquire(x) \/ Collect(x) PROVE AstrayByTwins'
    <2>1. pc' \in {"pool", "unwinding"} \/ pc' = pc BY <1>4 DEF RunCode, Submit, Acquire, Collect
    <2> QED BY <1>2, <2>1
  <1>5. ASSUME NEW x \in Owners, NEW how, NEW st, Left(x, how, st) PROVE AstrayByTwins'
    <2>1. pc' = pc BY <1>5 DEF Left, Leave
    <2> QED BY <1>2, <2>1
  <1>6. ASSUME NEW n \in Nodes, NEW st, Handled(n, st) PROVE AstrayByTwins'
    <2>1. pc' = pc BY <1>6 DEF Handled, Settle
    <2> QED BY <1>2, <2>1
  <1> QED BY PlainKinds, <1>1, <1>3, <1>4, <1>5, <1>6

(* A thread works on a subtask only when what it depends on was told to be *)
(* accepted.                                                               *)
LEMMA SubtaskAtWork ==
    ASSUME TypeOK, ThreadsInStep, GraphShape, NEW s \in Subtasks, worker[s] # "none"
    PROVE  decomposed /\ dependsOn[s] \subseteq told
  <1>1. s \in Owners /\ Subtasks \subseteq Owners /\ dependsOn[s] \subseteq Subtasks BY DEF Owners, TypeOK
  <1>2. worker[s] \in {"none", "queued", "busy", "returned", "raised", "collected"} BY <1>1 DEF TypeOK
  <1>3. status[Code(s)] # "absent" BY <1>1, <1>2 DEF ThreadsInStep, ThreadStatus, Ends
  <1>4. decomposed BY <1>1, <1>3, SameGraph
  <1>5. ASSUME NEW t \in dependsOn[s] PROVE t \in told
    <2>1. Edges(Code(s)) = {Review(u) : u \in dependsOn[s]} BY <1>1, CodeEdges
    <2>2. t \in Subtasks /\ t \in Owners BY <1>1
    <2>3. status[Review(t)] # "absent" BY <1>4, <2>2, SameGraph
    <2>4. Review(t) \in Needs(Code(s)) BY <2>1, <2>3 DEF Needs
    <2>5. Satisfied(Review(t), Code(s)) BY <1>1, <2>4 DEF ThreadsInStep
    <2> QED BY <2>5 DEF Satisfied, Code, Review, Decompose, Repair, Select, Only
  <1> QED BY <1>4, <1>5

LEMMA SubtasksKept ==
    ASSUME TypeOK, ThreadsInStep, RoundInStep, GraphShape, SubtasksInOrder, DependenciesPresent, Plain
    PROVE  SubtasksInOrder' /\ DependenciesPresent'
  <1>0. decomposed' = decomposed /\ dependsOn' = dependsOn /\ tries \in [Subtasks -> 0..Cardinality(Candidates)]
    BY PlainKinds DEF TypeOK
  <1>1. told' \subseteq told \cup accepted
    BY Writers DEF SubtasksInOrder, SubtaskReturns, SubtaskRaises
  <1>2. CASE UNCHANGED <<tries, accepted, sound>>
    BY <1>0, <1>1, <1>2 DEF SubtasksInOrder, DependenciesPresent
  <1>3. ASSUME NEW s \in Subtasks, SubtaskAttempt(s) PROVE SubtasksInOrder' /\ DependenciesPresent'
    <2>1. worker[s] # "none" /\ told' = told BY <1>3 DEF SubtaskAttempt
    <2>2. decomposed /\ dependsOn[s] \subseteq told BY <2>1, SubtaskAtWork
    <2>3. accepted \subseteq accepted' BY <1>3 DEF SubtaskAttempt
    <2>4. \A t \in Subtasks : t # s => tries'[t] = tries[t] BY <1>0, <1>3 DEF SubtaskAttempt
    <2> QED BY <1>0, <2>1, <2>2, <2>3, <2>4 DEF SubtasksInOrder, DependenciesPresent
  <1> QED BY <1>2, <1>3, Writers

LEMMA IntegrationKept ==
    ASSUME TypeOK, ThreadsInStep, RoundInStep, GraphShape, IntegrationFollows, ValidatedTree, ReviewSeesValidatedTree,
           Plain
    PROVE  ValidatedTree' /\ ReviewSeesValidatedTree'
  <1> DEFINE Good == ValidatedTree' /\ ReviewSeesValidatedTree'
             Stages == {Integrate, Validate, Repair, FinalReview}
  <1> SUFFICES Good OBVIOUS
  <1>0. integ \in [tree : Trees, merged : SUBSET Subtasks, conflicts : BOOLEAN, passed : BOOLEAN,
                   validated : Trees, captured : Trees, patch : BOOLEAN, approved : BOOLEAN]
    BY DEF TypeOK
  <1>1. \A n \in Stages : n \in Nodes /\ n[1] # "code" /\ n[1] # "review" /\ n # Select /\ (status[n] # "absent" <=> decomposed)
    BY SameGraph, NodesOf DEF Integrate, Validate, Repair, FinalReview, Select, Only
  <1>2. \A n \in Stages : (status[n] \in Terminal => status'[n] = status[n])
    BY <1>1, StatusKept
  <1>3. \A n \in Stages : status[n] = "waiting" => status[n] \notin Terminal
    BY DEF Terminal, Broken
  <1>4. /\ status'[FinalReview] \in Terminal' <=> status'[FinalReview] \in Terminal
        /\ status'[Validate] \in Terminal' <=> status'[Validate] \in Terminal
    BY DEF Terminal, Broken
  <1>5. CASE integ' = integ
    <2>1. integ.passed => status'[Validate] \in Terminal BY <1>2 DEF ValidatedTree
    <2>2. integ.captured # "none" => status'[FinalReview] \in Terminal BY <1>2 DEF ValidatedTree
    <2>3. status'[Repair] # "failed" => status[Repair] # "failed" BY <1>2 DEF Terminal, Broken
    <2> QED BY <1>5, <2>1, <2>2, <2>3
            DEF ValidatedTree, ReviewSeesValidatedTree, Terminal, Broken, Validate, FinalReview, Repair, Only
  \* What a step of the integration finds.
  <1>6. ASSUME NEW n \in Stages, NEW st, Settle(n, st)
        PROVE  /\ status[n] = "waiting" /\ status'[n] = st /\ decomposed
               /\ \A m \in Edges(n) \cap Stages : Satisfied(m, n) /\ status[m] \in Terminal /\ status'[m] = status[m]
    <2>1. n \in Nodes BY <1>1
    <2>2. status[n] = "waiting" /\ status'[n] = st /\ \A m \in Needs(n) : Satisfied(m, n) /\ status[m] \in Terminal
      BY <1>6, <2>1, AtHandler
    <2>3. decomposed BY <1>1, <2>2
    <2>4. \A m \in Edges(n) \cap Stages : m \in Needs(n) BY <1>1, <2>3 DEF Needs
    <2> QED BY <1>2, <2>2, <2>3, <2>4
  <1>7. CASE IntegrateNode
    <2>1. PICK st : Settle(Integrate, st) BY <1>7 DEF IntegrateNode
    <2>2. status[Integrate] = "waiting" BY <1>6, <2>1
    <2>3. ~integ.passed /\ integ.captured = "none" BY <1>3, <2>2 DEF IntegrationFollows, ValidatedTree
    <2>4. ~integ'.passed /\ integ'.captured = "none"
      BY <1>0, <1>7, <2>3, ZenonT(90) DEF IntegrateNode
    <2> QED BY <2>4 DEF ValidatedTree, ReviewSeesValidatedTree
  <1>8. CASE ValidateNode
    <2>1. PICK st : Settle(Validate, st) BY <1>8 DEF ValidateNode
    <2>2. status[Validate] = "waiting" BY <1>6, <2>1
    <2>3. ~integ.passed /\ integ.captured = "none" BY <1>3, <2>2 DEF IntegrationFollows, ValidatedTree
    <2>4. integ'.captured = "none"
      BY <1>0, <1>8, <2>3 DEF ValidateNode
    <2>5. integ'.passed => integ'.tree = integ'.validated BY <1>0, <1>8, <2>3 DEF ValidateNode
    <2>6. integ'.passed => status'[Validate] \in Terminal
      <3>1. \A e \in Ends : Settle(Validate, e) => status'[Validate] \in Terminal BY <1>6 DEF Ends, Terminal, Broken
      <3> QED BY <1>8, <2>3, <3>1 DEF ValidateNode
    <2> QED BY <1>4, <2>4, <2>5, <2>6 DEF ValidatedTree, ReviewSeesValidatedTree
  <1>9. CASE RepairNode
    <2>1. PICK st : Settle(Repair, st) BY <1>9 DEF RepairNode
    <2>2. status[Repair] = "waiting" BY <1>6, <2>1
    <2>3. integ.captured = "none" BY <1>3, <2>2 DEF IntegrationFollows, ValidatedTree
    <2>4. Validate \in Edges(Repair) \cap Stages BY FixedEdges
    <2>5. status'[Validate] \in Terminal BY <1>6, <2>1, <2>4
    <2>6. integ.passed => integ.tree = integ.validated BY <2>2 DEF ValidatedTree
    <2>7. integ'.captured = "none"
      BY <1>0, <1>9, <2>3 DEF RepairNode, AfterRepair
    <2>8. integ'.passed /\ status'[Repair] # "failed" => integ'.tree = integ'.validated
      <3>1. CASE UNCHANGED integ BY <2>6, <3>1
      <3>2. CASE \E ok \in BOOLEAN : integ' = AfterRepair(ok) BY <1>0, <3>2 DEF AfterRepair
      <3>3. CASE Settle(Repair, "failed") BY <1>6, <3>3
      <3> QED BY <1>9, <3>1, <3>2, <3>3 DEF RepairNode
    <2> QED BY <1>4, <2>5, <2>7, <2>8 DEF ValidatedTree, ReviewSeesValidatedTree
  <1>10. CASE FinalReviewNode
    <2>1. PICK st : Settle(FinalReview, st) BY <1>10 DEF FinalReviewNode
    <2>2. status[FinalReview] = "waiting" BY <1>6, <2>1
    <2>3. integ.captured = "none" BY <1>3, <2>2 DEF ValidatedTree
    <2>4. Repair \in Edges(FinalReview) \cap Stages BY FixedEdges
    <2>5. Satisfied(Repair, FinalReview) /\ status'[Repair] = status[Repair] /\ status[Repair] \in Terminal BY <1>6, <2>1, <2>4
    <2>6. status[Repair] # "failed"
      BY <1>1, <2>5 DEF Satisfied, Broken
    <2>7. integ.passed => integ.tree = integ.validated BY <2>6 DEF ValidatedTree
    <2>8. status'[Validate] = status[Validate] \/ ~integ.passed BY <1>2 DEF ValidatedTree
    <2>9. \/ integ' = integ
          \/ /\ \E p, a \in BOOLEAN : integ' = [integ EXCEPT !.captured = integ.tree, !.patch = p, !.approved = a]
             /\ status'[FinalReview] \in Terminal
      <3>1. \A e \in Ends : Settle(FinalReview, e) => status'[FinalReview] \in Terminal BY <1>6 DEF Ends, Terminal, Broken
      <3> QED BY <1>10, <3>1 DEF FinalReviewNode
    <2>10. CASE integ' # integ
      <3>1. status'[FinalReview] \in Terminal BY <2>9, <2>10
      <3>2. /\ integ'.captured = integ.tree /\ integ'.tree = integ.tree /\ integ'.validated = integ.validated
            /\ integ'.passed = integ.passed
        BY <1>0, <2>9, <2>10
      <3> QED BY <1>4, <2>7, <2>8, <3>1, <3>2 DEF ValidatedTree, ReviewSeesValidatedTree
    <2> QED BY <1>5, <2>10
  <1> QED BY Writers, <1>5, <1>7, <1>8, <1>9, <1>10

(* The semaphores.                                                         *)
LEMMA LimitKept ==
    ASSUME TypeOK, ThreadsInStep, RoundInStep, BackendLimit, Plain
    PROVE  BackendLimit'
  <1> DEFINE Users(b) == {x \in Busy : backend[x] = b}
  <1>0. /\ worker \in [Owners -> {"none", "queued", "busy", "returned", "raised", "collected"}]
        /\ backend \in [Owners -> Backends \cup {None}]
        /\ \A b \in Backends : MaxParallel[b] \in Nat /\ MaxParallel[b] > 0
    BY EngineAssumption DEF TypeOK
  <1>1. IsFiniteSet(Owners)
    BY FS_Union, EngineAssumption, PlanAssumption DEF Owners
  <1>2. \A b : IsFiniteSet(Users(b)) /\ Cardinality(Users(b)) \in Nat
    <2>1. \A b : Users(b) \subseteq Owners BY DEF Busy
    <2> QED BY <1>1, <2>1, FS_Subset, FS_CardinalityType
  <1>3. ASSUME \A b \in Backends : Users(b)' \subseteq Users(b) PROVE BackendLimit'
    <2> SUFFICES ASSUME NEW b \in Backends PROVE Cardinality(Users(b)') <= MaxParallel[b]
      BY DEF BackendLimit
    <2>1. Cardinality(Users(b)') \in Nat /\ Cardinality(Users(b)') <= Cardinality(Users(b))
      BY <1>2, <1>3, FS_Subset, FS_CardinalityType
    <2>2. Cardinality(Users(b)) <= MaxParallel[b] BY DEF BackendLimit
    <2> QED BY <1>0, <1>2, <2>1, <2>2
  <1>4. ASSUME NEW x \in Owners, Acquire(x) PROVE BackendLimit'
    <2> SUFFICES ASSUME NEW b \in Backends PROVE Cardinality(Users(b)') <= MaxParallel[b]
      BY DEF BackendLimit
    <2>1. backend' = backend /\ Busy' = Busy \cup {x} BY <1>0, <1>4 DEF Acquire, Busy
    <2>2. CASE b # backend[x]
      <3>1. Users(b)' = Users(b) BY <2>1, <2>2
      <3> QED BY <3>1 DEF BackendLimit
    <2>3. CASE b = backend[x]
      <3>1. Users(b)' = Users(b) \cup {x} BY <2>1, <2>3
      <3>2. x \notin Users(b) BY <1>4 DEF Acquire, Busy
      <3>3. Cardinality(Users(b)') = Cardinality(Users(b)) + 1 BY <1>2, <3>1, <3>2, FS_AddElement, SMTT(30)
      <3>4. Cardinality(Users(b)) < MaxParallel[b] BY <1>4, <2>3 DEF Acquire
      <3>5. Cardinality(Users(b)) \in Nat BY <1>2
      <3>6. MaxParallel[b] \in Nat BY <1>0
      <3> HIDE DEF Users
      <3> QED BY <3>3, <3>4, <3>5, <3>6
    <2> QED BY <2>2, <2>3
  <1>5. ASSUME \A x \in Owners : worker'[x] # "busy" PROVE BackendLimit'
    <2>1. \A b \in Backends : Users(b)' \subseteq Users(b) BY <1>5 DEF Busy
    <2> QED BY <1>3, <2>1
  <1>6. ASSUME NEW X, Submit(X), pc \in {"loop", "round"} PROVE BackendLimit'
    <2>1. \A x \in Owners : worker'[x] # "busy" BY <1>6 DEF Submit, ThreadsInStep
    <2> QED BY <1>5, <2>1
  <1>7. CASE StartPool \/ \E x \in Owners : RunCode(x)
    BY <1>6, <1>7 DEF StartPool, RunCode
  <1>8. ASSUME backend' = backend, \A x \in Owners : worker'[x] = "busy" => worker[x] = "busy" PROVE BackendLimit'
    <2>1. \A b \in Backends : Users(b)' \subseteq Users(b) BY <1>8 DEF Busy
    <2> QED BY <1>3, <2>1
  <1>9. ASSUME NEW x \in Owners, NEW how \in {"returned", "raised"}, NEW st, Left(x, how, st) PROVE BackendLimit'
    BY <1>0, <1>8, <1>9 DEF Left, Leave
  <1>10. ASSUME NEW x \in Owners, Collect(x) PROVE BackendLimit'
    BY <1>0, <1>8, <1>10 DEF Collect
  <1>11. CASE EndPool
    <2>1. \A x \in Owners : worker'[x] # "busy" BY <1>11 DEF EndPool, AllCollected
    <2> QED BY <1>5, <2>1
  <1>12. CASE UNCHANGED poolv
    BY <1>8, <1>12 DEF poolv
  <1>13. CASE NoReadyNodes \/ StartRound \/ EndRound \/ Finalize \/ RunFails \/ TwinPlan \/ PoolUnwound \/ Aside
             \/ (\E n \in Nodes : SkipDoomed(n)) \/ (\E n \in Nodes, st \in Terminal : Handled(n, st))
    <2>1. UNCHANGED poolv
      BY <1>13 DEF NoReadyNodes, StartRound, EndRound, Finalize, RunFails, TwinPlan, PoolUnwound, Aside, SkipDoomed, Handled, Settle
    <2> QED BY <1>12, <2>1
  <1> QED BY PlainKinds, <1>4, <1>7, <1>9, <1>10, <1>11, <1>13

-----------------------------------------------------------------------------
(* The types.                                                              *)

LEMMA ControlTypes ==
    ASSUME TypeOK, Plain
    PROVE  /\ pc' \in {"loop", "round", "pool", "unwinding", "done", "crashed", "astray"} /\ todo' \subseteq Nodes
           /\ worker' \in [Owners -> {"none", "queued", "busy", "returned", "raised", "collected"}]
           /\ backend' \in [Owners -> Backends \cup {None}]
  <1> DEFINE Typed == /\ pc' \in {"loop", "round", "pool", "unwinding", "done", "crashed", "astray"} /\ todo' \subseteq Nodes
                      /\ worker' \in [Owners -> {"none", "queued", "busy", "returned", "raised", "collected"}]
                      /\ backend' \in [Owners -> Backends \cup {None}]
  <1> SUFFICES Typed OBVIOUS
  <1>0. /\ pc \in {"loop", "round", "pool", "unwinding", "done", "crashed", "astray"} /\ todo \subseteq Nodes
        /\ worker \in [Owners -> {"none", "queued", "busy", "returned", "raised", "collected"}]
        /\ backend \in [Owners -> Backends \cup {None}]
    BY DEF TypeOK
  <1>1. ASSUME NEW X \in SUBSET Owners, Submit(X), todo' \subseteq Nodes PROVE Typed
    BY <1>0, <1>1 DEF Submit
  <1>2. CASE StartPool
    <2>1. ReadyCode \subseteq Owners /\ todo' \subseteq Nodes BY <1>0, <1>2 DEF StartPool, ReadyCode
    <2> QED BY <1>1, <1>2, <2>1 DEF StartPool
  <1>3. ASSUME NEW x \in Owners, RunCode(x) PROVE Typed
    <2>1. {x} \subseteq Owners /\ todo' \subseteq Nodes BY <1>0, <1>3 DEF RunCode
    <2> QED BY <1>1, <1>3, <2>1 DEF RunCode
  <1>4. CASE StartRound BY <1>0, <1>4 DEF StartRound, Ready, Waiting, poolv
  <1>5. CASE NoReadyNodes \/ EndRound \/ Finalize \/ RunFails \/ TwinPlan \/ PoolUnwound \/ Aside
    BY <1>0, <1>5 DEF NoReadyNodes, EndRound, Finalize, RunFails, TwinPlan, PoolUnwound, Aside, graphv, poolv
  <1>6. ASSUME NEW n \in Nodes, SkipDoomed(n) PROVE Typed BY <1>0, <1>6 DEF SkipDoomed, poolv
  <1>7. ASSUME NEW x \in Owners, Acquire(x) PROVE Typed BY <1>0, <1>7 DEF Acquire
  <1>8. ASSUME NEW x \in Owners, Collect(x) PROVE Typed BY <1>0, <1>8 DEF Collect
  <1>9. ASSUME NEW x \in Owners, NEW how \in {"returned", "raised"}, NEW st, Left(x, how, st) PROVE Typed
    BY <1>0, <1>9 DEF Left, Leave
  <1>10. CASE EndPool BY <1>0, <1>10 DEF EndPool, graphv
  <1>11. ASSUME NEW n \in Nodes, NEW st, Handled(n, st) PROVE Typed BY <1>0, <1>11 DEF Handled, Settle, poolv
  <1> QED BY PlainKinds, <1>2, <1>3, <1>4, <1>5, <1>6, <1>7, <1>8, <1>9, <1>10, <1>11

LEMMA OtherTypes ==
    ASSUME TypeOK, Plain
    PROVE  /\ fate' \in [Candidates -> {"none", "good", "bad"}]
           /\ review' \in [Candidates -> {"none", "eligible", "ineligible"}]
           /\ tries' \in [Subtasks -> 0..Cardinality(Candidates)]
           /\ sound' \subseteq Subtasks /\ accepted' \subseteq Subtasks /\ told' \subseteq Subtasks
           /\ winner' \in Candidates \cup {Integrated, None} /\ decision' \in {"none", "accepted", "failed"}
  <1>1. fate' \in [Candidates -> {"none", "good", "bad"}]
    <2>0. fate \in [Candidates -> {"none", "good", "bad"}] BY DEF TypeOK
    <2>1. ASSUME NEW c \in Candidates, CandidateReturns(c) \/ CandidateRaises(c)
          PROVE  fate' \in [Candidates -> {"none", "good", "bad"}]
      BY <2>0, <2>1 DEF CandidateReturns, CandidateRaises
    <2> QED BY <2>0, <2>1, Writers
  <1>2. review' \in [Candidates -> {"none", "eligible", "ineligible"}]
    <2>0. review \in [Candidates -> {"none", "eligible", "ineligible"}] BY DEF TypeOK
    <2>1. ASSUME NEW c \in Candidates, ReviewCandidate(c) PROVE review' \in [Candidates -> {"none", "eligible", "ineligible"}]
      BY <2>0, <2>1 DEF ReviewCandidate
    <2> QED BY <2>0, <2>1, Writers
  <1>3. /\ tries' \in [Subtasks -> 0..Cardinality(Candidates)]
        /\ sound' \subseteq Subtasks /\ accepted' \subseteq Subtasks
    <2>0. tries \in [Subtasks -> 0..Cardinality(Candidates)] /\ sound \subseteq Subtasks /\ accepted \subseteq Subtasks
      BY DEF TypeOK
    <2>1. Cardinality(Candidates) \in Nat BY EngineAssumption, FS_CardinalityType
    <2>2. ASSUME NEW s \in Subtasks, SubtaskAttempt(s)
          PROVE  /\ tries' \in [Subtasks -> 0..Cardinality(Candidates)]
                 /\ sound' \subseteq Subtasks /\ accepted' \subseteq Subtasks
      <3>1. tries[s] \in 0..Cardinality(Candidates) /\ tries[s] < Cardinality(Candidates)
        BY <2>0, <2>2 DEF SubtaskAttempt, AttemptsLeft
      <3>2. tries[s] + 1 \in 0..Cardinality(Candidates) BY <2>1, <3>1
      <3>3. tries' = [tries EXCEPT ![s] = tries[s] + 1] BY <2>2 DEF SubtaskAttempt
      <3>4. tries' \in [Subtasks -> 0..Cardinality(Candidates)] BY <2>0, <3>2, <3>3
      <3>5. sound' \subseteq sound \cup {s} /\ accepted' \subseteq accepted \cup {s} BY <2>2 DEF SubtaskAttempt
      <3> QED BY <2>0, <3>4, <3>5
    <2> QED BY <2>0, <2>2, Writers
  <1>4. told' \subseteq Subtasks
    BY Writers DEF TypeOK, SubtaskReturns, SubtaskRaises
  <1>5. winner' \in Candidates \cup {Integrated, None}
    BY Writers DEF TypeOK, SelectNode, Selectable, VerifyNode
  <1>6. decision' \in {"none", "accepted", "failed"}
    BY Writers DEF TypeOK, Finalize
  <1> QED BY <1>1, <1>2, <1>3, <1>4, <1>5, <1>6

LEMMA IntegrationType ==
    ASSUME TypeOK, Plain
    PROVE  integ' \in [tree : Trees, merged : SUBSET Subtasks, conflicts : BOOLEAN, passed : BOOLEAN,
                       validated : Trees, captured : Trees, patch : BOOLEAN, approved : BOOLEAN]
  <1> DEFINE Record == [tree : Trees, merged : SUBSET Subtasks, conflicts : BOOLEAN, passed : BOOLEAN,
                        validated : Trees, captured : Trees, patch : BOOLEAN, approved : BOOLEAN]
  <1>0. integ \in Record /\ accepted \subseteq Subtasks BY DEF TypeOK
  <1>1. {"none", "merged", "repaired"} \subseteq Trees BY DEF Trees
  <1>2. CASE IntegrateNode
    <2>1. ASSUME NEW M \in SUBSET accepted, NEW c \in {FALSE, M # {}},
                 integ' = [integ EXCEPT !.tree = "merged", !.merged = M, !.conflicts = c]
          PROVE  integ' \in Record
      <3>1. c \in BOOLEAN OBVIOUS
      <3>2. M \in SUBSET Subtasks BY <1>0
      <3> QED BY <1>0, <1>1, <2>1, <3>1, <3>2
    <2>2. CASE integ' = [integ EXCEPT !.tree = "merged", !.merged = accepted] BY <1>0, <1>1, <2>2
    <2> QED BY <1>0, <1>2, <2>1, <2>2 DEF IntegrateNode
  <1>3. CASE ValidateNode
    <2>1. ASSUME NEW ok \in BOOLEAN, integ' = [integ EXCEPT !.passed = ok, !.validated = integ.tree] PROVE integ' \in Record
      BY <1>0, <2>1
    <2> QED BY <1>0, <1>3, <2>1 DEF ValidateNode
  <1>4. CASE RepairNode
    <2>1. ASSUME NEW ok \in BOOLEAN, integ' = AfterRepair(ok) PROVE integ' \in Record
      BY <1>0, <1>1, <2>1 DEF AfterRepair
    <2>2. CASE integ' = [integ EXCEPT !.tree = "repaired"] BY <1>0, <1>1, <2>2
    <2> QED BY <1>0, <1>4, <2>1, <2>2 DEF RepairNode
  <1>5. CASE FinalReviewNode
    <2>1. ASSUME NEW p \in BOOLEAN, NEW a \in BOOLEAN,
                 integ' = [integ EXCEPT !.captured = integ.tree, !.patch = p, !.approved = a]
          PROVE  integ' \in Record
      BY <1>0, <2>1
    <2> QED BY <1>0, <1>5, <2>1 DEF FinalReviewNode
  <1> QED BY <1>0, <1>2, <1>3, <1>4, <1>5, Writers

LEMMA TypesKept ==
    ASSUME TypeOK, ThreadsInStep, RoundInStep, Plain
    PROVE  TypeOK'
  <1>1. dependsOn' = dependsOn /\ decomposed' = decomposed BY PlainKinds
  <1>2. status' \in [Nodes -> Statuses] BY StatusKept
  <1> QED BY <1>1, <1>2, ControlTypes, OtherTypes, IntegrationType DEF TypeOK, Statuses, Terminal, Broken, Trees, Nodes,
             FixedGraph, DecomposedGraph, CodeAndReview, Code, Review, Owners

-----------------------------------------------------------------------------
(* What the search for cycles in a plan decides.  A set of subtasks is     *)
(* harmless if it contains whatever its members depend on, and every part  *)
(* of it has a member that depends on no other of that part.               *)
Closed(D, deps) == \A x \in D : deps[x] \subseteq D

Grounded(D, deps) == \A E \in SUBSET D : E # {} => \E x \in E : deps[x] \cap E = {}

Harmless(D, deps) == Closed(D, deps) /\ Grounded(D, deps)

Clear(s, path, deps) ==
    \E D \in SUBSET Subtasks : s \in D /\ D \cap path = {} /\ Harmless(D, deps)

(* All that a subtask depends on, directly or not, and itself.             *)
Reach(s, deps) == {x \in Subtasks : \A D \in SUBSET Subtasks : s \in D /\ Closed(D, deps) => x \in D}

LEMMA ReachOf ==
    ASSUME NEW deps \in [Subtasks -> SUBSET Subtasks], NEW s \in Subtasks
    PROVE  /\ s \in Reach(s, deps) /\ Reach(s, deps) \subseteq Subtasks /\ Closed(Reach(s, deps), deps)
           /\ \A D \in SUBSET Subtasks : s \in D /\ Closed(D, deps) => Reach(s, deps) \subseteq D
           /\ \A x \in Reach(s, deps) : x = s \/ \E y \in deps[s] : x \in Reach(y, deps)
  <1>1. s \in Reach(s, deps) /\ Reach(s, deps) \subseteq Subtasks BY DEF Reach
  <1>2. \A D \in SUBSET Subtasks : s \in D /\ Closed(D, deps) => Reach(s, deps) \subseteq D BY DEF Reach
  <1>3. ASSUME NEW t \in Subtasks PROVE Closed(Reach(t, deps), deps)
    <2>1. ASSUME NEW x \in Reach(t, deps), NEW y \in deps[x] PROVE y \in Reach(t, deps)
      <3>1. x \in Subtasks /\ y \in Subtasks BY <2>1 DEF Reach
      <3>2. ASSUME NEW D \in SUBSET Subtasks, t \in D, Closed(D, deps) PROVE y \in D
        <4>1. x \in D BY <2>1, <3>2 DEF Reach
        <4> QED BY <2>1, <3>2, <4>1 DEF Closed
      <3> QED BY <3>1, <3>2 DEF Reach
    <2> QED BY <2>1 DEF Closed
  <1>4. ASSUME NEW x \in Reach(s, deps) PROVE x = s \/ \E y \in deps[s] : x \in Reach(y, deps)
    <2> DEFINE D == {s} \cup {z \in Subtasks : \E y \in deps[s] : z \in Reach(y, deps)}
    <2>1. D \in SUBSET Subtasks OBVIOUS
    <2>2. ASSUME NEW z \in D, NEW w \in deps[z] PROVE w \in D
      <3>1. w \in Subtasks BY <2>1
      <3>2. CASE z = s
        <4>1. w \in Reach(w, deps) BY <3>1 DEF Reach
        <4> QED BY <2>2, <3>1, <3>2, <4>1
      <3>3. CASE z # s
        <4>1. PICK y \in deps[s] : z \in Reach(y, deps) BY <3>3
        <4>2. y \in Subtasks OBVIOUS
        <4>3. w \in Reach(y, deps) BY <1>3, <4>1, <4>2 DEF Closed
        <4> QED BY <3>1, <4>3
      <3> QED BY <3>2, <3>3
    <2>3. Closed(D, deps) BY <2>2 DEF Closed
    <2>4. x \in D BY <1>2, <2>1, <2>3
    <2> QED BY <2>4
  <1> QED BY <1>1, <1>2, <1>3, <1>4

LEMMA HarmlessParts ==
    ASSUME NEW deps \in [Subtasks -> SUBSET Subtasks], NEW D \in SUBSET Subtasks, Harmless(D, deps), NEW s \in D
    PROVE  /\ Reach(s, deps) \subseteq D /\ Harmless(Reach(s, deps), deps)
           /\ \A t \in deps[s] : s \notin Reach(t, deps)
  <1>1. s \in Subtasks /\ deps[s] \subseteq D BY DEF Harmless, Closed
  <1>2. Reach(s, deps) \subseteq D BY <1>1, ReachOf DEF Harmless
  <1>3. Harmless(Reach(s, deps), deps)
    <2>1. Grounded(Reach(s, deps), deps) BY <1>2 DEF Harmless, Grounded
    <2> QED BY <1>1, <2>1, ReachOf DEF Harmless
  <1>4. ASSUME NEW t \in deps[s], s \in Reach(t, deps) PROVE FALSE
    <2> DEFINE E == {x \in D : s \in Reach(x, deps)}
    <2>1. t \in E /\ s \in E BY <1>1, <1>4, ReachOf
    <2>2. PICK x \in E : deps[x] \cap E = {} BY <2>1 DEF Harmless, Grounded
    <2>3. x # s BY <2>1, <2>2
    <2>4. PICK y \in deps[x] : s \in Reach(y, deps) BY <2>2, <2>3, ReachOf
    <2>5. y \in E BY <2>2, <2>4 DEF Harmless, Closed
    <2> QED BY <2>2, <2>4, <2>5
  <1> QED BY <1>2, <1>3, <1>4

(* A subtask is clear of a path if it is not on it and all it depends on   *)
(* is clear of the path it lengthens: the equation of the search.          *)
LEMMA ClearEquation ==
    ASSUME NEW deps \in [Subtasks -> SUBSET Subtasks], NEW s \in Subtasks, NEW path \in SUBSET Subtasks
    PROVE  Clear(s, path, deps) <=> s \notin path /\ \A t \in deps[s] : Clear(t, path \cup {s}, deps)
  <1>1. ASSUME Clear(s, path, deps) PROVE s \notin path /\ \A t \in deps[s] : Clear(t, path \cup {s}, deps)
    <2>1. PICK D \in SUBSET Subtasks : s \in D /\ D \cap path = {} /\ Harmless(D, deps) BY <1>1 DEF Clear
    <2>2. ASSUME NEW t \in deps[s] PROVE Clear(t, path \cup {s}, deps)
      <3>1. t \in D BY <2>1 DEF Harmless, Closed
      <3>2. Reach(t, deps) \subseteq D /\ Harmless(Reach(t, deps), deps) /\ s \notin Reach(t, deps) /\ t \in Reach(t, deps)
        BY <2>1, <3>1, HarmlessParts, ReachOf
      <3> QED BY <2>1, <3>2 DEF Clear
    <2> QED BY <2>1, <2>2
  <1>2. ASSUME s \notin path, \A t \in deps[s] : Clear(t, path \cup {s}, deps) PROVE Clear(s, path, deps)
    <2> DEFINE Good(D) == D \cap (path \cup {s}) = {} /\ Harmless(D, deps)
               U == {x \in Subtasks : \E D \in SUBSET Subtasks : x \in D /\ Good(D)}
               A == U \cup {s}
    <2>1. deps[s] \subseteq U BY <1>2 DEF Clear
    <2>2. s \notin U /\ U \cap path = {} OBVIOUS
    <2>3. \A x \in U : deps[x] \subseteq U
      <3> SUFFICES ASSUME NEW x \in U, NEW y \in deps[x] PROVE y \in U OBVIOUS
      <3>1. PICK D \in SUBSET Subtasks : x \in D /\ Good(D) OBVIOUS
      <3>2. y \in D BY <3>1 DEF Harmless, Closed
      <3> QED BY <3>1, <3>2
    <2>4. ASSUME NEW E \in SUBSET U, E # {} PROVE \E x \in E : deps[x] \cap E = {}
      <3>1. PICK x \in E : TRUE BY <2>4
      <3>2. PICK D \in SUBSET Subtasks : x \in D /\ Good(D) BY <3>1
      <3>3. PICK z \in E \cap D : deps[z] \cap (E \cap D) = {} BY <3>1, <3>2 DEF Harmless, Grounded
      <3>4. deps[z] \subseteq D BY <3>2, <3>3 DEF Harmless, Closed
      <3> QED BY <3>3, <3>4
    <2> HIDE DEF U
    <2>5. Closed(A, deps) BY <2>1, <2>3 DEF Closed
    <2>6. ASSUME NEW E \in SUBSET A, E # {} PROVE \E x \in E : deps[x] \cap E = {}
      <3>1. CASE E \cap U # {}
        <4>1. PICK z \in E \cap U : deps[z] \cap (E \cap U) = {} BY <2>4, <3>1
        <4>2. deps[z] \subseteq U BY <2>3, <4>1
        <4> QED BY <4>1, <4>2
      <3>2. CASE E \cap U = {}
        <4>1. E = {s} BY <2>6, <3>2
        <4> QED BY <2>1, <2>2, <4>1
      <3> QED BY <3>1, <3>2
    <2>7. Grounded(A, deps) BY <2>6 DEF Grounded
    <2>8. A \in SUBSET Subtasks /\ s \in A /\ A \cap path = {} BY <1>2, <2>2 DEF U
    <2> QED BY <2>5, <2>7, <2>8 DEF Clear, Harmless
  <1> QED BY <1>1, <1>2

(* The search ends with what the equation says, for it lengthens the path  *)
(* and there are only finitely many subtasks.                              *)
LEMMA SearchDecides ==
    ASSUME NEW deps \in [Subtasks -> SUBSET Subtasks], ~Cyclic(deps)
    PROVE  \A s \in Subtasks : Clear(s, {}, deps)
  <1> DEFINE Places == (DOMAIN deps) \X (SUBSET DOMAIN deps)
             At(f, at) == \/ at[1] \in at[2]
                          \/ \E t \in deps[at[1]] \cap DOMAIN deps : f[<<t, at[2] \cup {at[1]}>>]
             Eq(f) == [at \in Places |-> At(f, at)]
             G == [at \in Places |-> ~Clear(at[1], at[2], deps)]
             found == CHOOSE f : f = Eq(f)
  <1>1. Cyclic(deps) <=> \E s \in DOMAIN deps : found[<<s, {}>>]
    BY Zenon DEF Cyclic
  <1>2. DOMAIN deps = Subtasks OBVIOUS
  <1>3. ASSUME NEW s \in Subtasks, NEW path \in SUBSET Subtasks
        PROVE  G[<<s, path>>] <=> ~Clear(s, path, deps)
    <2>1. <<s, path>> \in Places BY <1>2
    <2> QED BY <2>1
  <1> HIDE DEF G
  <1>4. ASSUME NEW s \in Subtasks, NEW path \in SUBSET Subtasks, NEW f
        PROVE  At(f, <<s, path>>) <=> s \in path \/ \E t \in deps[s] : f[<<t, path \cup {s}>>]
    BY <1>2
  <1>5. ASSUME NEW at \in Places PROVE ~Clear(at[1], at[2], deps) <=> At(G, at)
    <2>1. PICK s \in Subtasks, path \in SUBSET Subtasks : at = <<s, path>> BY <1>2
    <2>2. \A t \in deps[s] : t \in Subtasks /\ path \cup {s} \in SUBSET Subtasks OBVIOUS
    <2>3. \A t \in deps[s] : G[<<t, path \cup {s}>>] <=> ~Clear(t, path \cup {s}, deps) BY <1>3, <2>2
    <2>4. ~Clear(s, path, deps) <=> s \in path \/ \E t \in deps[s] : ~Clear(t, path \cup {s}, deps)
      BY ClearEquation
    <2>5. ~Clear(s, path, deps) <=> s \in path \/ \E t \in deps[s] : G[<<t, path \cup {s}>>]
      BY <2>3, <2>4
    <2>6. ~Clear(s, path, deps) <=> At(G, <<s, path>>) BY <1>4, <2>5
    <2>7. at[1] = s /\ at[2] = path BY <2>1
    <2> HIDE DEF At
    <2> QED BY <2>1, <2>6, <2>7
  <1>6. G = Eq(G)
    <2> DEFINE N(at) == ~Clear(at[1], at[2], deps)
    <2>1. \A at \in Places : N(at) <=> At(G, at) BY <1>5
    <2>2. G = [at \in Places |-> N(at)] BY DEF G
    <2>3. \A at \in Places : N(at) = At(G, at) BY <2>1
    <2> HIDE DEF N, At, Places
    <2>4. [at \in Places |-> N(at)] = [at \in Places |-> At(G, at)] BY <2>3, Zenon
    <2> QED BY <2>2, <2>4, Zenon
  <1> HIDE DEF Eq
  <1>7. found = Eq(found) BY <1>6, Zenon
  \* If the search missed one, it missed one at the longest path.
  <1>8. ASSUME NEW s \in Subtasks, NEW path \in SUBSET Subtasks
        PROVE  found[<<s, path>>] <=> s \in path \/ \E t \in deps[s] : found[<<t, path \cup {s}>>]
    <2>1. <<s, path>> \in Places BY <1>2
    <2>2. found = [at \in Places |-> At(found, at)] BY <1>7 DEF Eq
    <2>3. At(found, <<s, path>>) <=> s \in path \/ \E t \in deps[s] : found[<<t, path \cup {s}>>] BY <1>4
    <2> HIDE DEF At, Places, found
    <2>4. found[<<s, path>>] = At(found, <<s, path>>) BY <2>1, <2>2, Zenon
    <2> QED BY <2>3, <2>4
  <1> HIDE DEF found, At, Places
  <1> DEFINE Missed(s, path) == ~Clear(s, path, deps) /\ ~found[<<s, path>>]
             Missing == {path \in SUBSET Subtasks : \E s \in Subtasks : Missed(s, path)}
             Rests == {Subtasks \ path : path \in Missing}
  <1>9. ASSUME NEW s \in Subtasks, NEW path \in SUBSET Subtasks, Missed(s, path)
        PROVE  s \notin path /\ path \cup {s} \in Missing
    <2>1. s \notin path /\ \A t \in deps[s] : ~found[<<t, path \cup {s}>>] BY <1>8, <1>9
    <2>2. PICK t \in deps[s] : ~Clear(t, path \cup {s}, deps) BY <1>9, <2>1, ClearEquation
    <2> QED BY <2>1, <2>2
  <1>10. Missing = {}
    <2> SUFFICES ASSUME Missing # {} PROVE FALSE OBVIOUS
    <2>1. IsFiniteSet(Subtasks) BY PlanAssumption
    <2>2. Rests \subseteq FiniteSubsetsOf(Subtasks) /\ Rests # {}
      <3>1. \A path \in Missing : IsFiniteSet(Subtasks \ path) BY <2>1, FS_Subset
      <3> QED BY <3>1 DEF FiniteSubsetsOf
    <2>3. PICK R \in Rests : \A Q \in Rests : <<Q, R>> \notin StrictSubsetOrdering(Subtasks)
      <3> HIDE DEF Rests
      <3> QED BY <2>2, FS_StrictSubsetOrderingWellFounded, WFMin
    <2>4. PICK path \in Missing : R = Subtasks \ path OBVIOUS
    <2>5. PICK s \in Subtasks : Missed(s, path) OBVIOUS
    <2>6. s \notin path /\ path \cup {s} \in Missing BY <1>9, <2>5
    <2>7. Subtasks \ (path \cup {s}) \in Rests BY <2>6
    <2>8. <<Subtasks \ (path \cup {s}), R>> \in StrictSubsetOrdering(Subtasks)
      BY <2>4, <2>6 DEF StrictSubsetOrdering
    <2> QED BY <2>3, <2>7, <2>8
  <1>11. \A s \in Subtasks : ~found[<<s, {}>>] BY <1>1, <1>2
  <1> QED BY <1>10, <1>11

(* Subtasks are done in the order of how much they depend on.              *)
LEMMA AcyclicPlansRun ==
    ASSUME NEW deps \in [Subtasks -> SUBSET Subtasks], ~Cyclic(deps)
    PROVE  Runnable(deps)
  <1> DEFINE place == [s \in Subtasks |-> Cardinality(Reach(s, deps))]
  <1>0. IsFiniteSet(Subtasks) /\ DOMAIN deps = Subtasks BY PlanAssumption
  <1>1. ASSUME NEW s \in Subtasks
        PROVE  /\ IsFiniteSet(Reach(s, deps)) /\ place[s] \in 1..Cardinality(Subtasks)
    <2>1. s \in Reach(s, deps) /\ Reach(s, deps) \subseteq Subtasks BY ReachOf
    <2>2. IsFiniteSet(Reach(s, deps)) /\ Cardinality(Reach(s, deps)) <= Cardinality(Subtasks) BY <1>0, <2>1, FS_Subset
    <2>3. Cardinality(Reach(s, deps)) \in Nat /\ Cardinality(Reach(s, deps)) # 0 /\ Cardinality(Subtasks) \in Nat
      BY <1>0, <2>1, <2>2, FS_CardinalityType, FS_EmptySet
    <2> QED BY <2>2, <2>3
  <1>2. ASSUME NEW s \in Subtasks, NEW t \in deps[s] PROVE t \in Subtasks /\ place[t] < place[s]
    <2>1. t \in Subtasks OBVIOUS
    <2>2. PICK D \in SUBSET Subtasks : s \in D /\ Harmless(D, deps) BY SearchDecides DEF Clear
    <2>3. s \notin Reach(t, deps) BY <2>2, HarmlessParts
    <2>4. s \in Reach(s, deps) /\ t \in Reach(s, deps) BY ReachOf DEF Closed
    <2>5. Reach(t, deps) \subseteq Reach(s, deps) /\ Reach(t, deps) # Reach(s, deps)
      BY <2>1, <2>3, <2>4, ReachOf
    <2>6. Cardinality(Reach(t, deps)) < Cardinality(Reach(s, deps))
      BY <1>1, <2>1, <2>5, FS_Subset, FS_CardinalityType
    <2> QED BY <2>1, <2>6
  <1> HIDE DEF place
  <1>3. place \in [DOMAIN deps -> 1..Cardinality(DOMAIN deps)] BY <1>0, <1>1 DEF place
  <1> QED BY <1>0, <1>2, <1>3 DEF Runnable

(* A plan that is activated names subtasks only and was found acyclic.     *)
LEMMA ActivatedPlans ==
    ASSUME NEW deps \in Accepted
    PROVE  deps \in [Subtasks -> SUBSET Subtasks] /\ ~Cyclic(deps)
  <1>1. PICK p \in AcceptedPlans : deps = Deps(p)
    BY DEF Accepted
  <1>2. Valid(p)
    BY DEF AcceptedPlans
  <1> QED BY <1>1, <1>2 DEF Deps, Valid, AllKnown

-----------------------------------------------------------------------------
(* The invariant.                                                          *)

LEMMA InitIsGood == Init => IInv
  <1> SUFFICES ASSUME Init PROVE IInv OBVIOUS
  <1> USE DEF Init
  <1>1. TypeOK
    <2>1. Cardinality(Candidates) \in Nat BY EngineAssumption, FS_CardinalityType
    <2>2. status \in [Nodes -> Statuses] BY DEF Statuses
    <2>3. integ \in [tree : Trees, merged : SUBSET Subtasks, conflicts : BOOLEAN, passed : BOOLEAN,
                     validated : Trees, captured : Trees, patch : BOOLEAN, approved : BOOLEAN]
      BY DEF Trees
    <2>4. tries \in [Subtasks -> 0..Cardinality(Candidates)] BY <2>1
    <2> QED BY <2>2, <2>3, <2>4 DEF TypeOK
  <1>2. GraphShape BY DEF GraphShape, GraphOfTheMoment
  <1>3. \A n \in Nodes : status[n] \in {"waiting", "absent"} OBVIOUS
  <1>4. ThreadsInStep BY <1>3 DEF ThreadsInStep, ThreadStatus, NoneAtWork
  <1>5. RoundInStep BY DEF RoundInStep
  <1>6. PlannerFirst BY NodesOf DEF PlannerFirst
  <1>7. \A n \in Nodes : status[n] \notin Terminal BY <1>3 DEF Terminal, Broken
  <1>8. ReviewsFollow /\ EvidenceReviewed BY <1>7, NodesOf DEF ReviewsFollow, EvidenceReviewed
  <1>9. WinnerAfterReviews BY EngineAssumption DEF WinnerAfterReviews
  <1>10. DecisionAtTheEnd BY DEF DecisionAtTheEnd
  <1>11. SubtasksInOrder /\ DependenciesPresent /\ AstrayByTwins
    BY DEF SubtasksInOrder, DependenciesPresent, AstrayByTwins
  <1>12. IntegrationFollows BY <1>7, NodesOf DEF IntegrationFollows
  <1>13. ValidatedTree /\ ReviewSeesValidatedTree BY DEF ValidatedTree, ReviewSeesValidatedTree
  <1>14. BackendLimit
    <2>1. \A b : {x \in Busy : backend[x] = b} = {} BY DEF Busy
    <2>2. \A b \in Backends : MaxParallel[b] \in Nat /\ MaxParallel[b] > 0 BY EngineAssumption
    <2> QED BY <2>1, <2>2, FS_EmptySet DEF BackendLimit
  <1> QED BY <1>1, <1>2, <1>4, <1>5, <1>6, <1>8, <1>9, <1>10, <1>11, <1>12, <1>13, <1>14 DEF IInv

LEMMA PlainIsGood ==
    ASSUME IInv, Plain
    PROVE  IInv'
  <1> USE DEF IInv
  <1>1. TypeOK' /\ GraphShape' /\ ThreadsInStep' /\ RoundInStep' /\ PlannerFirst'
    BY TypesKept, GraphShapeKept, ThreadsKept, RoundKept, PlannerKept
  <1>2. ReviewsFollow' /\ EvidenceReviewed' /\ WinnerAfterReviews' /\ DecisionAtTheEnd'
    BY ReviewsFollowKept, EvidenceKept, WinnerKept, DecisionKept
  <1>3. SubtasksInOrder' /\ DependenciesPresent' /\ AstrayByTwins'
    BY SubtasksKept, AstrayKept
  <1>4. IntegrationFollows' /\ ValidatedTree' /\ ReviewSeesValidatedTree' /\ BackendLimit'
    BY IntegrationFollowsKept, IntegrationKept, LimitKept
  <1> QED BY <1>1, <1>2, <1>3, <1>4

LEMMA ReplacedIsGood ==
    ASSUME IInv, ReplaceGraph
    PROVE  IInv'
  <1> USE DEF IInv
  <1>0. UNCHANGED <<backend, fate, review, tries, sound, accepted, told, integ, winner, decision>> BY ReplacedGraph
  <1>1. GraphShape' /\ ThreadsInStep' /\ RoundInStep' /\ PlannerFirst' /\ ReviewsFollow' /\ IntegrationFollows'
    BY GraphReplaced
  <1>2. /\ pc = "round" /\ pc' = "round" /\ ~decomposed /\ decomposed' = TRUE /\ todo' \subseteq Nodes
        /\ status' \in [Nodes -> Statuses] /\ status[Decompose] = "waiting"
        /\ dependsOn' \in [Subtasks -> SUBSET Subtasks] /\ worker' = worker
    BY ReplacedGraph, NodesOf, ActivatedPlans DEF ReplaceGraph, poolv
  <1>3. TypeOK'
    BY <1>0, <1>2 DEF TypeOK, Statuses, Terminal, Broken, Trees, Nodes, FixedGraph, DecomposedGraph, CodeAndReview, Code, Review, Owners
  <1>4. \A c \in Candidates : status[Code(c)] = "waiting" /\ status[Review(c)] = "waiting"
    <2>1. \A c \in Candidates : Code(c) \in FixedGraph \ (Prep \cup {Decompose})
                               /\ Review(c) \in FixedGraph \ (Prep \cup {Decompose})
      BY DEF FixedGraph, CodeAndReview, Code, Review, Prep, Decompose, Only
    <2> QED BY <1>2, <2>1, HeldBack
  <1>5. \A c \in Candidates : review[c] = "none"
    BY <1>4 DEF EvidenceReviewed, Terminal, Broken
  <1>6. EvidenceReviewed' BY <1>0, <1>5 DEF EvidenceReviewed
  <1>7. winner \notin Candidates BY <1>4 DEF WinnerAfterReviews, Terminal, Broken
  <1>8. WinnerAfterReviews' BY <1>0, <1>7 DEF WinnerAfterReviews
  <1>9. DecisionAtTheEnd' BY <1>0, <1>2 DEF DecisionAtTheEnd
  <1>10. \A s \in Subtasks : tries[s] = 0 BY <1>2 DEF SubtasksInOrder
  <1>11. SubtasksInOrder' /\ DependenciesPresent' /\ AstrayByTwins'
    BY <1>0, <1>2, <1>10 DEF SubtasksInOrder, DependenciesPresent, AstrayByTwins
  <1>12. ~integ.passed /\ integ.captured = "none"
    <2>1. status[Validate] = "absent" /\ status[FinalReview] = "absent" BY <1>2, SameGraph
    <2> QED BY <2>1 DEF ValidatedTree, Terminal, Broken
  <1>13. ValidatedTree' /\ ReviewSeesValidatedTree' BY <1>0, <1>12 DEF ValidatedTree, ReviewSeesValidatedTree
  <1>14. BackendLimit' BY <1>0, <1>2 DEF BackendLimit, Busy
  <1> QED BY <1>1, <1>3, <1>6, <1>8, <1>9, <1>11, <1>13, <1>14

LEMMA StepIsGood == IInv /\ [Next]_vars => IInv'
  BY NextIsPlain, PlainIsGood, ReplacedIsGood

LEMMA RunInvariant == Spec => []IInv
  BY InitIsGood, StepIsGood, PTL DEF Spec

LEMMA InvariantImplies == IInv => EngineInv
  <1> SUFFICES ASSUME IInv PROVE EngineInv OBVIOUS
  <1> USE DEF IInv
  <1>1. NothingLeft BY DEF NothingLeft, ThreadsInStep, NoneAtWork, DecisionAtTheEnd
  <1>2. WinnerHasEvidence BY DEF WinnerHasEvidence, WinnerAfterReviews, EvidenceReviewed, Busy
  <1> QED BY <1>1, <1>2 DEF EngineInv

-----------------------------------------------------------------------------
(* What holds at every moment of a run: the semaphores of the backends are *)
(* kept, subtasks start from what they depend on, nobody is at work while  *)
(* the main loop decides, and a winner has its evidence.                   *)
THEOREM RunIsSound == Spec => []EngineInv
  BY RunInvariant, InvariantImplies, PTL

(* The final patch that counts as validated was taken from the tree on     *)
(* which the validation passed, wherever a handler raised.                 *)
THEOREM ReviewedTreeIsValidated == Spec => []ReviewSeesValidatedTree
  <1>1. IInv => ReviewSeesValidatedTree BY DEF IInv
  <1> QED BY <1>1, RunInvariant, PTL

(* No thread and no late exception changes what was reviewed.              *)
THEOREM ReviewedEvidenceIsFrozen == Spec => EvidenceFrozen
  <1> DEFINE Frozen == \A c \in Candidates : review[c] # "none" =>
                          fate'[c] = fate[c] /\ status'[Code(c)] = status[Code(c)]
  <1>1. IInv /\ [Next]_vars => [Frozen]_vars
    BY FrozenStep DEF IInv
  <1>2. EvidenceFrozen <=> [][Frozen]_vars BY DEF EvidenceFrozen
  <1> HIDE DEF Frozen
  <1> QED BY <1>1, <1>2, RunInvariant, PTL DEF Spec

(* Whatever the planner, the reviewer and the reviser answer, the plan the *)
(* run switches to can be carried out, unless it names one subtask twice:  *)
(* the search for cycles finds every one there is.                         *)
THEOREM ActivatedPlanRuns == Spec => PlanRunnable
  <1> DEFINE Switch == decomposed' /\ ~decomposed => Runnable(dependsOn')
  <1>1. IInv /\ [Next]_vars => [Switch]_vars
    <2> SUFFICES ASSUME [Next]_vars, decomposed', ~decomposed PROVE Runnable(dependsOn') OBVIOUS
    <2>1. ReplaceGraph BY NextIsPlain, PlainKinds
    <2>2. dependsOn' \in Accepted BY <2>1 DEF ReplaceGraph
    <2> QED BY <2>2, ActivatedPlans, AcyclicPlansRun
  <1>2. PlanRunnable <=> [][Switch]_vars BY DEF PlanRunnable
  <1> HIDE DEF Switch
  <1> QED BY <1>1, <1>2, RunInvariant, PTL DEF Spec

-----------------------------------------------------------------------------
(* The run implements GraphRun: the graph as that specification sees it.   *)

View == [n \in Nodes |-> IF status[n] \in {"succeeded", "failed"} THEN "executed"
                         ELSE IF status[n] = "absent" THEN "out" ELSE status[n]]

NeedsView == [n \in Nodes |-> Edges(n)]

VerdictView == IF decision # "none" THEN decision ELSE IF pc = "crashed" THEN "lost" ELSE "open"

Dealt(n) == View[n] \in {"executed", "skipped", "out"}

LEMMA ViewOf ==
    ASSUME TypeOK
    PROVE  /\ View \in [Nodes -> Run!States]
           /\ \A n \in Nodes : /\ Dealt(n) <=> status[n] \in Terminal \cup {"absent"}
                               /\ View[n] = "waiting" <=> status[n] = "waiting"
                               /\ View[n] = "running" <=> status[n] = "running"
                               /\ View[n] = "out" <=> status[n] = "absent"
                               /\ View[n] = "skipped" <=> status[n] = "skipped"
                               /\ View[n] = "executed" <=> status[n] \in Ends
  <1>1. status \in [Nodes -> Statuses] BY DEF TypeOK
  <1> QED BY <1>1 DEF View, Dealt, Statuses, Terminal, Broken, Ends, Run!States, Run!DealtWith

(* The actions of GraphRun, in terms of the views.                         *)
LEMMA RunActions ==
    /\ Run!GraphInit <=> /\ NeedsView \in [Nodes -> SUBSET Nodes] /\ VerdictView = "open"
                         /\ View = [n \in Nodes |-> IF n \in FixedGraph THEN "waiting" ELSE "out"]
    /\ Run!graphVars = <<NeedsView, View, VerdictView>>
    /\ \A n : Run!MayRun(n) <=> View[n] = "waiting" /\ \A m \in NeedsView[n] : Dealt(m)
  BY DEF Run!GraphInit, Run!graphVars, Run!MayRun, Run!DealtWith, View, NeedsView, VerdictView, Dealt

LEMMA RunSkips ==
    ASSUME VerdictView = "open", UNCHANGED <<NeedsView, VerdictView>>,
           View' \in [Nodes -> Run!States], \A n \in Nodes : View'[n] # View[n] => View[n] = "waiting" /\ View'[n] = "skipped"
    PROVE  Run!GraphNext
  BY DEF Run!GraphNext, Run!Skip, Run!Changed, View, NeedsView, VerdictView

LEMMA RunMoves ==
    ASSUME VerdictView = "open", UNCHANGED <<NeedsView, VerdictView>>, NEW n \in Nodes,
           \/ Run!MayRun(n) /\ View' = [View EXCEPT ![n] = "running"]
           \/ Run!MayRun(n) /\ View' = [View EXCEPT ![n] = "executed"]
           \/ View[n] = "running" /\ View' = [View EXCEPT ![n] = "executed"]
    PROVE  Run!GraphNext
  <1>1. Run!Start(n) \/ Run!Finish(n) \/ Run!Execute(n)
    BY DEF Run!Start, Run!Finish, Run!Execute, View
  <1> QED BY <1>1 DEF Run!GraphNext, View, NeedsView, VerdictView

LEMMA RunCloses ==
    ASSUME VerdictView = "open", UNCHANGED <<NeedsView, View>>,
           \/ VerdictView' = "lost"
           \/ VerdictView' \in {"accepted", "failed"} /\ \A n \in Nodes : Dealt(n)
    PROVE  Run!GraphNext
  BY DEF Run!GraphNext, Run!Close, Run!DealtWith, View, NeedsView, VerdictView, Dealt

LEMMA RunReplans ==
    ASSUME VerdictView = "open", UNCHANGED VerdictView,
           View' \in [Nodes -> Run!States], Run!MayRun(Decompose), View'[Decompose] = "executed",
           \A n \in Nodes : View'[n] # View[n] /\ n # Decompose => {View[n], View'[n]} \subseteq {"waiting", "out"},
           NeedsView' \in [Nodes -> SUBSET Nodes],
           \A n \in Nodes : View[n] # "out" => NeedsView'[n] = NeedsView[n]
    PROVE  Run!GraphNext
  <1>1. Run!Replan
    BY DEF Run!Replan, Run!Changed, Run!Untouched, View, NeedsView
  <1> QED BY <1>1 DEF Run!GraphNext, VerdictView

LEMMA ViewMoves ==
    ASSUME TypeOK, NEW n \in Nodes, NEW st, status' = [status EXCEPT ![n] = st]
    PROVE  View' = [View EXCEPT ![n] = IF st \in Ends THEN "executed" ELSE IF st = "absent" THEN "out" ELSE st]
  <1>1. status \in [Nodes -> Statuses] BY DEF TypeOK
  <1> QED BY <1>1 DEF View, Ends

LEMMA OpenUntilTheEnd ==
    ASSUME TypeOK, DecisionAtTheEnd
    PROVE  VerdictView = "open" <=> pc \notin {"done", "crashed"}
  BY DEF TypeOK, DecisionAtTheEnd, VerdictView

(* A waiting node whose needs are satisfied may run.                       *)
LEMMA SatisfiedMayRun ==
    ASSUME TypeOK, ThreadsInStep, RoundInStep, NEW n \in Nodes, Edges(n) \subseteq Nodes,
           status[n] = "waiting", \A m \in Needs(n) : Satisfied(m, n)
    PROVE  Run!MayRun(n)
  <1>1. ASSUME NEW m \in Edges(n) PROVE Dealt(m)
    <2>1. status[m] = "absent" \/ m \in Needs(n) BY DEF Needs
    <2>2. m \in Needs(n) => status[m] \in Terminal BY DEF Satisfied, Terminal, Broken
    <2> QED BY <2>1, <2>2, ViewOf
  <1> QED BY <1>1, ViewOf, RunActions DEF NeedsView

LEMMA PlainImplements ==
    ASSUME IInv, IInv', Plain
    PROVE  Run!GraphNext \/ UNCHANGED <<NeedsView, View, VerdictView>>
  <1> DEFINE Kept == UNCHANGED <<NeedsView, VerdictView>>
             Good == Run!GraphNext \/ UNCHANGED <<NeedsView, View, VerdictView>>
  <1> SUFFICES Good OBVIOUS
  <1> USE DEF IInv
  <1>0. TypeOK /\ TypeOK' /\ ThreadsInStep /\ RoundInStep /\ DecisionAtTheEnd /\ DecisionAtTheEnd'
        /\ status \in [Nodes -> Statuses]
    BY DEF TypeOK
  <1> HIDE DEF IInv
  <1>1. NeedsView' = NeedsView
    <2>1. \A n \in Nodes : Edges(n)' = Edges(n) BY <1>0, NeedsKept
    <2> QED BY <2>1 DEF NeedsView
  <1>2. ASSUME pc' = pc \/ {pc, pc'} \cap {"done", "crashed"} = {}, decision' = decision PROVE VerdictView' = VerdictView
    BY <1>2 DEF VerdictView
  <1>3. ASSUME status' = status PROVE View' = View BY <1>3 DEF View
  <1>4. ASSUME pc' = pc \/ {pc, pc'} \cap {"done", "crashed"} = {}, decision' = decision, status' = status PROVE Good
    BY <1>1, <1>2, <1>3, <1>4
  <1>5. ASSUME pc \notin {"done", "crashed"}, pc' \notin {"done", "crashed"}, decision' = decision
        PROVE  VerdictView = "open" /\ Kept
    BY <1>0, <1>1, <1>2, <1>5, OpenUntilTheEnd
  \* A node that moves, without regard to why it may.
  <1>6. ASSUME pc \notin {"done", "crashed"}, pc' \notin {"done", "crashed"}, decision' = decision,
               NEW n \in Nodes, NEW st \in {"running"} \cup Ends, status' = [status EXCEPT ![n] = st],
               Run!MayRun(n) \/ (st # "running" /\ status[n] = "running")
        PROVE  Good
    <2>1. VerdictView = "open" /\ Kept BY <1>5, <1>6
    <2>2. View' = [View EXCEPT ![n] = IF st = "running" THEN "running" ELSE "executed"]
      BY <1>0, <1>6, ViewMoves DEF Ends
    <2>3. status[n] = "running" <=> View[n] = "running" BY <1>0, ViewOf
    <2> QED BY <1>6, <2>1, <2>2, <2>3, RunMoves
  <1>7. ASSUME pc \notin {"done", "crashed"}, pc' \notin {"done", "crashed"}, decision' = decision,
               \A n \in Nodes : status'[n] = status[n] \/ (status[n] = "waiting" /\ status'[n] = "skipped")
        PROVE  Good
    <2>1. VerdictView = "open" /\ Kept BY <1>5, <1>7
    <2>2. View' \in [Nodes -> Run!States]
      <3>1. status' \in [Nodes -> Statuses] BY <1>0 DEF TypeOK, Statuses, Terminal, Broken, Nodes
      <3> QED BY <3>1 DEF View, Statuses, Terminal, Broken, Run!States, Run!DealtWith
    <2>3. ASSUME NEW n \in Nodes, View'[n] # View[n] PROVE View[n] = "waiting" /\ View'[n] = "skipped"
      BY <1>7, <2>3 DEF View
    <2> QED BY <2>1, <2>2, <2>3, RunSkips
  <1> HIDE DEF Good, Kept
  <1>8. ASSUME NEW n \in Nodes, SkipDoomed(n) PROVE Good
    <2>1. pc = "loop" /\ pc' = "loop" /\ decision' = decision BY <1>8 DEF SkipDoomed, endv
    <2>2. \A m \in Nodes : status'[m] = status[m] \/ (status[m] = "waiting" /\ status'[m] = "skipped")
      BY <1>0, <1>8 DEF SkipDoomed, Doomed, Waiting
    <2> QED BY <1>7, <2>1, <2>2
  <1>9. CASE NoReadyNodes
    <2>1. pc = "loop" /\ pc' = "loop" /\ decision' = decision BY <1>9 DEF NoReadyNodes, endv
    <2>2. \A m \in Nodes : status'[m] = status[m] \/ (status[m] = "waiting" /\ status'[m] = "skipped")
      BY <1>0, <1>9 DEF NoReadyNodes, Waiting
    <2> QED BY <1>7, <2>1, <2>2
  <1>10. CASE StartPool \/ StartRound \/ EndRound \/ EndPool
    <2>1. pc \in {"loop", "round", "pool"} /\ pc' \in {"loop", "round", "pool"} /\ decision' = decision /\ status' = status
      BY <1>10 DEF StartPool, StartRound, EndRound, EndPool, Submit, endv, graphv
    <2> QED BY <1>4, <2>1
  <1>11. CASE Aside
    <2>1. pc' = pc /\ status' = status BY <1>11 DEF Aside, graphv
    <2>2. decision' = decision
      <3>1. ~Finalize BY <2>1 DEF Finalize
      <3> QED BY <3>1, Writers
    <2> QED BY <1>4, <2>1, <2>2
  <1>12. ASSUME NEW x \in Owners, RunCode(x) PROVE Good
    <2>1. pc = "round" /\ pc' = "pool" /\ decision' = decision /\ status' = status
      BY <1>12 DEF RunCode, Submit, endv
    <2> QED BY <1>4, <2>1
  <1>13. CASE Finalize
    <2>1. pc = "loop" /\ pc' \in {"done", "crashed"} /\ decision' \in {"accepted", "failed"} /\ status' = status
      BY <1>13 DEF Finalize, graphv
    <2>2. \A n \in Nodes : status[n] \in Terminal \cup {"absent"}
      BY <1>0, <2>1 DEF DecisionAtTheEnd, Terminal, Broken
    <2>3. \A n \in Nodes : Dealt(n) BY <1>0, <2>2, ViewOf
    <2>4. VerdictView = "open" BY <1>0, <2>1, OpenUntilTheEnd
    <2>5. VerdictView' \in {"accepted", "failed"} BY <2>1 DEF VerdictView
    <2> QED BY <1>1, <1>3, <2>1, <2>3, <2>4, <2>5, RunCloses DEF Good
  <1>14. CASE RunFails \/ PoolUnwound
    <2>1. /\ pc \in {"loop", "round", "unwinding"} /\ pc' = "crashed" /\ status' = status
          /\ decision = "none" /\ decision' = decision
      BY <1>0, <1>14 DEF RunFails, PoolUnwound, graphv, endv, DecisionAtTheEnd
    <2>2. VerdictView = "open" BY <1>0, <2>1, OpenUntilTheEnd
    <2>3. VerdictView' = "lost" BY <2>1 DEF VerdictView
    <2> QED BY <1>1, <1>3, <2>1, <2>2, <2>3, RunCloses DEF Good
  <1>20. CASE TwinPlan
    <2>1. pc = "round" /\ pc' = "astray" /\ decision' = decision /\ status' = status
      BY <1>20 DEF TwinPlan, graphv, endv
    <2> QED BY <1>4, <2>1
  \* A thread at work says that the run is not at an end.
  <1>15. ASSUME NEW x \in Owners, worker[x] \in {"queued", "busy"} PROVE pc \notin {"done", "crashed"}
    BY <1>0, <1>15 DEF ThreadsInStep, NoneAtWork
  <1>16. ASSUME NEW x \in Owners, Acquire(x) PROVE Good
    <2>1. worker[x] = "queued" /\ pc' = pc /\ decision' = decision /\ status' = [status EXCEPT ![Code(x)] = "running"]
      BY <1>16 DEF Acquire, endv
    <2>2. Code(x) \in Nodes /\ status[Code(x)] = "waiting" /\ \A m \in Needs(Code(x)) : Satisfied(m, Code(x))
      BY <1>0, <2>1, NodesOf DEF ThreadsInStep, ThreadStatus
    <2>3. Run!MayRun(Code(x)) BY <1>0, <2>2, SatisfiedMayRun, EdgesAreNodes
    <2> QED BY <1>6, <1>15, <2>1, <2>2, <2>3
  <1>17. ASSUME NEW x \in Owners, NEW how \in {"returned", "raised"}, NEW st \in Ends \cup {"running"}, Left(x, how, st)
         PROVE  Good
    <2>1. worker[x] = "busy" /\ pc' = pc /\ decision' = decision /\ status' = [status EXCEPT ![Code(x)] = st]
      BY <1>17 DEF Left, Leave, endv
    <2>2. Code(x) \in Nodes /\ status[Code(x)] = "running" BY <1>0, <2>1, NodesOf DEF ThreadsInStep, ThreadStatus
    <2>3. CASE st = "running"
      <3>1. status' = status BY <1>0, <2>1, <2>2, <2>3
      <3> QED BY <1>4, <2>1, <3>1
    <2>4. CASE st \in Ends /\ st # "running" BY <1>6, <1>15, <2>1, <2>2, <2>4
    <2> QED BY <2>3, <2>4 DEF Ends
  <1>18. ASSUME NEW x \in Owners, Collect(x) PROVE Good
    <2>1. pc = "pool" /\ pc' \in {"pool", "unwinding"} /\ decision' = decision BY <1>18 DEF Collect, endv
    <2>2. CASE worker[x] = "raised"
      <3>1. status' = [status EXCEPT ![Code(x)] = "failed"] BY <1>18, <2>2 DEF Collect
      <3>2. Code(x) \in Nodes /\ status[Code(x)] \in {"running", "succeeded"}
        BY <1>0, <2>2, NodesOf DEF ThreadsInStep, ThreadStatus
      <3>3. CASE status[Code(x)] = "running" BY <1>6, <2>1, <3>1, <3>2, <3>3 DEF Ends
      <3>4. CASE status[Code(x)] = "succeeded"
        <4>1. View' = View BY <1>0, <3>1, <3>2, <3>4 DEF View
        <4> QED BY <1>1, <1>2, <2>1, <4>1 DEF Good
      <3> QED BY <3>2, <3>3, <3>4
    <2>3. CASE worker[x] # "raised"
      <3>1. status' = status BY <1>18, <2>3 DEF Collect
      <3> QED BY <1>4, <2>1, <3>1
    <2> QED BY <2>2, <2>3
  <1>19. ASSUME NEW n \in Nodes, NEW st \in Terminal, Handled(n, st) PROVE Good
    <2>1. Settle(n, st) BY <1>19 DEF Handled
    <2>2. pc = "round" /\ pc' = "round" /\ decision' = decision /\ status' = [status EXCEPT ![n] = st]
      BY <2>1 DEF Settle
    <2>3. status[n] = "waiting" /\ \A m \in Needs(n) : Satisfied(m, n) BY <1>0, <2>1, AtHandler
    <2>4. CASE st \in Ends
      <3>1. Run!MayRun(n) BY <1>0, <2>3, SatisfiedMayRun, EdgesAreNodes
      <3> QED BY <1>6, <2>2, <2>4, <3>1
    <2>5. CASE st = "skipped"
      <3>1. \A m \in Nodes : status'[m] = status[m] \/ (status[m] = "waiting" /\ status'[m] = "skipped")
        BY <1>0, <2>2, <2>3, <2>5
      <3> QED BY <1>7, <2>2, <3>1
    <2> QED BY <2>4, <2>5 DEF Terminal, Broken, Ends
  <1> QED BY PlainKinds, <1>8, <1>9, <1>10, <1>11, <1>12, <1>13, <1>14, <1>16, <1>17, <1>18, <1>19, <1>20

LEMMA NeedsAreNodes == TypeOK => NeedsView \in [Nodes -> SUBSET Nodes]
  BY EdgesAreNodes DEF NeedsView

LEMMA NeedsAreNodesNext == TypeOK' => (NeedsView \in [Nodes -> SUBSET Nodes])'
  BY NeedsAreNodes, PTL

LEMMA ReplacementImplements ==
    ASSUME IInv, IInv', ReplaceGraph
    PROVE  Run!GraphNext
  <1>0. /\ TypeOK /\ TypeOK' /\ ThreadsInStep /\ RoundInStep /\ GraphShape /\ PlannerFirst /\ DecisionAtTheEnd
        /\ status \in [Nodes -> Statuses] /\ todo \subseteq Nodes
    BY DEF IInv, TypeOK
  <1>1. /\ pc = "round" /\ pc' = "round" /\ ~decomposed /\ decision' = decision /\ Decompose \in todo
        /\ status[Decompose] = "waiting" /\ status'[Decompose] \in Ends
        /\ \A n \in Prep : status'[n] = status[n]
        /\ \A n \in Nodes \ (Prep \cup {Decompose}) :
              status'[n] = IF n \in DecomposedGraph THEN "waiting" ELSE "absent"
    BY <1>0, ReplacedGraph
  <1>2. Decompose \in Nodes BY NodesOf
  <1>3. VerdictView = "open" BY <1>0, <1>1, OpenUntilTheEnd
  <1>4. VerdictView' = VerdictView BY <1>1 DEF VerdictView
  <1>5. View' \in [Nodes -> Run!States]
    <2>1. status' \in [Nodes -> Statuses] BY <1>0, ReplacedGraph
    <2> QED BY <2>1 DEF View, Statuses, Terminal, Broken, Run!States, Run!DealtWith
  <1>6. Run!MayRun(Decompose)
    <2>1. \A m \in Needs(Decompose) : Satisfied(m, Decompose) BY <1>0, <1>1 DEF RoundInStep
    <2> QED BY <1>0, <1>1, <1>2, <2>1, SatisfiedMayRun, EdgesAreNodes
  <1>7. View'[Decompose] = "executed" BY <1>1, <1>2 DEF View, Ends
  <1>8. ASSUME NEW n \in Nodes, View'[n] # View[n], n # Decompose PROVE {View[n], View'[n]} \subseteq {"waiting", "out"}
    <2>1. n \notin Prep BY <1>1, <1>8 DEF View
    <2>2. status'[n] \in {"waiting", "absent"} BY <1>1, <1>8, <2>1
    <2>3. status[n] \in {"waiting", "absent"}
      <3>1. CASE n \in FixedGraph BY <1>1, <1>0, <1>8, <2>1, <3>1 DEF PlannerFirst
      <3>2. CASE n \notin FixedGraph BY <1>1, <1>0, <3>2 DEF GraphShape, GraphOfTheMoment
      <3> QED BY <3>1, <3>2
    <2> QED BY <2>2, <2>3 DEF View
  <1>9. NeedsView' \in [Nodes -> SUBSET Nodes] BY <1>0, NeedsAreNodesNext
  <1>10. ASSUME NEW n \in Nodes, View[n] # "out" PROVE NeedsView'[n] = NeedsView[n]
    <2>1. Edges(n)' = Edges(n)
      <3>1. CASE n[1] = "code"
        <4>1. PICK x \in Owners : n = Code(x) BY <3>1, NodesOf
        <4>2. status[Code(x)] # "absent" BY <1>10, <4>1 DEF View
        <4>3. x \notin Subtasks BY <1>0, <1>1, <4>2, SameGraph
        <4> QED BY <4>1, <4>3 DEF Edges, Code
      <3>2. CASE n[1] # "code" BY <3>2 DEF Edges
      <3> QED BY <3>1, <3>2
    <2> QED BY <2>1 DEF NeedsView
  <1> QED BY <1>3, <1>4, <1>5, <1>6, <1>7, <1>8, <1>9, <1>10, RunReplans

LEMMA InitImplements == Init => Run!GraphInit
  <1> SUFFICES ASSUME Init PROVE Run!GraphInit OBVIOUS
  <1>1. TypeOK BY InitIsGood DEF IInv
  <1>2. VerdictView = "open" BY DEF Init, VerdictView
  <1>3. View = [n \in Nodes |-> IF n \in FixedGraph THEN "waiting" ELSE "out"]
    BY DEF Init, View
  <1> QED BY <1>1, <1>2, <1>3, NeedsAreNodes, RunActions

(* Every run of the engine is one that GraphRun allows: whatever threads,  *)
(* failing handlers and the replacement of the graph do, a node is         *)
(* executed at most once, after all it needs was dealt with, and a verdict *)
(* other than the loss of the run is given only when nothing is left.  Of  *)
(* the run that went astray it says only what came before.                 *)
THEOREM EngineImplementsGraphRun == Spec => ImplementsGraphRun
  <1>1. Init => Run!GraphInit BY InitImplements
  <1>2. IInv /\ IInv' /\ [Next]_vars => [Run!GraphNext]_(Run!graphVars)
    <2> SUFFICES ASSUME IInv, IInv', [Next]_vars, Run!graphVars' # Run!graphVars PROVE Run!GraphNext OBVIOUS
    <2>1. ~UNCHANGED <<NeedsView, View, VerdictView>>
      BY DEF Run!graphVars, NeedsView, View, VerdictView
    <2> QED BY <2>1, NextIsPlain, PlainImplements, ReplacementImplements
  <1>3. Spec => Init /\ [][Next]_vars BY DEF Spec
  <1>4. ImplementsGraphRun <=> Run!GraphInit /\ [][Run!GraphNext]_(Run!graphVars)
    BY DEF ImplementsGraphRun, Run!GraphSpec
  <1> QED BY <1>1, <1>2, <1>3, <1>4, RunInvariant, PTL

-----------------------------------------------------------------------------
(* A run comes to rest.  What is left to do is counted in three kinds of   *)
(* units: how far each node is from being dealt with, the attempts each    *)
(* subtask may still make, and, once, a whole graph for the replacement.   *)
(* A place of the main loop counts for less than a node has to pay for it. *)
Level ==
    [n \in Nodes |->
        IF status[n] = "waiting"
        THEN IF n[1] = "code" /\ worker[n[2]] = "queued" THEN 4
             ELSE IF n \in todo THEN 6 ELSE 8
        ELSE IF n[1] # "code" THEN 0
        ELSE CASE worker[n[2]] = "busy"                   -> 3
               [] worker[n[2]] \in {"returned", "raised"} -> 2
               [] worker[n[2]] = "collected"              -> 1
               [] OTHER                                   -> 0]

WholeGraph == Nodes \X (1..8)
AllTries   == Subtasks \X (1..Cardinality(Candidates))

Ahead    == {p \in WholeGraph : p[2] <= Level[p[1]]}
TryAhead == {p \in AllTries : tries[p[1]] < p[2]}

LoopLeft == CASE pc \in {"pool", "unwinding"} -> 3
              [] pc = "round"                 -> 2
              [] pc = "loop"                  -> 1
              [] OTHER                        -> 0

PlanLeft == IF decomposed THEN 0 ELSE Cardinality(WholeGraph)

Effort == Cardinality(Ahead) + Cardinality(TryAhead) + LoopLeft + PlanLeft

(* The steps of a run, at most. *)
RunSteps == 16 * Cardinality(Nodes) + Cardinality(Candidates) * Cardinality(Subtasks) + 1

LEMMA FourMore ==
    ASSUME NEW S, IsFiniteSet(S), NEW a, NEW b, NEW c, NEW d
    PROVE  IsFiniteSet(S \cup {a, b, c, d})
  <1>1. IsFiniteSet({a}) /\ IsFiniteSet({b}) /\ IsFiniteSet({c}) /\ IsFiniteSet({d})
    BY FS_Singleton
  <1>2. IsFiniteSet({a} \cup {b}) /\ IsFiniteSet({c} \cup {d})
    BY <1>1, FS_Union
  <1>3. IsFiniteSet(({a} \cup {b}) \cup ({c} \cup {d}))
    BY <1>2, FS_Union
  <1>4. IsFiniteSet(S \cup (({a} \cup {b}) \cup ({c} \cup {d})))
    BY <1>3, FS_Union
  <1>5. S \cup {a, b, c, d} = S \cup (({a} \cup {b}) \cup ({c} \cup {d}))
    OBVIOUS
  <1> QED BY <1>4, <1>5

LEMMA GraphIsFinite ==
    /\ IsFiniteSet(WholeGraph) /\ IsFiniteSet(AllTries)
    /\ Cardinality(Nodes) \in Nat /\ Cardinality(Candidates) \in Nat /\ Cardinality(Subtasks) \in Nat
    /\ Cardinality(WholeGraph) = 8 * Cardinality(Nodes)
    /\ Cardinality(AllTries) = Cardinality(Candidates) * Cardinality(Subtasks)
  <1>1. IsFiniteSet(Candidates) /\ IsFiniteSet(Subtasks)
    BY EngineAssumption, PlanAssumption
  <1>2. IsFiniteSet(Owners)
    BY <1>1, FS_Union DEF Owners
  <1>3. IsFiniteSet({"code", "review"} \X Owners)
    <2>1. IsFiniteSet({} \cup {"code", "review", "code", "review"})
      BY FS_EmptySet, FourMore
    <2>2. {} \cup {"code", "review", "code", "review"} = {"code", "review"}
      OBVIOUS
    <2> QED BY <1>2, <2>1, <2>2, FS_Product
  <1> DEFINE A == ({"code", "review"} \X Owners) \cup {Only("classify"), Only("investigate"), Only("plan"), Decompose}
             B == A \cup {Select, Verify, Integrate, Validate}
             C == B \cup {Repair, FinalReview, Repair, FinalReview}
  <1>4. IsFiniteSet(A)
    BY <1>3, FourMore
  <1>5. IsFiniteSet(B)
    <2> HIDE DEF A
    <2> QED BY <1>4, FourMore
  <1>6. IsFiniteSet(C)
    <2> HIDE DEF B
    <2> QED BY <1>5, FourMore
  <1>7. Nodes \in SUBSET C
    BY DEF Nodes, FixedGraph, DecomposedGraph, CodeAndReview, Code, Review, Prep, Owners
  <1>8. IsFiniteSet(Nodes)
    <2> HIDE DEF C
    <2> QED BY <1>6, <1>7, FS_Subset
  <1>9. IsFiniteSet(1..8) /\ Cardinality(1..8) = 8
    <2>1. \A n \in Nat : IsFiniteSet(1..n) /\ Cardinality(1..n) = n
      BY FS_Interval
    <2> QED BY <2>1
  <1>10. /\ Cardinality(Nodes) \in Nat /\ Cardinality(Candidates) \in Nat /\ Cardinality(Subtasks) \in Nat
    BY <1>1, <1>8, FS_CardinalityType
  <1>11. IsFiniteSet(1..Cardinality(Candidates)) /\ Cardinality(1..Cardinality(Candidates)) = Cardinality(Candidates)
    BY <1>10, FS_Interval
  <1>12. \A m, n \in Nat : m * n = n * m
    OBVIOUS
  <1>13. IsFiniteSet(WholeGraph) /\ Cardinality(WholeGraph) = Cardinality(Nodes) * 8
    BY <1>8, <1>9, FS_Product DEF WholeGraph
  <1>14. IsFiniteSet(AllTries) /\ Cardinality(AllTries) = Cardinality(Subtasks) * Cardinality(Candidates)
    BY <1>1, <1>11, FS_Product DEF AllTries
  <1> QED BY <1>10, <1>12, <1>13, <1>14

LEMMA Sizes ==
    /\ Cardinality(Ahead) \in 0..Cardinality(WholeGraph)
    /\ Cardinality(TryAhead) \in 0..Cardinality(AllTries)
    /\ LoopLeft \in 0..3 /\ PlanLeft \in Nat /\ Cardinality(WholeGraph) \in Nat
  <1>1. Ahead \in SUBSET WholeGraph /\ TryAhead \in SUBSET AllTries
    BY DEF Ahead, TryAhead
  <1>2. Cardinality(WholeGraph) \in Nat /\ Cardinality(AllTries) \in Nat
    BY GraphIsFinite, FS_CardinalityType
  <1>3. /\ Cardinality(Ahead) \in Nat /\ Cardinality(Ahead) <= Cardinality(WholeGraph)
        /\ Cardinality(TryAhead) \in Nat /\ Cardinality(TryAhead) <= Cardinality(AllTries)
    BY <1>1, GraphIsFinite, FS_Subset, FS_CardinalityType
  <1> QED BY <1>2, <1>3 DEF LoopLeft, PlanLeft

LEMMA SizesNext ==
    /\ Cardinality(Ahead') \in 0..Cardinality(WholeGraph)
    /\ Cardinality(TryAhead') \in 0..Cardinality(AllTries)
    /\ LoopLeft' \in 0..3 /\ PlanLeft' \in Nat /\ Cardinality(WholeGraph) \in Nat
  <1>1. Ahead' \in SUBSET WholeGraph /\ TryAhead' \in SUBSET AllTries
    BY DEF Ahead, TryAhead, WholeGraph, AllTries
  <1>2. Cardinality(WholeGraph) \in Nat /\ Cardinality(AllTries) \in Nat
    BY GraphIsFinite, FS_CardinalityType
  <1>3. /\ Cardinality(Ahead') \in Nat /\ Cardinality(Ahead') <= Cardinality(WholeGraph)
        /\ Cardinality(TryAhead') \in Nat /\ Cardinality(TryAhead') <= Cardinality(AllTries)
    BY <1>1, GraphIsFinite, FS_Subset, FS_CardinalityType
  <1> QED BY <1>2, <1>3 DEF LoopLeft, PlanLeft, WholeGraph

LEMMA LevelRange == Level \in [Nodes -> 0..8]
  BY DEF Level

LEMMA LevelRangeNext == Level' \in [Nodes -> 0..8]
  BY DEF Level

(* What a set loses. *)
LEMMA Loses ==
    ASSUME NEW S, IsFiniteSet(S), NEW T \in SUBSET S, NEW D \in SUBSET (S \ T)
    PROVE  Cardinality(T) + Cardinality(D) <= Cardinality(S)
  <1>1. IsFiniteSet(T) /\ IsFiniteSet(D)
    BY FS_Subset
  <1>2. T \cap D = {} /\ T \cup D \in SUBSET S
    OBVIOUS
  <1>3. Cardinality(T \cup D) = Cardinality(T) + Cardinality(D) - 0
    BY <1>1, <1>2, FS_Union, FS_EmptySet
  <1>4. Cardinality(T \cup D) <= Cardinality(S)
    BY <1>2, FS_Subset
  <1>5. Cardinality(T) \in Nat /\ Cardinality(D) \in Nat
    BY <1>1, FS_CardinalityType
  <1> QED BY <1>3, <1>4, <1>5

(* When no node gets farther from being dealt with, what is left goes down *)
(* by what any one of them comes nearer.                                   *)
LEMMA NodeAdvances ==
    ASSUME \A m \in Nodes : Level'[m] <= Level[m], NEW n \in Nodes
    PROVE  Cardinality(Ahead') + (Level[n] - Level'[n]) <= Cardinality(Ahead)
  <1> DEFINE a == Level'[n]
             b == Level[n]
             D == {n} \X (a + 1..b)
  <1>1. a \in 0..8 /\ b \in 0..8 /\ a <= b
    BY LevelRange, LevelRangeNext
  <1>2. \A m \in Nodes : Level[m] \in 0..8 /\ Level'[m] \in 0..8
    BY LevelRange, LevelRangeNext
  <1>3. Ahead' \in SUBSET Ahead
    BY <1>2 DEF Ahead, WholeGraph
  <1>4. IsFiniteSet(Ahead)
    <2>1. Ahead \in SUBSET WholeGraph
      BY DEF Ahead
    <2> QED BY <2>1, GraphIsFinite, FS_Subset
  <1>5. D \in SUBSET (Ahead \ Ahead')
    BY <1>1 DEF Ahead, WholeGraph
  <1>6. Cardinality(D) = b - a
    <2> HIDE DEF a, b
    <2>1. IsFiniteSet(a + 1..b) /\ Cardinality(a + 1..b) = b - a
      <3>1. a + 1 \in Int /\ b \in Int
        BY <1>1
      <3>2. IsFiniteSet(a + 1..b) /\ Cardinality(a + 1..b) = IF a + 1 > b THEN 0 ELSE b - (a + 1) + 1
        BY <3>1, FS_Interval
      <3> QED BY <1>1, <3>2
    <2>2. IsFiniteSet({n}) /\ Cardinality({n}) = 1
      BY FS_Singleton
    <2>3. Cardinality(D) = 1 * (b - a)
      BY <2>1, <2>2, FS_Product, ZenonT(40)
    <2> QED BY <1>1, <2>3
  <1> HIDE DEF D
  <1>7. Cardinality(Ahead') + Cardinality(D) <= Cardinality(Ahead)
    BY <1>3, <1>4, <1>5, Loses
  <1> QED BY <1>6, <1>7

LEMMA OneAdvances ==
    ASSUME NEW n \in Nodes, NEW a \in 0..8, NEW b \in 0..8, Level'[n] <= a, b <= Level[n], a <= b,
           \A m \in Nodes : m # n =>
              /\ status'[m] = status[m] /\ (m \in todo' <=> m \in todo)
              /\ m[1] = "code" => worker'[m[2]] = worker[m[2]]
    PROVE  Cardinality(Ahead') + (b - a) <= Cardinality(Ahead)
  <1>1. Level[n] \in 0..8 /\ Level'[n] \in 0..8
    BY LevelRange, LevelRangeNext
  <1>2. \A m \in Nodes : m # n => Level'[m] = Level[m]
    BY DEF Level
  <1>3. \A m \in Nodes : Level'[m] <= Level[m]
    <2> SUFFICES ASSUME NEW m \in Nodes PROVE Level'[m] <= Level[m]
      OBVIOUS
    <2>1. CASE m = n
      BY <1>1, <2>1
    <2>2. CASE m # n
      <3>1. Level[m] \in 0..8
        BY LevelRange
      <3> QED BY <1>2, <2>2, <3>1
    <2> QED BY <2>1, <2>2
  <1>4. Cardinality(Ahead') + (Level[n] - Level'[n]) <= Cardinality(Ahead)
    BY <1>3, NodeAdvances
  <1>5. Cardinality(Ahead') \in Nat /\ Cardinality(Ahead) \in Nat
    BY Sizes, SizesNext
  <1> QED BY <1>1, <1>4, <1>5

LEMMA EffortFrames ==
    /\ UNCHANGED <<todo, status, worker>> => Ahead' = Ahead
    /\ UNCHANGED tries => TryAhead' = TryAhead
    /\ UNCHANGED decomposed => PlanLeft' = PlanLeft
  BY DEF Ahead, Level, TryAhead, PlanLeft, WholeGraph

LEMMA LoopDrops ==
    ASSUME UNCHANGED <<tries, decomposed>>,
           Cardinality(Ahead') + LoopLeft' < Cardinality(Ahead) + LoopLeft
    PROVE  Effort' < Effort
  <1>1. Cardinality(TryAhead') = Cardinality(TryAhead) /\ PlanLeft' = PlanLeft
    BY EffortFrames
  <1>2. \A m, n, l, k, t, p \in Int : m + k < n + l => m + t + k + p < n + t + l + p
    OBVIOUS
  <1>3. /\ Cardinality(Ahead') \in Int /\ Cardinality(Ahead) \in Int /\ LoopLeft' \in Int /\ LoopLeft \in Int
        /\ Cardinality(TryAhead) \in Int /\ PlanLeft \in Int
    BY Sizes, SizesNext
  <1> QED BY <1>1, <1>2, <1>3 DEF Effort

(* The main loop between rounds and pools. *)
LEMMA LoopAdvances ==
    ASSUME IInv, \/ \E n \in Nodes : SkipDoomed(n)
                 \/ NoReadyNodes \/ StartPool \/ StartRound \/ EndRound \/ Finalize \/ RunFails \/ TwinPlan
                 \/ \E x \in Owners : RunCode(x)
    PROVE  Effort' < Effort
  <1> USE DEF IInv
  <1>0. /\ todo \subseteq Nodes /\ status \in [Nodes -> Statuses] /\ TypeOK
        /\ worker \in [Owners -> {"none", "queued", "busy", "returned", "raised", "collected"}]
        /\ Cardinality(Ahead') \in Nat /\ Cardinality(Ahead) \in Nat
    BY Sizes, SizesNext DEF TypeOK
  <1>1. ASSUME pc \in {"loop", "round"}, NEW n \in Nodes PROVE n[1] = "code" => n[2] \in Owners /\ worker[n[2]] = "none"
    BY <1>1, NodesOf DEF ThreadsInStep, Code
  <1>2. ASSUME NEW n \in Nodes, SkipDoomed(n) PROVE Effort' < Effort
    <2>1. /\ pc = "loop" /\ pc' = pc /\ todo' = todo /\ worker' = worker
          /\ UNCHANGED <<tries, decomposed>> /\ status[n] = "waiting" /\ status'[n] = "skipped"
          /\ \A m \in Nodes : m # n => status'[m] = status[m]
      BY <1>0, <1>2 DEF SkipDoomed, Doomed, Waiting, poolv, subv
    <2>2. Level'[n] <= 0 /\ 4 <= Level[n]
      BY <1>1, <2>1 DEF Level
    <2>3. Cardinality(Ahead') + 4 <= Cardinality(Ahead)
      BY <2>1, <2>2, OneAdvances
    <2>4. LoopLeft' = LoopLeft /\ LoopLeft \in Nat
      BY <2>1 DEF LoopLeft
    <2> QED BY <1>0, <2>1, <2>3, <2>4, LoopDrops
  <1>3. CASE NoReadyNodes
    <2>1. PICK n \in Waiting : TRUE
      BY <1>3 DEF NoReadyNodes
    <2>2. /\ pc = "loop" /\ pc' = pc /\ todo' = todo /\ worker' = worker
          /\ UNCHANGED <<tries, decomposed>> /\ n \in Nodes /\ status[n] = "waiting"
          /\ \A m \in Nodes : status'[m] = IF status[m] = "waiting" THEN "skipped" ELSE status[m]
      BY <1>0, <1>3, <2>1 DEF NoReadyNodes, Waiting, poolv, subv
    <2>3. Level'[n] = 0 /\ 4 <= Level[n] /\ Level[n] \in 0..8
      BY <1>1, <2>2 DEF Level
    <2>4. \A m \in Nodes : Level'[m] <= Level[m]
      <3> SUFFICES ASSUME NEW m \in Nodes PROVE Level'[m] <= Level[m]
        OBVIOUS
      <3>1. CASE status[m] = "waiting"
        BY <1>1, <2>2, <3>1 DEF Level
      <3>2. CASE status[m] # "waiting"
        BY <2>2, <3>2 DEF Level
      <3> QED BY <3>1, <3>2
    <2>5. Cardinality(Ahead') + (Level[n] - Level'[n]) <= Cardinality(Ahead)
      BY <2>2, <2>4, NodeAdvances
    <2>6. LoopLeft' = LoopLeft /\ LoopLeft \in Nat
      BY <2>2 DEF LoopLeft
    <2> QED BY <1>0, <2>2, <2>3, <2>5, <2>6, LoopDrops
  <1>4. ASSUME NEW X \in SUBSET Owners, Submit(X), pc \in {"loop", "round"}, NEW x \in X,
               \A y \in X : status[Code(y)] = "waiting", todo' \subseteq todo,
               \A n \in todo \ todo' : \E y \in X : n = Code(y), UNCHANGED tries,
               (pc = "round" => Code(x) \in todo) /\ (pc = "loop" => Code(x) \notin todo)
        PROVE  Effort' < Effort
    <2>1. /\ pc' = "pool" /\ status' = status /\ UNCHANGED decomposed /\ Code(x) \in Nodes
          /\ \A y \in Owners : worker'[y] = IF y \in X THEN "queued" ELSE "none"
      BY <1>1, <1>4, NodesOf DEF Submit, ThreadsInStep
    <2>2. \A m \in Nodes : Level'[m] <= Level[m]
      <3> SUFFICES ASSUME NEW m \in Nodes PROVE Level'[m] <= Level[m]
        OBVIOUS
      <3>1. CASE m[1] = "code" /\ m[2] \in X
        <4>1. m = Code(m[2])
          BY <3>1, NodesOf DEF Code
        <4>2. status[m] = "waiting" /\ Level'[m] = 4
          BY <1>4, <2>1, <3>1, <4>1 DEF Level
        <4> QED BY <4>2 DEF Level
      <3>2. CASE ~(m[1] = "code" /\ m[2] \in X)
        <4>1. m \in todo <=> m \in todo'
          BY <1>4, <3>2 DEF Code
        <4>2. m[1] = "code" => worker[m[2]] = "none" /\ worker'[m[2]] = "none"
          BY <1>1, <1>4, <2>1, <3>2
        <4>3. Level'[m] = Level[m] /\ Level[m] \in 0..8
          BY <2>1, <4>1, <4>2, LevelRange DEF Level
        <4> QED BY <4>3
      <3> QED BY <3>1, <3>2
    <2>3. worker[x] = "none" /\ worker'[x] = "queued" /\ Code(x)[1] = "code" /\ Code(x)[2] = x
          /\ status[Code(x)] = "waiting"
      BY <1>1, <1>4, <2>1 DEF Code
    <2>4. Level'[Code(x)] = 4 /\ Level[Code(x)] = IF pc = "round" THEN 6 ELSE 8
      BY <1>4, <2>1, <2>3 DEF Level
    <2>5. Cardinality(Ahead') + (Level[Code(x)] - Level'[Code(x)]) <= Cardinality(Ahead)
      BY <2>1, <2>2, NodeAdvances
    <2>6. LoopLeft' = 3 /\ LoopLeft = IF pc = "round" THEN 2 ELSE 1
      BY <1>4, <2>1 DEF LoopLeft
    <2>7. Cardinality(Ahead') + LoopLeft' < Cardinality(Ahead) + LoopLeft
      BY <1>0, <2>4, <2>5, <2>6
    <2> QED BY <1>4, <2>1, <2>7, LoopDrops
  <1>5. CASE StartPool
    <2>1. ReadyCode # {}
      BY <1>5, FS_EmptySet DEF StartPool
    <2>2. PICK x \in ReadyCode : TRUE
      BY <2>1
    <2>3. /\ pc = "loop" /\ Submit(ReadyCode) /\ todo = {} /\ todo' = {} /\ UNCHANGED tries
          /\ ReadyCode \in SUBSET Owners /\ \A y \in ReadyCode : status[Code(y)] = "waiting"
      BY <1>5 DEF StartPool, RoundInStep, ReadyCode, Ready, Waiting, Submit, subv
    <2> QED BY <1>4, <2>2, <2>3
  <1>6. CASE StartRound
    <2>1. PICK n \in Ready : TRUE
      BY <1>6 DEF StartRound
    <2>2. /\ pc = "loop" /\ pc' = "round" /\ todo = {} /\ todo' = Ready /\ worker' = worker
          /\ UNCHANGED <<status, tries, decomposed>> /\ n \in Nodes /\ status[n] = "waiting"
      BY <1>6, <2>1 DEF StartRound, RoundInStep, Ready, Waiting, poolv, subv
    <2>3. Level'[n] = 6 /\ Level[n] = 8
      BY <1>1, <2>1, <2>2 DEF Level
    <2>4. \A m \in Nodes : Level'[m] <= Level[m]
      <3> SUFFICES ASSUME NEW m \in Nodes PROVE Level'[m] <= Level[m]
        OBVIOUS
      <3>1. CASE status[m] = "waiting"
        BY <1>1, <2>2, <3>1 DEF Level
      <3>2. CASE status[m] # "waiting"
        BY <2>2, <3>2 DEF Level
      <3> QED BY <3>1, <3>2
    <2>5. Cardinality(Ahead') + (Level[n] - Level'[n]) <= Cardinality(Ahead)
      BY <2>2, <2>4, NodeAdvances
    <2>6. LoopLeft' = 2 /\ LoopLeft = 1
      BY <2>2 DEF LoopLeft
    <2> QED BY <1>0, <2>2, <2>3, <2>5, <2>6, LoopDrops
  <1>7. CASE EndRound \/ Finalize \/ RunFails \/ TwinPlan
    <2>1. UNCHANGED <<todo, status, worker, tries, decomposed>>
      BY <1>7 DEF EndRound, Finalize, RunFails, TwinPlan, graphv, poolv, subv
    <2>2. LoopLeft' < LoopLeft /\ LoopLeft \in Nat /\ LoopLeft' \in Nat
      BY <1>7 DEF EndRound, Finalize, RunFails, TwinPlan, LoopLeft
    <2>3. Ahead' = Ahead
      BY <2>1, EffortFrames
    <2> QED BY <1>0, <2>1, <2>2, <2>3, LoopDrops
  <1>8. ASSUME NEW x \in Owners, RunCode(x) PROVE Effort' < Effort
    <2>1. /\ pc = "round" /\ Submit({x}) /\ Code(x) \in todo /\ todo' = todo \ {Code(x)} /\ UNCHANGED tries
          /\ status[Code(x)] = "waiting"
      BY <1>8 DEF RunCode, RoundInStep, Submit, subv
    <2>2. {x} \in SUBSET Owners /\ \A y \in {x} : status[Code(y)] = "waiting"
      BY <2>1
    <2> QED BY <1>4, <2>1, <2>2
  <1> QED BY <1>2, <1>3, <1>5, <1>6, <1>7, <1>8

(* The threads and the pool. *)
LEMMA PoolAdvances ==
    ASSUME IInv, UNCHANGED <<tries, decomposed>>,
           \/ \E x \in Owners : Acquire(x) \/ Collect(x)
           \/ \E x \in Owners, how \in {"returned", "raised"}, st \in Ends \cup {"running"} : Left(x, how, st)
           \/ EndPool \/ PoolUnwound
    PROVE  Effort' < Effort
  <1> USE DEF IInv
  <1>0. /\ status \in [Nodes -> Statuses] /\ TypeOK
        /\ worker \in [Owners -> {"none", "queued", "busy", "returned", "raised", "collected"}]
        /\ Cardinality(Ahead') \in Nat /\ Cardinality(Ahead) \in Nat /\ LoopLeft \in Nat /\ LoopLeft' \in Nat
    BY Sizes, SizesNext DEF TypeOK
  <1>1. ASSUME NEW x \in Owners, NEW a \in 0..8, NEW b \in 0..8, a < b,
               Level'[Code(x)] <= a, b <= Level[Code(x)], todo' = todo, LoopLeft' <= LoopLeft,
               \A y \in Owners : y # x => worker'[y] = worker[y],
               \A m \in Nodes : m # Code(x) => status'[m] = status[m]
        PROVE  Effort' < Effort
    <2>1. Code(x) \in Nodes
      BY NodesOf
    <2>2. \A m \in Nodes : m # Code(x) => /\ status'[m] = status[m] /\ (m \in todo' <=> m \in todo)
                                          /\ m[1] = "code" => worker'[m[2]] = worker[m[2]]
      BY <1>1, NodesOf DEF Code
    <2>3. Cardinality(Ahead') + (b - a) <= Cardinality(Ahead)
      BY <1>1, <2>1, <2>2, OneAdvances
    <2>4. Cardinality(Ahead') + LoopLeft' < Cardinality(Ahead) + LoopLeft
      BY <1>0, <1>1, <2>3
    <2> QED BY <2>4, LoopDrops
  <1>2. ASSUME NEW x \in Owners PROVE Code(x) \in Nodes /\ Code(x)[1] = "code" /\ Code(x)[2] = x
    BY NodesOf DEF Code
  <1>3. ASSUME NEW x \in Owners, Acquire(x) PROVE Effort' < Effort
    <2>1. /\ worker[x] = "queued" /\ status[Code(x)] = "waiting" /\ Code(x) \notin todo
          /\ worker'[x] = "busy" /\ status'[Code(x)] = "running" /\ todo' = todo /\ pc' = pc
          /\ \A y \in Owners : y # x => worker'[y] = worker[y]
          /\ \A m \in Nodes : m # Code(x) => status'[m] = status[m]
      BY <1>0, <1>2, <1>3 DEF Acquire, ThreadsInStep, ThreadStatus
    <2>2. Level'[Code(x)] = 3 /\ Level[Code(x)] = 4 /\ LoopLeft' = LoopLeft
      BY <1>2, <2>1 DEF Level, LoopLeft
    <2> QED BY <1>0, <1>1, <2>1, <2>2
  <1>4. ASSUME NEW x \in Owners, NEW how \in {"returned", "raised"}, NEW st \in Ends \cup {"running"}, Left(x, how, st)
        PROVE  Effort' < Effort
    <2>1. /\ worker[x] = "busy" /\ status[Code(x)] = "running"
          /\ worker'[x] = how /\ status'[Code(x)] = st /\ todo' = todo /\ pc' = pc
          /\ \A y \in Owners : y # x => worker'[y] = worker[y]
          /\ \A m \in Nodes : m # Code(x) => status'[m] = status[m]
      BY <1>0, <1>2, <1>4 DEF Left, Leave, ThreadsInStep, ThreadStatus
    <2>2. Level'[Code(x)] = 2 /\ Level[Code(x)] = 3 /\ LoopLeft' = LoopLeft
      BY <1>2, <1>4, <2>1 DEF Level, LoopLeft, Ends
    <2> QED BY <1>0, <1>1, <2>1, <2>2
  <1>5. ASSUME NEW x \in Owners, Collect(x) PROVE Effort' < Effort
    <2>1. /\ worker[x] \in {"returned", "raised"} /\ status[Code(x)] # "waiting"
          /\ worker'[x] = "collected" /\ status'[Code(x)] # "waiting" /\ todo' = todo
          /\ pc = "pool" /\ pc' \in {"pool", "unwinding"}
          /\ \A y \in Owners : y # x => worker'[y] = worker[y]
          /\ \A m \in Nodes : m # Code(x) => status'[m] = status[m]
      BY <1>0, <1>2, <1>5 DEF Collect, ThreadsInStep, ThreadStatus, Ends
    <2>2. Level'[Code(x)] = 1 /\ Level[Code(x)] = 2 /\ LoopLeft' = LoopLeft
      BY <1>2, <2>1 DEF Level, LoopLeft
    <2> QED BY <1>0, <1>1, <2>1, <2>2
  <1>6. CASE EndPool
    <2>1. /\ pc = "pool" /\ pc' = "round" /\ todo' = todo /\ status' = status
          /\ \A x \in Owners : worker[x] \in {"none", "collected"} /\ worker'[x] = "none"
      BY <1>0, <1>6 DEF EndPool, AllCollected, graphv
    <2>2. \A m \in Nodes : Level'[m] <= Level[m]
      <3> SUFFICES ASSUME NEW m \in Nodes PROVE Level'[m] <= Level[m]
        OBVIOUS
      <3>1. m[1] = "code" => worker[m[2]] \in {"none", "collected"} /\ worker'[m[2]] = "none"
        BY <2>1, NodesOf DEF Code
      <3> QED BY <2>1, <3>1 DEF Level
    <2>3. Prep \subseteq Nodes /\ Prep # {}
      BY NodesOf DEF Prep
    <2>4. PICK n \in Nodes : TRUE
      BY <2>3
    <2>5. Cardinality(Ahead') + (Level[n] - Level'[n]) <= Cardinality(Ahead)
      BY <2>2, NodeAdvances
    <2>6. Level[n] \in 0..8 /\ Level'[n] \in 0..8 /\ Level'[n] <= Level[n]
      BY <2>2, LevelRange, LevelRangeNext
    <2>7. LoopLeft = 3 /\ LoopLeft' = 2
      BY <2>1 DEF LoopLeft
    <2>8. Cardinality(Ahead') + LoopLeft' < Cardinality(Ahead) + LoopLeft
      BY <1>0, <2>5, <2>6, <2>7
    <2> QED BY <2>8, LoopDrops
  <1>7. CASE PoolUnwound
    <2>1. pc = "unwinding" /\ pc' = "crashed" /\ UNCHANGED <<todo, status, worker>>
      BY <1>7 DEF PoolUnwound, graphv, poolv
    <2>2. Ahead' = Ahead
      BY <2>1, EffortFrames
    <2>3. LoopLeft = 3 /\ LoopLeft' = 0
      BY <2>1 DEF LoopLeft
    <2> QED BY <1>0, <2>2, <2>3, LoopDrops
  <1> QED BY <1>3, <1>4, <1>5, <1>6, <1>7

(* A handler deals with a node for good. *)
LEMMA HandlerAdvances ==
    ASSUME IInv, NEW n \in Nodes, NEW st \in Terminal, Handled(n, st)
    PROVE  Effort' < Effort
  <1> USE DEF IInv
  <1>0. /\ status \in [Nodes -> Statuses] /\ todo \subseteq Nodes
        /\ Cardinality(Ahead') \in Nat /\ Cardinality(Ahead) \in Nat /\ LoopLeft \in Nat
    BY Sizes, SizesNext DEF TypeOK
  <1>1. /\ status[n] = "waiting" /\ status'[n] = st /\ n \in todo /\ n[1] # "code"
        /\ todo' = todo \ {n} /\ pc' = pc /\ worker' = worker /\ UNCHANGED <<tries, decomposed>>
        /\ \A m \in Nodes : m # n => status'[m] = status[m]
    BY <1>0 DEF Handled, Settle, RoundInStep, poolv, subv
  <1>2. Level'[n] = 0 /\ Level[n] = 6 /\ LoopLeft' = LoopLeft
    BY <1>1 DEF Level, LoopLeft, Terminal, Broken
  <1>3. Cardinality(Ahead') + (6 - 0) <= Cardinality(Ahead)
    BY <1>1, <1>2, OneAdvances
  <1> QED BY <1>0, <1>1, <1>2, <1>3, LoopDrops

(* An attempt of a subtask is one of those it had left. *)
LEMMA AttemptAdvances ==
    ASSUME IInv, NEW s \in Subtasks, SubtaskAttempt(s)
    PROVE  Effort' < Effort
  <1> USE DEF IInv
  <1>1. /\ tries \in [Subtasks -> 0..Cardinality(Candidates)] /\ tries[s] < Cardinality(Candidates)
        /\ tries' = [tries EXCEPT ![s] = @ + 1]
        /\ UNCHANGED <<pc, todo, status, worker, decomposed>>
    BY DEF SubtaskAttempt, AttemptsLeft, TypeOK, graphv, poolv
  <1>2. Cardinality(Candidates) \in Nat /\ IsFiniteSet(AllTries)
    BY GraphIsFinite
  <1>3. TryAhead \in SUBSET AllTries
    BY DEF TryAhead
  <1>4. IsFiniteSet(TryAhead)
    BY <1>2, <1>3, FS_Subset
  <1>5. TryAhead' \in SUBSET TryAhead
    BY <1>1, <1>2 DEF TryAhead, AllTries
  <1>6. {<<s, tries[s] + 1>>} \in SUBSET (TryAhead \ TryAhead')
    BY <1>1, <1>2 DEF TryAhead, AllTries
  <1>7. Cardinality(TryAhead') + 1 <= Cardinality(TryAhead)
    <2>1. Cardinality({<<s, tries[s] + 1>>}) = 1
      BY FS_Singleton
    <2> QED BY <1>4, <1>5, <1>6, <2>1, Loses
  <1>8. Ahead' = Ahead /\ PlanLeft' = PlanLeft
    BY <1>1, EffortFrames
  <1>9. LoopLeft' = LoopLeft
    BY <1>1 DEF LoopLeft
  <1>10. /\ Cardinality(TryAhead') \in Nat /\ Cardinality(TryAhead) \in Nat
         /\ Cardinality(Ahead) \in Nat /\ LoopLeft \in Nat /\ PlanLeft \in Nat
    BY Sizes, SizesNext
  <1> QED BY <1>7, <1>8, <1>9, <1>10 DEF Effort

(* The replacement gives back less than the graph it was owed. *)
LEMMA ReplacementAdvances ==
    ASSUME IInv, ReplaceGraph
    PROVE  Effort' < Effort
  <1> USE DEF IInv
  <1>1. /\ ~decomposed /\ decomposed' = TRUE /\ pc' = pc /\ tries' = tries
        /\ Decompose \in Nodes /\ Decompose \in todo /\ status[Decompose] = "waiting"
    BY ReplacedGraph, NodesOf DEF ReplaceGraph, subv
  <1>2. Level[Decompose] = 6
    BY <1>1 DEF Level, Decompose, Only
  <1>3. <<Decompose, 1>> \in Ahead
    BY <1>1, <1>2 DEF Ahead, WholeGraph
  <1>4. Cardinality(Ahead) # 0
    <2>1. Ahead \in SUBSET WholeGraph
      BY DEF Ahead
    <2>2. IsFiniteSet(Ahead)
      BY <2>1, GraphIsFinite, FS_Subset
    <2> QED BY <1>3, <2>2, FS_EmptySet
  <1>5. PlanLeft = Cardinality(WholeGraph) /\ PlanLeft' = 0
    BY <1>1 DEF PlanLeft
  <1>6. LoopLeft' = LoopLeft /\ TryAhead' = TryAhead
    BY <1>1, EffortFrames DEF LoopLeft
  <1>7. /\ Cardinality(TryAhead) \in Nat /\ Cardinality(WholeGraph) \in Nat
        /\ Cardinality(Ahead) \in Nat /\ LoopLeft \in Nat
        /\ Cardinality(Ahead') \in Nat /\ Cardinality(Ahead') <= Cardinality(WholeGraph)
    BY Sizes, SizesNext
  <1> QED BY <1>4, <1>5, <1>6, <1>7 DEF Effort

LEMMA EffortStep == IInv /\ Next => Effort' < Effort
  <1> SUFFICES ASSUME IInv, Next PROVE Effort' < Effort
    OBVIOUS
  <1>1. CASE ReplaceGraph
    BY <1>1, ReplacementAdvances
  <1>2. CASE RunFails \/ TwinPlan \/ NoReadyNodes \/ StartPool \/ StartRound \/ EndRound \/ Finalize
    BY <1>2, LoopAdvances
  <1>3. ASSUME NEW n \in Nodes, SkipDoomed(n) PROVE Effort' < Effort
    BY <1>3, LoopAdvances
  <1>4. ASSUME NEW x \in Owners, RunCode(x) PROVE Effort' < Effort
    BY <1>4, LoopAdvances
  <1>5. ASSUME NEW x \in Owners, Collect(x) \/ Acquire(x) PROVE Effort' < Effort
    <2>1. UNCHANGED <<tries, decomposed>>
      BY <1>5 DEF Collect, Acquire, subv
    <2> QED BY <1>5, <2>1, PoolAdvances
  <1>6. CASE EndPool \/ PoolUnwound
    <2>1. UNCHANGED <<tries, decomposed>>
      BY <1>6 DEF EndPool, PoolUnwound, graphv, subv
    <2> QED BY <1>6, <2>1, PoolAdvances
  <1>7. ASSUME NEW x \in Owners, NEW how \in {"returned", "raised"}, NEW st \in Ends \cup {"running"}, Left(x, how, st),
               UNCHANGED tries
        PROVE  Effort' < Effort
    <2>1. UNCHANGED <<tries, decomposed>>
      BY <1>7 DEF Left, Leave
    <2> QED BY <1>7, <2>1, PoolAdvances
  <1>8. CASE Work
    <2> USE DEF Left, Ends, Owners, subv
    <2>1. ASSUME NEW c \in Candidates, CandidateReturns(c)
          PROVE  UNCHANGED tries /\ \E st \in Ends : Left(c, "returned", st)
      BY <2>1 DEF CandidateReturns
    <2>2. ASSUME NEW c \in Candidates, CandidateRaises(c)
          PROVE  UNCHANGED tries /\ \E st \in Ends \cup {"running"} : Left(c, "raised", st)
      BY <2>2 DEF CandidateRaises
    <2>3. ASSUME NEW s \in Subtasks, SubtaskReturns(s) \/ SubtaskRaises(s)
          PROVE  UNCHANGED tries /\ \E st \in Ends : Left(s, "returned", st)
      BY <2>3 DEF SubtaskReturns, SubtaskRaises
    <2>4. \/ \E x \in Owners : Acquire(x)
          \/ \E s \in Subtasks : SubtaskAttempt(s)
          \/ UNCHANGED tries /\ \E x \in Owners, how \in {"returned", "raised"}, st \in Ends \cup {"running"} : Left(x, how, st)
      <3> HIDE DEF Left, Ends, subv
      <3> QED BY <1>8, <2>1, <2>2, <2>3 DEF Work
    <2> HIDE DEF Left, Ends, Owners, subv
    <2> QED BY <1>5, <1>7, <2>4, AttemptAdvances
  <1>9. CASE ExecuteNode
    BY <1>9, Handlers, HandlerAdvances
  <1> QED BY <1>1, <1>2, <1>3, <1>4, <1>5, <1>6, <1>8, <1>9 DEF Next, Progress, WithinPlan

LEMMA EffortAtFirst == Init => Effort <= RunSteps
  <1> SUFFICES ASSUME Init PROVE Effort <= RunSteps
    OBVIOUS
  <1>1. LoopLeft = 1 /\ PlanLeft = Cardinality(WholeGraph)
    BY DEF Init, LoopLeft, PlanLeft
  <1>2. /\ Cardinality(Ahead) \in Nat /\ Cardinality(Ahead) <= Cardinality(WholeGraph)
        /\ Cardinality(TryAhead) \in Nat /\ Cardinality(TryAhead) <= Cardinality(AllTries)
    <2>1. Cardinality(AllTries) \in Nat
      BY GraphIsFinite, FS_CardinalityType
    <2> QED BY <2>1, Sizes
  <1>3. /\ Cardinality(Nodes) \in Nat /\ Cardinality(WholeGraph) = 8 * Cardinality(Nodes)
        /\ Cardinality(AllTries) = Cardinality(Candidates) * Cardinality(Subtasks)
    BY GraphIsFinite
  <1>4. \A a, t, w, p, n \in Int : a <= w /\ t <= p /\ w = 8 * n => a + t + 1 + w <= 16 * n + p + 1
    OBVIOUS
  <1>5. Cardinality(AllTries) \in Int /\ Cardinality(WholeGraph) \in Int
    BY GraphIsFinite, FS_CardinalityType
  <1>6. Effort <= 16 * Cardinality(Nodes) + Cardinality(AllTries) + 1
    BY <1>1, <1>2, <1>3, <1>4, <1>5 DEF Effort
  <1> QED BY <1>3, <1>6 DEF RunSteps

(* A run comes to rest: what is left to do is a natural number, and every  *)
(* step of the main loop, of a handler or of a thread makes it smaller,    *)
(* the replacement of the graph, the retries and whatever raises included. *)
(* So a run has no infinite execution, whoever is scheduled, and no more   *)
(* steps than RunSteps, until it has ended or its plan names one subtask   *)
(* twice: from there on it is followed no further, and has no bound.       *)
THEOREM RunBounded ==
    Spec => Effort <= RunSteps /\ [](Effort \in Nat) /\ [][Effort' < Effort]_vars
  <1>1. IInv => Effort \in Nat
    BY Sizes DEF Effort
  <1>2. IInv /\ [Next]_vars => [Effort' < Effort]_vars
    BY EffortStep
  <1>3. Spec => Effort <= RunSteps
    BY EffortAtFirst DEF Spec
  <1> QED BY <1>1, <1>2, <1>3, RunInvariant, PTL DEF Spec

-----------------------------------------------------------------------------
(* The guards of the steps: of the main loop and of a round, whose code    *)
(* nodes need a backend ...                                                *)
LoopReady ==
    \/ pc = "loop" /\ (Waiting = {} \/ Doomed # {} \/ Ready = {} \/ Backends # {})
    \/ pc = "round" /\ todo = {}
    \/ pc = "round" /\ \E n \in todo :
          \/ n \in Prep \cup {Decompose, Select, Integrate, Validate, Repair, FinalReview, Verify}
          \/ \E x \in Owners : n = Review(x) \/ (n = Code(x) /\ Backends # {})

(* ... of the main thread in a pool ...                                    *)
PoolReady ==
    \/ pc = "pool" /\ (AllCollected \/ \E x \in Owners : worker[x] \in {"returned", "raised"})
    \/ pc = "unwinding" /\ NoneAtWork

(* ... and of the threads.                                                 *)
ThreadReady ==
    \E x \in Owners :
        \/ worker[x] = "busy"
        \/ /\ worker[x] = "queued"
           /\ Cardinality({y \in Busy : backend[y] = backend[x]}) < MaxParallel[backend[x]]

(* A run is never stuck, once there is a backend and if no plan that is    *)
(* accepted names one subtask twice: until it has ended, the guard of some *)
(* step other than a failure of the run holds.  Whatever waits on the      *)
(* semaphore of its backend waits for a thread that is at work, and the    *)
(* main thread for one that is or can be.                                  *)
THEOREM RunNeverStuck ==
    ASSUME Backends # {}, ~TwinsAccepted
    PROVE  Spec => [](pc \in {"done", "crashed"} \/ LoopReady \/ PoolReady \/ ThreadReady)
  <1>1. ASSUME IInv PROVE pc \in {"done", "crashed"} \/ LoopReady \/ PoolReady \/ ThreadReady
    <2> USE <1>1 DEF IInv
    <2>0. /\ pc \in {"loop", "round", "pool", "unwinding", "done", "crashed", "astray"} /\ todo \subseteq Nodes
          /\ worker \in [Owners -> {"none", "queued", "busy", "returned", "raised", "collected"}]
      BY DEF TypeOK
    <2>1. CASE pc = "loop"
      BY <2>1 DEF LoopReady
    <2>2. CASE pc = "round"
      <3>1. ASSUME NEW n \in Nodes
            PROVE  \/ n \in Prep \cup {Decompose, Select, Integrate, Validate, Repair, FinalReview, Verify}
                   \/ \E x \in Owners : n = Review(x) \/ n = Code(x)
        BY DEF Nodes, FixedGraph, DecomposedGraph, CodeAndReview, Owners
      <3> QED BY <2>0, <2>2, <3>1 DEF LoopReady
    <2>3. ASSUME NEW x \in Owners, worker[x] \in {"queued", "busy"} PROVE ThreadReady
      <3>1. CASE Busy = {}
        <4>1. worker[x] = "queued" /\ backend[x] \in Backends
          BY <2>3, <3>1 DEF Busy, ThreadsInStep
        <4>2. {y \in Busy : backend[y] = backend[x]} = {}
          BY <3>1
        <4>3. MaxParallel[backend[x]] \in Nat /\ MaxParallel[backend[x]] > 0
          BY <4>1, EngineAssumption
        <4> QED BY <4>1, <4>2, <4>3, FS_EmptySet DEF ThreadReady
      <3>2. CASE Busy # {}
        BY <3>2 DEF Busy, ThreadReady
      <3> QED BY <3>1, <3>2
    <2>4. CASE pc = "pool"
      BY <2>0, <2>3, <2>4 DEF PoolReady, AllCollected
    <2>5. CASE pc = "unwinding"
      BY <2>0, <2>3, <2>5 DEF PoolReady, NoneAtWork
    <2>6. pc # "astray"
      BY DEF AstrayByTwins
    <2> QED BY <2>0, <2>1, <2>2, <2>4, <2>5, <2>6
  <1>2. IInv => pc \in {"done", "crashed"} \/ LoopReady \/ PoolReady \/ ThreadReady
    BY <1>1
  <1> QED BY <1>2, RunInvariant, PTL
=============================================================================
