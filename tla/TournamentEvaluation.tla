------------------------- MODULE TournamentEvaluation -------------------------
(***************************************************************************)
(* h_evaluate_tournament of agentic/tools.py, the tool that AdaptiveRun    *)
(* takes as one step: every candidate gets a review, by the model if there *)
(* is time, the deliverable ones are compared in pairs, all are ranked and *)
(* the selection is committed.  State is saved after every step, and a     *)
(* save or an event that cannot be written raises out of the tool; the     *)
(* next call goes on from what is there.  The clock runs while a model     *)
(* answers, and the budget is looked at before the first of the up to      *)
(* three requests for an answer only.                                      *)
(***************************************************************************)
EXTENDS Naturals, Sequences, FiniteSets, SequencesExt

CONSTANTS Candidates,     \* the attempts of the tournament, by number
          None,           \* no selection
          MaxTime,        \* of the run: timeout_seconds
          Guard,          \* finalization_guard_seconds
          EvaluationTime, \* tournament_evaluation_deadline_seconds
          ReviewReserve,  \* what the planned policy keeps for what follows a review
          PairReserve,    \* what it keeps for what follows a comparison
          MaxReviews,     \* the reviews that max_candidate_review_seconds pays for
          CallTimes,      \* how long a request to a model may take
          MaxEvaluations  \* bound of the model: calls of the tool

ASSUME EvaluationAssumption ==
    /\ Candidates \subseteq Nat \ {0} /\ IsFiniteSet(Candidates)
    /\ None \notin Candidates
    /\ {MaxTime, Guard, EvaluationTime, ReviewReserve, PairReserve, MaxReviews, MaxEvaluations} \subseteq Nat
    /\ CallTimes \subseteq Nat

VARIABLES
    pc,          \* idle, review, compare or commit
    todo,        \* the candidates, or the pairs of them, still to do
    asked,       \* the requests for the present answer that have got none
    reviews,     \* state.candidate_risk_reviews
    comparisons, \* state.pairwise_comparisons
    ranking,     \* state.tournament_ranking, best first
    selection,   \* state.selection
    coverage,    \* adaptive_context.pairwise_coverage
    left,        \* seconds until the timeout of the run
    due,         \* seconds until the deadline of the evaluation
    spent,       \* model reviews asked for in this evaluation
    compared,    \* model_pairwise_count of this evaluation
    overdrawn,   \* history: requests for a comparison made on the reserve in this evaluation
    bought,      \* history: those of them that a model answered
    late,        \* history: requests made within the guard
    evaluations, \* history: calls of the tool
    material,    \* the candidates with a patch that can be delivered
    planned,     \* tournament_budget_policy is planned
    backend      \* a review backend is configured

evidence   == <<reviews, comparisons>>
outcome    == <<ranking, selection>>
budget     == <<left, due, spent, compared>>
histories  == <<overdrawn, bought, late>>
configVars == <<material, planned, backend>>
vars == <<pc, todo, asked, evidence, outcome, coverage, budget, histories, evaluations, configVars>>

-----------------------------------------------------------------------------
(* Reviews.  The scores are what the critical gap in the evidence leaves   *)
(* of them.  No candidate of a tournament is validated, and the            *)
(* deterministic review of such a candidate always has a gap.              *)
Reviewed(by, gap) == [by |-> by, gap |-> gap]

Missing == Reviewed("nobody", FALSE)

Fallback == Reviewed("fallback", TRUE)

ModelReviews == {Reviewed("model", gap) : gap \in BOOLEAN}

MutFilled(rs, C) == [c \in Candidates |-> IF c \in C THEN Fallback ELSE rs[c]]

(* Every candidate of C without a review gets the deterministic one.       *)
Filled(rs, C) == [c \in Candidates |-> IF c \in C /\ rs[c] = Missing THEN Fallback ELSE rs[c]]

Exceeds(s, t) == \E i \in DOMAIN s : s[i] > t[i] /\ \A j \in 1..(i - 1) : s[j] = t[j]

Flag(b) == IF b THEN 1 ELSE 0

(* The elements of S with the highest key first; where keys tie, any way.  *)
Sorted(S, key) ==
    {rk \in SetToSeqs(S) :
        \A i, j \in DOMAIN rk : i < j => ~Exceeds(key[rk[j]], key[rk[i]])}

(* _rough_candidate_order, which the numbers leave one of.                 *)
RoughOrders(rs, C) ==
    Sorted(C, [c \in C |-> <<Flag(c \in material), Flag(rs[c].by = "model"), Flag(~rs[c].gap), c>>])

-----------------------------------------------------------------------------
(* Comparisons.  A comparison names the candidates in the order in which   *)
(* they were compared.                                                     *)
Comparison == [a : Candidates, b : Candidates, winner : Candidates \cup {None}, by : {"model", "fallback"}]

ByModel == {c \in Range(comparisons) : c.by = "model"}

PairOf(c) == {c.a, c.b}

MutDone(a, b) == \E c \in Range(comparisons) : c.a = a /\ c.b = b

Done(a, b) == \E c \in Range(comparisons) : PairOf(c) = {a, b}

(* _pairwise_pairs_by_priority: the three pairs of the best three first.   *)
Places(order) == {p \in (DOMAIN order) \X (DOMAIN order) : p[1] < p[2]}

Priority(p, n) == IF p[2] <= 3 THEN <<1, n - p[2], n - p[1]>> ELSE <<0, n - p[1], n - p[2]>>

(* Of these pairs, those that have not been compared yet.                  *)
ToCompare(order) ==
    LET new == {p \in Places(order) : ~Done(order[p[1]], order[p[2]])}
    IN  {[i \in DOMAIN first |-> <<order[first[i][1]], order[first[i][2]]>>] :
            first \in Sorted(new, [p \in new |-> Priority(p, Len(order))])}

MutClaimed(pairs) == pairs # {} /\ pairs \subseteq {PairOf(c) : c \in Range(comparisons)}

Claimed(pairs) == pairs # {} /\ pairs \subseteq {PairOf(c) : c \in ByModel}

(* What the evaluation says of its comparisons: of those that a model made *)
(* in any evaluation, but only when it made one in this.                   *)
Coverage(order) ==
    LET top(n) == {{order[p[1]], order[p[2]]} : p \in {q \in Places(order) : q[2] <= n}}
    IN  CASE compared > 0 /\ Claimed(top(Len(order))) -> "all"
          [] compared > 0 /\ ~Claimed(top(Len(order))) ->
                 IF Claimed(top(3)) THEN "top3" ELSE IF Claimed(top(2)) THEN "top2" ELSE "partial"
          [] OTHER -> IF comparisons # <<>> THEN "fallback-only" ELSE "not_run"

-----------------------------------------------------------------------------
(* The budget.                                                             *)
Within == left > Guard

Reserved(reserve) == planned /\ due <= reserve

MutMayReview == Within /\ ~Reserved(ReviewReserve)

MayReview == Within /\ ~(planned /\ spent >= MaxReviews) /\ ~Reserved(ReviewReserve)

MayCompare == Within /\ ~Reserved(PairReserve)

Minus(x, t) == IF x < t THEN 0 ELSE x - t

Elapse(t) == left' = Minus(left, t) /\ due' = Minus(due, t)

-----------------------------------------------------------------------------
(* _rank_tournament and commit_tournament_selection.                       *)
Wins(c)      == Cardinality({i \in DOMAIN comparisons : comparisons[i].winner = c})
ModelWins(c) == Cardinality({i \in DOMAIN comparisons : comparisons[i].winner = c /\ comparisons[i].by = "model"})
Losses(c)    == Cardinality({i \in DOMAIN comparisons :
                    c \in PairOf(comparisons[i]) /\ comparisons[i].winner \notin {c, None}})

(* Where these tie, the reviews' scores order the candidates, as any way.  *)
MutRanked ==
    Sorted(Candidates, [c \in Candidates |->
               <<Flag(~reviews[c].gap), ModelWins(c), Wins(c), Len(comparisons) - Losses(c)>>])

Ranked ==
    Sorted(Candidates, [c \in Candidates |->
               <<ModelWins(c), Wins(c), Len(comparisons) - Losses(c), Flag(~reviews[c].gap)>>])

(* _best_effort_rank_materializable_candidates, for patches of the same    *)
(* size and cost: the last one first.                                      *)
BestEffort == Sorted(material, [c \in material |-> <<c>>])

(* The first in the ranking that can be delivered, if there is one.        *)
Foremost(rk) ==
    {rk[i] : i \in {i \in DOMAIN rk : rk[i] \in material /\ \A j \in 1..(i - 1) : rk[j] \notin material}}

MutCommitted(rk) == IF rk = <<>> THEN selection ELSE Head(rk)

(* A selection stays.                                                      *)
Committed(rk) ==
    IF selection \in Candidates \/ Foremost(rk) = {} THEN selection ELSE CHOOSE c \in Foremost(rk) : TRUE

-----------------------------------------------------------------------------
Init ==
    /\ pc = "idle" /\ todo = <<>> /\ asked = 0
    /\ reviews = [c \in Candidates |-> Missing] /\ comparisons = <<>>
    /\ ranking = <<>> /\ selection = None /\ coverage = "not_run"
    /\ left \in 0..MaxTime /\ due = 0 /\ spent = 0 /\ compared = 0
    /\ overdrawn = 0 /\ bought = 0 /\ late = 0 /\ evaluations = 0
    /\ material \in SUBSET Candidates /\ planned \in BOOLEAN /\ backend \in BOOLEAN

Called ==
    /\ pc = "idle" /\ evaluations < MaxEvaluations
    /\ evaluations' = evaluations + 1

(* Too late for anything but the patches themselves.                       *)
EvaluateInHaste ==
    /\ Called /\ ~Within /\ material # {}
    /\ reviews' = Filled(reviews, material)
    /\ ranking' \in BestEffort
    /\ selection' = Committed(ranking')
    /\ UNCHANGED <<pc, todo, asked, comparisons, coverage, budget, histories, configVars>>

(* Everybody gets the deterministic review first.                          *)
Begin ==
    /\ Called /\ (Within \/ material = {})
    /\ reviews' = Filled(reviews, Candidates)
    /\ todo' \in RoughOrders(reviews', Candidates)
    /\ due' = EvaluationTime /\ spent' = 0 /\ compared' = 0 /\ overdrawn' = 0 /\ bought' = 0
    /\ pc' = "review"
    /\ UNCHANGED <<asked, comparisons, outcome, coverage, left, late, configVars>>

(* State is saved after each of these reviews.                             *)
BeginRaises ==
    /\ Called /\ (Within \/ material = {})
    /\ \E C \in SUBSET Candidates : reviews' = Filled(reviews, C)
    /\ UNCHANGED <<pc, todo, asked, comparisons, outcome, coverage, budget, histories, configVars>>

(* An answer is asked for with up to three prompts of decreasing size.     *)
(* The budget has been looked at before the first.                         *)
Requests == 3

AskedAgain == asked \in 1..(Requests - 1)

Request ==
    /\ \E t \in CallTimes : Elapse(t)
    /\ late' = IF Within THEN late ELSE late + 1

NoAnswer ==
    /\ asked' = asked + 1
    /\ UNCHANGED todo

Turn ==
    /\ todo' = Tail(todo)
    /\ asked' = 0

Answer ==
    /\ Turn
    /\ \E r \in ModelReviews : reviews' = [reviews EXCEPT ![Head(todo)] = r]
    /\ spent' = spent + 1

AskForReview ==
    /\ pc = "review" /\ todo # <<>>
    /\ AskedAgain \/ (asked = 0 /\ MayReview /\ backend)
    /\ Request
    /\ Answer \/ (NoAnswer /\ UNCHANGED <<reviews, spent>>)
    /\ UNCHANGED <<pc, comparisons, outcome, coverage, compared, overdrawn, bought, evaluations, configVars>>

(* The review there is stays.                                              *)
LeaveReview ==
    /\ pc = "review" /\ todo # <<>>
    /\ asked = Requests \/ (asked = 0 /\ ~(MayReview /\ backend))
    /\ Turn
    /\ spent' = IF asked = Requests \/ MayReview THEN spent + 1 ELSE spent
    /\ UNCHANGED <<pc, evidence, outcome, coverage, left, due, compared, histories, evaluations, configVars>>

EndReviews ==
    /\ pc = "review" /\ todo = <<>>
    /\ pc' = "compare"
    /\ \E order \in RoughOrders(reviews, material) : todo' \in ToCompare(order)
    /\ UNCHANGED <<asked, evidence, outcome, coverage, budget, histories, evaluations, configVars>>

(* Off budget, the pairs are left alone as soon as a model has compared    *)
(* one; until then it is asked for each, up to the guard.                  *)
MutLeaveOff == FALSE

LeaveOff == ~MayCompare /\ compared > 0

MutMayAsk == backend

MayAsk == backend /\ (MayCompare \/ compared > 0 \/ Within)

Compared(winner, by) ==
    comparisons' = Append(comparisons, [a |-> Head(todo)[1], b |-> Head(todo)[2], winner |-> winner, by |-> by])

Winners == {Head(todo)[1], Head(todo)[2], None}

(* What is asked for when the time for comparisons is over is paid from    *)
(* the reserve, answered or not.                                           *)
ModelCompares ==
    /\ Turn
    /\ \E w \in Winners : Compared(w, "model")
    /\ compared' = compared + 1
    /\ bought' = IF MayCompare THEN bought ELSE bought + 1

AskForComparison ==
    /\ pc = "compare" /\ todo # <<>>
    /\ AskedAgain \/ (asked = 0 /\ ~LeaveOff /\ MayAsk)
    /\ Request
    /\ overdrawn' = IF MayCompare THEN overdrawn ELSE overdrawn + 1
    /\ ModelCompares \/ (NoAnswer /\ UNCHANGED <<comparisons, compared, bought>>)
    /\ UNCHANGED <<pc, reviews, outcome, coverage, spent, evaluations, configVars>>

FallsBack ==
    /\ pc = "compare" /\ todo # <<>>
    /\ asked = Requests \/ (asked = 0 /\ ~LeaveOff /\ ~MayAsk)
    /\ Turn
    /\ \E w \in Winners : Compared(w, "fallback")
    /\ UNCHANGED <<pc, reviews, outcome, coverage, budget, histories, evaluations, configVars>>

Rank ==
    /\ pc = "compare" /\ asked = 0 /\ (todo = <<>> \/ LeaveOff)
    /\ ranking' \in Ranked
    /\ \E order \in RoughOrders(reviews, material) : coverage' = Coverage(order)
    /\ pc' = "commit" /\ todo' = <<>>
    /\ UNCHANGED <<asked, evidence, selection, budget, histories, evaluations, configVars>>

Commit ==
    /\ pc = "commit"
    /\ selection' = Committed(ranking)
    /\ pc' = "idle"
    /\ UNCHANGED <<todo, asked, evidence, ranking, coverage, budget, histories, evaluations, configVars>>

(* What has been set stays set.                                            *)
Raises ==
    /\ pc # "idle"
    /\ pc' = "idle" /\ todo' = <<>> /\ asked' = 0
    /\ UNCHANGED <<evidence, outcome, coverage, budget, histories, evaluations, configVars>>

(* Between two calls the recovery of the run commits what there is.        *)
RecoveryCommits ==
    /\ pc = "idle" /\ selection = None /\ material # {}
    /\ ranking' \in IF ranking = <<>> THEN BestEffort ELSE {ranking}
    /\ selection' = Committed(ranking')
    /\ UNCHANGED <<pc, todo, asked, evidence, coverage, budget, histories, evaluations, configVars>>

(* The run does something else.                                            *)
TimePasses ==
    /\ pc = "idle" /\ left > 0
    /\ left' = left - 1
    /\ UNCHANGED <<pc, todo, asked, evidence, outcome, coverage, due, spent, compared, histories, evaluations, configVars>>

Next ==
    \/ EvaluateInHaste \/ Begin \/ BeginRaises \/ AskForReview \/ LeaveReview \/ EndReviews
    \/ AskForComparison \/ FallsBack \/ Rank \/ Commit \/ Raises \/ RecoveryCommits \/ TimePasses

Spec == Init /\ [][Next]_vars

-----------------------------------------------------------------------------
(* The types.                                                              *)
TypeOK ==
    /\ pc \in {"idle", "review", "compare", "commit"}
    /\ \A c \in Candidates : reviews[c] \in ModelReviews \cup {Missing, Fallback}
    /\ comparisons \in Seq(Comparison)
    /\ Range(ranking) \subseteq Candidates
    /\ selection \in Candidates \cup {None}
    /\ left \in 0..MaxTime /\ due \in 0..EvaluationTime
    /\ planned => spent <= MaxReviews

(* However often the tool is called, interrupted and called again, and     *)
(* whatever order the reviews give the candidates, no two of them are      *)
(* compared twice: a repeated win would count twice in the ranking.        *)
ComparedOnce ==
    \A i, j \in DOMAIN comparisons : i # j => PairOf(comparisons[i]) # PairOf(comparisons[j])

(* What a model has said is not thrown away: no later evaluation puts a    *)
(* deterministic review in the place of a model's, or drops a comparison.  *)
ModelWorkKept ==
    [][/\ \A c \in Candidates : reviews[c].by = "model" => reviews'[c].by = "model"
       /\ IsPrefix(comparisons, comparisons')]_vars

(* When only the time to finalize the run is left, no model is asked for a *)
(* first time: in the whole run at most the two smaller prompts of one     *)
(* answer are sent then, whatever is called after them.                    *)
GuardKept == late < Requests

(* In one evaluation at most one comparison is bought from the reserve.    *)
(* What is spent on it beyond the requests for that one went into pairs    *)
(* for which no model gave an answer.                                      *)
ReserveHeld ==
    /\ bought <= 1
    /\ overdrawn <= Requests * (Len(comparisons) - compared + 1)

(* An evaluation that claims that a model compared every pair is right.    *)
CoverageEarned ==
    [][coverage' = "all" /\ pc' = "commit" =>
          \A a, b \in material : a # b => \E c \in ByModel : PairOf(c) = {a, b}]_vars

(* Of the candidates that can be delivered, when a model has compared each *)
(* with each and one of them beat all others, the ranking has it before    *)
(* all others, whatever the reviews' scores say.                           *)
Beats(a, b) == \E c \in ByModel : PairOf(c) = {a, b} /\ c.winner = a

UndefeatedFirst ==
    [][pc' = "commit" =>
          \A a \in material :
             /\ material # {a}
             /\ \A b, c \in material : b # c => \E x \in ByModel : PairOf(x) = {b, c}
             /\ \A b \in material \ {a} : Beats(a, b)
             => a \in Foremost(ranking')]_vars

(* Whatever the ranking holds, what is selected can be delivered.          *)
SelectionDeliverable == selection # None => selection \in material

(* The limits of an evaluation and what it selects: the parts above.       *)
EvaluationInv == TypeOK /\ GuardKept /\ ReserveHeld /\ SelectionDeliverable
================================================================================
