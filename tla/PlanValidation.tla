----------------------------- MODULE PlanValidation -----------------------------
(***************************************************************************)
(* Which decompositions the graph engine activates: the deterministic      *)
(* validation of orchestration/planner.py, the validation by a model, and  *)
(* one revision.  A plan is a list of entries: the dependencies of each,   *)
(* which may not exist or go round in circles, and whether it may run side *)
(* by side with others; described stands for titles, objectives, criteria, *)
(* files and backends that are in order.  Nothing stops two entries from   *)
(* having one id, so a plan has the last entry of each subtask, which is   *)
(* what a dict of the entries keeps, and those before it, which it hides.  *)
(***************************************************************************)
EXTENDS Naturals, FiniteSets

CONSTANTS Subtasks,    \* the usable subtasks of the decomposition
          Strangers,   \* names that a plan may mention and that are no subtasks
          Proposals    \* the plans that the planner and the reviser may come up with

Entry == [deps : SUBSET (Subtasks \cup Strangers), parallel : {"yes", "no", "unsaid"}]

Plan == [last : [Subtasks -> Entry], hidden : [Subtasks -> SUBSET Entry], described : BOOLEAN]

ASSUME PlanAssumption ==
    /\ IsFiniteSet(Subtasks) /\ Strangers \cap Subtasks = {}
    /\ Proposals \subseteq Plan

MutCyclic(deps) == \E s \in DOMAIN deps : s \in deps[s]

(* The depth-first search.  It keeps the subtasks on its path; those that  *)
(* it has finished only save it work.                                      *)
Cyclic(deps) ==
    LET found[at \in (DOMAIN deps) \X (SUBSET DOMAIN deps)] ==
            \/ at[1] \in at[2]
            \/ \E t \in deps[at[1]] \cap DOMAIN deps : found[<<t, at[2] \cup {at[1]}>>]
    IN  \E s \in DOMAIN deps : found[<<s, {}>>]

AllKnown(deps) == \A s \in Subtasks : deps[s] \subseteq Subtasks

Deps(plan) == [s \in Subtasks |-> plan.last[s].deps]

Entries(plan, s) == {plan.last[s]} \cup plan.hidden[s]

Twins(plan) == {s \in Subtasks : plan.hidden[s] # {}}

(* The only check that sees the hidden entries.                            *)
ParallelSafe(plan) ==
    \A s, t \in Subtasks : \A a \in Entries(plan, s), b \in Entries(plan, t) :
        (s # t \/ a # b) /\ a.parallel = "yes" /\ b.parallel = "yes" => t \notin a.deps

Valid(plan) ==
    /\ Cardinality(Subtasks) >= 2 \/ Twins(plan) # {}
    /\ plan.described
    /\ AllKnown(Deps(plan)) /\ ~Cyclic(Deps(plan)) /\ ParallelSafe(plan)

Mended(entry) ==
    LET known == entry.deps \cap Subtasks IN
    [deps |-> known, parallel |-> IF entry.parallel # "unsaid" THEN entry.parallel
                                  ELSE IF known = {} THEN "yes" ELSE "no"]

(* repair_decomposition_plan_schema, applied to what the reviser returns:  *)
(* of entries with one id it keeps the first.                              *)
Repaired(plan) ==
    {[last |-> f, hidden |-> [s \in Subtasks |-> {}], described |-> plan.described] :
        f \in {g \in [Subtasks -> {Mended(e) : e \in UNION {Entries(plan, s) : s \in Subtasks}}] :
                 \A s \in Subtasks : g[s] \in {Mended(e) : e \in IF s \in Twins(plan) THEN plan.hidden[s]
                                                                ELSE {plan.last[s]}}}}

(* A valid plan is accepted if the model says so; if the model says no, or *)
(* nothing at all, a revision gets the same two validations.               *)
AcceptedPlans ==
    LET first  == {p \in Proposals : Valid(p)}
        second == IF first = {} THEN {} ELSE {p \in UNION {Repaired(q) : q \in Proposals} : Valid(p)}
    IN  first \cup second

(* The dependencies of the accepted plans that name every subtask once.    *)
Accepted == {Deps(p) : p \in {q \in AcceptedPlans : Twins(q) = {}}}

TwinsAccepted == \E p \in AcceptedPlans : Twins(p) # {}

(* What it means that the subtasks can be done one after the other.        *)
Runnable(deps) ==
    \E place \in [DOMAIN deps -> 1..Cardinality(DOMAIN deps)] :
        \A s \in DOMAIN deps : \A t \in deps[s] : t \in DOMAIN deps /\ place[t] < place[s]
=============================================================================
