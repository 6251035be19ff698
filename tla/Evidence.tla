-------------------------------- MODULE Evidence --------------------------------
(***************************************************************************)
(* orchestrator/selection.py: what is known of a candidate when a winner   *)
(* is selected, how the candidates are ranked by it, and select_winner.    *)
(*                                                                         *)
(* The text of a command or of a statement is abstracted to what the       *)
(* regular expressions of the module make of it.                           *)
(***************************************************************************)
EXTENDS Integers, FiniteSets

CONSTANT None

(* A command the candidate ran, out of its debug directory: who its record *)
(* says the test is from, whether it is inline code or a scratch file, the *)
(* paths it names, whether it is a validation at all, how it ended, and    *)
(* whether it mentions an abnormal path.                                   *)
Command ==
    [meta : {"repo", "candidate", None}, inline : BOOLEAN,
     paths : {"none", "changed", "other", "several"}, validates : BOOLEAN,
     passed : {"yes", "no", "unknown"}, abnormal : BOOLEAN]

(* What the verifier says: successEvidence by what it reads like.          *)
Claim == {"behaviour", "source", "abnormal", "test"}

(* A verified candidate.  requires: a satisfied requirement, about a       *)
(* normal or an abnormal path; missing: the verifier's missingEvidence.    *)
Report ==
    [result : {1, 0, None}, confidence : 0..2, action : {"accept", "inspect"},
     covered : {"yes", "no", "unknown"}, proven : BOOLEAN, quoted : BOOLEAN,
     requires : {"nothing", "normal", "abnormal"}, missing : 0..1,
     log : SUBSET Command, claims : SUBSET Claim, patch : BOOLEAN]

Error == [result |-> None, confidence |-> 0, action |-> "inspect", covered |-> "unknown",
          proven |-> FALSE, quoted |-> FALSE, requires |-> "nothing", missing |-> 0,
          log |-> {}, claims |-> {}, patch |-> FALSE]

(* The patch is captured before the verifier runs and outlives its error.  *)
Errors == {Error, [Error EXCEPT !.patch = TRUE]}

-----------------------------------------------------------------------------
(* Where a test comes from: the record's word for it first.                *)
TestSource(c) ==
    CASE c.meta # None                     -> c.meta
      [] c.meta = None /\ c.inline         -> "candidate"
      [] c.meta = None /\ ~c.inline /\ c.paths = "changed" -> "candidate"
      [] c.meta = None /\ ~c.inline /\ c.paths = "several" -> "unknown"
      [] OTHER                             -> "repo"

LoggedTests(r) ==
    {[source |-> TestSource(c), passed |-> c.passed, abnormal |-> c.abnormal] :
        c \in {d \in r.log : d.validates}}

(* Without a test in the log, the verifier's statements that read like one *)
(* stand in for it.                                                        *)
Tests(r) ==
    IF LoggedTests(r) # {} THEN LoggedTests(r)
    ELSE {[source |-> "unknown", passed |-> "yes", abnormal |-> FALSE] : c \in r.claims \cap {"test"}}

Sources(r) == {t.source : t \in Tests(r)}

PassedTests(r, source) == {t \in Tests(r) : t.passed = "yes" /\ t.source = source}

(* Statements that count as seen at runtime, the ones about the source     *)
(* alone do not.                                                           *)
Behaviour(r) == r.claims \cap {"behaviour", "abnormal", "test"}

AbnormalSeen(r) ==
    \/ \E t \in PassedTests(r, "repo") : t.abnormal
    \/ "abnormal" \in r.claims

AbnormalByCandidate(r) == \E t \in PassedTests(r, "candidate") : t.abnormal

Risks(r) ==
    {f \in {"candidate-authored only", "no command log", "no repo test", "pass/fail unknown", "only candidate"} :
        \/ f = "candidate-authored only" /\ r.requires = "abnormal" /\ ~AbnormalSeen(r) /\ AbnormalByCandidate(r)
        \/ f = "no command log"          /\ r.log = {}
        \/ f = "no repo test"            /\ r.log # {} /\ Tests(r) = {}
        \/ f = "pass/fail unknown"       /\ Tests(r) # {} /\ \A t \in Tests(r) : t.passed = "unknown"
        \/ f = "only candidate"          /\ "candidate" \in Sources(r) /\ "repo" \notin Sources(r)}

MissingFlags(r) ==
    {f \in {"missing evidence", "not covered", "not proven", "no direct evidence"} :
        \/ f = "missing evidence"   /\ r.missing > 0
        \/ f = "not covered"        /\ r.covered = "no"
        \/ f = "not proven"         /\ r.covered = "yes" /\ ~r.proven
        \/ f = "no direct evidence" /\ r.requires = "abnormal"
                                    /\ ~AbnormalSeen(r) /\ ~AbnormalByCandidate(r)}

Severe(r) ==
    (Risks(r) \ {"candidate-authored only"})
        \cup (MissingFlags(r) \cap {"not covered", "not proven", "no direct evidence"})

(* What counts as direct evidence: passed tests, statements of behaviour,  *)
(* and the line the verifier quotes for the critical requirement.          *)
Direct(r) ==
    Cardinality({t \in Tests(r) : t.passed = "yes"}) + Cardinality(Behaviour(r)) + (IF r.quoted THEN 1 ELSE 0)

SourceInference(r) == Cardinality(r.claims \cap {"source"}) + (IF r.patch THEN 2 ELSE 0)

Coverage(r) == IF r.proven \/ r.covered = "yes" \/ r.requires # "nothing" THEN 1 ELSE 0

(* _evidence_rank_components.  The risk penalty and the final score follow *)
(* from the components before them and are left out.                       *)
RankKey(r) ==
    <<-Cardinality(Severe(r)), -Cardinality(MissingFlags(r)), -Cardinality(Risks(r)),
      Cardinality(PassedTests(r, "repo")), Direct(r), Cardinality(PassedTests(r, "candidate")),
      Coverage(r), SourceInference(r), r.confidence>>

Exceeds(a, b) == \E i \in DOMAIN a : a[i] > b[i] /\ \A j \in 1..(i - 1) : a[j] = b[j]

Outranks(r, s) == Exceeds(RankKey(r), RankKey(s))

-----------------------------------------------------------------------------
(* Candidates are numbered; R maps each one to its report.                 *)
WithResult(R, v) == {c \in DOMAIN R : R[c].result = v}

Best(R, S) == {c \in S : \A d \in S : ~Outranks(R[d], R[c])}

(* The sort by candidate id is stable, so that the lowest one leads.       *)
First(S) == CHOOSE c \in S : \A d \in S : c <= d

StrongAccept(r) == r.action = "accept" /\ r.covered = "yes" /\ r.proven

Surest(R, S) == {c \in S : \A d \in S : R[d].confidence <= R[c].confidence}

NoSelection == [winner |-> None, fallback |-> FALSE]
Selected(c) == [winner |-> c, fallback |-> FALSE]
Instead(c)  == [winner |-> c, fallback |-> TRUE]

(* select_winner: what it may return.  rng.choice is any choice.           *)
SelectWinner(R, onAllFail) ==
    LET successes == WithResult(R, 1)
        accepted  == {c \in successes : StrongAccept(R[c])}
        zeros     == WithResult(R, 0)
        errors    == DOMAIN R \ (successes \cup zeros)
        bucket    == IF accepted # {} THEN accepted ELSE successes
        sure      == Surest(R, zeros)
    IN CASE successes # {}      -> {Selected(First(Best(R, bucket)))}
         [] successes = {} /\ onAllFail = "fail"   -> {NoSelection}
         [] successes = {} /\ onAllFail = "random" ->
                {Instead(c) : c \in IF zeros # {} THEN zeros ELSE errors}
         [] OTHER -> IF zeros # {} THEN {Instead(First(Best(R, sure)))} ELSE {Instead(c) : c \in errors}

MutParallelSelection(R, onAllFail) == SelectWinner(R, onAllFail)

(* What verifier-parallel makes of it: among successes the ranking by      *)
(* evidence decides, recommended or not, and the LLM's comparison is       *)
(* recorded as advice only.                                                *)
ParallelSelection(R, onAllFail) ==
    LET successes == WithResult(R, 1)
    IN IF successes # {} THEN {Selected(First(Best(R, successes)))}
       ELSE SelectWinner(R, onAllFail)
=============================================================================
