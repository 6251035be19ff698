--------------------------- MODULE VerifierRunProofs ---------------------------
(***************************************************************************)
(* Theorems about VerifierRun, for any number of candidates, any reports,  *)
(* any configuration and any number of actions of the user.                *)
(*                                                                         *)
(* The argument: while candidates are gathered PoolInv says how far each   *)
(* of them is and that no file exists; Select makes a deserved selection   *)
(* out of that; whatever comes after leaves the candidates and the         *)
(* selection alone, so that the files and the repository can only follow   *)
(* the selection, which FileInv and RepoInv say.                           *)
(***************************************************************************)
EXTENDS VerifierRun, Functions, FiniteSetTheorems, WellFoundedInduction, TLAPS

(***************************************************************************)
(* Facts about the selection of a winner, for any reports: the ranking by  *)
(* evidence is a strict order, so that among finitely many candidates some *)
(* are outranked by none; hence a selection always names one of the        *)
(* candidates it was made among, and the right one.                        *)
(***************************************************************************)

(* A report whose log of commands is finite, as every log is. *)
Sound(r) == r \in Report /\ IsFiniteSet(r.log)

(* A set of numbers that is not empty has a least one.                     *)
LEMMA LeastNatural ==
    ASSUME NEW S \in SUBSET Nat, S # {}
    PROVE  \E n \in S : \A m \in S : n <= m
  <1> DEFINE Less == OpToRel(<, Nat)
  <1>1. IsWellFoundedOn(Less, Nat)
    BY NatLessThanWellFounded
  <1>2. \A m, n \in Nat : m < n => <<m, n>> \in Less
    BY DEF OpToRel
  <1> HIDE DEF Less
  <1>3. PICK n \in S : \A m \in S : <<m, n>> \notin Less
    BY <1>1, WFMin
  <1>4. n \in Nat /\ \A m \in S : m \in Nat /\ ~(m < n)
    BY <1>2, <1>3
  <1> QED BY <1>4

(* The lowest number leads. *)
LEMMA FirstIsLeast ==
    ASSUME NEW S \in SUBSET Nat, S # {}
    PROVE  First(S) \in S /\ \A d \in S : First(S) <= d
  BY LeastNatural DEF First

-----------------------------------------------------------------------------
(* The key is a tuple of integers.                                         *)
LEMMA SmallSetsFinite ==
    ASSUME NEW a, NEW b, NEW c, NEW d, NEW e
    PROVE  IsFiniteSet({a, b, c, d, e})
  <1>1. IsFiniteSet({a}) BY FS_Singleton
  <1>2. IsFiniteSet({a} \cup {b}) BY <1>1, FS_AddElement
  <1>3. IsFiniteSet({a} \cup {b} \cup {c}) BY <1>2, FS_AddElement
  <1>4. IsFiniteSet({a} \cup {b} \cup {c} \cup {d}) BY <1>3, FS_AddElement
  <1>5. IsFiniteSet({a} \cup {b} \cup {c} \cup {d} \cup {e}) BY <1>4, FS_AddElement
  <1>6. {a} \cup {b} \cup {c} \cup {d} \cup {e} = {a, b, c, d, e} OBVIOUS
  <1> QED BY <1>5, <1>6

LEMMA TestsFinite ==
    ASSUME NEW r, Sound(r)
    PROVE  IsFiniteSet(Tests(r))
  <1> DEFINE Seen == {d \in r.log : d.validates}
             Of(c) == [source |-> TestSource(c), passed |-> c.passed, abnormal |-> c.abnormal]
             f == [c \in Seen |-> Of(c)]
             said == [source |-> "unknown", passed |-> "yes", abnormal |-> FALSE]
  <1>1. IsFiniteSet(Seen)
    <2>1. Seen \in SUBSET r.log OBVIOUS
    <2> QED BY <2>1, FS_Subset DEF Sound
  <1>2. LoggedTests(r) = {f[c] : c \in Seen}
    BY DEF LoggedTests
  <1>3. f \in Surjection(Seen, {f[c] : c \in Seen})
    BY DEF Surjection
  <1>4. IsFiniteSet(LoggedTests(r))
    BY <1>1, <1>2, <1>3, FS_Surjection
  <1>5. IsFiniteSet({said : c \in r.claims \cap {"test"}})
    <2>1. {said : c \in r.claims \cap {"test"}} \in SUBSET {said} OBVIOUS
    <2>2. IsFiniteSet({said}) BY FS_Singleton
    <2> QED BY <2>1, <2>2, FS_Subset
  <1> QED BY <1>4, <1>5 DEF Tests

LEMMA KeyType ==
    ASSUME NEW r, Sound(r)
    PROVE  RankKey(r) \in [1..9 -> Int]
  <1>1. Cardinality(Risks(r)) \in Int /\ IsFiniteSet(Risks(r))
    <2>1. Risks(r) \in SUBSET {"candidate-authored only", "no command log", "no repo test",
                               "pass/fail unknown", "only candidate"}
      BY DEF Risks
    <2>3. IsFiniteSet({"candidate-authored only", "no command log", "no repo test", "pass/fail unknown", "only candidate"})
      BY SmallSetsFinite
    <2>4. IsFiniteSet(Risks(r)) BY <2>1, <2>3, FS_Subset
    <2> QED BY <2>4, FS_CardinalityType
  <1>2. Cardinality(MissingFlags(r)) \in Int /\ IsFiniteSet(MissingFlags(r))
    <2>1. MissingFlags(r) \in SUBSET {"missing evidence", "not covered", "not proven",
                                      "no direct evidence", "no direct evidence"}
      BY DEF MissingFlags
    <2>3. IsFiniteSet({"missing evidence", "not covered", "not proven", "no direct evidence", "no direct evidence"})
      BY SmallSetsFinite
    <2>4. IsFiniteSet(MissingFlags(r)) BY <2>1, <2>3, FS_Subset
    <2> QED BY <2>4, FS_CardinalityType
  <1>3. Cardinality(Severe(r)) \in Int
    <2>1. IsFiniteSet(Risks(r) \cup MissingFlags(r))
      BY <1>1, <1>2, FS_Union
    <2>2. Severe(r) \in SUBSET (Risks(r) \cup MissingFlags(r))
      BY DEF Severe
    <2> QED BY <2>1, <2>2, FS_Subset, FS_CardinalityType
  <1>4. ASSUME NEW T \in SUBSET Tests(r) PROVE Cardinality(T) \in Int
    BY TestsFinite, FS_Subset, FS_CardinalityType
  <1>5. /\ Cardinality(PassedTests(r, "repo")) \in Int
        /\ Cardinality(PassedTests(r, "candidate")) \in Int
        /\ Cardinality({t \in Tests(r) : t.passed = "yes"}) \in Int
    BY <1>4 DEF PassedTests
  <1>6. Cardinality(Behaviour(r)) \in Int /\ Cardinality(r.claims \cap {"source"}) \in Int
    <2>1. Behaviour(r) \in SUBSET {"behaviour", "abnormal", "test", "source", "source"}
      BY DEF Behaviour
    <2>2. r.claims \cap {"source"} \in SUBSET {"behaviour", "abnormal", "test", "source", "source"}
      OBVIOUS
    <2>3. IsFiniteSet({"behaviour", "abnormal", "test", "source", "source"})
      BY SmallSetsFinite
    <2> QED BY <2>1, <2>2, <2>3, FS_Subset, FS_CardinalityType
  <1>7. Direct(r) \in Int
    BY <1>5, <1>6 DEF Direct
  <1>8. SourceInference(r) \in Int
    BY <1>6 DEF SourceInference
  <1>9. Coverage(r) \in Int /\ r.confidence \in Int
    BY DEF Coverage, Sound, Report
  <1> DEFINE A == Cardinality(Severe(r))
             B == Cardinality(MissingFlags(r))
             C == Cardinality(Risks(r))
             D == Cardinality(PassedTests(r, "repo"))
             E == Cardinality(PassedTests(r, "candidate"))
  <1>10. RankKey(r) = <<-A, -B, -C, D, Direct(r), E, Coverage(r), SourceInference(r), r.confidence>>
    BY DEF RankKey
  <1>11. -A \in Int /\ -B \in Int /\ -C \in Int /\ D \in Int /\ E \in Int
    BY <1>1, <1>2, <1>3, <1>5
  <1> HIDE DEF A, B, C, D, E
  <1> QED BY <1>7, <1>8, <1>9, <1>10, <1>11

-----------------------------------------------------------------------------
(* The order.                                                              *)
LEMMA ExceedsIrreflexive ==
    ASSUME NEW a \in [1..9 -> Int]
    PROVE  ~Exceeds(a, a)
  BY DEF Exceeds

LEMMA ExceedsTransitive ==
    ASSUME NEW a \in [1..9 -> Int], NEW b \in [1..9 -> Int], NEW c \in [1..9 -> Int],
           Exceeds(a, b), Exceeds(b, c)
    PROVE  Exceeds(a, c)
  <1>1. PICK i \in 1..9 : a[i] > b[i] /\ \A k \in 1..(i - 1) : a[k] = b[k]
    BY DEF Exceeds
  <1>2. PICK j \in 1..9 : b[j] > c[j] /\ \A k \in 1..(j - 1) : b[k] = c[k]
    BY DEF Exceeds
  <1>3. CASE i <= j
    <2>1. a[i] > c[i] /\ \A k \in 1..(i - 1) : a[k] = c[k]
      BY <1>1, <1>2, <1>3
    <2> QED BY <2>1 DEF Exceeds
  <1>4. CASE j < i
    <2>1. a[j] > c[j] /\ \A k \in 1..(j - 1) : a[k] = c[k]
      BY <1>1, <1>2, <1>4
    <2> QED BY <2>1 DEF Exceeds
  <1> QED BY <1>3, <1>4

(* Among finitely many candidates some are outranked by none: one that the *)
(* fewest outrank.                                                         *)
LEMMA BestExists ==
    ASSUME NEW R, NEW S, IsFiniteSet(S), S # {}, \A c \in S : Sound(R[c])
    PROVE  Best(R, S) # {}
  <1> DEFINE Above(c) == {d \in S : Outranks(R[d], R[c])}
             Counts == {Cardinality(Above(c)) : c \in S}
  <1>1. ASSUME NEW c \in S
        PROVE  IsFiniteSet(Above(c)) /\ Cardinality(Above(c)) \in Nat
    <2>1. Above(c) \in SUBSET S OBVIOUS
    <2> QED BY <2>1, FS_Subset, FS_CardinalityType
  <1>2. PICK c \in S : \A d \in S : Cardinality(Above(c)) <= Cardinality(Above(d))
    <2>1. Counts \in SUBSET Nat /\ Counts # {} BY <1>1
    <2>2. \E n \in Counts : \A m \in Counts : n <= m BY <2>1, LeastNatural
    <2> QED BY <2>2
  <1>3. ASSUME NEW d \in S, Outranks(R[d], R[c]) PROVE FALSE
    <2>1. \A e \in S : RankKey(R[e]) \in [1..9 -> Int] BY KeyType
    <2>2. Above(d) \subseteq Above(c)
      BY <1>3, <2>1, ExceedsTransitive DEF Outranks
    <2>3. d \in Above(c) \ Above(d)
      BY <1>3, <2>1, ExceedsIrreflexive DEF Outranks
    <2>4. Above(d) \in SUBSET Above(c) BY <2>2
    <2> HIDE DEF Above
    <2>5. Cardinality(Above(d)) <= Cardinality(Above(c)) /\ Cardinality(Above(d)) # Cardinality(Above(c))
      BY <1>1, <2>3, <2>4, FS_Subset
    <2> QED BY <1>1, <1>2, <2>5
  <1> QED BY <1>3 DEF Best

-----------------------------------------------------------------------------
(* What a selection among the candidates of R must be.                     *)
Deserved(R, onAllFail, s) ==
    /\ s \in [winner : DOMAIN R \cup {None}, fallback : BOOLEAN]
    /\ s.winner = None => WithResult(R, 1) = {} /\ s = NoSelection
    /\ s.winner # None =>
          /\ s.winner \in DOMAIN R
          /\ IF WithResult(R, 1) # {} THEN R[s.winner].result = 1 /\ s.fallback = FALSE
             ELSE /\ s.fallback = TRUE /\ onAllFail # "fail"
                  /\ R[s.winner].result = 0 \/ WithResult(R, 0) = {}

LEMMA SelectionDeserved ==
    ASSUME NEW R, NEW onAllFail \in {"fail", "random", "best-confidence"},
           DOMAIN R \subseteq Nat, None \notin DOMAIN R, IsFiniteSet(DOMAIN R), DOMAIN R # {},
           \A c \in DOMAIN R : Sound(R[c]),
           NEW s \in SelectWinner(R, onAllFail)
    PROVE  Deserved(R, onAllFail, s)
  <1> DEFINE successes == WithResult(R, 1)
             accepted  == {c \in successes : StrongAccept(R[c])}
             zeros     == WithResult(R, 0)
             errors    == DOMAIN R \ (successes \cup zeros)
             bucket    == IF accepted # {} THEN accepted ELSE successes
             sure      == Surest(R, zeros)
  <1>1. successes \in SUBSET DOMAIN R /\ zeros \in SUBSET DOMAIN R /\ errors \in SUBSET DOMAIN R
    BY DEF WithResult
  <1>2. ASSUME NEW T \in SUBSET DOMAIN R, T # {}
        PROVE  First(Best(R, T)) \in T
    <2>1. IsFiniteSet(T) BY FS_Subset
    <2>2. Best(R, T) # {} BY <2>1, <1>2, BestExists
    <2>3. Best(R, T) \in SUBSET Nat /\ Best(R, T) \subseteq T BY DEF Best
    <2> QED BY <2>2, <2>3, FirstIsLeast
  <1>3. CASE successes # {}
    <2>1. s = Selected(First(Best(R, bucket)))
      BY <1>3 DEF SelectWinner
    <2>2. bucket \in SUBSET DOMAIN R /\ bucket # {} /\ bucket \subseteq successes
      BY <1>1, <1>3
    <2>3. First(Best(R, bucket)) \in successes
      BY <1>2, <2>2
    <2>4. s.winner = First(Best(R, bucket)) /\ s.fallback = FALSE
      BY <2>1 DEF Selected
    <2>5. s \in [winner : DOMAIN R \cup {None}, fallback : BOOLEAN]
      BY <1>1, <2>1, <2>3 DEF Selected
    <2> QED BY <1>1, <1>3, <2>3, <2>4, <2>5 DEF Deserved, WithResult
  <1>4. CASE successes = {} /\ onAllFail = "fail"
    <2>1. s = NoSelection
      BY <1>4 DEF SelectWinner
    <2> QED BY <1>4, <2>1 DEF Deserved, NoSelection
  <1>5. CASE successes = {} /\ onAllFail # "fail"
    <2>1. (sure # {} /\ sure \subseteq zeros) \/ zeros = {}
      BY DEF Surest, WithResult, Sound, Report
    <2>2. \E c \in IF zeros # {} THEN zeros ELSE errors : s = Instead(c)
      <3>1. CASE onAllFail = "random"
        BY <1>5, <3>1 DEF SelectWinner
      <3>2. CASE onAllFail = "best-confidence"
        <4>1. s \in IF zeros # {} THEN {Instead(First(Best(R, sure)))} ELSE {Instead(c) : c \in errors}
          BY <1>5, <3>2 DEF SelectWinner
        <4>2. CASE zeros # {}
          <5>1. sure \in SUBSET DOMAIN R /\ sure # {}
            BY <1>1, <2>1, <4>2
          <5>2. First(Best(R, sure)) \in zeros
            BY <1>2, <2>1, <4>2, <5>1
          <5> QED BY <4>1, <4>2, <5>2
        <4>3. CASE zeros = {}
          BY <4>1, <4>3
        <4> QED BY <4>2, <4>3
      <3> QED BY <1>5, <3>1, <3>2
    <2>3. PICK c \in IF zeros # {} THEN zeros ELSE errors : s = Instead(c)
      BY <2>2
    <2>4. c \in DOMAIN R /\ s.winner = c /\ s.fallback = TRUE
      BY <1>1, <2>3 DEF Instead
    <2>5. s \in [winner : DOMAIN R \cup {None}, fallback : BOOLEAN]
      BY <2>3, <2>4 DEF Instead
    <2> QED BY <1>5, <2>3, <2>4, <2>5 DEF Deserved, WithResult
  <1> QED BY <1>3, <1>4, <1>5

(* verifier-parallel: nobody who succeeded outranks the winner. *)
LEMMA ParallelDeserved ==
    ASSUME NEW R, NEW onAllFail \in {"fail", "random", "best-confidence"},
           DOMAIN R \subseteq Nat, None \notin DOMAIN R, IsFiniteSet(DOMAIN R), DOMAIN R # {},
           \A c \in DOMAIN R : Sound(R[c]),
           NEW s \in ParallelSelection(R, onAllFail)
    PROVE  /\ Deserved(R, onAllFail, s)
           /\ \A d \in WithResult(R, 1) : ~Outranks(R[d], R[s.winner])
  <1> DEFINE successes == WithResult(R, 1)
  <1>1. CASE successes # {}
    <2>1. s = Selected(First(Best(R, successes)))
      BY <1>1 DEF ParallelSelection
    <2>2. successes \in SUBSET DOMAIN R BY DEF WithResult
    <2>3. IsFiniteSet(successes) BY <2>2, FS_Subset
    <2>4. Best(R, successes) # {} BY <1>1, <2>2, <2>3, BestExists
    <2>5. Best(R, successes) \in SUBSET Nat BY <2>2 DEF Best
    <2>6. s.winner \in Best(R, successes) /\ s.fallback = FALSE
      BY <2>1, <2>4, <2>5, FirstIsLeast DEF Selected
    <2>7. Best(R, successes) \subseteq DOMAIN R /\ s \in [winner : DOMAIN R \cup {None}, fallback : BOOLEAN]
      BY <2>1, <2>2, <2>6 DEF Selected, Best
    <2> QED BY <1>1, <2>2, <2>6, <2>7 DEF Best, Deserved, WithResult
  <1>2. CASE successes = {}
    BY <1>2, SelectionDeserved DEF ParallelSelection
  <1> QED BY <1>1, <1>2

-----------------------------------------------------------------------------
(* The run.                                                                *)
Steps == {"collect", "apply", "selection again", "decision again", "cleanup", "done", "dead"} \cup Names

(* TypeOK, but for the pool's width, which PoolInv has, and the selection. *)
Types ==
    /\ setting \in Settings /\ older \in BOOLEAN /\ pc \in Steps
    /\ stage \in [Candidates -> {"waiting", "running", "ran", "verified"}]
    /\ report \in [Candidates -> Reports \cup Errors]
    /\ rows \in [Candidates -> {"none", "verified", "selected", "skipped"}]
    /\ integ \in {"none", "skipped", "integrated", "failed"}
    /\ trees \subseteq Candidates

(* The candidates are started in order.                                    *)
InOrder == \A d, e \in Candidates : d < e /\ stage[e] # "waiting" => stage[d] # "waiting"

Width ==
    /\ setting.mode = "sequential" => setting.width = 1
    /\ Cardinality(InStage("running")) <= setting.width

(* A row says what became of its candidate.                                *)
RowsTell ==
    \A c \in Candidates :
        /\ rows[c] = "verified" =>
              stage[c] = "verified" /\ (setting.mode = "sequential" => ~Successful(c))
        /\ rows[c] = "selected" => Successful(c) /\ setting.mode = "sequential"
        /\ rows[c] = "skipped" =>
              setting.mode = "sequential" /\ \E d \in 1..(c - 1) : rows[d] = "selected"

PoolInv == InOrder /\ Width /\ RowsTell /\ NoneAfterSuccess /\ SelectsAmongAll

(* The selection was made among the verified candidates, and well.         *)
SelInv ==
    /\ sel \in [winner : InStage("verified") \cup {None}, fallback : BOOLEAN]
    /\ sel.winner # None => Justified(sel.winner) /\ (sel.fallback \/ report[sel.winner].result = 1)
    /\ sel.winner = None => sel = NoSelection
    /\ pc = "collect" => sel = NoSelection
    /\ \A c \in Candidates : rows[c] = "selected" /\ sel # NoSelection => sel.winner = c

-----------------------------------------------------------------------------
(* The kinds of step.                                                      *)
GatherVars == <<setting, older, stage, report, rows>>

Gathers(c) == StartCandidate(c) \/ CandidateEnds(c) \/ Verify(c) \/ Record(c) \/ RecordSkipped(c)

After == UNCHANGED <<GatherVars, sel>> /\ pc' \in Steps /\ (pc' = "collect" => pc = "collect")

Writes ==
    \/ WriteSelection \/ WriteDecision \/ Apply \/ ApplyFails \/ WriteIntegration \/ WriteMaterialization
    \/ RewriteSelection \/ RewriteDecision \/ WriteOrchestration \/ Cleanup \/ Dies \/ Materialize \/ Restore

LEMMA StepKinds ==
    ASSUME Types, [Next]_vars
    PROVE  (\E c \in Candidates : Gathers(c)) \/ Select \/ (After /\ (Writes \/ UNCHANGED vars))
  <1>1. ASSUME Writes PROVE After
    <2> USE DEF After, GatherVars, Steps, Names, Types
    <2>1. CASE WriteSelection \/ WriteDecision \/ Apply \/ ApplyFails
      BY <2>1 DEF WriteSelection, WriteDecision, Apply, ApplyFails
    <2>2. CASE WriteIntegration \/ WriteMaterialization \/ RewriteSelection
      BY <2>2 DEF WriteIntegration, WriteMaterialization, RewriteSelection
    <2>3. CASE RewriteDecision \/ WriteOrchestration \/ Cleanup
      BY <2>3 DEF RewriteDecision, WriteOrchestration, Cleanup
    <2>4. CASE Dies \/ Materialize \/ Restore
      BY <2>4 DEF Dies, Materialize, Restore
    <2> QED BY <1>1, <2>1, <2>2, <2>3, <2>4 DEF Writes
  <1>2. ASSUME UNCHANGED vars PROVE After
    BY <1>2 DEF vars, After, GatherVars, Types
  <1> QED BY <1>1, <1>2 DEF Next, RunStep, Writes, Gathers

LEMMA TypesStep ==
    ASSUME Types, [Next]_vars
    PROVE  Types'
  <1> USE DEF Types, Steps, Names
  <1>1. ASSUME NEW c \in Candidates, Gathers(c) PROVE Types'
    BY <1>1 DEF Gathers, StartCandidate, CandidateEnds, Verify, Record, RecordSkipped
  <1>2. CASE Select
    BY <1>2 DEF Select
  <1>3. CASE After /\ (Writes \/ UNCHANGED vars)
    <2>1. integ' \in {"none", "skipped", "integrated", "failed"} /\ trees' \subseteq Candidates
      <3>1. CASE WriteSelection \/ WriteDecision \/ Apply \/ ApplyFails
        BY <3>1 DEF WriteSelection, WriteDecision, Apply, ApplyFails
      <3>2. CASE WriteIntegration \/ WriteMaterialization \/ RewriteSelection
        BY <3>2 DEF WriteIntegration, WriteMaterialization, RewriteSelection
      <3>3. CASE RewriteDecision \/ WriteOrchestration \/ Cleanup
        BY <3>3 DEF RewriteDecision, WriteOrchestration, Cleanup
      <3>4. CASE Dies \/ Materialize \/ Restore \/ UNCHANGED vars
        BY <3>4 DEF Dies, Materialize, Restore, vars
      <3> QED BY <1>3, <3>1, <3>2, <3>3, <3>4 DEF Writes
    <2> QED BY <1>3, <2>1 DEF After, GatherVars
  <1> QED BY <1>1, <1>2, <1>3, StepKinds

-----------------------------------------------------------------------------
(* Gathering.                                                              *)
LEMMA CandidatesFinite ==
    /\ Candidates \subseteq Nat \ {0} /\ IsFiniteSet(Candidates) /\ 1 \in Candidates
    /\ \A s : IsFiniteSet(InStage(s)) /\ Cardinality(InStage(s)) \in Nat
  <1>1. Candidates \subseteq Nat \ {0} /\ IsFiniteSet(Candidates) /\ 1 \in Candidates
    <2>1. N \in Nat \ {0} BY VerifierAssumption
    <2>2. IsFiniteSet(1..N) BY <2>1, FS_Interval
    <2> QED BY <2>1, <2>2 DEF Candidates
  <1>2. ASSUME NEW s PROVE IsFiniteSet(InStage(s)) /\ Cardinality(InStage(s)) \in Nat
    <2>1. InStage(s) \in SUBSET Candidates BY DEF InStage
    <2>2. IsFiniteSet(InStage(s)) BY <1>1, <2>1, FS_Subset
    <2> QED BY <2>2, FS_CardinalityType
  <1> QED BY <1>1, <1>2

LEMMA Below ==
    ASSUME NEW c \in Candidates
    PROVE  \A d : d \in 1..(c - 1) <=> d \in Candidates /\ d < c
  BY VerifierAssumption DEF Candidates

LEMMA SettingType ==
    ASSUME Types
    PROVE  setting.width \in Nat /\ setting.mode \in {"parallel", "sequential"}
           /\ setting.onAllFail \in {"fail", "random", "best-confidence"}
  BY VerifierAssumption DEF Types, Setting, Candidates

LEMMA OrderStep ==
    ASSUME Types, PoolInv, NEW c \in Candidates, Gathers(c)
    PROVE  InOrder'
  <1> USE DEF Types, PoolInv, InOrder
  <1>1. CASE StartCandidate(c)
    BY <1>1, Below, CandidatesFinite DEF StartCandidate
  <1>2. CASE CandidateEnds(c) \/ Verify(c) \/ Record(c) \/ RecordSkipped(c)
    BY <1>2 DEF CandidateEnds, Verify, Record, RecordSkipped
  <1> QED BY <1>1, <1>2 DEF Gathers

LEMMA WidthStep ==
    ASSUME Types, PoolInv, NEW c \in Candidates, Gathers(c)
    PROVE  Width'
  <1> USE DEF Types
  <1>1. setting' = setting
    BY DEF Gathers, StartCandidate, CandidateEnds, Verify, Record, RecordSkipped
  <1>2. CASE StartCandidate(c)
    <2>1. InStage("running")' = InStage("running") \cup {c}
      BY <1>2 DEF StartCandidate, InStage
    <2>2. c \notin InStage("running")
      BY <1>2 DEF StartCandidate, InStage
    <2>3. Cardinality(InStage("running")') = Cardinality(InStage("running")) + 1
      BY <2>1, <2>2, CandidatesFinite, FS_AddElement
    <2>4. CASE setting.mode = "parallel"
      BY <1>1, <1>2, <2>3, <2>4, CandidatesFinite, SettingType DEF StartCandidate, MayRun, Width, PoolInv
    <2>5. CASE setting.mode = "sequential"
      <3>1. \A d \in Candidates : stage[d] # "running"
        BY <1>2, <2>5, Below, CandidatesFinite DEF StartCandidate, MayRun, PoolInv, InOrder
      <3>2. Cardinality(InStage("running")) = 0
        BY <3>1, FS_EmptySet DEF InStage
      <3> QED BY <1>1, <2>3, <2>5, <3>2 DEF Width, PoolInv
    <2> QED BY <2>4, <2>5, SettingType
  <1>3. CASE CandidateEnds(c) \/ Verify(c) \/ Record(c) \/ RecordSkipped(c)
    <2>1. InStage("running")' \in SUBSET InStage("running")
      BY <1>3 DEF CandidateEnds, Verify, Record, RecordSkipped, InStage
    <2>2. Cardinality(InStage("running")') <= Cardinality(InStage("running"))
      BY <2>1, CandidatesFinite, FS_Subset
    <2>3. Cardinality(InStage("running")') \in Nat
      BY <2>1, CandidatesFinite, FS_Subset, FS_CardinalityType
    <2> QED BY <1>1, <2>2, <2>3, CandidatesFinite, SettingType DEF Width, PoolInv
  <1> QED BY <1>2, <1>3 DEF Gathers

LEMMA RowsStep ==
    ASSUME Types, PoolInv, NEW c \in Candidates, Gathers(c)
    PROVE  RowsTell'
  <1> USE DEF Types, PoolInv, RowsTell, Successful
  <1>1. CASE StartCandidate(c)
    BY <1>1 DEF StartCandidate
  <1>2. CASE CandidateEnds(c)
    BY <1>2 DEF CandidateEnds
  <1>3. CASE Verify(c)
    BY <1>3 DEF Verify
  <1>4. CASE Record(c)
    BY <1>4, Below, SettingType DEF Record, MayRecord
  <1>5. CASE RecordSkipped(c)
    BY <1>5, Below, CandidatesFinite DEF RecordSkipped
  <1> QED BY <1>1, <1>2, <1>3, <1>4, <1>5 DEF Gathers

(* A row that was written about an earlier candidate is about a failure.   *)
LEMMA NobodyBefore ==
    ASSUME Types, PoolInv, setting.mode = "sequential", NEW c \in Candidates,
           \A d \in 1..(c - 1) : stage[d] = "verified" /\ rows[d] # "none" /\ ~Successful(d)
    PROVE  \A d \in Candidates : d < c => rows[d] = "verified" /\ ~Successful(d)
  <1>1. ASSUME NEW d \in Candidates, d < c PROVE rows[d] \notin {"selected", "skipped"}
    <2>1. \A e \in Candidates : e < c => rows[e] # "selected"
      BY Below DEF PoolInv, RowsTell
    <2>2. ASSUME rows[d] = "skipped" PROVE FALSE
      <3>1. PICK e \in 1..(d - 1) : rows[e] = "selected"
        BY <2>2 DEF PoolInv, RowsTell
      <3>2. e \in Candidates /\ e < d
        BY <3>1, Below
      <3> QED BY <1>1, <2>1, <3>1, <3>2, CandidatesFinite
    <2> QED BY <1>1, <2>1, <2>2
  <1> QED BY <1>1, Below DEF Types

LEMMA AfterSuccessStep ==
    ASSUME Types, PoolInv, NEW c \in Candidates, Gathers(c)
    PROVE  NoneAfterSuccess'
  <1> USE DEF Types, NoneAfterSuccess
  <1>1. CASE StartCandidate(c)
    <2>1. UNCHANGED <<setting, report, rows>> /\ stage' = [stage EXCEPT ![c] = "running"]
      BY <1>1 DEF StartCandidate
    <2>2. setting.mode = "sequential" => \A d \in Candidates : d < c => rows[d] = "verified" /\ ~Successful(d)
      BY <1>1, NobodyBefore DEF StartCandidate, MayRun
    <2>3. \A d \in Candidates : Successful(d)' => Successful(d)
      BY <2>1 DEF Successful
    <2> QED BY <2>1, <2>2, <2>3 DEF PoolInv
  <1>2. CASE CandidateEnds(c)
    BY <1>2 DEF CandidateEnds, Successful, PoolInv
  <1>3. CASE Verify(c)
    BY <1>3 DEF Verify, Successful, PoolInv, RowsTell
  <1>4. CASE Record(c) \/ RecordSkipped(c)
    BY <1>4 DEF Record, RecordSkipped, Successful, PoolInv
  <1> QED BY <1>1, <1>2, <1>3, <1>4 DEF Gathers

LEMMA AmongAllStep ==
    ASSUME Types, PoolInv, NEW c \in Candidates, Gathers(c)
    PROVE  SelectsAmongAll'
  <1> USE DEF Types, SelectsAmongAll, PoolInv, InStage
  <1>1. CASE StartCandidate(c) \/ CandidateEnds(c) \/ Verify(c)
    <2>1. UNCHANGED <<setting, rows>> /\ stage[c] # "verified"
      BY <1>1 DEF StartCandidate, CandidateEnds, Verify
    <2> QED BY <2>1
  <1>2. CASE Record(c)
    BY <1>2 DEF Record, MayRecord
  <1>3. CASE RecordSkipped(c)
    BY <1>3 DEF RecordSkipped
  <1> QED BY <1>1, <1>2, <1>3 DEF Gathers

LEMMA PoolStep ==
    ASSUME Types, PoolInv, [Next]_vars
    PROVE  PoolInv'
  <1>1. ASSUME NEW c \in Candidates, Gathers(c) PROVE PoolInv'
    BY <1>1, OrderStep, WidthStep, RowsStep, AfterSuccessStep, AmongAllStep DEF PoolInv
  <1>2. ASSUME UNCHANGED GatherVars PROVE PoolInv'
    BY <1>2 DEF GatherVars, PoolInv, InOrder, Width, RowsTell, NoneAfterSuccess, SelectsAmongAll, InStage, Successful
  <1> QED BY <1>1, <1>2, StepKinds DEF After, Select, GatherVars

-----------------------------------------------------------------------------
(* The selection.                                                          *)
LEMMA VerifiedReports ==
    ASSUME Types, NEW R, R = [c \in InStage("verified") |-> report[c]]
    PROVE  /\ DOMAIN R = InStage("verified") /\ DOMAIN R \subseteq Nat /\ None \notin DOMAIN R
           /\ IsFiniteSet(DOMAIN R) /\ \A c \in DOMAIN R : Sound(R[c])
           /\ WithResult(R, 1) = {d \in Candidates : Successful(d)}
  <1>1. DOMAIN R = InStage("verified") /\ InStage("verified") \subseteq Candidates
    BY DEF InStage
  <1>2. \A e \in Errors : Sound(e)
    <2>1. Error \in Report
      BY DEF Error, Report
    <2>2. [Error EXCEPT !.patch = TRUE] \in Report
      BY <2>1 DEF Report
    <2>3. Error.log = {} /\ [Error EXCEPT !.patch = TRUE].log = {}
      BY DEF Error
    <2> QED BY <2>1, <2>2, <2>3, FS_EmptySet DEF Sound, Errors
  <1>3. \A c \in DOMAIN R : Sound(R[c])
    BY <1>1, <1>2, VerifierAssumption DEF Types, Sound
  <1>4. WithResult(R, 1) = {d \in Candidates : Successful(d)}
    BY <1>1 DEF WithResult, Successful, InStage
  <1>5. None \notin Candidates
    BY VerifierAssumption DEF Candidates
  <1> QED BY <1>1, <1>3, <1>4, <1>5, CandidatesFinite

(* Without a success among the verified candidates, those that did not     *)
(* fail are those whose verifier failed.                                   *)
LEMMA DeservedJustified ==
    ASSUME Types, NEW R, R = [c \in InStage("verified") |-> report[c]],
           NEW s, Deserved(R, setting.onAllFail, s), s.winner # None,
           WithResult(R, 1) # {} =>
               \A d \in WithResult(R, 1) : IF setting.mode = "parallel" THEN ~Outranks(report[d], report[s.winner])
                                                                    ELSE s.winner <= d
    PROVE  Justified(s.winner) /\ (s.fallback \/ report[s.winner].result = 1)
  <1>1. WithResult(R, 1) = {d \in Candidates : Successful(d)} /\ DOMAIN R = InStage("verified")
    BY VerifiedReports
  <1>2. s.winner \in InStage("verified") /\ R[s.winner] = report[s.winner]
    BY <1>1 DEF Deserved
  <1>3. CASE WithResult(R, 1) # {}
    <2>1. report[s.winner].result = 1
      BY <1>2, <1>3 DEF Deserved
    <2>2. s.winner \in {d \in Candidates : Successful(d)}
      BY <1>2, <2>1 DEF InStage, Successful
    <2> QED BY <1>1, <1>3, <2>1, <2>2 DEF Justified
  <1>4. CASE WithResult(R, 1) = {}
    <2>1. s.fallback = TRUE /\ setting.onAllFail # "fail"
      BY <1>4 DEF Deserved
    <2>2. ASSUME WithResult(R, 0) = {}, NEW d \in InStage("verified") PROVE report[d].result = None
      <3>1. report[d].result \notin {0, 1} /\ report[d] = R[d]
        BY <1>1, <1>4, <2>2 DEF WithResult
      <3>2. R[d] \in Report
        BY <1>1, <2>2, VerifiedReports DEF Sound
      <3> QED BY <3>1, <3>2 DEF Report
    <2>3. report[s.winner].result = 0 \/ \A d \in InStage("verified") : report[d].result = None
      BY <1>2, <1>4, <2>2 DEF Deserved
    <2> QED BY <1>1, <1>4, <2>1, <2>3 DEF Justified
  <1> QED BY <1>3, <1>4

LEMMA SomebodyVerified ==
    ASSUME Types, PoolInv, \A c \in Candidates : rows[c] # "none"
    PROVE  InStage("verified") # {}
  <1>1. 1 \in Candidates /\ 1..(1 - 1) = {}
    BY CandidatesFinite
  <1>2. rows[1] \in {"verified", "selected"}
    BY <1>1 DEF Types, PoolInv, RowsTell
  <1> QED BY <1>1, <1>2 DEF PoolInv, RowsTell, Successful, InStage

LEMMA SelectStep ==
    ASSUME Types, PoolInv, SelInv, Select
    PROVE  SelInv'
  <1> DEFINE R == [c \in InStage("verified") |-> report[c]]
             successes == WithResult(R, 1)
  <1>0. UNCHANGED <<setting, stage, report, rows>> /\ pc' = "selection" /\ sel' \in Choices(R)
    BY DEF Select
  <1>1. /\ DOMAIN R = InStage("verified") /\ DOMAIN R \subseteq Nat /\ None \notin DOMAIN R
        /\ IsFiniteSet(DOMAIN R) /\ \A c \in DOMAIN R : Sound(R[c])
        /\ successes = {d \in Candidates : Successful(d)}
    BY VerifiedReports
  <1>2. DOMAIN R # {}
    BY <1>1, SomebodyVerified DEF Select
  <1>3. setting.onAllFail \in {"fail", "random", "best-confidence"}
    BY SettingType
  <1> HIDE DEF R
  <1>4. /\ Deserved(R, setting.onAllFail, sel')
        /\ successes # {} =>
               \A d \in successes : IF setting.mode = "parallel" THEN ~Outranks(R[d], R[sel'.winner])
                                                             ELSE sel'.winner <= d
    <2>0. successes \in SUBSET DOMAIN R /\ successes \in SUBSET Nat
      BY <1>1 DEF WithResult
    <2>1. CASE setting.mode = "parallel"
      <3>1. sel' \in ParallelSelection(R, setting.onAllFail)
        BY <1>0, <2>1 DEF Choices
      <3>2. Deserved(R, setting.onAllFail, sel') /\ \A d \in successes : ~Outranks(R[d], R[sel'.winner])
        BY <1>1, <1>2, <1>3, <3>1, ParallelDeserved
      <3> QED BY <2>1, <3>2
    <2>2. CASE setting.mode # "parallel" /\ successes # {}
      <3>1. sel' = Selected(First(successes))
        BY <1>0, <2>2 DEF Choices, FirstSuccess
      <3>2. First(successes) \in successes /\ \A d \in successes : First(successes) <= d
        BY <2>0, <2>2, FirstIsLeast
      <3>3. sel'.winner = First(successes) /\ sel'.fallback = FALSE
        BY <3>1 DEF Selected
      <3>4. sel' \in [winner : DOMAIN R \cup {None}, fallback : BOOLEAN]
        BY <2>0, <3>1, <3>2 DEF Selected
      <3> QED BY <1>1, <2>0, <2>2, <3>2, <3>3, <3>4 DEF Deserved, WithResult
    <2>3. CASE setting.mode # "parallel" /\ successes = {}
      <3>1. sel' \in SelectWinner(R, setting.onAllFail)
        BY <1>0, <2>3 DEF Choices, FirstSuccess
      <3> QED BY <1>1, <1>2, <1>3, <2>3, <3>1, SelectionDeserved
    <2> QED BY <2>1, <2>2, <2>3
  <1>5. sel'.winner # None => Justified(sel'.winner) /\ (sel'.fallback \/ report[sel'.winner].result = 1)
    <2> SUFFICES ASSUME sel'.winner # None
                 PROVE  Justified(sel'.winner) /\ (sel'.fallback \/ report[sel'.winner].result = 1)
      OBVIOUS
    <2>1. sel'.winner \in DOMAIN R
      BY <1>4 DEF Deserved
    <2>2. R = [c \in InStage("verified") |-> report[c]]
      BY DEF R
    <2>3. \A d \in DOMAIN R : R[d] = report[d]
      BY <1>1, <2>2
    <2>4. successes \subseteq DOMAIN R
      BY DEF WithResult
    <2> QED BY <1>4, <2>1, <2>2, <2>3, <2>4, DeservedJustified
  <1>6. ASSUME NEW c \in Candidates, rows[c] = "selected" PROVE sel'.winner = c
    <2>1. Successful(c) /\ setting.mode = "sequential"
      BY <1>6 DEF PoolInv, RowsTell
    <2>2. c \in successes
      BY <1>1, <2>1
    <2>3. sel'.winner # None /\ sel'.winner \in DOMAIN R /\ R[sel'.winner].result = 1
      BY <1>4, <2>2 DEF Deserved
    <2>4. sel'.winner \in successes /\ sel'.winner <= c
      BY <1>4, <2>1, <2>2, <2>3 DEF WithResult
    <2>5. Successful(sel'.winner) /\ sel'.winner \in Candidates /\ sel'.winner \in Nat /\ c \in Nat
      BY <1>1, <2>4, CandidatesFinite
    <2>6. ~(sel'.winner < c)
      BY <2>1, <2>5 DEF PoolInv, NoneAfterSuccess, Successful
    <2> QED BY <2>4, <2>5, <2>6
  <1>7. Justified(sel'.winner) => Justified(sel.winner)'
    BY <1>0 DEF Justified, Successful, InStage
  <1>8. sel'.winner = None => sel' = NoSelection
    BY <1>4 DEF Deserved
  <1>9. sel' \in [winner : InStage("verified")' \cup {None}, fallback : BOOLEAN]
    BY <1>0, <1>1, <1>4 DEF Deserved, InStage
  <1> QED BY <1>0, <1>5, <1>6, <1>7, <1>8, <1>9 DEF SelInv

LEMMA SelStep ==
    ASSUME Types, PoolInv, SelInv, [Next]_vars
    PROVE  SelInv'
  <1>1. ASSUME NEW c \in Candidates, Gathers(c) PROVE SelInv'
    <2>1. pc = "collect" /\ sel' = sel
      BY <1>1 DEF Gathers, StartCandidate, CandidateEnds, Verify, Record, RecordSkipped
    <2>2. sel' = NoSelection
      BY <2>1 DEF SelInv
    <2> QED BY <2>2 DEF SelInv, NoSelection
  <1>2. ASSUME After PROVE SelInv'
    <2>1. Justified(sel.winner) => Justified(sel.winner)'
      BY <1>2 DEF After, GatherVars, Justified, Successful, InStage
    <2> QED BY <1>2, <2>1 DEF After, GatherVars, SelInv, InStage
  <1> QED BY <1>1, <1>2, SelectStep, StepKinds

-----------------------------------------------------------------------------
(* The files follow the selection.                                         *)
WithWinner == {"decision", "apply", "selection again", "decision again"}
OnceMaterial  == {"selection again", "decision again", "orchestration", "cleanup", "done"}
OnceSelected  == {"decision", "apply", "integration", "materialization"} \cup OnceMaterial

FileInv ==
    /\ DOMAIN file = Names
    /\ \A f \in Names : file[f] \in Content(f) \cup {Absent, Torn}
    /\ \A f \in Names : Readable(f) => file[f].winner = sel.winner
    /\ \A f \in {"selection", "materialization"} :
          Readable(f) /\ sel.winner # None => file[f].fallback \/ file[f].result = 1
    /\ Readable("materialization") /\ sel.winner # None => file["materialization"].status = "selected"
    /\ Readable("orchestration") =>
          /\ pc \in {"cleanup", "done", "dead"}
          /\ file["orchestration"].status = "completed" => integ = "integrated"

(* What is there, and when.                                                *)
TimeInv ==
    /\ pc \in {"collect", "selection"} => (\A f \in Names : file[f] = Absent) /\ integ = "none"
    /\ pc \in OnceSelected => Readable("selection")
    /\ pc \in OnceMaterial => Readable("materialization")
    /\ pc \in WithWinner => sel.winner # None
    /\ pc = "integration" => integ # "none"
    /\ (\E f \in Names : Readable(f)) => Readable("selection") \/ Readable("materialization")
    /\ integ = "integrated" => sel.winner # None /\ \E f \in Names : Readable(f)
    /\ integ = "skipped" => sel.winner = None

(* And so does the repository.                                             *)
RepoInv ==
    /\ applied \in Seq(Candidates \cup {Older}) /\ repo \subseteq Range(applied)
    /\ AppliedHere \subseteq {sel.winner}
    /\ AppliedHere # {} => \E f \in Names : Readable(f)
    /\ integ = "integrated" => sel.winner \in AppliedHere

LEMMA Contents ==
    ASSUME Types, SelInv
    PROVE  /\ Selection \in Content("selection")
           /\ [winner |-> sel.winner] \in Content("decision")
           /\ integ # "none" => [winner |-> sel.winner, status |-> integ] \in Content("integration")
           /\ [winner |-> sel.winner, fallback |-> sel.fallback, result |-> Selection.result,
               status |-> MaterializationStatus] \in Content("materialization")
           /\ [winner |-> sel.winner, status |-> Status] \in Content("orchestration")
  <1>1. sel.winner \in Candidates \cup {None} /\ sel.fallback \in BOOLEAN
    BY DEF SelInv, InStage
  <1>2. \A r \in Reports \cup Errors : r.result \in {1, 0, None}
    BY VerifierAssumption DEF Report, Errors, Error
  <1>3. Selection.result \in {1, 0, None}
    BY <1>1, <1>2 DEF Selection, Types
  <1>4. Selection = [winner |-> sel.winner, fallback |-> sel.fallback, result |-> Selection.result]
    BY DEF Selection
  <1>5. MaterializationStatus \in {"no_winner", "selected", "integration_failed"}
    BY DEF MaterializationStatus
  <1>6. Status \in {"completed", "failed"}
    BY DEF Status
  <1> QED BY <1>1, <1>3, <1>4, <1>5, <1>6 DEF Content, Types

(* A write leaves the other files alone.                                   *)
LEMMA AfterWrite ==
    ASSUME FileInv, NEW f \in Names, NEW v, Write(f, v)
    PROVE  /\ DOMAIN file' = Names /\ file'[f] = v
           /\ \A g \in Names \ {f} : file'[g] = file[g]
           /\ Readable(f)' <=> v \notin {Absent, Torn}
           /\ \A g \in Names \ {f} : Readable(g)' <=> Readable(g)
  BY DEF FileInv, Write, Readable

LEMMA NoneIsNobody == None \notin Candidates
  BY VerifierAssumption DEF Candidates

LEMMA WriteStep ==
    ASSUME Types, SelInv, FileInv, TimeInv, After, NEW f \in Names, NEW v \in Content(f), Write(f, v),
           v.winner = sel.winner,
           f \in {"selection", "materialization"} /\ sel.winner # None => v.fallback \/ v.result = 1,
           f = "materialization" /\ sel.winner # None => v.status = "selected",
           f = "orchestration" => pc' \in {"cleanup", "done", "dead"} /\ (v.status = "completed" => integ = "integrated"),
           integ = "integrated" => integ' = "integrated",
           pc \in {"cleanup", "done", "dead"} => pc' \in {"cleanup", "done", "dead"}
    PROVE  FileInv' /\ Readable(f)' /\ \A g \in Names : Readable(g) => Readable(g)'
  <1>1. v \notin {Absent, Torn}
    BY VerifierAssumption
  <1>2. sel' = sel
    BY DEF After
  <1> QED BY <1>1, <1>2, AfterWrite DEF FileInv, Names

LEMMA FilesStep ==
    ASSUME Types, PoolInv, SelInv, FileInv, TimeInv, [Next]_vars
    PROVE  FileInv' /\ TimeInv'
  <1> USE DEF Names
  <1>1. ASSUME NEW c \in Candidates, Gathers(c) PROVE FileInv' /\ TimeInv'
    <2>1. UNCHANGED <<pc, file, sel, integ>>
      BY <1>1 DEF Gathers, StartCandidate, CandidateEnds, Verify, Record, RecordSkipped
    <2> QED BY <2>1 DEF FileInv, TimeInv, Readable
  <1>2. CASE Select
    <2>1. pc = "collect" /\ pc' = "selection" /\ UNCHANGED <<file, integ>>
      BY <1>2 DEF Select
    <2>2. \A f \in Names : file[f] = Absent
      BY <2>1 DEF TimeInv
    <2>3. integ = "none" /\ \A f \in Names : ~Readable(f)
      BY <2>1, <2>2 DEF TimeInv, Readable
    <2>4. FileInv'
      BY <2>1, <2>3 DEF FileInv, Readable
    <2>5. TimeInv'
      BY <2>1, <2>2, <2>3 DEF TimeInv, Readable, OnceSelected, OnceMaterial, WithWinner
    <2> QED BY <2>4, <2>5
  <1>3. ASSUME After, WriteSelection PROVE FileInv' /\ TimeInv'
    <2>1. /\ pc = "selection" /\ Write("selection", Selection) /\ sel' = sel
          /\ IF sel.winner = None THEN pc' = "integration" /\ integ' = "skipped"
             ELSE pc' = "decision" /\ UNCHANGED integ
      BY <1>3 DEF WriteSelection
    <2>2. integ = "none"
      BY <2>1 DEF TimeInv
    <2>3. Selection.winner = sel.winner /\ (sel.winner # None => Selection.fallback \/ Selection.result = 1)
      BY DEF Selection, SelInv
    <2>4. FileInv' /\ Readable("selection")'
      BY <1>3, <2>1, <2>2, <2>3, Contents, WriteStep
    <2>5. TimeInv'
      BY <2>1, <2>2, <2>4 DEF TimeInv, OnceSelected, OnceMaterial, WithWinner
    <2> QED BY <2>4, <2>5
  <1>4. ASSUME After, WriteDecision \/ RewriteDecision PROVE FileInv' /\ TimeInv'
    <2>1. /\ Write("decision", [winner |-> sel.winner]) /\ UNCHANGED <<sel, integ>>
          /\ \/ pc = "decision" /\ pc' = "apply"
             \/ pc = "decision again" /\ pc' = "orchestration"
      BY <1>4 DEF WriteDecision, RewriteDecision
    <2>2. FileInv' /\ \A g \in Names : Readable(g) => Readable(g)'
      BY <1>4, <2>1, Contents, WriteStep
    <2>3. \A g \in {"selection", "materialization"} : Readable(g)' => Readable(g)
      BY <2>1, AfterWrite
    <2>4. TimeInv'
      BY <2>1, <2>2 DEF TimeInv, OnceSelected, OnceMaterial, WithWinner
    <2> QED BY <2>2, <2>4
  <1>5. ASSUME After, Apply \/ ApplyFails PROVE FileInv' /\ TimeInv'
    <2>1. pc = "apply" /\ pc' = "integration" /\ integ' \in {"integrated", "failed"} /\ UNCHANGED <<file, sel>>
      BY <1>5 DEF Apply, ApplyFails
    <2>2. Readable("selection") /\ sel.winner # None /\ ~Readable("orchestration")
      BY <2>1 DEF TimeInv, FileInv, OnceSelected, WithWinner
    <2>3. FileInv'
      BY <2>1, <2>2 DEF FileInv, Readable
    <2>4. TimeInv'
      BY <2>1, <2>2 DEF TimeInv, Readable, OnceSelected, OnceMaterial, WithWinner
    <2> QED BY <2>3, <2>4
  <1>6. ASSUME After, WriteIntegration PROVE FileInv' /\ TimeInv'
    <2>1. /\ Write("integration", [winner |-> sel.winner, status |-> integ]) /\ UNCHANGED <<sel, integ>>
          /\ pc = "integration" /\ pc' = "materialization"
      BY <1>6 DEF WriteIntegration
    <2>2. integ # "none"
      BY <2>1 DEF TimeInv
    <2>3. FileInv' /\ \A g \in Names : Readable(g) => Readable(g)'
      BY <1>6, <2>1, <2>2, Contents, WriteStep
    <2>4. TimeInv'
      BY <2>1, <2>3 DEF TimeInv, OnceSelected, OnceMaterial, WithWinner
    <2> QED BY <2>3, <2>4
  <1>7. ASSUME After, WriteMaterialization PROVE FileInv' /\ TimeInv'
    <2> DEFINE v == [winner |-> sel.winner, fallback |-> sel.fallback, result |-> Selection.result,
                     status |-> MaterializationStatus]
    <2>1. /\ Write("materialization", v) /\ UNCHANGED <<sel, integ>>
          /\ pc = "materialization"
          /\ pc' = IF sel.winner = None THEN "orchestration" ELSE "selection again"
      BY <1>7 DEF WriteMaterialization
    <2>2. sel.winner # None => v.fallback \/ v.result = 1
      BY DEF Selection, SelInv
    <2>3. sel.winner # None => v.status = "selected"
      BY DEF MaterializationStatus, SelInv
    <2>4. v \in Content("materialization") /\ v.winner = sel.winner
      BY Contents
    <2> HIDE DEF v
    <2>5. FileInv' /\ Readable("materialization")' /\ \A g \in Names : Readable(g) => Readable(g)'
      BY <1>7, <2>1, <2>2, <2>3, <2>4, WriteStep
    <2>6. TimeInv'
      BY <2>1, <2>5 DEF TimeInv, OnceSelected, OnceMaterial, WithWinner
    <2> QED BY <2>5, <2>6
  <1>8. ASSUME After, RewriteSelection PROVE FileInv' /\ TimeInv'
    <2>1. /\ Write("selection", Selection) /\ UNCHANGED <<sel, integ>>
          /\ pc = "selection again" /\ pc' = "decision again"
      BY <1>8 DEF RewriteSelection
    <2>2. Selection.winner = sel.winner /\ (sel.winner # None => Selection.fallback \/ Selection.result = 1)
      BY DEF Selection, SelInv
    <2>3. FileInv' /\ \A g \in Names : Readable(g) => Readable(g)'
      BY <1>8, <2>1, <2>2, Contents, WriteStep
    <2>4. TimeInv'
      BY <2>1, <2>3 DEF TimeInv, OnceSelected, OnceMaterial, WithWinner
    <2> QED BY <2>3, <2>4
  <1>9. ASSUME After, WriteOrchestration PROVE FileInv' /\ TimeInv'
    <2>1. /\ Write("orchestration", [winner |-> sel.winner, status |-> Status]) /\ UNCHANGED <<sel, integ>>
          /\ pc = "orchestration" /\ pc' = "cleanup"
      BY <1>9 DEF WriteOrchestration
    <2>2. Status = "completed" => integ = "integrated"
      BY DEF Status, TimeInv
    <2>3. FileInv' /\ \A g \in Names : Readable(g) => Readable(g)'
      BY <1>9, <2>1, <2>2, Contents, WriteStep
    <2>4. TimeInv'
      BY <2>1, <2>3 DEF TimeInv, OnceSelected, OnceMaterial, WithWinner
    <2> QED BY <2>3, <2>4
  <1>10. ASSUME After, Cleanup \/ Materialize \/ Restore \/ UNCHANGED vars PROVE FileInv' /\ TimeInv'
    <2>1. UNCHANGED <<file, sel, integ>> /\ (pc' = pc \/ (pc = "cleanup" /\ pc' = "done"))
      <3>1. CASE Cleanup
        BY <3>1 DEF Cleanup
      <3>2. CASE Materialize \/ Restore
        BY <3>2 DEF Materialize, Restore
      <3>3. CASE UNCHANGED vars
        BY <3>3 DEF vars
      <3> QED BY <1>10, <3>1, <3>2, <3>3
    <2>2. FileInv'
      BY <2>1 DEF FileInv, Readable
    <2>3. TimeInv'
      BY <2>1 DEF TimeInv, Readable, OnceSelected, OnceMaterial, WithWinner
    <2> QED BY <2>2, <2>3
  <1>11. ASSUME After, Dies PROVE FileInv' /\ TimeInv'
    <2>1. pc' = "dead" /\ UNCHANGED <<sel, integ>> /\ (UNCHANGED file \/ \E f \in Written : Write(f, Torn))
      BY <1>11 DEF Dies
    <2>2. CASE UNCHANGED file
      BY <2>1, <2>2 DEF FileInv, TimeInv, Readable, OnceSelected, OnceMaterial, WithWinner
    <2>4. pc' = "dead" /\ sel' = sel /\ integ' = integ
      BY <2>1
    <2>3. ASSUME NEW f \in Written, Write(f, Torn) PROVE FileInv' /\ TimeInv'
      <3>1. /\ f \in Names
            /\ f = "selection" <=> pc \in {"selection", "selection again"}
            /\ f = "materialization" => pc = "materialization"
        BY <2>3 DEF Written, Types, Steps
      <3>2. /\ DOMAIN file' = Names /\ file'[f] = Torn /\ ~Readable(f)'
            /\ \A g \in Names \ {f} : file'[g] = file[g] /\ (Readable(g)' <=> Readable(g))
        BY <2>3, <3>1, AfterWrite
      <3>3. FileInv'
        BY <2>1, <3>1, <3>2, ZenonT(40) DEF FileInv
      <3>4. CASE pc = "selection"
        <4>1. integ = "none" /\ \A g \in Names : ~Readable(g)
          BY <3>4 DEF TimeInv, Readable
        <4>2. \A g \in Names : ~Readable(g)'
          BY <3>1, <3>2, <4>1
        <4> QED BY <2>4, <3>3, <4>1, <4>2 DEF TimeInv, OnceSelected, OnceMaterial, WithWinner
      <3>5. CASE pc # "selection"
        <4>1. Readable("selection")' \/ Readable("materialization")'
          <5>1. CASE pc = "selection again"
            BY <3>1, <3>2, <5>1 DEF TimeInv, OnceMaterial
          <5>2. CASE pc # "selection again"
            <6>1. pc \in OnceSelected
              BY <2>3, <3>5, <5>2 DEF Written, OnceSelected, OnceMaterial
            <6> QED BY <3>1, <3>2, <3>5, <5>2, <6>1 DEF TimeInv
          <5> QED BY <5>1, <5>2
        <4>2. \E g \in Names : Readable(g)'
          BY <4>1
        <4> QED BY <2>4, <3>3, <4>1, <4>2 DEF TimeInv, OnceSelected, OnceMaterial, WithWinner
      <3> QED BY <3>3, <3>4, <3>5
    <2> QED BY <2>1, <2>2, <2>3
  <1> QED BY <1>1, <1>2, <1>3, <1>4, <1>5, <1>6, <1>7, <1>8, <1>9, <1>10, <1>11, StepKinds DEF Writes

-----------------------------------------------------------------------------
(* What materialize finds in the directory of the run.                     *)
LEMMA FoundIs ==
    ASSUME FileInv
    PROVE  Found \in {None, sel.winner} /\ (Found # None => \E f \in Names : Readable(f))
  <1>1. \A f \in Named : f \in Names /\ Readable(f) /\ file[f].winner = sel.winner
    BY DEF Named, FileInv
  <1>2. CASE "materialization" \in Named
    BY <1>1, <1>2 DEF Found, NamedWinner
  <1>3. CASE "materialization" \notin Named /\ "selection" \in Named
    BY <1>1, <1>3 DEF Found, NamedWinner
  <1>4. CASE "materialization" \notin Named /\ "selection" \notin Named
    <2>1. Named \subseteq {"integration", "orchestration"}
      BY <1>4 DEF Named, Names
    <2>2. CASE "integration" \in Named
      <3>1. NamedWinner = file["integration"].winner
        BY <1>4, <2>1, <2>2 DEF NamedWinner
      <3> QED BY <1>1, <2>2, <3>1 DEF Found
    <2>3. CASE Named = {"orchestration"}
      <3>1. NamedWinner = file["orchestration"].winner
        BY <1>4, <2>3 DEF NamedWinner
      <3> QED BY <1>1, <2>3, <3>1 DEF Found
    <2>4. CASE Named = {}
      <3>1. NamedWinner = None
        BY <2>4 DEF NamedWinner
      <3> QED BY <3>1 DEF Found
    <2> QED BY <2>1, <2>2, <2>3, <2>4
  <1> QED BY <1>2, <1>3, <1>4

LEMMA Applies ==
    ASSUME RepoInv, NEW c \in Candidates \cup {Older},
           repo' = repo \cup {c}, applied' = Append(applied, c)
    PROVE  /\ applied' \in Seq(Candidates \cup {Older}) /\ repo' \subseteq Range(applied')
           /\ AppliedHere' = AppliedHere \cup ({c} \ {Older})
  <1>1. applied' \in Seq(Candidates \cup {Older})
    BY DEF RepoInv
  <1>2. Range(applied') = Range(applied) \cup {c}
    <2>1. /\ DOMAIN applied' = 1..(Len(applied) + 1) /\ DOMAIN applied = 1..Len(applied)
          /\ Len(applied) \in Nat
          /\ \A i \in 1..Len(applied) : applied'[i] = applied[i]
          /\ applied'[Len(applied) + 1] = c
      BY DEF RepoInv
    <2>2. 1..(Len(applied) + 1) = 1..Len(applied) \cup {Len(applied) + 1}
      BY <2>1
    <2> QED BY <2>1, <2>2 DEF Range
  <1> QED BY <1>1, <1>2 DEF RepoInv, AppliedHere

(* A run of which something could be read stays one.                       *)
LEMMA StillReadable ==
    ASSUME Types, PoolInv, SelInv, FileInv, TimeInv, [Next]_vars
    PROVE  (\E f \in Names : Readable(f)) => \E f \in Names : Readable(f)'
  <1>0. FileInv' /\ TimeInv'
    BY FilesStep
  <1>1. ASSUME file' = file PROVE \A f \in Names : Readable(f) => Readable(f)'
    BY <1>1 DEF Readable
  <1>2. CASE \E c \in Candidates : Gathers(c)
    <2>1. file' = file
      BY <1>2 DEF Gathers, StartCandidate, CandidateEnds, Verify, Record, RecordSkipped
    <2> QED BY <1>1, <2>1
  <1>3. CASE Select \/ Apply \/ ApplyFails \/ Cleanup \/ Materialize \/ Restore \/ UNCHANGED vars
    <2>1. file' = file
      <3>1. CASE Select \/ Apply \/ ApplyFails \/ Cleanup
        BY <3>1 DEF Select, Apply, ApplyFails, Cleanup
      <3>2. CASE Materialize \/ Restore \/ UNCHANGED vars
        BY <3>2 DEF Materialize, Restore, vars
      <3> QED BY <1>3, <3>1, <3>2
    <2> QED BY <1>1, <2>1
  <1>4. CASE WriteSelection \/ WriteDecision \/ WriteIntegration \/ WriteMaterialization
    <2>1. pc' \in OnceSelected
      BY <1>4 DEF WriteSelection, WriteDecision, WriteIntegration, WriteMaterialization,
                  OnceSelected, OnceMaterial
    <2> QED BY <1>0, <2>1 DEF TimeInv, Names
  <1>5. CASE RewriteSelection \/ RewriteDecision \/ WriteOrchestration
    <2>1. pc' \in OnceSelected
      BY <1>5 DEF RewriteSelection, RewriteDecision, WriteOrchestration, OnceSelected, OnceMaterial
    <2> QED BY <1>0, <2>1 DEF TimeInv, Names
  <1>6. CASE Dies
    <2>1. UNCHANGED file \/ \E f \in Written : Write(f, Torn)
      BY <1>6 DEF Dies
    <2>2. ASSUME NEW f \in Written, Write(f, Torn), NEW g \in Names, Readable(g)
          PROVE  \E h \in Names : Readable(h)'
      <3>1. pc # "selection"
        BY <2>2 DEF TimeInv, Readable
      <3>2. /\ f \in Names
            /\ f = "selection" => Readable("materialization")
            /\ f # "selection" => Readable("selection")
        BY <2>2, <3>1 DEF Written, Types, Steps, Names, TimeInv, OnceSelected, OnceMaterial
      <3>3. \A h \in Names \ {f} : Readable(h)' <=> Readable(h)
        BY <2>2, <3>2, AfterWrite
      <3> QED BY <3>2, <3>3 DEF Names
    <2> QED BY <1>1, <2>1, <2>2
  <1> QED BY <1>2, <1>3, <1>4, <1>5, <1>6, StepKinds DEF Writes

LEMMA RepoStep ==
    ASSUME Types, PoolInv, SelInv, FileInv, TimeInv, RepoInv, [Next]_vars
    PROVE  RepoInv'
  <1>0. FileInv' /\ TimeInv'
    BY FilesStep
  <1>1. ASSUME UNCHANGED <<sel, integ, repo, applied>>,
               (\E f \in Names : Readable(f)) => \E f \in Names : Readable(f)'
        PROVE  RepoInv'
    BY <1>1 DEF RepoInv, AppliedHere
  <1>2. ASSUME NEW c \in Candidates, Gathers(c) PROVE RepoInv'
    <2>1. UNCHANGED <<file, sel, integ, repo, applied>>
      BY <1>2 DEF Gathers, StartCandidate, CandidateEnds, Verify, Record, RecordSkipped
    <2> QED BY <1>1, <2>1 DEF Readable
  <1>3. CASE Select
    <2>1. pc = "collect" /\ UNCHANGED <<file, integ, repo, applied>>
      BY <1>3 DEF Select
    <2>2. AppliedHere = {} /\ integ = "none"
      BY <2>1, NoneIsNobody DEF TimeInv, RepoInv, Readable
    <2> QED BY <2>1, <2>2 DEF RepoInv, AppliedHere
  <1>4. ASSUME After,
               \/ WriteSelection \/ WriteDecision \/ WriteIntegration \/ WriteMaterialization
               \/ RewriteSelection \/ RewriteDecision \/ WriteOrchestration
               \/ ApplyFails /\ UNCHANGED <<repo, applied>>
               \/ Cleanup \/ UNCHANGED vars
        PROVE  RepoInv'
    <2>1. UNCHANGED <<repo, applied, sel>>
      <3>1. CASE WriteSelection \/ WriteDecision \/ WriteIntegration \/ WriteMaterialization
        BY <3>1 DEF WriteSelection, WriteDecision, WriteIntegration, WriteMaterialization
      <3>2. CASE RewriteSelection \/ RewriteDecision \/ WriteOrchestration
        BY <3>2 DEF RewriteSelection, RewriteDecision, WriteOrchestration
      <3>3. CASE Cleanup \/ UNCHANGED vars
        BY <3>3 DEF Cleanup, vars
      <3>4. CASE ApplyFails /\ UNCHANGED <<repo, applied>>
        BY <3>4 DEF ApplyFails
      <3> QED BY <1>4, <3>1, <3>2, <3>3, <3>4
    <2>2. integ' = "integrated" => integ = "integrated"
      <3>1. CASE WriteSelection \/ WriteDecision \/ WriteIntegration \/ WriteMaterialization
        BY <3>1 DEF WriteSelection, WriteDecision, WriteIntegration, WriteMaterialization
      <3>2. CASE RewriteSelection \/ RewriteDecision \/ WriteOrchestration
        BY <3>2 DEF RewriteSelection, RewriteDecision, WriteOrchestration
      <3>3. CASE Cleanup \/ UNCHANGED vars
        BY <3>3 DEF Cleanup, vars
      <3>4. CASE ApplyFails /\ UNCHANGED <<repo, applied>>
        BY <3>4 DEF ApplyFails
      <3> QED BY <1>4, <3>1, <3>2, <3>3, <3>4
    <2>3. (\E f \in Names : Readable(f)) => \E f \in Names : Readable(f)'
      BY StillReadable
    <2> QED BY <2>1, <2>2, <2>3 DEF RepoInv, AppliedHere
  <1>5. ASSUME Dies PROVE RepoInv'
    <2>1. UNCHANGED <<sel, integ, repo, applied>>
      BY <1>5 DEF Dies
    <2> QED BY <1>1, <2>1, StillReadable
  <1>6. ASSUME Apply \/ ApplyFails, PatchApplied PROVE RepoInv'
    <2>1. /\ pc = "apply" /\ pc' = "integration" /\ sel' = sel
          /\ repo' = repo \cup {sel.winner} /\ applied' = Append(applied, sel.winner)
      BY <1>6 DEF Apply, ApplyFails, PatchApplied
    <2>2. sel.winner \in Candidates
      BY <2>1 DEF TimeInv, WithWinner, SelInv, InStage
    <2>3. sel.winner # Older
      BY <2>2, VerifierAssumption DEF Candidates
    <2>4. /\ applied' \in Seq(Candidates \cup {Older}) /\ repo' \subseteq Range(applied')
          /\ AppliedHere' = AppliedHere \cup {sel.winner}
      BY <2>1, <2>2, <2>3, Applies
    <2>5. \E f \in Names : Readable(f)'
      BY <1>0, <2>1 DEF TimeInv, OnceSelected, Names
    <2> QED BY <2>1, <2>4, <2>5 DEF RepoInv
  <1>7. ASSUME Materialize PROVE RepoInv'
    <2>1. /\ Newest # None /\ UNCHANGED <<sel, integ, file>>
          /\ repo' = repo \cup {Newest} /\ applied' = Append(applied, Newest)
      BY <1>7 DEF Materialize
    <2>2. \/ Newest = Older
          \/ Newest = sel.winner /\ \E f \in Names : Readable(f)
      BY <2>1, FoundIs DEF Newest
    <2>3. Newest \in Candidates \cup {Older}
      BY <2>1, <2>2 DEF SelInv, InStage
    <2>4. /\ applied' \in Seq(Candidates \cup {Older}) /\ repo' \subseteq Range(applied')
          /\ AppliedHere' = AppliedHere \cup ({Newest} \ {Older})
      BY <2>1, <2>3, Applies
    <2>5. (\E f \in Names : Readable(f)) <=> \E f \in Names : Readable(f)'
      BY <2>1 DEF Readable
    <2> QED BY <2>1, <2>2, <2>4, <2>5 DEF RepoInv
  <1>8. ASSUME Restore PROVE RepoInv'
    <2>1. repo' = {} /\ UNCHANGED <<sel, integ, file, applied>>
      BY <1>8 DEF Restore
    <2> QED BY <2>1 DEF RepoInv, AppliedHere, Readable
  <1>9. Apply => PatchApplied
    BY DEF Apply
  <1>10. ApplyFails => PatchApplied \/ UNCHANGED <<repo, applied>>
    BY DEF ApplyFails
  <1> QED BY <1>2, <1>3, <1>4, <1>5, <1>6, <1>7, <1>8, <1>9, <1>10, StepKinds DEF Writes

-----------------------------------------------------------------------------
IInv == Types /\ PoolInv /\ SelInv /\ FileInv /\ TimeInv /\ RepoInv

LEMMA InitIInv == Init => IInv
  <1> SUFFICES ASSUME Init PROVE IInv
    OBVIOUS
  <1>1. Types
    BY VerifierAssumption DEF Init, Types, Steps, Errors
  <1>2. PoolInv
    <2>1. InStage("running") = {} /\ Cardinality(InStage("running")) = 0
      BY FS_EmptySet DEF Init, InStage
    <2>2. Width
      BY <1>1, <2>1, SettingType DEF Init, Width
    <2> QED BY <2>2 DEF Init, PoolInv, InOrder, RowsTell, NoneAfterSuccess, SelectsAmongAll
  <1>3. SelInv
    BY DEF Init, SelInv, NoSelection
  <1>4. FileInv /\ TimeInv
    BY DEF Init, FileInv, TimeInv, Readable, Names, OnceSelected, OnceMaterial, WithWinner
  <1>5. RepoInv
    <2>1. applied = <<>> /\ repo = {} /\ integ = "none"
      BY DEF Init
    <2>2. Range(applied) = {}
      BY <2>1 DEF Range
    <2> QED BY <2>1, <2>2 DEF RepoInv, AppliedHere
  <1> QED BY <1>1, <1>2, <1>3, <1>4, <1>5 DEF IInv

LEMMA NextIInv == IInv /\ [Next]_vars => IInv'
  BY TypesStep, PoolStep, SelStep, FilesStep, RepoStep DEF IInv

(* Whatever candidates, verdicts and deaths of the process there are: the  *)
(* invariant of the proof.                                                 *)
THEOREM Invariance == Spec => []IInv
  BY InitIInv, NextIInv, PTL DEF Spec

(* Nobody is run after a success in verifier-sequential, nobody is         *)
(* selected before all are verified in verifier-parallel, and a run that   *)
(* calls itself completed has applied its winner's patch.                  *)
THEOREM Paid == Spec => []VerifierInv
  <1>1. ASSUME IInv PROVE VerifierInv
    <2>1. TypeOK
      <3>1. repo \subseteq Candidates \cup {Older}
        BY <1>1 DEF IInv, RepoInv, Range
      <3> QED BY <1>1, <3>1 DEF IInv, Types, PoolInv, Width, SelInv, FileInv, RepoInv, TypeOK
    <2>2. CompletedIsApplied
      BY <1>1 DEF IInv, FileInv, RepoInv, CompletedIsApplied
    <2> QED BY <1>1, <2>1, <2>2 DEF IInv, PoolInv, VerifierInv
  <1> QED BY <1>1, Invariance, PTL

(* What is applied, by the run or by materialize, is the right candidate.  *)
THEOREM Justification == Spec => []AppliedIsJustified
  <1>1. ASSUME IInv PROVE AppliedIsJustified
    <2>1. ASSUME NEW c \in AppliedHere PROVE Justified(c)
      <3>1. c = sel.winner
        BY <1>1, <2>1 DEF IInv, RepoInv
      <3>2. c \in Candidates
        BY <1>1, <2>1 DEF IInv, RepoInv, AppliedHere, Range
      <3>3. sel.winner # None
        BY <3>1, <3>2, NoneIsNobody
      <3> QED BY <1>1, <3>1, <3>3 DEF IInv, SelInv
    <2> QED BY <2>1 DEF AppliedIsJustified
  <1> QED BY <1>1, Invariance, PTL

(* All the records of a run name one winner. *)
THEOREM Agreement == Spec => []RecordsAgree
  <1>1. IInv => RecordsAgree
    BY DEF IInv, FileInv, SelInv, RecordsAgree
  <1> QED BY <1>1, Invariance, PTL

(* materialize finds the winner that was applied, and the run's at its end. *)
THEOREM Finding == Spec => []WinnerIsFound
  <1>1. ASSUME IInv, sel.winner # None, file["materialization"] # Torn,
               Readable("selection") \/ Readable("materialization")
        PROVE  Found = sel.winner
    <2>1. ~Blocked
      BY <1>1 DEF IInv, FileInv, Blocked
    <2>2. ResultAllows
      BY <1>1 DEF IInv, FileInv, ResultAllows, RecordOf, Names
    <2>3. NamedWinner = sel.winner
      BY <1>1 DEF IInv, FileInv, NamedWinner, Named, Names
    <2> QED BY <2>1, <2>2, <2>3 DEF Found
  <1>2. ASSUME IInv PROVE FoundAgain
    BY <1>1, <1>2 DEF IInv, TimeInv, FoundAgain
  <1>3. ASSUME IInv PROVE EndIsMaterializable
    <2>1. pc = "done" => Readable("materialization") /\ file["materialization"] # Torn
      BY <1>3 DEF IInv, TimeInv, OnceMaterial, Readable
    <2>2. sel.winner = None => Found = None
      BY <1>3, FoundIs DEF IInv
    <2> QED BY <1>1, <1>3, <2>1, <2>2 DEF EndIsMaterializable
  <1> QED BY <1>2, <1>3, Invariance, PTL DEF WinnerIsFound

-----------------------------------------------------------------------------
(* The refinement of PatchDelivery.                                        *)
Anything == \E f \in Names : Readable(f)

LEMMA WriteOrDeliver ==
    ASSUME Types, [Next]_vars
    PROVE  (UNCHANGED <<file, repo>> \/ sel' = sel) /\ (file' = file \/ repo' = repo)
  <1>1. ASSUME NEW c \in Candidates, Gathers(c) PROVE UNCHANGED <<file, repo>>
    BY <1>1 DEF Gathers, StartCandidate, CandidateEnds, Verify, Record, RecordSkipped
  <1>2. ASSUME Select PROVE UNCHANGED <<file, repo>>
    BY <1>2 DEF Select
  <1>3. ASSUME Apply \/ ApplyFails \/ Cleanup \/ Materialize \/ Restore PROVE file' = file
    BY <1>3 DEF Apply, ApplyFails, Cleanup, Materialize, Restore
  <1>4. ASSUME WriteSelection \/ WriteDecision \/ WriteIntegration \/ WriteMaterialization PROVE repo' = repo
    BY <1>4 DEF WriteSelection, WriteDecision, WriteIntegration, WriteMaterialization
  <1>5. ASSUME RewriteSelection \/ RewriteDecision \/ WriteOrchestration \/ Dies \/ UNCHANGED vars
        PROVE  repo' = repo
    BY <1>5 DEF RewriteSelection, RewriteDecision, WriteOrchestration, Dies, vars
  <1> QED BY <1>1, <1>2, <1>3, <1>4, <1>5, StepKinds DEF Writes, After

LEMMA DeliveryStep ==
    ASSUME IInv, IInv', [Next]_vars
    PROVE  [Delivery!Progress]_<<Chosen, repo \ {Older}>>
  <1> DEFINE delivered == repo \ {Older}
  <1>1. delivered \subseteq AppliedHere /\ delivered' \subseteq AppliedHere'
    BY DEF IInv, RepoInv, AppliedHere
  <1>2. Anything => Anything'
    BY StillReadable DEF IInv, Anything
  <1>3. sel.winner \in Candidates \cup {None} /\ sel'.winner \in Candidates \cup {None}
    BY DEF IInv, SelInv, InStage
  <1>4. CASE Anything
    <2>1. Chosen = sel.winner /\ Chosen' = sel'.winner
      BY <1>2, <1>4 DEF Chosen, Anything
    <2>2. CASE UNCHANGED <<file, repo>> /\ sel' # sel
      <3>1. (\E c \in Candidates : Gathers(c)) \/ Select
        <4>1. ~After
          BY <2>2 DEF After
        <4> QED BY <2>2, <4>1, StepKinds DEF IInv
      <3>2. pc = "collect"
        BY <3>1 DEF Gathers, StartCandidate, CandidateEnds, Verify, Record, RecordSkipped, Select
      <3> QED BY <1>4, <3>2 DEF IInv, TimeInv, Anything, Readable
    <2>3. CASE sel' = sel
      <3>1. delivered' \subseteq {sel.winner}
        BY <1>1, <2>3 DEF IInv, RepoInv
      <3>2. sel.winner = None => delivered' = {}
        BY <3>1, NoneIsNobody, VerifierAssumption DEF IInv, RepoInv, Range
      <3>3. delivered' = {} \/ (delivered' = {sel.winner} /\ sel.winner # None)
        BY <3>1, <3>2
      <3> QED BY <2>1, <2>3, <3>3 DEF Delivery!Progress, Delivery!Deliver, Delivery!TakenBack
    <2> QED BY <2>2, <2>3, WriteOrDeliver DEF IInv
  <1>5. CASE ~Anything
    <2>1. Chosen = None /\ delivered = {}
      BY <1>1, <1>5 DEF Chosen, Anything, IInv, RepoInv
    <2>2. CASE ~Anything'
      <3>1. Chosen' = None /\ delivered' = {}
        BY <1>1, <2>2 DEF Chosen, Anything, IInv, RepoInv
      <3> QED BY <2>1, <3>1
    <2>3. CASE Anything'
      <3>1. file' # file
        BY <1>5, <2>3 DEF Anything, Readable
      <3>2. repo' = repo /\ sel' = sel
        BY <3>1, WriteOrDeliver DEF IInv
      <3>3. Chosen' = sel.winner /\ delivered' = {}
        BY <2>1, <2>3, <3>2 DEF Chosen, Anything
      <3> QED BY <1>3, <2>1, <3>3 DEF Delivery!Progress, Delivery!Choose
    <2> QED BY <2>2, <2>3
  <1> QED BY <1>4, <1>5

(* One candidate at most is chosen, on record before its patch reaches the *)
(* repository, and no other candidate's patch ever does.                   *)
THEOREM DeliveryRefinement == Spec => Delivers
  <1>1. Init => Delivery!Start
    BY DEF Init, Delivery!Start, Chosen, Readable
  <1> QED BY <1>1, DeliveryStep, Invariance, PTL DEF Spec, Delivers, Delivery!DeliverySpec

(***************************************************************************)
(* The run ends.  That the scheduler lets the process go on is fairness    *)
(* and no theorem here; but each of its steps uses up some of what is      *)
(* left, and until it has ended one of them can be taken.                  *)
(***************************************************************************)
(* How much is left of a candidate: to be run, captured, verified, and     *)
(* its row.                                                                *)
Level ==
    [c \in Candidates |->
        (CASE stage[c] = "waiting" -> 3 [] stage[c] = "running" -> 2 [] stage[c] = "ran" -> 1 [] OTHER -> 0)
            + (IF rows[c] = "none" THEN 1 ELSE 0)]

(* Of all of them, as a set to count. *)
Ahead == {p \in Candidates \X (1..4) : p[2] <= Level[p[1]]}

(* How many steps from here to the end of run(), once all is gathered. *)
Distance ==
    [p \in Steps |->
        IF p = "collect" THEN 10 ELSE IF p = "selection" THEN 9 ELSE IF p = "decision" THEN 8
        ELSE IF p = "apply" THEN 7 ELSE IF p = "integration" THEN 6 ELSE IF p = "materialization" THEN 5
        ELSE IF p = "selection again" THEN 4 ELSE IF p = "decision again" THEN 3
        ELSE IF p = "orchestration" THEN 2 ELSE IF p = "cleanup" THEN 1 ELSE 0]

PlaceLeft == Distance[pc]

Effort == Cardinality(Ahead) + PlaceLeft

RunSteps == 4 * N + 10

LEMMA DistanceIs ==
    /\ Distance \in [Steps -> 0..10]
    /\ Distance["collect"] = 10 /\ Distance["selection"] = 9 /\ Distance["decision"] = 8
    /\ Distance["apply"] = 7 /\ Distance["integration"] = 6 /\ Distance["materialization"] = 5
    /\ Distance["selection again"] = 4 /\ Distance["decision again"] = 3
    /\ Distance["orchestration"] = 2 /\ Distance["cleanup"] = 1
    /\ Distance["done"] = 0 /\ Distance["dead"] = 0
  BY DEF Distance, Steps, Names

LEMMA LevelRange == Level \in [Candidates -> 0..4] /\ Level' \in [Candidates -> 0..4]
  BY DEF Level

LEMMA AheadCounts ==
    /\ IsFiniteSet(Ahead)
    /\ Cardinality(Ahead) \in Nat /\ Cardinality(Ahead) <= 4 * N
    /\ Cardinality(Ahead') \in Nat
    /\ Types => PlaceLeft \in 0..10
    /\ Types' => PlaceLeft' \in 0..10
  <1>1. N \in Nat
    BY VerifierAssumption
  <1>2. IsFiniteSet(Candidates) /\ Cardinality(Candidates) = N
    BY <1>1, FS_Interval DEF Candidates
  <1>3. IsFiniteSet(1..4) /\ Cardinality(1..4) = 4
    <2>1. \A n \in Nat : IsFiniteSet(1..n) /\ Cardinality(1..n) = n
      BY FS_Interval
    <2> QED BY <2>1
  <1>4. IsFiniteSet(Candidates \X (1..4)) /\ Cardinality(Candidates \X (1..4)) = N * 4
    BY <1>2, <1>3, FS_Product
  <1>5. Ahead \in SUBSET (Candidates \X (1..4)) /\ Ahead' \in SUBSET (Candidates \X (1..4))
    BY DEF Ahead
  <1>6. IsFiniteSet(Ahead) /\ IsFiniteSet(Ahead') /\ Cardinality(Ahead) <= N * 4
    BY <1>4, <1>5, FS_Subset
  <1>7. Cardinality(Ahead) \in Nat /\ Cardinality(Ahead') \in Nat
    BY <1>6, FS_CardinalityType
  <1>8. (Types => PlaceLeft \in 0..10) /\ (Types' => PlaceLeft' \in 0..10)
    BY DistanceIs DEF PlaceLeft, Types, Steps, Names
  <1> QED BY <1>1, <1>6, <1>7, <1>8

(* What gathers brings one candidate nearer to its row and no other        *)
(* farther from it.                                                        *)
LEMMA GatherUses ==
    ASSUME Types, NEW c \in Candidates, Gathers(c)
    PROVE  Effort' < Effort
  <1>1. pc' = pc
    BY DEF Gathers, StartCandidate, CandidateEnds, Verify, Record, RecordSkipped
  <1>2. Level'[c] < Level[c] /\ \A d \in Candidates : d # c => Level'[d] = Level[d]
    <2> USE DEF Types, Level
    <2>1. CASE StartCandidate(c) \/ CandidateEnds(c) \/ Verify(c)
      BY <2>1 DEF StartCandidate, CandidateEnds, Verify
    <2>2. CASE Record(c)
      BY <2>2 DEF Record
    <2>3. CASE RecordSkipped(c)
      BY <2>3 DEF RecordSkipped
    <2> QED BY <2>1, <2>2, <2>3 DEF Gathers
  <1>3. \A d \in Candidates : Level[d] \in 0..4 /\ Level'[d] \in 0..4
    BY LevelRange
  <1>4. Ahead' \in SUBSET Ahead
    BY <1>2, <1>3 DEF Ahead
  <1>5. <<c, Level[c]>> \in Ahead /\ <<c, Level[c]>> \notin Ahead'
    BY <1>2, <1>3 DEF Ahead
  <1>6. Cardinality(Ahead') <= Cardinality(Ahead) /\ Cardinality(Ahead') # Cardinality(Ahead)
    BY <1>4, <1>5, AheadCounts, FS_Subset
  <1>7. PlaceLeft' = PlaceLeft
    BY <1>1 DEF PlaceLeft
  <1> QED BY <1>6, <1>7, AheadCounts DEF Effort

(* Every write, the selection, the application and the death of the        *)
(* process bring the run nearer to its end; the user does not.             *)
LEMMA PlaceUses ==
    ASSUME Types, Next, ~\E c \in Candidates : Gathers(c)
    PROVE  Effort' < Effort \/ ((Materialize \/ Restore) /\ Effort' = Effort)
  <1>1. UNCHANGED <<stage, rows>>
    <2>1. ASSUME Select PROVE UNCHANGED <<stage, rows>>
      BY <2>1 DEF Select
    <2>2. ASSUME After PROVE UNCHANGED <<stage, rows>>
      BY <2>2 DEF After, GatherVars
    <2> QED BY <2>1, <2>2, StepKinds
  <1>2. Ahead' = Ahead
    BY <1>1 DEF Ahead, Level
  <1>3. PlaceLeft' < PlaceLeft \/ ((Materialize \/ Restore) /\ pc' = pc)
    <2>1. CASE Select \/ WriteSelection \/ WriteDecision
      <3>1. \/ pc = "collect" /\ pc' = "selection"
            \/ pc = "selection" /\ (pc' = "decision" \/ pc' = "integration")
            \/ pc = "decision" /\ pc' = "apply"
        BY <2>1 DEF Select, WriteSelection, WriteDecision
      <3>2. \/ PlaceLeft = 10 /\ PlaceLeft' = 9
            \/ PlaceLeft = 9 /\ (PlaceLeft' = 8 \/ PlaceLeft' = 6)
            \/ PlaceLeft = 8 /\ PlaceLeft' = 7
        BY <3>1, DistanceIs DEF PlaceLeft
      <3> QED BY <3>2
    <2>2. CASE Apply \/ ApplyFails \/ WriteIntegration \/ WriteMaterialization
      <3>1. \/ pc = "apply" /\ pc' = "integration"
            \/ pc = "integration" /\ pc' = "materialization"
            \/ pc = "materialization" /\ (pc' = "orchestration" \/ pc' = "selection again")
        BY <2>2 DEF Apply, ApplyFails, WriteIntegration, WriteMaterialization
      <3>2. \/ PlaceLeft = 7 /\ PlaceLeft' = 6
            \/ PlaceLeft = 6 /\ PlaceLeft' = 5
            \/ PlaceLeft = 5 /\ (PlaceLeft' = 2 \/ PlaceLeft' = 4)
        BY <3>1, DistanceIs DEF PlaceLeft
      <3> QED BY <3>2
    <2>3. CASE RewriteSelection \/ RewriteDecision \/ WriteOrchestration \/ Cleanup
      <3>1. \/ pc = "selection again" /\ pc' = "decision again"
            \/ pc = "decision again" /\ pc' = "orchestration"
            \/ pc = "orchestration" /\ pc' = "cleanup"
            \/ pc = "cleanup" /\ pc' = "done"
        BY <2>3 DEF RewriteSelection, RewriteDecision, WriteOrchestration, Cleanup
      <3>2. \/ PlaceLeft = 4 /\ PlaceLeft' = 3
            \/ PlaceLeft = 3 /\ PlaceLeft' = 2
            \/ PlaceLeft = 2 /\ PlaceLeft' = 1
            \/ PlaceLeft = 1 /\ PlaceLeft' = 0
        BY <3>1, DistanceIs DEF PlaceLeft
      <3> QED BY <3>2
    <2>4. CASE Dies
      <3>1. pc \in Steps \ {"done", "dead"} /\ pc' = "dead"
        BY <2>4 DEF Dies, Types
      <3>2. PlaceLeft' = 0
        BY <3>1, DistanceIs DEF PlaceLeft
      <3>3. PlaceLeft \in {1, 2, 3, 4, 5, 6, 7, 8, 9, 10}
        BY <3>1, DistanceIs DEF PlaceLeft, Steps, Names
      <3> QED BY <3>2, <3>3
    <2>5. CASE Materialize \/ Restore
      BY <2>5 DEF Materialize, Restore
    <2> QED BY <2>1, <2>2, <2>3, <2>4, <2>5 DEF Next, RunStep, Gathers
  <1>4. CASE PlaceLeft' < PlaceLeft
    <2>1. Types'
      BY TypesStep
    <2> QED BY <1>2, <1>4, <2>1, AheadCounts DEF Effort
  <1>5. CASE (Materialize \/ Restore) /\ pc' = pc
    <2>1. PlaceLeft' = PlaceLeft
      BY <1>5 DEF PlaceLeft
    <2> QED BY <1>2, <1>5, <2>1 DEF Effort
  <1> QED BY <1>3, <1>4, <1>5

(* A run has no more than RunSteps steps: none runs, verifies, records or  *)
(* writes anything again, whatever dies or fails on the way and however    *)
(* often the user applies or restores meanwhile.                           *)
THEOREM RunBounded ==
    Spec => /\ Effort <= RunSteps
            /\ [](Effort \in Nat)
            /\ [][Effort' < Effort \/ ((Materialize \/ Restore) /\ Effort' = Effort)]_vars
  <1> DEFINE Uses == Effort' < Effort \/ ((Materialize \/ Restore) /\ Effort' = Effort)
  <1>1. IInv => Effort \in Nat /\ Effort <= RunSteps
    <2>1. N \in Nat
      BY VerifierAssumption
    <2>2. 4 * N \in Nat
      BY <2>1
    <2> QED BY <2>2, AheadCounts DEF IInv, Effort, RunSteps
  <1>2. IInv /\ [Next]_vars => [Uses]_vars
    BY GatherUses, PlaceUses DEF IInv
  <1> QED BY <1>1, <1>2, Invariance, PTL DEF Spec

-----------------------------------------------------------------------------
(* What a selection is made among is never empty, and so is what can be    *)
(* selected.                                                               *)
LEMMA SelectionExists ==
    ASSUME Types, NEW R, R = [c \in InStage("verified") |-> report[c]], DOMAIN R # {}
    PROVE  Choices(R) # {}
  <1> DEFINE zeros  == WithResult(R, 0)
             errors == DOMAIN R \ (WithResult(R, 1) \cup zeros)
  <1>1. CASE WithResult(R, 1) # {}
    BY <1>1 DEF Choices, ParallelSelection, FirstSuccess, SelectWinner
  <1>2. CASE WithResult(R, 1) = {}
    <2>1. zeros # {} \/ errors # {}
      BY <1>2
    <2>2. SelectWinner(R, setting.onAllFail) # {}
      <3>1. CASE setting.onAllFail = "fail"
        BY <1>2, <3>1 DEF SelectWinner
      <3>2. CASE setting.onAllFail = "random"
        <4>1. SelectWinner(R, setting.onAllFail) = {Instead(c) : c \in IF zeros # {} THEN zeros ELSE errors}
          BY <1>2, <3>2 DEF SelectWinner
        <4>2. PICK c : c \in IF zeros # {} THEN zeros ELSE errors
          BY <2>1
        <4>3. Instead(c) \in SelectWinner(R, setting.onAllFail)
          BY <4>1, <4>2
        <4> QED BY <4>3
      <3>3. CASE setting.onAllFail = "best-confidence"
        BY <1>2, <2>1, <3>3 DEF SelectWinner
      <3> QED BY <3>1, <3>2, <3>3, SettingType
    <2> QED BY <1>2, <2>2 DEF Choices, ParallelSelection, FirstSuccess
  <1> QED BY <1>1, <1>2

(* What may be done for candidate c: the guards of the five actions.       *)
CanGather(c) ==
    \/ stage[c] = "waiting" /\ (\A d \in 1..(c - 1) : stage[d] # "waiting") /\ MayRun(c)
    \/ stage[c] \in {"running", "ran"}
    \/ rows[c] = "none" /\ MayRecord(c)
    \/ /\ rows[c] = "none" /\ setting.mode = "sequential"
       /\ \E d \in 1..(c - 1) : rows[d] = "selected"
       /\ \A d \in 1..(c - 1) : rows[d] # "none"

CanSelect ==
    /\ \A c \in Candidates : rows[c] # "none"
    /\ Choices([c \in InStage("verified") |-> report[c]]) # {}

GoesOn == pc = "collect" => CanSelect \/ \E c \in Candidates : CanGather(c)

(* The first candidate without a row is where verifier-sequential is.      *)
LEMMA SequentialGoesOn ==
    ASSUME Types, PoolInv, setting.mode = "sequential",
           NEW c \in Candidates, rows[c] = "none", \A d \in 1..(c - 1) : rows[d] # "none"
    PROVE  CanGather(c)
  <1>1. CASE \E d \in 1..(c - 1) : rows[d] = "selected"
    BY <1>1 DEF CanGather
  <1>2. CASE ~\E d \in 1..(c - 1) : rows[d] = "selected"
    <2>1. ASSUME NEW d \in 1..(c - 1) PROVE rows[d] = "verified"
      <3>1. d \in Candidates /\ d < c
        BY Below
      <3>2. ASSUME rows[d] = "skipped" PROVE FALSE
        <4>1. PICK e \in 1..(d - 1) : rows[e] = "selected"
          BY <3>1, <3>2 DEF PoolInv, RowsTell
        <4>2. e \in Candidates /\ e < d
          BY <3>1, <4>1, Below
        <4>3. e \in 1..(c - 1)
          BY <3>1, <4>2, Below, CandidatesFinite
        <4> QED BY <1>2, <4>1, <4>3
      <3> QED BY <1>2, <3>1, <3>2 DEF Types
    <2>2. \A d \in 1..(c - 1) : stage[d] = "verified" /\ ~Successful(d)
      BY <2>1, Below DEF PoolInv, RowsTell
    <2>3. MayRun(c) /\ \A d \in 1..(c - 1) : stage[d] # "waiting"
      BY <2>1, <2>2 DEF MayRun
    <2>4. stage[c] = "verified" => MayRecord(c)
      BY DEF MayRecord
    <2>5. stage[c] \in {"waiting", "running", "ran", "verified"}
      BY DEF Types
    <2> QED BY <2>3, <2>4, <2>5 DEF CanGather
  <1> QED BY <1>1, <1>2

(* verifier-parallel has a candidate in its pool, a place for one that     *)
(* waits, or only rows to write.                                           *)
LEMMA ParallelGoesOn ==
    ASSUME Types, PoolInv, setting.mode = "parallel",
           NEW c \in Candidates, rows[c] = "none", \A d \in 1..(c - 1) : rows[d] # "none"
    PROVE  \E d \in Candidates : CanGather(d)
  <1>1. CASE \A d \in Candidates : stage[d] = "verified"
    BY <1>1 DEF CanGather, MayRecord
  <1>2. CASE \E d \in Candidates : stage[d] \in {"running", "ran"}
    BY <1>2 DEF CanGather
  <1>3. CASE /\ \E d \in Candidates : stage[d] # "verified"
             /\ ~\E d \in Candidates : stage[d] \in {"running", "ran"}
    <2> DEFINE W == InStage("waiting")
    <2>1. W \in SUBSET Nat /\ W # {} /\ W \subseteq Candidates
      BY <1>3, CandidatesFinite DEF InStage, Types
    <2>2. PICK d \in W : \A e \in W : d <= e
      BY <2>1, LeastNatural
    <2>3. d \in Candidates /\ stage[d] = "waiting"
      BY <2>1, <2>2 DEF InStage
    <2>4. ASSUME NEW e \in 1..(d - 1), stage[e] = "waiting" PROVE FALSE
      <3>1. e \in Candidates /\ e < d
        BY <2>3, Below
      <3>2. e \in W
        BY <2>4, <3>1 DEF InStage
      <3> QED BY <2>2, <2>3, <3>1, <3>2, CandidatesFinite
    <2>5. MayRun(d)
      <3>1. InStage("running") = {}
        BY <1>3 DEF InStage
      <3>2. Cardinality(InStage("running")) = 0
        BY <3>1, FS_EmptySet
      <3>3. setting.width \in Nat \ {0}
        BY VerifierAssumption DEF Types, Setting, Candidates
      <3>4. Cardinality(InStage("running")) < setting.width
        BY <3>2, <3>3
      <3> QED BY <3>4 DEF MayRun
    <2> QED BY <2>3, <2>4, <2>5 DEF CanGather
  <1> QED BY <1>1, <1>2, <1>3

(* While it gathers, run() can always go on: there is an agent or a        *)
(* verifier to wait for, a place in the pool, a row to write, or a         *)
(* selection to make, which is never without a result.  The writes after   *)
(* it have no condition but their place.                                   *)
THEOREM RunNeverStuck == Spec => []GoesOn
  <1>1. ASSUME IInv PROVE CanSelect \/ \E c \in Candidates : CanGather(c)
    <2> USE <1>1 DEF IInv
    <2>1. CASE \A c \in Candidates : rows[c] # "none"
      <3> DEFINE R == [c \in InStage("verified") |-> report[c]]
      <3>1. DOMAIN R # {}
        BY <2>1, SomebodyVerified
      <3>2. Choices(R) # {}
        BY <3>1, SelectionExists
      <3> QED BY <2>1, <3>2 DEF CanSelect
    <2>2. CASE \E c \in Candidates : rows[c] = "none"
      <3> DEFINE S == {c \in Candidates : rows[c] = "none"}
      <3>1. S \in SUBSET Nat /\ S # {}
        BY <2>2, CandidatesFinite
      <3>2. PICK c \in S : \A d \in S : c <= d
        BY <3>1, LeastNatural
      <3>3. ASSUME NEW d \in 1..(c - 1), rows[d] = "none" PROVE FALSE
        <4>1. c \in Candidates /\ d \in Candidates /\ d < c
          BY <3>2, Below
        <4> QED BY <3>2, <3>3, <4>1, CandidatesFinite
      <3>4. c \in Candidates /\ rows[c] = "none" /\ \A d \in 1..(c - 1) : rows[d] # "none"
        BY <3>2, <3>3
      <3> QED BY <3>4, SequentialGoesOn, ParallelGoesOn, SettingType
    <2> QED BY <2>1, <2>2
  <1>2. IInv => GoesOn
    BY <1>1 DEF GoesOn
  <1> QED BY <1>2, Invariance, PTL
=============================================================================
