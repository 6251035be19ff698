-------------------------- MODULE SingleTaskRunProofs --------------------------
(***************************************************************************)
(* Theorems about SingleTaskRun, for any results of the runner, any budget *)
(* and any turn limit.                                                     *)
(*                                                                         *)
(* The argument: whatever the model, the recovery and the loop do, a step  *)
(* does one of six things to the data of the run (DataSteps).  An attempt  *)
(* that is eligible is not touched by any of them, so that what was        *)
(* concluded from it stays true.                                           *)
(***************************************************************************)
EXTENDS SingleTaskRun, FiniteSetTheorems, WellFoundedInduction, TLAPS

Ends ==
    /\ Active /\ UNCHANGED <<attempts, obs, selection>>
    /\ final' \in [decision : {"rejected", "failed"},
                   blockers : {"plain", "fatal", "provider", "max_turns"}, winner : {None}]
    /\ final'.blockers = "plain" => \A i \in Ids : ~Pending(i)

Judges(i) == Validate(i) \/ \E scope \in {"candidate", "integration"} : Review(i, scope)

DataSteps ==
    \/ \E stage \in Stages : RunNext(stage)
    \/ \E i \in Ids : Observe(i) \/ Judges(i)
    \/ \E x \in Ids \cup {RejectAll} : Select(x)
    \/ Accept
    \/ Ends
    \/ UNCHANGED dataVars

-----------------------------------------------------------------------------
(* The types.                                                              *)
Log ==
    /\ DOMAIN obs.of \subseteq Ids
    /\ DOMAIN obs.of # {} => obs.latest \in DOMAIN obs.of

Loop ==
    /\ pc \in {"turn", "calls", "last", "done"} /\ turn \in Nat /\ turn <= MaxTurns
    /\ pc = "calls" => turn < MaxTurns
    /\ reviewer \in BOOLEAN /\ unattended \in BOOLEAN

Types == TypeOK /\ Log /\ Loop

LEMMA IdsAre ==
    ASSUME attempts \in Seq(Attempt)
    PROVE  Ids = 1..Len(attempts) /\ Len(attempts) \in Nat /\ Ids \subseteq Nat
           /\ \A i \in Ids : attempts[i] \in Attempt
  BY DEF Ids

(* A set of numbers that is not empty has a least one.                     *)
LEMMA LeastNatural ==
    ASSUME NEW S \in SUBSET Nat, S # {}
    PROVE  \E n \in S : \A m \in S : n <= m
  <1> DEFINE Less == OpToRel(<, Nat)
  <1>1. IsWellFoundedOn(Less, Nat)
    BY NatLessThanWellFounded
  <1>2. \A m, n \in Nat : m < n => <<m, n>> \in Less
    BY DEF OpToRel
  <1> HIDE DEF Less
  <1>3. PICK n \in S : \A m \in S : <<m, n>> \notin Less
    BY <1>1, WFMin
  <1>4. n \in Nat /\ \A m \in S : m \in Nat /\ ~(m < n)
    BY <1>2, <1>3
  <1> QED BY <1>4

LEMMA FirstIs ==
    ASSUME NEW S \in SUBSET Nat, S # {}
    PROVE  First(S) \in S
  BY LeastNatural DEF First

(* What is recommended is recommended of an attempt there is.              *)
LEMMA RecommendedOf ==
    ASSUME Types
    PROVE  /\ Recommendation.tool \in {"review", "observe", "select"} => Recommendation.id \in Ids
           /\ Recommendation.tool \in {"accept", "run", "ask", "review", "observe", "select", "reject_all"}
  <1> DEFINE noReview == {i \in Ids : ReviewMissing(attempts[i])}
             stale == {i \in Ids : ~IsFresh(i)}
  <1>1. Ids \subseteq Nat
    BY IdsAre DEF Types, TypeOK
  <1>2. Good \subseteq Ids /\ Unvalidated \subseteq Ids /\ noReview \subseteq Ids /\ stale \subseteq Ids
    BY DEF Good, Unvalidated
  <1>3. \A S \in SUBSET Ids : S # {} => First(S) \in Ids
    BY <1>1, FirstIs
  <1>4. Ids # {} /\ stale = {} => obs.latest \in Ids
    BY DEF Types, Log, IsFresh, Fresh, Observed
  <1>5. \A t, i : Do(t, i).tool = t /\ Do(t, i).id = i
    BY DEF Do
  <1> HIDE DEF noReview, stale
  <1>6. CASE selection \in Good \/ Ids = {}
    BY <1>5, <1>6 DEF Recommendation
  <1> DEFINE busy == selection \notin Good /\ Ids # {}
  <1>7. CASE busy /\ (Unvalidated # {} \/ noReview # {} \/ stale # {} \/ Good # {})
    <2>1. CASE Unvalidated # {}
      BY <1>5, <1>7, <2>1 DEF Recommendation, noReview, stale
    <2>2. CASE Unvalidated = {} /\ noReview # {}
      <3>1. Recommendation = Do("review", First(noReview))
        BY <1>7, <2>2 DEF Recommendation, noReview, stale
      <3> QED BY <1>2, <1>3, <1>5, <2>2, <3>1
    <2>3. CASE Unvalidated = {} /\ noReview = {} /\ stale # {}
      <3>1. Recommendation = Do("observe", First(stale))
        BY <1>7, <2>3 DEF Recommendation, noReview, stale
      <3> QED BY <1>2, <1>3, <1>5, <2>3, <3>1
    <2>4. CASE Unvalidated = {} /\ noReview = {} /\ stale = {} /\ Good # {}
      <3>1. Recommendation = Do("select", First(Good))
        BY <1>7, <2>4 DEF Recommendation, noReview, stale
      <3> QED BY <1>2, <1>3, <1>5, <2>4, <3>1
    <2> QED BY <1>7, <2>1, <2>2, <2>3, <2>4
  <1>8. CASE selection \notin Good /\ Ids # {} /\ Unvalidated = {} /\ noReview = {} /\ stale = {} /\ Good = {}
    BY <1>4, <1>5, <1>8 DEF Recommendation, noReview, stale
  <1> QED BY <1>6, <1>7, <1>8

LEMMA RecoverIs ==
    ASSUME Types, Recover
    PROVE  DataSteps
  <1>1. CASE Executed(Recommendation)
    BY <1>1, RecommendedOf DEF Executed, DataSteps, Judges, Stages
  <1>2. CASE UNCHANGED dataVars
    BY <1>2 DEF DataSteps
  <1> QED BY <1>1, <1>2 DEF Recover

(* Whatever a step is, it is one of these things to the data.              *)
LEMMA StepIs ==
    ASSUME Types, [Next]_vars
    PROVE  DataSteps
  <1>1. CASE ToolCall
    <2>1. ASSUME NEW d \in {"rejected", "failed"}, NEW b \in {"plain", "fatal"}, GiveUp(d, b) PROVE Ends
      BY <2>1 DEF GiveUp, Conclude, Ends
    <2> QED BY <1>1, <2>1 DEF ToolCall, DataSteps, Judges
  <1>2. CASE ProviderFails
    BY <1>2 DEF ProviderFails, InTurn, Conclude, DataSteps, Ends
  <1>3. CASE WrapUp
    BY <1>3 DEF WrapUp, Conclude, DataSteps, Ends, dataVars
  <1>4. CASE ModelCallsTools \/ EndOfCalls \/ UNCHANGED vars
    BY <1>4 DEF ModelCallsTools, EndOfCalls, vars, DataSteps
  <1>5. CASE NoToolCall
    BY <1>5, RecoverIs DEF NoToolCall
  <1>6. CASE RecoveryInterrupted
    BY <1>6 DEF RecoveryInterrupted, DataSteps, Stages
  <1>7. CASE LeaveLoop
    <2>1. CASE UNCHANGED dataVars
      BY <2>1 DEF DataSteps
    <2> QED BY <1>7, <2>1, RecoverIs DEF LeaveLoop
  <1> QED BY <1>1, <1>2, <1>3, <1>4, <1>5, <1>6, <1>7 DEF Next

-----------------------------------------------------------------------------
(* The attempts.                                                           *)
LEMMA AttemptData ==
    ASSUME NEW a \in Attempt
    PROVE  /\ \A v \in Decided : Validated(a, v) \in Attempt
           /\ \A r \in Verdicts : Reviewed(a, r) \in Attempt
           /\ \A v \in Decided : Validated(a, v).ok = a.ok /\ Validated(a, v).patch = a.patch
           /\ \A r \in Verdicts : Reviewed(a, r).ok = a.ok /\ Reviewed(a, r).patch = a.patch
  BY DEF Attempt, Validated, Reviewed

(* The handler of an attempt leaves one behind, at whatever stage it stops.*)
LEMMA RunLeaves ==
    ASSUME SingleTaskAssumption, NEW stage \in Stages, NEW a \in RanThrough(stage, Results, reviewer)
    PROVE  a \in Attempt
  <1> DEFINE validated == UNION {IF b.ok THEN {Validated(b, v) : v \in Decided} ELSE {b} : b \in Results}
             reviewed == UNION {IF b.ok /\ reviewer THEN {Reviewed(b, r) : r \in Verdicts} ELSE {b} : b \in validated}
  <1>1. Results \subseteq Attempt
    <2>1. RunResults \subseteq Attempt
      BY DEF RunResults, Ran, Attempt, Patches, Decided
    <2> QED BY <2>1 DEF SingleTaskAssumption
  <1>2. validated \subseteq Attempt
    BY <1>1, AttemptData
  <1> HIDE DEF validated
  <1>3. reviewed \subseteq Attempt
    BY <1>2, AttemptData
  <1> HIDE DEF reviewed
  <1>4. a \in Results \/ a \in validated \/ a \in reviewed
    BY DEF RanThrough, validated, reviewed
  <1> QED BY <1>1, <1>2, <1>3, <1>4

(* Only evidence that is missing is gathered, and none about an attempt    *)
(* when some attempt is good.                                              *)
LEMMA NoneGood ==
    ASSUME Allowed("validate") \/ Allowed("review")
    PROVE  Good = {} /\ Active
  BY DEF Allowed

(* No step changes an attempt that is good.                                *)
LEMMA Kept ==
    ASSUME Types, DataSteps
    PROVE  Ids \subseteq Ids' /\ \A i \in Good : attempts'[i] = attempts[i]
  <1> USE DEF Types, TypeOK
  <1>1. CASE \E stage \in Stages : RunNext(stage)
    BY <1>1, IdsAre DEF RunNext, Ids, Good
  <1>2. CASE \E i \in Ids : Judges(i)
    <2>1. Good = {}
      BY <1>2, NoneGood DEF Judges, Validate, Review
    <2>2. Ids' = Ids
      BY <1>2 DEF Judges, Validate, Review, Ids
    <2> QED BY <2>1, <2>2
  <1>3. CASE UNCHANGED attempts
    BY <1>3 DEF Ids
  <1> QED BY <1>1, <1>2, <1>3 DEF DataSteps, Observe, Select, Accept, Ends, dataVars

LEMMA GoodStays ==
    ASSUME Types, DataSteps
    PROVE  Good \subseteq Good' /\ \A i \in Good : Eligible(attempts'[i], "candidate")
  BY Kept DEF Good, IsGood

-----------------------------------------------------------------------------
(* The inductive invariant.  Every observation was made of the attempt as  *)
(* it was at some time, with the same runner's result; the one that says   *)
(* accepted is of an attempt that is good now.                             *)
Was(b, i) ==
    /\ b.ok = attempts[i].ok /\ b.patch = attempts[i].patch
    /\ obs.of[i] = Observation(b, "candidate")

Records ==
    \A i \in DOMAIN obs.of :
        /\ \E b \in Attempt : Was(b, i)
        /\ obs.of[i].outcome = "accepted" => i \in Good

Accepted == final.decision = "accepted" => final.winner = selection /\ selection \in Good

IInv == Types /\ Records /\ Accepted

LEMMA InitIInv ==
    ASSUME SingleTaskAssumption, Init
    PROVE  IInv
  <1>1. attempts \in Seq(Attempt) /\ Len(attempts) = 0 /\ DOMAIN obs.of = {}
    BY DEF Init, NoObservations
  <1>2. final.decision = "none" /\ final.winner = None /\ selection = None
    BY DEF Init, Open
  <1>3. TypeOK
    BY <1>1, <1>2 DEF Init, SingleTaskAssumption, TypeOK
  <1> QED BY <1>1, <1>2, <1>3 DEF Init, SingleTaskAssumption, IInv, Types, Log, Loop, Records, Accepted

LEMMA LoopStep ==
    ASSUME SingleTaskAssumption, Types, [Next]_vars
    PROVE  Loop'
  <1> USE DEF SingleTaskAssumption, Types, Loop, loopVars
  <1>1. CASE ProviderFails
    BY <1>1 DEF ProviderFails
  <1>2. CASE ModelCallsTools
    BY <1>2 DEF ModelCallsTools, InTurn
  <1>3. CASE ToolCall \/ UNCHANGED vars
    BY <1>3 DEF ToolCall, vars
  <1>4. CASE EndOfCalls
    BY <1>4 DEF EndOfCalls
  <1>5. CASE NoToolCall
    BY <1>5 DEF NoToolCall, InTurn
  <1>6. CASE RecoveryInterrupted
    <2>1. InTurn /\ turn' = turn + 1 /\ unattended' = FALSE /\ UNCHANGED <<pc, reviewer>>
      BY <1>6 DEF RecoveryInterrupted
    <2>2. pc' = "turn" /\ turn' \in Nat /\ turn' <= MaxTurns /\ reviewer' \in BOOLEAN
      BY <2>1 DEF InTurn
    <2>3. unattended' \in BOOLEAN
      BY <2>1, Zenon
    <2> QED BY <2>2, <2>3, Zenon
  <1>7. CASE LeaveLoop
    BY <1>7 DEF LeaveLoop
  <1>8. CASE WrapUp
    BY <1>8 DEF WrapUp
  <1> QED BY <1>1, <1>2, <1>3, <1>4, <1>5, <1>6, <1>7, <1>8 DEF Next

(* The log of the observations, after the observation of an attempt.       *)
LEMMA ObservingIs ==
    ASSUME NEW id, NEW a, NEW log
    PROVE  LET new == Observing(log, id, a, "candidate") IN
           /\ DOMAIN new.of = DOMAIN log.of \cup {id} /\ new.latest = id
           /\ new.of[id] = Observation(a, "candidate")
           /\ \A i \in DOMAIN log.of : i # id => new.of[i] = log.of[i]
  BY DEF Observing

(* What a step does to the attempts and to the log.                        *)
Grown ==
    /\ Len(attempts) < Budget
    /\ \E a \in Attempt :
          /\ attempts' = Append(attempts, a)
          /\ obs' = obs \/ obs' = Observing(obs, Len(attempts) + 1, a, "candidate")

Judged ==
    /\ Good = {}
    /\ \E i \in Ids, a \in Attempt :
          /\ a.ok = attempts[i].ok /\ a.patch = attempts[i].patch
          /\ attempts' = [attempts EXCEPT ![i] = a]
          /\ obs' = obs \/ obs' = Observing(obs, i, a, "candidate")

Noted ==
    /\ attempts' = attempts
    /\ obs' = obs \/ \E i \in Ids : obs' = Observing(obs, i, attempts[i], "candidate")

LEMMA AttemptSteps ==
    ASSUME SingleTaskAssumption, Types, DataSteps
    PROVE  Grown \/ Judged \/ Noted
  <1> USE DEF Types, TypeOK
  <1>1. CASE \E stage \in Stages : RunNext(stage)
    BY <1>1, RunLeaves DEF RunNext, WithinBudget, Grown
  <1>2. CASE \E i \in Ids : Judges(i)
    <2>1. PICK i \in Ids : Judges(i)
      BY <1>2
    <2>2. Good = {} /\ attempts[i] \in Attempt
      BY <2>1, NoneGood, IdsAre DEF Judges, Validate, Review
    <2>3. CASE Validate(i)
      BY <2>2, <2>3, AttemptData DEF Validate, Judged, Refreshing
    <2>4. CASE \E scope \in {"candidate", "integration"} : Review(i, scope)
      BY <2>2, <2>4, AttemptData DEF Review, Judged, Refreshing
    <2> QED BY <2>1, <2>3, <2>4 DEF Judges
  <1>3. CASE (\E i \in Ids : Observe(i)) \/ UNCHANGED <<attempts, obs>>
    BY <1>3 DEF Observe, Noted
  <1> QED BY <1>1, <1>2, <1>3 DEF DataSteps, Select, Accept, Ends, dataVars

LEMMA EligibleIs ==
    ASSUME NEW a \in Attempt
    PROVE  Outcome(a, "candidate") = "accepted" <=> Eligible(a, "candidate")
  BY DEF Attempt, Outcome, Eligible, Patches, Decided, Verdicts

LEMMA RecordsStep ==
    ASSUME SingleTaskAssumption, Types, Records, DataSteps
    PROVE  Records' /\ Log' /\ attempts' \in Seq(Attempt) /\ Len(attempts') <= Budget
  <1> USE DEF Types, TypeOK
  <1>1. Good \subseteq Good' /\ Ids \subseteq Ids'
    BY Kept, GoodStays
  (* An observation of an attempt as it is now is a record of it.           *)
  <1>2. ASSUME NEW i \in Ids', attempts'[i] \in Attempt,
               obs'.of[i] = Observation(attempts'[i], "candidate")
        PROVE  /\ \E b \in Attempt : Was(b, i)'
               /\ obs'.of[i].outcome = "accepted" => i \in Good'
    BY <1>2, EligibleIs, SMTT(30) DEF Was, Observation, Good, IsGood
  (* An observation that was kept, of an attempt with the same result.      *)
  <1>3. ASSUME NEW i \in DOMAIN obs.of, obs'.of[i] = obs.of[i],
               attempts'[i].ok = attempts[i].ok, attempts'[i].patch = attempts[i].patch
        PROVE  /\ \E b \in Attempt : Was(b, i)'
               /\ obs'.of[i].outcome = "accepted" => i \in Good'
    BY <1>1, <1>3 DEF Records, Was
  <1>4. CASE Grown
    <2>1. PICK a \in Attempt :
             /\ attempts' = Append(attempts, a)
             /\ obs' = obs \/ obs' = Observing(obs, Len(attempts) + 1, a, "candidate")
      BY <1>4 DEF Grown
    <2>2. /\ attempts' \in Seq(Attempt) /\ Len(attempts') = Len(attempts) + 1 /\ Len(attempts) \in Nat
          /\ attempts'[Len(attempts) + 1] = a /\ \A i \in Ids : attempts'[i] = attempts[i]
          /\ Ids' = Ids \cup {Len(attempts) + 1} /\ Len(attempts) + 1 \notin Ids
      BY <2>1, IdsAre DEF Ids
    <2>3. Len(attempts') <= Budget
      BY <1>4, <2>2 DEF Grown, SingleTaskAssumption
    <2>4. Log'
      BY <2>1, <2>2, ObservingIs DEF Log
    <2>5. ASSUME NEW i \in DOMAIN obs'.of
          PROVE  (\E b \in Attempt : Was(b, i)') /\ (obs'.of[i].outcome = "accepted" => i \in Good')
      <3>1. CASE i \in DOMAIN obs.of
        <4>1. i \in Ids /\ i # Len(attempts) + 1
          BY <2>2, <3>1 DEF Log
        <4>2. obs'.of[i] = obs.of[i]
          BY <2>1, <3>1, <4>1, ObservingIs
        <4> QED BY <1>3, <2>2, <3>1, <4>1, <4>2
      <3>2. CASE i \notin DOMAIN obs.of
        <4>1. i = Len(attempts) + 1 /\ obs'.of[i] = Observation(a, "candidate")
          BY <2>1, <2>5, <3>2, ObservingIs
        <4> QED BY <1>2, <2>2, <4>1
      <3> QED BY <3>1, <3>2
    <2> QED BY <2>2, <2>3, <2>4, <2>5 DEF Records
  <1>5. CASE Judged
    <2>1. PICK j \in Ids, a \in Attempt :
             /\ a.ok = attempts[j].ok /\ a.patch = attempts[j].patch
             /\ attempts' = [attempts EXCEPT ![j] = a]
             /\ obs' = obs \/ obs' = Observing(obs, j, a, "candidate")
      BY <1>5 DEF Judged
    <2>2. /\ attempts' \in Seq(Attempt) /\ Len(attempts') = Len(attempts) /\ Ids' = Ids
          /\ attempts'[j] = a /\ \A i \in Ids : i # j => attempts'[i] = attempts[i]
      BY <2>1 DEF Ids
    <2>4. Log'
      BY <2>1, <2>2, ObservingIs DEF Log
    <2>5. ASSUME NEW i \in DOMAIN obs'.of
          PROVE  (\E b \in Attempt : Was(b, i)') /\ (obs'.of[i].outcome = "accepted" => i \in Good')
      <3>1. i \in Ids
        BY <2>2, <2>4, <2>5 DEF Log
      <3>2. CASE i \in DOMAIN obs.of /\ obs'.of[i] = obs.of[i]
        BY <1>3, <2>1, <2>2, <3>1, <3>2
      <3>3. CASE ~(i \in DOMAIN obs.of /\ obs'.of[i] = obs.of[i])
        <4>1. i = j /\ obs'.of[i] = Observation(a, "candidate")
          BY <2>1, <2>5, <3>3, ObservingIs
        <4> QED BY <1>2, <2>2, <4>1
      <3> QED BY <3>2, <3>3
    <2> QED BY <2>2, <2>4, <2>5 DEF Records
  <1>6. CASE Noted
    <2>1. attempts' = attempts /\ Ids' = Ids /\ \A i \in Ids : attempts[i] \in Attempt
      BY <1>6, IdsAre DEF Noted, Ids
    <2>4. Log'
      BY <1>6, <2>1, ObservingIs DEF Log, Noted
    <2>5. ASSUME NEW i \in DOMAIN obs'.of
          PROVE  (\E b \in Attempt : Was(b, i)') /\ (obs'.of[i].outcome = "accepted" => i \in Good')
      <3>1. i \in Ids
        BY <2>1, <2>4, <2>5 DEF Log
      <3>2. CASE i \in DOMAIN obs.of /\ obs'.of[i] = obs.of[i]
        BY <1>3, <2>1, <3>2
      <3>3. CASE ~(i \in DOMAIN obs.of /\ obs'.of[i] = obs.of[i])
        <4>1. obs'.of[i] = Observation(attempts[i], "candidate")
          BY <1>6, <2>5, <3>3, ObservingIs DEF Noted
        <4> QED BY <1>2, <2>1, <3>1, <4>1
      <3> QED BY <3>2, <3>3
    <2> QED BY <2>1, <2>4, <2>5 DEF Records
  <1> QED BY <1>4, <1>5, <1>6, AttemptSteps

LEMMA VerdictStep ==
    ASSUME SingleTaskAssumption, IInv, DataSteps, attempts' \in Seq(Attempt)
    PROVE  /\ selection' \in Ids' \cup {None, RejectAll}
           /\ final'.decision \in {"none", "accepted", "rejected", "failed"}
           /\ final'.winner \in Ids' \cup {None}
           /\ Accepted'
  <1> USE DEF IInv, Types, TypeOK
  <1>1. Ids \subseteq Ids' /\ Good \subseteq Good' /\ Good \subseteq Ids
    BY Kept, GoodStays DEF Good
  <1>2. CASE UNCHANGED <<selection, final>>
    BY <1>1, <1>2 DEF Accepted
  <1>3. CASE \E x \in Ids \cup {RejectAll} : Select(x)
    <2>1. Active
      BY <1>3 DEF Select, MaySelect, Allowed
    <2>2. final'.decision = "none" /\ UNCHANGED final
      BY <1>3, <2>1 DEF Select, Active, Open
    <2> QED BY <1>1, <1>3, <2>2 DEF Select, Accepted
  <1>4. CASE Accept
    BY <1>1, <1>4 DEF Accept, MayAccept, Conclude, Accepted
  <1>5. CASE Ends
    BY <1>1, <1>5 DEF Ends, Accepted
  <1> QED BY <1>2, <1>3, <1>4, <1>5 DEF DataSteps, RunNext, Judges, Validate, Review, Observe, dataVars

LEMMA StepIInv ==
    ASSUME SingleTaskAssumption, IInv, [Next]_vars
    PROVE  IInv'
  <1>1. DataSteps
    BY StepIs DEF IInv
  <1>2. Records' /\ Log' /\ attempts' \in Seq(Attempt) /\ Len(attempts') <= Budget
    BY <1>1, RecordsStep DEF IInv
  <1>3. Loop'
    BY LoopStep DEF IInv
  <1>4. /\ selection' \in Ids' \cup {None, RejectAll}
        /\ final'.decision \in {"none", "accepted", "rejected", "failed"}
        /\ final'.winner \in Ids' \cup {None}
        /\ Accepted'
    BY <1>1, <1>2, VerdictStep
  <1>5. turn' \in 0..MaxTurns
    BY <1>3 DEF Loop, SingleTaskAssumption
  <1>6. TypeOK'
    BY <1>2, <1>3, <1>4, <1>5 DEF TypeOK, Log, Loop
  <1> QED BY <1>2, <1>3, <1>4, <1>6 DEF IInv, Types

THEOREM RunInvariant == Spec => []IInv
  <1>1. Init => IInv
    BY InitIInv, SingleTaskAssumption
  <1>2. IInv /\ [Next]_vars => IInv'
    BY StepIInv, SingleTaskAssumption
  <1> QED BY <1>1, <1>2, PTL DEF Spec

-----------------------------------------------------------------------------
(* Types and limits hold, and what is accepted is the work that was        *)
(* selected, with all its evidence, whatever calls the model makes after   *)
(* the selection, and after the verdict (h_finalize).                      *)
THEOREM AcceptanceIsEarned == Spec => []SingleTaskInv
  <1>1. IInv => SingleTaskInv
    <2>1. ASSUME IInv, final.decision = "accepted" PROVE selection \in Ids /\ IsGood(selection)
      BY <2>1 DEF IInv, Accepted, Good
    <2> QED BY <2>1 DEF IInv, Types, Accepted, SingleTaskInv, AcceptedOnEvidence, IsGood, Eligible
  <1> QED BY <1>1, RunInvariant, PTL

(* The observations by which the next step is chosen tell the truth        *)
(* (create_attempt_observation, observation_is_fresh).                     *)
THEOREM ObservationsAreTrue == Spec => []ObservationsHold
  <1>1. ASSUME IInv, NEW i \in DOMAIN obs.of, IsFresh(i)
        PROVE  obs.of[i].outcome \in {Outcome(attempts[i], "candidate"), "partial_progress"}
    <2> DEFINE a == attempts[i]
    <2>1. i \in Ids /\ a \in Attempt
      BY <1>1, IdsAre DEF IInv, Types, TypeOK, Log
    <2>2. PICK b \in Attempt : b.ok = a.ok /\ b.patch = a.patch /\ obs.of[i] = Observation(b, "candidate")
      BY <1>1 DEF IInv, Records, Was
    <2>3. obs.of[i].outcome = Outcome(b, "candidate") /\ obs.of[i].seen = Snapshot(b)
      BY <2>2 DEF Observation
    <2>4. b.val = a.val /\ ReviewStatus(b) = ReviewStatus(a)
      BY <1>1, <2>3 DEF IsFresh, Fresh, Snapshot
    <2>5. CASE Outcome(b, "candidate") = "accepted"
      <3>1. Eligible(a, "candidate")
        BY <1>1, <2>3, <2>5 DEF IInv, Records, Good, IsGood
      <3> QED BY <2>1, <2>3, <2>5, <3>1, EligibleIs
    <2>6. CASE Outcome(b, "candidate") # "accepted"
      <3>1. b.review \in {"fail", "outage"} <=> a.review \in {"fail", "outage"}
        BY <2>1, <2>4 DEF ReviewStatus, Attempt, Verdicts
      <3>2. Outcome(b, "candidate") \in {Outcome(a, "candidate"), "partial_progress"}
        BY <2>2, <2>4, <2>6, <3>1 DEF Outcome
      <3> QED BY <2>3, <3>2
    <2> QED BY <2>5, <2>6
  <1>2. IInv => ObservationsHold
    BY <1>1 DEF ObservationsHold, IInv, Records
  <1> QED BY <1>2, RunInvariant, PTL

(* Good work stays good and is not thrown away but for a fatal blocker,    *)
(* the turn limit or the provider (h_validation, h_review_attempt,         *)
(* h_finalize).                                                            *)
THEOREM GoodWork == Spec => GoodWorkKept
  <1> DEFINE Stays == \A i \in Good : Eligible(attempts'[i], "candidate")
             NotDiscarded == Active /\ ~Active' /\ Good # {} /\ final'.decision # "accepted"
                             => final'.blockers \in {"fatal", "max_turns", "provider"}
  <1>1. ASSUME IInv, [Next]_vars PROVE Stays
    BY <1>1, StepIs, GoodStays DEF IInv
  <1>2. ASSUME IInv, [Next]_vars, Active, ~Active', Good # {}, final'.decision # "accepted"
        PROVE  final'.blockers \in {"fatal", "max_turns", "provider"}
    <2>1. DataSteps
      BY <1>2, StepIs DEF IInv
    <2>2. final' # final
      BY <1>2 DEF Active
    <2>3. CASE Accept
      BY <1>2, <2>3 DEF Accept, Conclude
    <2>4. CASE Ends
      <3>1. \E i \in Ids : Pending(i)
        BY <1>2 DEF Good, Pending
      <3> QED BY <2>4, <3>1 DEF Ends
    <2> QED BY <2>1, <2>2, <2>3, <2>4
        DEF DataSteps, RunNext, Judges, Validate, Review, Observe, Select, dataVars
  <1>3. ASSUME IInv, [Next]_vars PROVE NotDiscarded
    BY <1>2, <1>3
  <1>4. IInv /\ [Next]_vars => [Stays]_vars
    BY <1>1
  <1>5. IInv /\ [Next]_vars => [NotDiscarded]_vars
    BY <1>3
  <1> HIDE DEF Stays, NotDiscarded
  <1>6. Spec => [][Stays]_vars
    BY <1>4, RunInvariant, PTL DEF Spec
  <1>7. Spec => [][NotDiscarded]_vars
    BY <1>5, RunInvariant, PTL DEF Spec
  <1> QED BY <1>6, <1>7 DEF GoodWorkKept, EligibleStays, GoodWorkNotDiscarded, Stays, NotDiscarded

-----------------------------------------------------------------------------
(* What the recovery recommends.                                           *)
NoReview == {i \in Ids : ReviewMissing(attempts[i])}
Stale    == {i \in Ids : ~IsFresh(i)}

(* All evidence that can be had is there, and no attempt is good.          *)
Exhausted == Good = {} /\ Unvalidated = {} /\ NoReview = {} /\ Stale = {}

LEMMA RecommendsRun ==
    ASSUME Recommendation.tool = "run"
    PROVE  selection \notin Good /\ Exhausted
  <1>1. \A t, i : Do(t, i).tool = t
    BY DEF Do
  <1>2. CASE selection \in Good
    BY <1>1, <1>2 DEF Recommendation
  <1>3. CASE selection \notin Good /\ Ids = {}
    BY <1>3 DEF Good, Unvalidated, NoReview, Stale, Exhausted
  <1>4. CASE selection \notin Good /\ Ids # {}
    <2>1. CASE Unvalidated # {}
      BY <1>1, <1>4, <2>1 DEF Recommendation
    <2>2. CASE Unvalidated = {} /\ NoReview # {}
      BY <1>1, <1>4, <2>2 DEF Recommendation, NoReview
    <2>3. CASE Unvalidated = {} /\ NoReview = {} /\ Stale # {}
      BY <1>1, <1>4, <2>3 DEF Recommendation, NoReview, Stale
    <2>4. CASE Unvalidated = {} /\ NoReview = {} /\ Stale = {} /\ Good # {}
      BY <1>1, <1>4, <2>4 DEF Recommendation, NoReview, Stale
    <2> QED BY <1>4, <2>1, <2>2, <2>3, <2>4 DEF Exhausted
  <1> QED BY <1>2, <1>3, <1>4

(* Only a further attempt makes the attempts more.                         *)
LEMMA OnlyRunsAdd ==
    ASSUME Types, Recover, Len(attempts') > Len(attempts)
    PROVE  Recommendation.tool = "run"
  <1>1. attempts' # attempts /\ \A i, a : attempts' # [attempts EXCEPT ![i] = a]
    BY IdsAre DEF Types, TypeOK
  <1> QED BY <1>1 DEF Recover, Executed, Review, Accept, Observe, Select, dataVars

(* The recovery starts a further attempt only when everything about the    *)
(* earlier ones is known and none is good (recommend_next_agentic_action). *)
THEOREM EvidenceFirst == Spec => NoBlindRetry
  <1> DEFINE Known == pc = "turn" /\ turn' = turn + 1 /\ Len(attempts') > Len(attempts) =>
          /\ Good = {}
          /\ \A i \in Ids : ~NeedsValidation(attempts[i]) /\ ~ReviewMissing(attempts[i]) /\ IsFresh(i)
  <1>1. ASSUME IInv, [Next]_vars PROVE Known
    <2>1. SUFFICES ASSUME pc = "turn", turn' = turn + 1, Len(attempts') > Len(attempts)
                   PROVE  Exhausted
      BY DEF Exhausted, Unvalidated, NoReview, Stale
    <2>2. turn' # turn
      BY <1>1, <2>1 DEF IInv, Types, Loop
    <2>3. NoToolCall \/ RecoveryInterrupted
      BY <1>1, <2>1, <2>2
      DEF Next, ProviderFails, ModelCallsTools, ToolCall, EndOfCalls, LeaveLoop, WrapUp, vars, loopVars
    <2>4. Recommendation.tool = "run"
      <3>1. CASE NoToolCall
        BY <1>1, <2>1, <3>1, OnlyRunsAdd DEF NoToolCall, IInv
      <3>2. CASE RecoveryInterrupted
        BY <3>2 DEF RecoveryInterrupted
      <3> QED BY <2>3, <3>1, <3>2
    <2> QED BY <2>4, RecommendsRun
  <1>2. IInv /\ [Next]_vars => [Known]_vars
    BY <1>1
  <1> HIDE DEF Known
  <1>3. Spec => [][Known]_vars
    BY <1>2, RunInvariant, PTL DEF Spec
  <1> QED BY <1>3 DEF NoBlindRetry, Known

-----------------------------------------------------------------------------
(* The course of a run without a call of the model's: one turn for each    *)
(* attempt until one is good, one to select it and one for the verdict;    *)
(* or it waits for evidence that nobody gives, or has used its budget.     *)
Course ==
    /\ pc # "calls"
    /\ \A i \in Ids : IsFresh(i)
    /\ reviewer => NoReview = {}
    /\ Good # {} => Unvalidated = {} /\ NoReview = {}
    /\ Good = {} => selection = None
    /\ Good = {} /\ Active /\ Unvalidated = {} /\ NoReview = {} =>
          turn = Len(attempts) \/ Len(attempts) = Budget
    /\ Good # {} =>
          \/ pc = "turn" /\ Active /\ selection = None /\ turn = Len(attempts)
          \/ pc = "turn" /\ Active /\ selection \in Good /\ turn = Len(attempts) + 1
          \/ final.decision = "accepted"
          \/ final.blockers = "provider"

UInv == unattended /\ Budget + 1 <= MaxTurns => Course

(* With a reviewer the handler of an attempt that worked reviews it.       *)
LEMMA RunReviews ==
    ASSUME NEW a \in RanThrough("observed", Results, reviewer), reviewer, a.ok,
           SingleTaskAssumption
    PROVE  a.review # "none"
  <1> DEFINE validated == UNION {IF b.ok THEN {Validated(b, v) : v \in Decided} ELSE {b} : b \in Results}
  <1>1. validated \subseteq Attempt
    <2>1. Results \subseteq Attempt
      BY DEF RunResults, Ran, Attempt, Patches, Decided, SingleTaskAssumption
    <2> QED BY <2>1, AttemptData
  <1>2. PICK b \in validated : a \in (IF b.ok /\ reviewer THEN {Reviewed(b, r) : r \in Verdicts} ELSE {b})
    BY DEF RanThrough
  <1> HIDE DEF validated
  <1>3. CASE b.ok
    <2>1. PICK r \in Verdicts : a = Reviewed(b, r)
      BY <1>2, <1>3
    <2>2. a.review = r
      BY <1>1, <2>1 DEF Reviewed, Attempt
    <2> QED BY <2>2 DEF Verdicts
  <1>4. CASE ~b.ok
    BY <1>2, <1>4
  <1> QED BY <1>3, <1>4

(* What the recovery does in the course of such a run.                     *)
Retries  == Recommendation.tool = "run" /\ RunNext("observed")
Selects  == Good # {} /\ selection \notin Good /\ \E i \in Good : Select(i)
Delivers == selection \in Good /\ Accept
Waits ==
    /\ Good = {} /\ UNCHANGED dataVars
    /\ Unvalidated = {} /\ NoReview = {} => Len(attempts) = Budget

LEMMA CourseOfRecovery ==
    ASSUME SingleTaskAssumption, IInv, Course, Active, Recover
    PROVE  Retries \/ Selects \/ Delivers \/ Waits
  <1>1. \A t, i : Do(t, i).tool = t /\ Do(t, i).id = i
    BY DEF Do
  <1>2. Stale = {}
    BY DEF Course, Stale
  <1>3. Len(attempts) \in Nat /\ Len(attempts) <= Budget /\ Budget \in Nat /\ Good \subseteq Ids /\ Ids \subseteq Nat
    BY IdsAre DEF IInv, Types, TypeOK, SingleTaskAssumption, Good
  <1>4. CASE selection \in Good
    <2>1. Recommendation = Do("accept", selection)
      BY <1>4 DEF Recommendation
    <2> QED BY <1>1, <1>4, <2>1 DEF Recover, Executed, Refused, MayAccept, Delivers
  <1>5. CASE selection \notin Good /\ Good # {}
    <2>1. Recommendation = Do("select", First(Good))
      BY <1>2, <1>5 DEF Recommendation, Course, NoReview, Stale, Good
    <2>2. First(Good) \in Good
      BY <1>3, <1>5, FirstIs
    <2>3. MaySelect(First(Good))
      BY <1>5, <2>2 DEF MaySelect, Allowed
    <2> QED BY <1>1, <1>5, <2>1, <2>2, <2>3 DEF Recover, Executed, Refused, Selects
  <1>6. CASE Good = {} /\ Ids = {}
    <2>1. Recommendation = Do("run", None)
      BY <1>6 DEF Recommendation
    <2>2. Len(attempts) = 0
      <3>1. attempts \in Seq(Attempt)
        BY DEF IInv, Types, TypeOK
      <3>2. 1..Len(attempts) = {}
        BY <1>6, <3>1, IdsAre
      <3> QED BY <1>3, <3>2
    <2>3. WithinBudget
      BY <2>2 DEF WithinBudget, SingleTaskAssumption
    <2> QED BY <1>1, <2>1, <2>3 DEF Recover, Executed, Refused, Retries
  <1>7. CASE Good = {} /\ Ids # {} /\ Unvalidated # {}
    <2>1. Recommendation = Do("ask", First(Unvalidated))
      BY <1>7 DEF Recommendation
    <2> QED BY <1>1, <1>7, <2>1 DEF Recover, Executed, Waits
  <1>8. CASE Good = {} /\ Ids # {} /\ Unvalidated = {} /\ NoReview # {}
    <2>1. Recommendation = Do("review", First(NoReview))
      BY <1>8 DEF Recommendation, NoReview
    <2>2. ~reviewer
      BY <1>8 DEF Course
    <2> QED BY <1>1, <1>8, <2>1, <2>2 DEF Recover, Executed, Review, Waits
  <1>9. CASE Good = {} /\ Ids # {} /\ Unvalidated = {} /\ NoReview = {}
    <2>1. obs.of[obs.latest].outcome # "accepted"
      <3>1. obs.latest \in DOMAIN obs.of
        BY <1>9 DEF Course, IsFresh, Fresh, Observed, IInv, Types, Log
      <3> QED BY <1>9, <3>1 DEF IInv, Records
    <2>2. CASE Len(attempts) < Budget
      <3>1. Recommendation = Do("run", None)
        BY <1>2, <1>9, <2>1, <2>2 DEF Recommendation, NoReview, Stale
      <3> QED BY <1>1, <2>2, <3>1 DEF Recover, Executed, Refused, WithinBudget, Retries
    <2>3. CASE Len(attempts) = Budget
      <3>1. ~(Len(attempts) < Budget)
        BY <1>3, <2>3
      <3>2. Recommendation = Do("reject_all", None)
        BY <1>2, <1>9, <2>1, <3>1 DEF Recommendation, NoReview, Stale
      <3> QED BY <1>1, <1>9, <2>3, <3>2 DEF Recover, Executed, Waits
    <2> QED BY <1>3, <2>2, <2>3
  <1> QED BY <1>4, <1>5, <1>6, <1>7, <1>8, <1>9

LEMMA SameEvidence ==
    ASSUME UNCHANGED <<attempts, obs>>
    PROVE  /\ Ids' = Ids /\ Good' = Good /\ Unvalidated' = Unvalidated /\ NoReview' = NoReview
           /\ (\A i \in Ids : IsFresh(i)) => (\A i \in Ids : IsFresh(i))'
  BY DEF Ids, Good, IsGood, Unvalidated, NoReview, IsFresh

(* A further attempt, observed.                                            *)
LEMMA CourseOfRetry ==
    ASSUME SingleTaskAssumption, IInv, Course, Active, Retries, turn = Len(attempts), turn' = turn + 1,
           UNCHANGED <<pc, reviewer>>, pc = "turn"
    PROVE  Course'
  <1>1. Exhausted /\ selection = None /\ UNCHANGED <<selection, final>>
    BY RecommendsRun DEF Retries, RunNext, Course, Exhausted
  <1>2. PICK a \in RanThrough("observed", Results, reviewer) :
           attempts' = Append(attempts, a) /\ obs' = Observing(obs, Len(attempts) + 1, a, "candidate")
    BY DEF Retries, RunNext
  <1> DEFINE new == Len(attempts) + 1
  <1>3. /\ a \in Attempt /\ Ids' = Ids \cup {new} /\ new \notin Ids /\ Len(attempts') = new /\ attempts'[new] = a
        /\ \A i \in Ids : attempts'[i] = attempts[i]
    BY <1>2, IdsAre, RunLeaves DEF Stages, IInv, Types, TypeOK, Ids
  <1>4. \A i \in Ids' : IsFresh(i)'
    <2>1. SUFFICES ASSUME NEW i \in Ids' PROVE IsFresh(i)'
      OBVIOUS
    <2>2. CASE i = new
      <3>1. i \in DOMAIN obs'.of /\ obs'.of[i] = Observation(a, "candidate") /\ attempts'[i] = a
        BY <1>2, <1>3, <2>2, ObservingIs
      <3> QED BY <3>1 DEF IsFresh, Fresh, Observed, Observation
    <2>3. CASE i \in Ids /\ i # new
      <3>1. i \in DOMAIN obs.of /\ obs.of[i].seen = Snapshot(attempts[i])
        BY <2>3 DEF Course, IsFresh, Fresh, Observed
      <3>2. i \in DOMAIN obs'.of /\ obs'.of[i] = obs.of[i]
        BY <1>2, <2>3, <3>1, ObservingIs
      <3> QED BY <1>3, <2>3, <3>1, <3>2 DEF IsFresh, Fresh, Observed
    <2> QED BY <1>3, <2>1, <2>2, <2>3
  <1>5. Good' \subseteq {new} /\ Unvalidated' \subseteq {new} /\ NoReview' \subseteq {new}
    <2>1. \A i \in Ids : ~Eligible(attempts[i], "candidate") /\ ~NeedsValidation(attempts[i]) /\ ~ReviewMissing(attempts[i])
      BY <1>1 DEF Exhausted, Good, IsGood, Unvalidated, NoReview
    <2> QED BY <1>3, <2>1 DEF Good, IsGood, Unvalidated, NoReview
  <1>6. reviewer => new \notin NoReview'
    BY <1>2, <1>3, RunReviews DEF NoReview, ReviewMissing, NeedsReview
  <1>7. new \in Good' => new \notin Unvalidated' /\ new \notin NoReview'
    BY <1>3 DEF Good, IsGood, Eligible, Unvalidated, NoReview, ReviewMissing, NeedsReview, NeedsValidation
  <1>8. turn' = Len(attempts') /\ Active'
    BY <1>1, <1>3 DEF Active
  <1> HIDE DEF new
  <1> QED BY <1>1, <1>4, <1>5, <1>6, <1>7, <1>8 DEF Course

LEMMA CourseStep ==
    ASSUME SingleTaskAssumption, IInv, UInv, [Next]_vars, unattended', Budget + 1 <= MaxTurns
    PROVE  Course'
  <1> USE DEF IInv, Types, TypeOK, Loop
  <1>1. CASE UNCHANGED vars
    BY <1>1, SameEvidence DEF vars, loopVars, dataVars, UInv, Course, Active
  <1>2. CASE ModelCallsTools \/ RecoveryInterrupted
    BY <1>2 DEF ModelCallsTools, RecoveryInterrupted
  <1>3. CASE ToolCall \/ EndOfCalls
    BY <1>3 DEF ToolCall, EndOfCalls, loopVars, UInv, Course
  <1>4. Len(attempts) \in Nat /\ Len(attempts) <= Budget /\ Budget \in Nat /\ MaxTurns \in Nat /\ turn \in Nat
    BY IdsAre DEF SingleTaskAssumption
  <1>5. CASE ProviderFails
    <2>1. Course /\ UNCHANGED <<attempts, obs, selection, reviewer>> /\ pc' = "done" /\ final'.blockers = "provider"
      BY <1>5 DEF ProviderFails, Conclude, UInv
    <2>2. ~Active'
      BY <2>1 DEF Active, Open
    <2> QED BY <2>1, <2>2, SameEvidence DEF Course
  <1>6. CASE NoToolCall
    <2>1. Course /\ Active /\ Recover /\ pc = "turn" /\ turn' = turn + 1 /\ UNCHANGED <<pc, reviewer>>
      BY <1>6 DEF NoToolCall, InTurn, UInv
    <2>2. CASE Retries
      <3>1. turn = Len(attempts)
        BY <1>4, <2>1, <2>2, RecommendsRun DEF Retries, RunNext, WithinBudget, Course, Exhausted
      <3> QED BY <2>1, <2>2, <3>1, CourseOfRetry
    <2>3. CASE Selects
      <3>1. PICK i \in Good : Select(i)
        BY <2>3 DEF Selects
      <3>2. turn = Len(attempts)
        BY <2>1, <2>3 DEF Selects, Course, Active, Open
      <3>3. selection' \in Good /\ UNCHANGED <<attempts, obs, final>>
        BY <3>1 DEF Select
      <3> QED BY <2>1, <3>1, <3>2, <3>3, SameEvidence DEF Course, Active
    <2>4. CASE Delivers
      <3>1. UNCHANGED <<attempts, obs, selection>> /\ final'.decision = "accepted" /\ Good # {}
        BY <2>4 DEF Delivers, Accept, Conclude
      <3> QED BY <2>1, <3>1, SameEvidence DEF Course
    <2>5. CASE Waits
      BY <1>4, <2>1, <2>5, SameEvidence DEF Waits, dataVars, Course
    <2> QED BY <2>1, <2>2, <2>3, <2>4, <2>5, CourseOfRecovery
  <1>7. CASE LeaveLoop
    <2>1. Course /\ pc = "turn" /\ pc' # "calls" /\ UNCHANGED <<turn, reviewer>>
      BY <1>7 DEF LeaveLoop, UInv
    <2>2. CASE ~Active /\ UNCHANGED dataVars
      BY <2>1, <2>2, SameEvidence DEF dataVars, Course, Active
    <2>3. CASE Active /\ turn >= MaxTurns /\ Recover
      <3>1. turn # Len(attempts)
        BY <1>4, <2>3
      <3>2. CASE Retries
        BY <1>4, <2>1, <2>3, <3>1, <3>2, RecommendsRun DEF Retries, RunNext, WithinBudget, Course, Exhausted
      <3>3. CASE Selects
        BY <2>1, <2>3, <3>1, <3>3 DEF Selects, Course, Active, Open
      <3>4. CASE Delivers
        <4>1. UNCHANGED <<attempts, obs, selection>> /\ final'.decision = "accepted" /\ Good # {}
          BY <3>4 DEF Delivers, Accept, Conclude
        <4> QED BY <2>1, <4>1, SameEvidence DEF Course
      <3>5. CASE Waits
        BY <2>1, <3>5, SameEvidence DEF Waits, dataVars, Course
      <3> QED BY <2>1, <2>3, <3>2, <3>3, <3>4, <3>5, CourseOfRecovery
    <2> QED BY <1>7, <2>2, <2>3 DEF LeaveLoop
  <1>8. CASE WrapUp
    <2>1. Course /\ pc = "last" /\ pc' = "done" /\ UNCHANGED <<attempts, obs, selection, reviewer>>
      BY <1>8 DEF WrapUp, UInv
    <2>2. ~Active'
      BY <1>8 DEF WrapUp, Conclude, Active, Open
    <2>3. Good # {} => UNCHANGED final
      BY <1>8, <2>1 DEF WrapUp, Course, Active, Open
    <2> QED BY <2>1, <2>2, <2>3, SameEvidence DEF Course
  <1> QED BY <1>1, <1>2, <1>3, <1>5, <1>6, <1>7, <1>8 DEF Next

(* When the model calls no tool the recovery alone brings acceptable work  *)
(* to its acceptance, if the turns suffice (OpsRunner.run).                *)
THEOREM RecoveryDelivers == Spec => []UnattendedDelivers
  <1>1. Init => UInv
    <2>1. ASSUME Init PROVE Ids = {} /\ Len(attempts) = 0 /\ selection = None /\ pc = "turn" /\ turn = 0
      BY <2>1 DEF Init, Ids
    <2> QED BY <2>1 DEF UInv, Course, Good, NoReview
  <1>2. IInv /\ UInv /\ [Next]_vars => UInv'
    BY CourseStep, SingleTaskAssumption DEF UInv
  <1>3. UInv => UnattendedDelivers
    BY DEF UInv, Course, UnattendedDelivers
  <1> QED BY <1>1, <1>2, <1>3, RunInvariant, PTL DEF Spec

-----------------------------------------------------------------------------
(* A run comes to rest.  What is left of the loop: a turn passes through   *)
(* at most two places.                                                     *)
Effort ==
    CASE pc = "turn"  -> 2 * (MaxTurns - turn) + 2
      [] pc = "calls" -> 2 * (MaxTurns - turn) + 1
      [] pc = "last"  -> 1
      [] OTHER        -> 0

(* A run comes to rest: what is left of its loop is a natural number that  *)
(* every step makes smaller, interrupted handlers and refused advice       *)
(* included, but the calls of one response, which leave it as it is.  The  *)
(* loop is left, unless a response goes on for ever, after 2 * MaxTurns    *)
(* turns and responses and two steps more.                                 *)
THEOREM RunBounded ==
    Spec => /\ Effort = 2 * MaxTurns + 2
            /\ [](Effort \in Nat)
            /\ [][Effort' < Effort \/ (ToolCall /\ Effort' = Effort)]_vars
  <1> USE SingleTaskAssumption DEF SingleTaskAssumption
  <1>1. Init => Effort = 2 * MaxTurns + 2
    BY DEF Init, Effort
  <1>2. IInv => Effort \in Nat
    BY DEF IInv, Types, Loop, Effort
  <1>3. IInv /\ [Next]_vars => [Effort' < Effort \/ (ToolCall /\ Effort' = Effort)]_vars
    <2> SUFFICES ASSUME IInv, Next PROVE Effort' < Effort \/ (ToolCall /\ Effort' = Effort)
      OBVIOUS
    <2>0. /\ pc \in {"turn", "calls", "last", "done"} /\ turn \in Nat /\ turn <= MaxTurns /\ MaxTurns \in Nat
          /\ pc = "calls" => turn < MaxTurns
      BY DEF IInv, Types, Loop
    <2> USE DEF Effort
    <2>1. CASE ProviderFails \/ ModelCallsTools
      BY <2>0, <2>1 DEF ProviderFails, ModelCallsTools, InTurn
    <2>2. CASE ToolCall
      BY <2>2 DEF ToolCall, loopVars
    <2>3. CASE EndOfCalls
      BY <2>0, <2>3 DEF EndOfCalls
    <2>4. CASE NoToolCall
      BY <2>0, <2>4 DEF NoToolCall, InTurn
    <2>5. CASE RecoveryInterrupted
      BY <2>0, <2>5 DEF RecoveryInterrupted, InTurn
    <2>6. CASE LeaveLoop
      BY <2>0, <2>6 DEF LeaveLoop
    <2>7. CASE WrapUp
      BY <2>0, <2>7 DEF WrapUp
    <2> QED BY <2>1, <2>2, <2>3, <2>4, <2>5, <2>6, <2>7 DEF Next
  <1> QED BY <1>1, <1>2, <1>3, RunInvariant, PTL DEF Spec
=============================================================================
