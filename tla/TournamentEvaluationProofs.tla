---------------------- MODULE TournamentEvaluationProofs ----------------------
(***************************************************************************)
(* What the steps of TournamentEvaluation keep, for any candidates, times  *)
(* and budgets.  The invariant adds to what the run checks the list of     *)
(* pairs that are still to compare: they are of different candidates that  *)
(* can be delivered, no two of them are the same pair, and none of them    *)
(* has been compared.                                                      *)
(***************************************************************************)
EXTENDS TournamentEvaluation, FiniteSetTheorems, WellFoundedInduction, TLAPS

Review == ModelReviews \cup {Missing, Fallback}

Types ==
    /\ pc \in {"idle", "review", "compare", "commit"}
    /\ reviews \in [Candidates -> Review]
    /\ comparisons \in Seq(Comparison)
    /\ ranking \in Seq(Candidates)
    /\ selection \in Candidates \cup {None}
    /\ left \in 0..MaxTime /\ due \in 0..EvaluationTime
    /\ spent \in Nat /\ compared \in Nat /\ overdrawn \in Nat /\ bought \in Nat /\ late \in Nat
    /\ asked \in 0..Requests
    /\ material \subseteq Candidates /\ planned \in BOOLEAN /\ backend \in BOOLEAN

(* The pairs that are left to compare.                                     *)
Ends(p) == {p[1], p[2]}

Waiting ==
    /\ todo \in Seq(material \X material)
    /\ \A i \in DOMAIN todo : todo[i][1] # todo[i][2] /\ ~Done(todo[i][1], todo[i][2])
    /\ \A i, j \in DOMAIN todo : i # j => Ends(todo[i]) # Ends(todo[j])

Loop ==
    /\ pc = "review" => todo \in Seq(Candidates)
    /\ pc = "compare" => Waiting

(* A comparison is of two that can be delivered, and one of them wins it,  *)
(* or none.                                                                *)
Honest ==
    \A i \in DOMAIN comparisons :
       /\ comparisons[i].a # comparisons[i].b /\ PairOf(comparisons[i]) \subseteq material
       /\ comparisons[i].winner \in PairOf(comparisons[i]) \cup {None}

(* Only the first comparison of a model can be bought from the reserve:    *)
(* once it has made one, the next look at the time is the last.            *)
Reserve ==
    /\ compared <= Len(comparisons)
    /\ ReserveHeld
    /\ pc = "review" => bought = 0 /\ overdrawn = 0
    /\ pc = "compare" /\ bought = 0 => overdrawn <= Requests * (Len(comparisons) - compared) + asked
    /\ pc = "compare" /\ overdrawn # 0 => ~MayCompare
    /\ pc = "compare" /\ bought # 0 => compared > 0 /\ asked = 0 /\ ~MayCompare

Thrift == planned => spent <= MaxReviews /\ (pc = "review" /\ asked # 0 => spent < MaxReviews)

(* The guard has not been reached when an answer is asked for first.       *)
Waking ==
    /\ late # 0 => ~Within
    /\ asked = 0 => late < Requests
    /\ asked # 0 => late < asked /\ pc \in {"review", "compare"}

Parts == Loop /\ ComparedOnce /\ Honest /\ Reserve /\ Thrift /\ Waking /\ SelectionDeliverable

IInv == Types /\ Parts

-----------------------------------------------------------------------------
(* What is sorted holds every element once.                                *)
LEMMA SortedIs ==
    ASSUME NEW S, IsFiniteSet(S), NEW key, NEW rk \in Sorted(S, key)
    PROVE  /\ rk \in Seq(S)
           /\ \A i, j \in DOMAIN rk : i # j => rk[i] # rk[j]
           /\ \A x \in S : \E i \in DOMAIN rk : rk[i] = x
           /\ \A i, j \in DOMAIN rk : i < j => ~Exceeds(key[rk[j]], key[rk[i]])
  <1> DEFINE n == Cardinality(S)
  <1>1. n \in Nat
    BY FS_CardinalityType
  <1>2. rk \in [1..n -> S] /\ \A i, j \in 1..n : i # j => rk[i] # rk[j]
    BY DEF Sorted, SetToSeqs
  <1>3. rk \in Injection(1..n, S)
    BY <1>2 DEF Injection, IsInjective
  <1>4. Cardinality(1..n) = n
    BY <1>1, FS_Interval
  <1>5. rk \in Surjection(1..n, S)
    BY <1>3, <1>4, FS_Injection
  <1>6. \A x \in S : \E i \in 1..n : rk[i] = x
    BY <1>5 DEF Surjection
  <1>7. \A i, j \in DOMAIN rk : i < j => ~Exceeds(key[rk[j]], key[rk[i]])
    BY DEF Sorted
  <1>8. rk \in Seq(S) /\ DOMAIN rk = 1..n
    BY <1>1, <1>2
  <1> QED BY <1>2, <1>6, <1>7, <1>8

LEMMA MaterialIsFinite ==
    ASSUME Types
    PROVE  IsFiniteSet(material) /\ IsFiniteSet(Candidates)
  BY FS_Subset, EvaluationAssumption DEF Types

LEMMA RankingIs ==
    ASSUME Types, NEW S \in {material, Candidates}, NEW key, NEW rk \in Sorted(S, key)
    PROVE  rk \in Seq(Candidates)
  <1>1. rk \in Seq(S)
    BY SortedIs, MaterialIsFinite
  <1>2. S \subseteq Candidates
    BY DEF Types
  <1> QED BY <1>1, <1>2

LEMMA CommittedIs ==
    ASSUME Types, SelectionDeliverable, NEW rk
    PROVE  /\ Committed(rk) \in Candidates \cup {None}
           /\ Committed(rk) # None => Committed(rk) \in material
  <1>1. Foremost(rk) \subseteq material
    BY DEF Foremost
  <1>2. CASE selection \in Candidates \/ Foremost(rk) = {}
    BY <1>2 DEF Committed, Types, SelectionDeliverable
  <1>3. CASE ~(selection \in Candidates \/ Foremost(rk) = {})
    <2>1. (CHOOSE c \in Foremost(rk) : TRUE) \in Foremost(rk) BY <1>3
    <2> QED BY <1>1, <1>3, <2>1 DEF Committed, Types
  <1> QED BY <1>2, <1>3

LEMMA FilledIs ==
    ASSUME NEW rs \in [Candidates -> Review], NEW C
    PROVE  /\ Filled(rs, C) \in [Candidates -> Review]
           /\ \A c \in Candidates : rs[c].by = "model" => Filled(rs, C)[c] = rs[c]
  <1>1. Missing.by # "model" /\ Fallback \in Review
    BY DEF Missing, Fallback, Reviewed, Review
  <1> QED BY <1>1 DEF Filled

LEMMA MinusIs ==
    ASSUME NEW m \in Nat, NEW x \in 0..m, NEW t \in Nat
    PROVE  Minus(x, t) \in 0..m
  BY DEF Minus

LEMMA ElapseIs ==
    ASSUME Types, NEW t \in CallTimes, Elapse(t)
    PROVE  left' \in 0..MaxTime /\ due' \in 0..EvaluationTime
  <1>1. t \in Nat /\ MaxTime \in Nat /\ EvaluationTime \in Nat
    BY EvaluationAssumption
  <1>2. left' = Minus(left, t) /\ due' = Minus(due, t)
    BY DEF Elapse
  <1> QED BY <1>1, <1>2, MinusIs DEF Types

-----------------------------------------------------------------------------
(* The types.                                                              *)
LEMMA BeginIs ==
    ASSUME Types, Begin
    PROVE  reviews' \in [Candidates -> Review] /\ todo' \in Seq(Candidates)
  <1>1. reviews' \in [Candidates -> Review]
    BY FilledIs DEF Begin, Types
  <1>2. todo' \in RoughOrders(reviews', Candidates)
    BY DEF Begin
  <1>3. todo' \in Seq(Candidates)
    BY <1>2, RankingIs DEF RoughOrders
  <1> QED BY <1>1, <1>3

LEMMA RequestIs ==
    ASSUME Types, Request
    PROVE  left' \in 0..MaxTime /\ due' \in 0..EvaluationTime /\ late' \in Nat
  <1>1. late' \in Nat
    BY DEF Request, Types
  <1> QED BY <1>1, ElapseIs DEF Request

LEMMA ReviewIs ==
    ASSUME Types, Loop, AskForReview \/ LeaveReview
    PROVE  /\ reviews' \in [Candidates -> Review] /\ todo' \in Seq(Candidates)
           /\ \A c \in Candidates : reviews[c].by = "model" => reviews'[c].by = "model"
           /\ spent' \in Nat /\ asked' \in 0..Requests
  <1>1. todo \in Seq(Candidates) /\ todo # <<>>
    BY DEF AskForReview, LeaveReview, Loop
  <1>2. Head(todo) \in Candidates /\ Tail(todo) \in Seq(Candidates)
    BY <1>1
  <1>3. \A r \in ModelReviews : r.by = "model" /\ r \in Review
    BY DEF ModelReviews, Reviewed, Review
  <1>4. CASE Answer
    <2>1. PICK r \in ModelReviews : reviews' = [reviews EXCEPT ![Head(todo)] = r]
      BY <1>4 DEF Answer
    <2>2. /\ reviews' \in [Candidates -> Review]
          /\ \A c \in Candidates : reviews[c].by = "model" => reviews'[c].by = "model"
      BY <1>2, <1>3, <2>1 DEF Types
    <2> QED BY <1>2, <1>4, <2>2 DEF Answer, Turn, Types, Requests
  <1>5. CASE AskForReview /\ NoAnswer /\ UNCHANGED <<reviews, spent>>
    BY <1>1, <1>5 DEF AskForReview, AskedAgain, NoAnswer, Types, Requests
  <1>6. CASE LeaveReview
    BY <1>2, <1>6 DEF LeaveReview, Turn, Types, Requests, evidence
  <1> QED BY <1>4, <1>5, <1>6 DEF AskForReview

(* The next pair is compared, by a model or not.                           *)
Comparing ==
    /\ pc = "compare" /\ todo # <<>> /\ Turn
    /\ \E w \in Winners, by \in {"model", "fallback"} : Compared(w, by)
    /\ UNCHANGED <<pc, material>>

LEMMA ComparisonsAre ==
    ASSUME Next
    PROVE  UNCHANGED material /\ (Comparing \/ UNCHANGED comparisons)
  <1>1. UNCHANGED material
    BY Zenon DEF Next, EvaluateInHaste, Begin, BeginRaises, AskForReview, LeaveReview, EndReviews, AskForComparison,
       FallsBack, Rank, Commit, Raises, RecoveryCommits, TimePasses, configVars
  <1>2. CASE AskForComparison
    <2>1. CASE ModelCompares
      <3>1. "model" \in {"model", "fallback"} OBVIOUS
      <3> QED BY <1>1, <1>2, <2>1, <3>1, Zenon DEF AskForComparison, ModelCompares, Comparing
    <2>2. CASE NoAnswer /\ UNCHANGED comparisons BY <1>1, <2>2
    <2> QED BY <1>2, <2>1, <2>2 DEF AskForComparison
  <1>3. CASE FallsBack
    <2>1. "fallback" \in {"model", "fallback"} OBVIOUS
    <2> QED BY <1>1, <1>3, <2>1, Zenon DEF FallsBack, Comparing
  <1>4. CASE ~AskForComparison /\ ~FallsBack
    <2>1. UNCHANGED comparisons
      BY <1>4, Zenon DEF Next, EvaluateInHaste, Begin, BeginRaises, AskForReview, LeaveReview, EndReviews, Rank,
         Commit, Raises, RecoveryCommits, TimePasses, evidence
    <2> QED BY <1>1, <2>1
  <1> QED BY <1>2, <1>3, <1>4

LEMMA ComparisonIs ==
    ASSUME Types, Loop, Comparing
    PROVE  \E c \in Comparison :
              /\ comparisons' = Append(comparisons, c)
              /\ c.a = Head(todo)[1] /\ c.b = Head(todo)[2] /\ c.winner \in PairOf(c) \cup {None}
  <1>1. PICK w \in Winners, by \in {"model", "fallback"} : Compared(w, by)
    BY DEF Comparing
  <1> DEFINE c == [a |-> Head(todo)[1], b |-> Head(todo)[2], winner |-> w, by |-> by]
  <1>2. comparisons' = Append(comparisons, c)
    BY <1>1 DEF Compared
  <1>3. todo \in Seq(material \X material) /\ todo # <<>>
    BY DEF Comparing, Loop, Waiting
  <1>4. Head(todo) \in material \X material
    BY <1>3
  <1>5. Head(todo)[1] \in Candidates /\ Head(todo)[2] \in Candidates
    BY <1>4 DEF Types
  <1>6. c \in Comparison
    BY <1>5 DEF Comparison, Winners
  <1>7. c.winner \in PairOf(c) \cup {None}
    BY DEF Winners, PairOf
  <1> QED BY <1>2, <1>6, <1>7

LEMMA ComparisonsGrow ==
    ASSUME Types, Loop, Next
    PROVE  /\ comparisons' \in Seq(Comparison)
           /\ Comparing => Len(comparisons') = Len(comparisons) + 1
           /\ ~Comparing => comparisons' = comparisons
  <1>1. CASE Comparing
    <2>1. PICK c \in Comparison : comparisons' = Append(comparisons, c) BY <1>1, ComparisonIs
    <2> QED BY <1>1, <2>1 DEF Types
  <1>2. CASE ~Comparing
    BY <1>2, ComparisonsAre DEF Types
  <1> QED BY <1>1, <1>2

LEMMA InitTypes ==
    ASSUME Init
    PROVE  Types
  <1>1. Missing \in Review BY DEF Review
  <1>2. EvaluationTime \in Nat BY EvaluationAssumption
  <1>3. reviews \in [Candidates -> Review]
    BY <1>1 DEF Init
  <1>4. comparisons \in Seq(Comparison) /\ ranking \in Seq(Candidates)
    BY DEF Init
  <1>5. late \in Nat /\ asked \in 0..Requests /\ material \subseteq Candidates /\ planned \in BOOLEAN /\ backend \in BOOLEAN
    BY DEF Init, Requests
  <1>6. left \in 0..MaxTime /\ due \in 0..EvaluationTime
    BY <1>2 DEF Init
  <1> QED BY <1>3, <1>4, <1>5, <1>6 DEF Init, Types

LEMMA NextTypes ==
    ASSUME Types, Loop, SelectionDeliverable, Next
    PROVE  Types'
  <1> USE DEF budget, configVars, histories, outcome, evidence
  <1>1. CASE EvaluateInHaste
    <2>1. reviews' \in [Candidates -> Review]
      BY <1>1, FilledIs DEF EvaluateInHaste, Types
    <2>2. ranking' \in Seq(Candidates)
      BY <1>1, RankingIs DEF EvaluateInHaste, BestEffort
    <2>3. selection' \in Candidates \cup {None}
      BY <1>1, CommittedIs DEF EvaluateInHaste
    <2> QED BY <1>1, <2>1, <2>2, <2>3 DEF EvaluateInHaste, Types
  <1>2. CASE Begin
    <2>1. EvaluationTime \in Nat BY EvaluationAssumption
    <2> QED BY <1>2, <2>1, BeginIs DEF Begin, Types
  <1>3. CASE BeginRaises
    <2>1. reviews' \in [Candidates -> Review]
      BY <1>3, FilledIs DEF BeginRaises, Types
    <2> QED BY <1>3, <2>1 DEF BeginRaises, Types
  <1>4. CASE AskForReview
    BY <1>4, ReviewIs, RequestIs DEF AskForReview, Types
  <1>5. CASE LeaveReview
    BY <1>5, ReviewIs DEF LeaveReview, Types
  <1>11. CASE EndReviews
    BY <1>11 DEF EndReviews, Types
  <1>12. CASE AskForComparison
    <2>1. comparisons' \in Seq(Comparison) BY ComparisonsGrow
    <2>2. left' \in 0..MaxTime /\ due' \in 0..EvaluationTime /\ late' \in Nat
      BY <1>12, RequestIs DEF AskForComparison
    <2>3. overdrawn' \in Nat BY <1>12 DEF AskForComparison, Types
    <2>4. compared' \in Nat /\ bought' \in Nat /\ asked' \in 0..Requests
      <3>1. CASE ModelCompares BY <3>1 DEF ModelCompares, Turn, Types, Requests
      <3>2. CASE NoAnswer /\ UNCHANGED <<comparisons, compared, bought>>
        BY <1>12, <3>2 DEF AskForComparison, AskedAgain, NoAnswer, Types, Requests
      <3> QED BY <1>12, <3>1, <3>2 DEF AskForComparison
    <2> QED BY <1>12, <2>1, <2>2, <2>3, <2>4 DEF AskForComparison, Types
  <1>13. CASE FallsBack
    <2>1. comparisons' \in Seq(Comparison) BY ComparisonsGrow
    <2> QED BY <1>13, <2>1 DEF FallsBack, Turn, Types, Requests
  <1>6. CASE Rank
    <2>1. ranking' \in Seq(Candidates)
      BY <1>6, RankingIs DEF Rank, Ranked
    <2> QED BY <1>6, <2>1 DEF Rank, Types
  <1>7. CASE Commit
    <2>1. selection' \in Candidates \cup {None}
      BY <1>7, CommittedIs DEF Commit
    <2> QED BY <1>7, <2>1 DEF Commit, Types
  <1>8. CASE Raises
    BY <1>8 DEF Raises, Types, Requests
  <1>9. CASE RecoveryCommits
    <2>1. ranking' \in Seq(Candidates)
      <3>1. \A rk \in BestEffort : rk \in Seq(Candidates) BY RankingIs DEF BestEffort
      <3> QED BY <1>9, <3>1 DEF RecoveryCommits, Types
    <2>2. selection' \in Candidates \cup {None}
      BY <1>9, CommittedIs DEF RecoveryCommits
    <2> QED BY <1>9, <2>1, <2>2 DEF RecoveryCommits, Types
  <1>10. CASE TimePasses
    <2>1. left' \in 0..MaxTime BY <1>10, EvaluationAssumption DEF TimePasses, Types
    <2> QED BY <1>10, <2>1 DEF TimePasses, Types
  <1> QED BY <1>1, <1>2, <1>3, <1>4, <1>5, <1>6, <1>7, <1>8, <1>9, <1>10, <1>11, <1>12, <1>13
     DEF Next

-----------------------------------------------------------------------------
(* The pairs.  The order is without repetition and so are the places in    *)
(* it, hence two pairs differ in one of their candidates.                  *)
LEMMA PairsAreNew ==
    ASSUME Types, NEW order \in RoughOrders(reviews, material), NEW list \in ToCompare(order)
    PROVE  /\ list \in Seq(material \X material)
           /\ \A i \in DOMAIN list : list[i][1] # list[i][2] /\ ~Done(list[i][1], list[i][2])
           /\ \A i, j \in DOMAIN list : i # j => Ends(list[i]) # Ends(list[j])
  <1> DEFINE new == {p \in Places(order) : ~Done(order[p[1]], order[p[2]])}
             key == [p \in new |-> Priority(p, Len(order))]
  <1>1. order \in Seq(material) /\ \A i, j \in DOMAIN order : i # j => order[i] # order[j]
    BY SortedIs, MaterialIsFinite DEF RoughOrders
  <1>2. IsFiniteSet(new)
    <2>1. IsFiniteSet(DOMAIN order) BY <1>1, FS_Interval
    <2>2. IsFiniteSet((DOMAIN order) \X (DOMAIN order)) BY <2>1, FS_Product
    <2>3. new \subseteq (DOMAIN order) \X (DOMAIN order) BY DEF Places
    <2> QED BY <2>2, <2>3, FS_Subset
  <1>3. PICK first \in Sorted(new, key) :
           list = [i \in DOMAIN first |-> <<order[first[i][1]], order[first[i][2]]>>]
    BY DEF ToCompare
  <1> HIDE DEF key
  <1>4. \A p \in new : /\ p \in Nat \X Nat /\ p[1] \in DOMAIN order /\ p[2] \in DOMAIN order /\ p[1] < p[2]
                       /\ ~Done(order[p[1]], order[p[2]])
    BY <1>1 DEF Places
  <1> HIDE DEF new
  <1>5. first \in Seq(new) /\ \A i, j \in DOMAIN first : i # j => first[i] # first[j]
    BY <1>2, SortedIs
  <1>6. DOMAIN list = DOMAIN first
    BY <1>3
  <1>7. ASSUME NEW i \in DOMAIN list
        PROVE  /\ list[i] = <<order[first[i][1]], order[first[i][2]]>> /\ first[i] \in new
               /\ list[i] \in material \X material
               /\ list[i][1] # list[i][2] /\ ~Done(list[i][1], list[i][2])
    <2>1. list[i] = <<order[first[i][1]], order[first[i][2]]>> BY <1>3, <1>6
    <2>2. first[i] \in new BY <1>5, <1>6
    <2>3. first[i][1] \in DOMAIN order /\ first[i][2] \in DOMAIN order /\ first[i][1] # first[i][2]
      BY <1>4, <2>2
    <2>4. order[first[i][1]] \in material /\ order[first[i][2]] \in material
          /\ order[first[i][1]] # order[first[i][2]]
      BY <1>1, <2>3
    <2>5. ~Done(order[first[i][1]], order[first[i][2]]) BY <1>4, <2>2
    <2> QED BY <2>1, <2>2, <2>4, <2>5
  <1>8. ASSUME NEW i \in DOMAIN list, NEW j \in DOMAIN list, i # j PROVE Ends(list[i]) # Ends(list[j])
    <2> DEFINE p == first[i]
               q == first[j]
    <2>1. p # q /\ p \in new /\ q \in new BY <1>5, <1>6, <1>7, <1>8
    <2> HIDE DEF p, q
    <2>2. p[1] # q[1] \/ p[2] # q[2] BY <1>4, <2>1
    <2>3. ~(p[1] = q[2] /\ p[2] = q[1]) BY <1>4, <2>1
    <2>4. {p[1], p[2]} # {q[1], q[2]} BY <2>2, <2>3
    <2>5. {order[p[1]], order[p[2]]} # {order[q[1]], order[q[2]]}
      <3>1. p[1] \in DOMAIN order /\ p[2] \in DOMAIN order /\ q[1] \in DOMAIN order /\ q[2] \in DOMAIN order
        BY <1>4, <2>1
      <3>2. \A x, y \in DOMAIN order : order[x] = order[y] => x = y BY <1>1
      <3> QED BY <2>4, <3>1, <3>2
    <2>6. Ends(list[i]) = {order[p[1]], order[p[2]]} /\ Ends(list[j]) = {order[q[1]], order[q[2]]}
      BY <1>7 DEF Ends, p, q
    <2> QED BY <2>5, <2>6
  <1>9. list \in Seq(material \X material)
    <2>1. Len(first) \in Nat /\ DOMAIN list = 1..Len(first) BY <1>5, <1>6
    <2>2. list = [i \in DOMAIN list |-> list[i]] BY <1>3
    <2> QED BY <1>7, <2>1, <2>2
  <1> QED BY <1>7, <1>8, <1>9

LEMMA Appended ==
    ASSUME NEW S, NEW s \in Seq(S), NEW c \in S
    PROVE  /\ Append(s, c) \in Seq(S) /\ Len(Append(s, c)) = Len(s) + 1
           /\ \A i \in DOMAIN s : Append(s, c)[i] = s[i]
           /\ Append(s, c)[Len(s) + 1] = c /\ DOMAIN Append(s, c) = (DOMAIN s) \cup {Len(s) + 1}
           /\ Range(Append(s, c)) = Range(s) \cup {c}
  <1>1. /\ Append(s, c) \in Seq(S) /\ Len(Append(s, c)) = Len(s) + 1
        /\ \A i \in DOMAIN s : Append(s, c)[i] = s[i]
        /\ Append(s, c)[Len(s) + 1] = c /\ DOMAIN Append(s, c) = (DOMAIN s) \cup {Len(s) + 1}
    OBVIOUS
  <1> QED BY <1>1 DEF Range

LEMMA InitLoop ==
    ASSUME Init
    PROVE  Loop
  BY DEF Init, Loop

LEMMA NextLoop ==
    ASSUME Types, Loop, Next
    PROVE  Loop'
  <1> USE DEF budget, configVars, histories, outcome, evidence
  <1>1. CASE EvaluateInHaste BY <1>1 DEF EvaluateInHaste, Called, Loop
  <1>2. CASE Begin BY <1>2, BeginIs DEF Begin, Loop
  <1>3. CASE AskForReview \/ LeaveReview
    <2>1. pc' = "review" BY <1>3 DEF AskForReview, LeaveReview
    <2> QED BY <1>3, <2>1, ReviewIs DEF Loop
  <1>4. CASE EndReviews
    <2>1. PICK order \in RoughOrders(reviews, material) : todo' \in ToCompare(order)
      BY <1>4 DEF EndReviews
    <2>2. UNCHANGED <<material, comparisons>> /\ pc' = "compare" BY <1>4 DEF EndReviews
    <2>3. \A x, y : Done(x, y)' <=> Done(x, y) BY <2>2 DEF Done
    <2> DEFINE list == todo'
    <2>4. list \in ToCompare(order) BY <2>1
    <2> HIDE DEF list
    <2>5. /\ list \in Seq(material \X material)
          /\ \A i \in DOMAIN list : list[i][1] # list[i][2] /\ ~Done(list[i][1], list[i][2])
          /\ \A i, j \in DOMAIN list : i # j => Ends(list[i]) # Ends(list[j])
      BY <2>1, <2>4, PairsAreNew
    <2> QED BY <2>2, <2>3, <2>5 DEF Loop, Waiting, Done, list
  <1>5. CASE Comparing
    <2>1. PICK c \in Comparison : comparisons' = Append(comparisons, c)
                                  /\ c.a = Head(todo)[1] /\ c.b = Head(todo)[2]
      BY <1>5, ComparisonIs
    <2>2. Waiting /\ todo # <<>> /\ todo' = Tail(todo) /\ UNCHANGED <<pc, material>>
      BY <1>5 DEF Comparing, Turn, Loop
    <2>3. todo' \in Seq(material \X material) /\ 1 \in DOMAIN todo /\ Head(todo) = todo[1]
      BY <2>2 DEF Waiting
    <2>4. \A i \in DOMAIN todo' : todo'[i] = todo[i + 1] /\ i + 1 \in DOMAIN todo /\ i + 1 # 1
      BY <2>2 DEF Waiting
    <2>5. Range(comparisons') = Range(comparisons) \cup {c}
      BY <2>1, Appended DEF Types
    <2>6. ASSUME NEW i \in DOMAIN todo'
          PROVE  todo'[i][1] # todo'[i][2] /\ \A d \in Range(comparisons') : PairOf(d) # Ends(todo'[i])
      <3>1. todo[i + 1][1] # todo[i + 1][2] /\ ~Done(todo[i + 1][1], todo[i + 1][2])
        BY <2>2, <2>4 DEF Waiting
      <3>2. Ends(todo[i + 1]) # Ends(todo[1]) BY <2>2, <2>3, <2>4 DEF Waiting
      <3>3. PairOf(c) = Ends(todo[1]) BY <2>1, <2>3 DEF PairOf, Ends
      <3> QED BY <2>4, <2>5, <3>1, <3>2, <3>3 DEF Done, Ends
    <2>7. ASSUME NEW i \in DOMAIN todo', NEW j \in DOMAIN todo', i # j PROVE Ends(todo'[i]) # Ends(todo'[j])
      <3>1. i + 1 # j + 1 BY <2>3, <2>7
      <3> QED BY <2>2, <2>4, <3>1 DEF Waiting
    <2>8. Waiting' BY <2>2, <2>3, <2>6, <2>7 DEF Waiting, Ends, Done
    <2> QED BY <1>5, <2>2, <2>8 DEF Loop, Comparing
  <1>11. CASE AskForComparison /\ ~Comparing
    <2>1. CASE ModelCompares
      <3>1. "model" \in {"model", "fallback"} OBVIOUS
      <3>2. Comparing BY <1>11, <2>1, <3>1, Zenon DEF AskForComparison, ModelCompares, Comparing
      <3> QED BY <1>11, <3>2
    <2>2. CASE NoAnswer /\ UNCHANGED comparisons
      <3>1. UNCHANGED <<pc, todo, material, comparisons>> BY <1>11, <2>2 DEF AskForComparison, NoAnswer
      <3>2. \A x, y : Done(x, y)' <=> Done(x, y) BY <3>1 DEF Done
      <3> QED BY <1>11, <3>1, <3>2 DEF AskForComparison, Loop, Waiting, Done
    <2> QED BY <1>11, <2>1, <2>2 DEF AskForComparison
  <1>12. CASE FallsBack
    <2>1. "fallback" \in {"model", "fallback"} OBVIOUS
    <2>2. Comparing BY <1>12, <2>1, Zenon DEF FallsBack, Comparing, configVars
    <2> QED BY <1>5, <2>2
  <1>13. CASE BeginRaises BY <1>13 DEF BeginRaises, Called, Loop
  <1>6. CASE Rank BY <1>6 DEF Rank, Loop
  <1>7. CASE Commit BY <1>7 DEF Commit, Loop
  <1>8. CASE Raises BY <1>8 DEF Raises, Loop
  <1>9. CASE RecoveryCommits BY <1>9 DEF RecoveryCommits, Loop
  <1>10. CASE TimePasses BY <1>10 DEF TimePasses, Loop
  <1> QED BY <1>1, <1>2, <1>3, <1>4, <1>5, <1>6, <1>7, <1>8, <1>9, <1>10, <1>11, <1>12, <1>13
     DEF Next

-----------------------------------------------------------------------------
(* The comparisons.                                                        *)
(* The pair that is compared is new.                                       *)
LEMMA NewComparison ==
    ASSUME Types, Loop, Comparing
    PROVE  \E c \in Comparison :
              /\ comparisons' = Append(comparisons, c)
              /\ c.a # c.b /\ PairOf(c) \subseteq material /\ c.winner \in PairOf(c) \cup {None}
              /\ \A i \in DOMAIN comparisons : PairOf(comparisons[i]) # PairOf(c)
  <1>1. PICK c \in Comparison :
           /\ comparisons' = Append(comparisons, c)
           /\ c.a = Head(todo)[1] /\ c.b = Head(todo)[2] /\ c.winner \in PairOf(c) \cup {None}
    BY ComparisonIs
  <1>2. Waiting /\ todo # <<>>
    BY DEF Comparing, Loop
  <1>3. 1 \in DOMAIN todo /\ Head(todo) = todo[1] /\ todo[1] \in material \X material
    BY <1>2 DEF Waiting
  <1>4. c.a # c.b /\ PairOf(c) \subseteq material /\ ~Done(c.a, c.b)
    BY <1>1, <1>2, <1>3 DEF Waiting, PairOf
  <1>5. \A i \in DOMAIN comparisons : PairOf(comparisons[i]) # PairOf(c)
    BY <1>4 DEF Done, Range, PairOf
  <1> QED BY <1>1, <1>4, <1>5

LEMMA InitCompared ==
    ASSUME Init
    PROVE  ComparedOnce /\ Honest
  BY DEF Init, ComparedOnce, Honest

LEMMA NextCompared ==
    ASSUME Types, Loop, ComparedOnce, Honest, Next
    PROVE  ComparedOnce' /\ Honest'
  <1>1. CASE UNCHANGED comparisons
    BY <1>1, ComparisonsAre DEF ComparedOnce, Honest
  <1>2. CASE Comparing
    <2>1. PICK c \in Comparison :
             /\ comparisons' = Append(comparisons, c)
             /\ c.a # c.b /\ PairOf(c) \subseteq material /\ c.winner \in PairOf(c) \cup {None}
             /\ \A i \in DOMAIN comparisons : PairOf(comparisons[i]) # PairOf(c)
      BY <1>2, NewComparison
    <2> DEFINE n == Len(comparisons) + 1
    <2>2. /\ DOMAIN comparisons' = (DOMAIN comparisons) \cup {n} /\ comparisons'[n] = c
          /\ \A i \in DOMAIN comparisons : comparisons'[i] = comparisons[i]
      BY <2>1, Appended DEF Types
    <2> HIDE DEF n
    <2>3. ComparedOnce'
      <3>1. ASSUME NEW i \in DOMAIN comparisons', NEW j \in DOMAIN comparisons', i # j
            PROVE  PairOf(comparisons'[i]) # PairOf(comparisons'[j])
        <4>1. CASE i = n
          BY <2>1, <2>2, <3>1, <4>1
        <4>2. CASE j = n
          BY <2>1, <2>2, <3>1, <4>2
        <4>3. CASE i # n /\ j # n
          BY <2>2, <3>1, <4>3 DEF ComparedOnce
        <4> QED BY <4>1, <4>2, <4>3
      <3> QED BY <3>1 DEF ComparedOnce, PairOf
    <2>4. Honest'
      <3>1. material' = material BY ComparisonsAre
      <3>2. ASSUME NEW i \in DOMAIN comparisons'
            PROVE  /\ comparisons'[i].a # comparisons'[i].b /\ PairOf(comparisons'[i]) \subseteq material
                   /\ comparisons'[i].winner \in PairOf(comparisons'[i]) \cup {None}
        <4>1. CASE i = n
          BY <2>1, <2>2, <4>1
        <4>2. CASE i # n
          BY <2>2, <4>2 DEF Honest
        <4> QED BY <4>1, <4>2
      <3> QED BY <3>1, <3>2 DEF Honest, PairOf
    <2> QED BY <2>3, <2>4
  <1> QED BY <1>1, <1>2, ComparisonsAre

-----------------------------------------------------------------------------
(* The budgets and the guard.                                              *)
LEMMA InitBudgets ==
    ASSUME Init
    PROVE  Reserve /\ Thrift /\ Waking /\ SelectionDeliverable
  <1>1. MaxReviews \in Nat BY EvaluationAssumption
  <1>2. Len(comparisons) = 0 BY DEF Init
  <1> QED BY <1>1, <1>2 DEF Init, Reserve, ReserveHeld, Thrift, Waking, SelectionDeliverable, Requests

(* The reserve.  A pair costs it no more than its requests, and the pair   *)
(* that a model has compared on it is the last.                            *)
LEMMA TimeRuns ==
    ASSUME Types, Request, Next
    PROVE  /\ ~MayCompare => ~MayCompare'
           /\ ~Within => ~Within'
  <1>1. PICK t \in CallTimes : Elapse(t) BY DEF Request
  <1>2. t \in Nat /\ left \in Nat /\ due \in Nat /\ Guard \in Nat /\ PairReserve \in Nat
    BY EvaluationAssumption DEF Types
  <1>3. left' \in Nat /\ due' \in Nat /\ left' <= left /\ due' <= due
    BY <1>1, <1>2 DEF Elapse, Minus
  <1>4. UNCHANGED planned
    BY Zenon DEF Next, EvaluateInHaste, Begin, BeginRaises, AskForReview, LeaveReview, EndReviews, AskForComparison,
       FallsBack, Rank, Commit, Raises, RecoveryCommits, TimePasses, configVars
  <1>5. ~Within => ~Within' BY <1>2, <1>3 DEF Within
  <1>6. Reserved(PairReserve) => Reserved(PairReserve)' BY <1>2, <1>3, <1>4 DEF Reserved
  <1> QED BY <1>5, <1>6 DEF MayCompare, Reserved

LEMMA NextReserve ==
    ASSUME Types, Loop, Reserve, Next
    PROVE  Reserve'
  <1> DEFINE n == Len(comparisons)
  <1>0. /\ n \in Nat /\ overdrawn \in Nat /\ bought \in Nat /\ compared \in Nat /\ asked \in 0..3
        /\ compared <= n /\ bought <= 1 /\ overdrawn <= 3 * (n - compared + 1)
        /\ pc = "review" => bought = 0 /\ overdrawn = 0
        /\ pc = "compare" /\ bought = 0 => overdrawn <= 3 * (n - compared) + asked
        /\ pc = "compare" /\ overdrawn # 0 => ~MayCompare
        /\ pc = "compare" /\ bought # 0 => compared > 0 /\ asked = 0 /\ ~MayCompare
    BY DEF Types, Reserve, ReserveHeld, Requests
  <1>1. CASE Begin
    <2>1. UNCHANGED comparisons BY <1>1 DEF Begin
    <2>2. compared' = 0 /\ overdrawn' = 0 /\ bought' = 0 /\ pc' = "review" BY <1>1 DEF Begin
    <2> QED BY <1>0, <2>1, <2>2 DEF Reserve, ReserveHeld, Requests
  <1>2. CASE AskForComparison
    <2>1. pc = "compare" /\ pc' = "compare" /\ (asked \in 1..2 \/ (asked = 0 /\ (MayCompare \/ compared = 0)))
      BY <1>0, <1>2 DEF AskForComparison, AskedAgain, LeaveOff, Requests
    <2>2. bought = 0 BY <1>0, <2>1
    <2>3. overdrawn' \in Nat /\ overdrawn' <= overdrawn + 1 /\ (MayCompare => overdrawn' = overdrawn)
      BY <1>0, <1>2 DEF AskForComparison
    <2>4. ~MayCompare => ~MayCompare' BY <1>2, TimeRuns DEF AskForComparison
    <2>5. MayCompare => overdrawn' = 0 BY <1>0, <2>1, <2>3
    <2>6. overdrawn' # 0 => ~MayCompare' BY <2>4, <2>5
    <2>7. CASE ModelCompares
      <3>1. Comparing
        <4>1. "model" \in {"model", "fallback"} OBVIOUS
        <4> QED BY <1>2, <2>7, <4>1, Zenon DEF AskForComparison, ModelCompares, Comparing, configVars
      <3>2. Len(comparisons') = n + 1 BY <3>1, ComparisonsGrow
      <3>3. compared' = compared + 1 /\ asked' = 0 /\ bought' = (IF MayCompare THEN 0 ELSE 1)
        BY <2>2, <2>7 DEF ModelCompares, Turn
      <3>4. pc' = "compare" /\ compared' \in Nat /\ compared' > 0 /\ compared' <= n + 1 /\ bought' <= 1
        BY <1>0, <2>1, <3>3
      <3>5. overdrawn' <= 3 * ((n + 1) - compared' + 1)
        BY <1>0, <2>1, <2>2, <2>3, <3>3
      <3>6. bought' = 0 => overdrawn' <= 3 * ((n + 1) - compared') + asked'
        <4>1. n + 1 - compared' >= 0 BY <1>0, <3>3
        <4> QED BY <1>0, <2>5, <3>3, <4>1
      <3>7. bought' # 0 => ~MayCompare' BY <2>4, <3>3
      <3> HIDE DEF n
      <3> QED BY <2>6, <3>2, <3>3, <3>4, <3>5, <3>6, <3>7 DEF Reserve, ReserveHeld, Requests
    <2>8. CASE NoAnswer /\ UNCHANGED <<comparisons, compared, bought>>
      <3>1. asked' = asked + 1 /\ UNCHANGED <<comparisons, compared, bought>> BY <2>8 DEF NoAnswer
      <3>2. overdrawn' <= 3 * (n - compared) + (asked + 1) /\ asked + 1 <= 3 BY <1>0, <2>1, <2>2, <2>3
      <3>3. overdrawn' <= 3 * (n - compared + 1) BY <1>0, <2>3, <3>2
      <3> QED BY <1>0, <2>1, <2>2, <2>6, <3>1, <3>2, <3>3 DEF Reserve, ReserveHeld, Requests
    <2> QED BY <1>2, <2>7, <2>8 DEF AskForComparison
  <1>3. CASE FallsBack
    <2>1. Comparing
      <3>1. "fallback" \in {"model", "fallback"} OBVIOUS
      <3> QED BY <1>3, <3>1, Zenon DEF FallsBack, Comparing, configVars
    <2>2. Len(comparisons') = n + 1 BY <2>1, ComparisonsGrow
    <2>3. /\ pc = "compare" /\ pc' = "compare" /\ asked' = 0 /\ UNCHANGED <<compared, overdrawn, bought>>
          /\ asked = 3 \/ (asked = 0 /\ (MayCompare \/ compared = 0))
      BY <1>0, <1>3 DEF FallsBack, LeaveOff, Turn, budget, histories, Requests
    <2>4. bought = 0 BY <1>0, <2>3
    <2>5. UNCHANGED <<left, due, planned>> BY <1>3 DEF FallsBack, budget, configVars
    <2>6. MayCompare' <=> MayCompare BY <2>5 DEF MayCompare, Within, Reserved
    <2>7. overdrawn <= 3 * ((n + 1) - compared) BY <1>0, <2>3, <2>4
    <2>8. compared <= n + 1 /\ overdrawn <= 3 * ((n + 1) - compared + 1) BY <1>0, <2>7
    <2> HIDE DEF n
    <2> QED BY <1>0, <2>2, <2>3, <2>4, <2>6, <2>7, <2>8 DEF Reserve, ReserveHeld, Requests
  <1>4. CASE EndReviews
    <2>1. pc = "review" /\ UNCHANGED <<comparisons, compared, overdrawn, bought, asked>>
      BY <1>4 DEF EndReviews, evidence, budget, histories
    <2> QED BY <1>0, <2>1 DEF Reserve, ReserveHeld, Requests
  <1>5. CASE ~Begin /\ ~AskForComparison /\ ~FallsBack /\ ~EndReviews
    <2>1. UNCHANGED <<compared, overdrawn, bought, comparisons>>
      BY <1>5, Zenon DEF Next, EvaluateInHaste, BeginRaises, AskForReview, LeaveReview, Rank, Commit, Raises,
         RecoveryCommits, TimePasses, budget, histories, evidence
    <2>2. pc' # "compare" /\ (pc' = "review" => pc = "review")
      BY <1>5, Zenon DEF Next, EvaluateInHaste, BeginRaises, AskForReview, LeaveReview, Rank, Commit, Raises,
         RecoveryCommits, TimePasses, Called
    <2> QED BY <1>0, <2>1, <2>2 DEF Reserve, ReserveHeld, Requests
  <1> QED BY <1>1, <1>2, <1>3, <1>4, <1>5

LEMMA NextThrift ==
    ASSUME Types, Waking, Thrift, Next
    PROVE  Thrift'
  <1> USE DEF Thrift
  <1>0. MaxReviews \in Nat /\ spent \in Nat /\ asked \in 0..3 BY EvaluationAssumption DEF Types, Requests
  <1>1. UNCHANGED planned
    BY Zenon DEF Next, EvaluateInHaste, Begin, BeginRaises, AskForReview, LeaveReview, EndReviews, AskForComparison,
       FallsBack, Rank, Commit, Raises, RecoveryCommits, TimePasses, configVars
  <1>2. CASE Begin
    <2>1. spent' = 0 /\ asked' = asked /\ pc = "idle" BY <1>2 DEF Begin, Called
    <2>2. asked = 0 BY <2>1 DEF Waking
    <2> QED BY <1>0, <2>1, <2>2
  <1>3. CASE AskForReview
    <2>1. planned => spent < MaxReviews
      <3>1. CASE asked = 0 BY <1>0, <1>3, <3>1 DEF AskForReview, AskedAgain, MayReview, Requests
      <3>2. CASE asked # 0 BY <1>3, <3>2 DEF AskForReview
      <3> QED BY <3>1, <3>2
    <2>2. (spent' = spent + 1 /\ asked' = 0) \/ spent' = spent BY <1>3 DEF AskForReview, Answer, Turn
    <2> QED BY <1>0, <1>1, <2>1, <2>2
  <1>4. CASE LeaveReview
    <2>1. planned /\ spent' # spent => spent < MaxReviews
      <3>1. CASE asked = 0 BY <1>0, <1>4, <3>1 DEF LeaveReview, MayReview, Requests
      <3>2. CASE asked # 0 BY <1>4, <3>2 DEF LeaveReview
      <3> QED BY <3>1, <3>2
    <2>2. spent' \in {spent, spent + 1} /\ asked' = 0 BY <1>4 DEF LeaveReview, Turn
    <2> QED BY <1>0, <1>1, <2>1, <2>2
  <1>5. CASE ~Begin /\ ~AskForReview /\ ~LeaveReview
    <2>1. UNCHANGED spent /\ pc' # "review"
      BY <1>5, Zenon DEF Next, EvaluateInHaste, BeginRaises, AskForComparison, FallsBack, EndReviews, Rank, Commit,
         Raises, RecoveryCommits, TimePasses, budget, Called
    <2> QED BY <1>0, <1>1, <2>1
  <1> QED BY <1>2, <1>3, <1>4, <1>5

(* The guard.  A model is asked for the first time only when it has not    *)
(* been reached: with time for a comparison, or for the first within it.   *)
LEMMA NextWaking ==
    ASSUME Types, Waking, Next
    PROVE  Waking'
  <1>0. late \in Nat /\ asked \in 0..3 BY DEF Types, Requests
  <1>1. CASE AskForReview \/ AskForComparison
    <2>1. Request /\ pc' = pc /\ pc \in {"review", "compare"} BY <1>1 DEF AskForReview, AskForComparison
    <2>2. asked = 0 => Within
      <3>1. CASE AskForReview BY <3>1 DEF AskForReview, AskedAgain, MayReview, Requests
      <3>2. CASE AskForComparison
        <4>1. asked = 0 => (MayCompare \/ compared <= 0) /\ MayAsk
          BY <1>0, <3>2 DEF AskForComparison, AskedAgain, LeaveOff, Types, Requests
        <4>2. compared \in Nat BY DEF Types
        <4> QED BY <4>1, <4>2 DEF MayAsk, MayCompare
      <3> QED BY <1>1, <3>1, <3>2
    <2>3. asked \in 0..2 BY <1>0, <1>1 DEF AskForReview, AskForComparison, AskedAgain, Requests
    <2>4. late' = IF Within THEN late ELSE late + 1 BY <2>1 DEF Request
    <2>5. ~Within => ~Within' BY <2>1, TimeRuns
    <2>6. late' <= asked /\ (late' # 0 => ~Within)
      <3>1. CASE asked = 0 BY <1>0, <2>2, <2>4, <3>1 DEF Waking
      <3>2. CASE asked # 0 /\ Within BY <1>0, <2>4, <3>2 DEF Waking
      <3>3. CASE asked # 0 /\ ~Within BY <1>0, <2>4, <3>3 DEF Waking
      <3> QED BY <3>1, <3>2, <3>3
    <2>7. asked' \in {0, asked + 1}
      BY <1>1 DEF AskForReview, AskForComparison, Answer, ModelCompares, NoAnswer, Turn
    <2>8. late' \in Nat BY <1>0, <2>4
    <2> QED BY <1>0, <2>1, <2>3, <2>5, <2>6, <2>7, <2>8 DEF Waking, Requests
  <1>2. CASE ~AskForReview /\ ~AskForComparison
    <2>1. UNCHANGED late
      BY <1>2, Zenon DEF Next, EvaluateInHaste, Begin, BeginRaises, LeaveReview, EndReviews, FallsBack, Rank, Commit,
         Raises, RecoveryCommits, TimePasses, histories
    <2>2. ~Within => ~Within'
      <3>1. left' = left \/ left' = left - 1
        BY <1>2, Zenon DEF Next, EvaluateInHaste, Begin, BeginRaises, LeaveReview, EndReviews, FallsBack, Rank, Commit,
           Raises, RecoveryCommits, TimePasses, budget
      <3>2. left \in Nat /\ Guard \in Nat BY EvaluationAssumption DEF Types
      <3> QED BY <3>1, <3>2 DEF Within
    <2>3. CASE asked' = 0 BY <1>0, <2>1, <2>2, <2>3 DEF Waking, Requests
    <2>4. CASE asked' # 0
      <3>1. asked' = asked /\ (pc' = pc \/ EndReviews \/ Rank \/ Commit \/ pc = "idle")
        BY <1>2, <2>4, Zenon DEF Next, EvaluateInHaste, Begin, BeginRaises, LeaveReview, EndReviews, FallsBack, Rank,
           Commit, Raises, RecoveryCommits, TimePasses, Turn, Called
      <3>2. pc \in {"review", "compare"} /\ ~Rank /\ ~Commit BY <2>4, <3>1 DEF Waking, Rank, Commit
      <3>3. pc' \in {"review", "compare"} BY <3>1, <3>2 DEF EndReviews
      <3> QED BY <2>1, <2>2, <2>4, <3>1, <3>3 DEF Waking
    <2> QED BY <2>3, <2>4
  <1> QED BY <1>1, <1>2

(* Only a candidate with a patch is ever selected.                         *)
LEMMA NextSelection ==
    ASSUME Types, SelectionDeliverable, Next
    PROVE  SelectionDeliverable'
  <1> USE DEF outcome, SelectionDeliverable
  <1>1. CASE selection' = selection
    BY <1>1, ComparisonsAre
  <1>2. CASE \E rk : selection' = Committed(rk)
    BY <1>2, CommittedIs, ComparisonsAre
  <1>3. CASE selection' # selection /\ ~\E rk : selection' = Committed(rk)
    BY <1>3, Zenon DEF Next, EvaluateInHaste, Begin, BeginRaises, AskForReview, LeaveReview, EndReviews,
       AskForComparison, FallsBack, Rank, Commit, Raises, RecoveryCommits, TimePasses
  <1> QED BY <1>1, <1>2, <1>3

-----------------------------------------------------------------------------
LEMMA InitInv ==
    ASSUME Init
    PROVE  IInv
  BY InitTypes, InitLoop, InitCompared, InitBudgets DEF IInv, Parts

LEMMA NextInv ==
    ASSUME IInv, [Next]_vars
    PROVE  IInv'
  <1>1. CASE Next
    BY <1>1, NextTypes, NextLoop, NextCompared, NextReserve, NextThrift, NextWaking, NextSelection DEF IInv, Parts
  <1>2. CASE UNCHANGED vars
    <2>1. UNCHANGED <<pc, todo, asked, reviews, comparisons, ranking, selection, left, due, spent, compared,
                      overdrawn, bought, late, material, planned, backend>>
      BY <1>2 DEF vars, evidence, outcome, budget, histories, configVars
    <2>2. Types' BY <2>1 DEF IInv, Types
    <2>3. \A x, y : Done(x, y)' <=> Done(x, y) BY <2>1 DEF Done
    <2>4. Loop' BY <2>1, <2>3 DEF IInv, Parts, Loop, Waiting, Done
    <2>5. ComparedOnce' /\ Honest' BY <2>1 DEF IInv, Parts, ComparedOnce, Honest
    <2>6. Reserve' /\ Thrift' /\ Waking' /\ SelectionDeliverable'
      BY <2>1 DEF IInv, Parts, Reserve, ReserveHeld, MayCompare, Reserved, Within, Thrift, Waking, SelectionDeliverable
    <2> QED BY <2>2, <2>4, <2>5, <2>6 DEF IInv, Parts
  <1> QED BY <1>1, <1>2

THEOREM Invariant == Spec => []IInv
  <1>1. Init => IInv BY InitInv
  <1>2. IInv /\ [Next]_vars => IInv' BY NextInv
  <1> QED BY <1>1, <1>2, PTL DEF Spec

LEMMA InvImplies ==
    ASSUME IInv
    PROVE  EvaluationInv /\ ComparedOnce
  <1>1. TypeOK
    <2>1. \A c \in Candidates : reviews[c] \in ModelReviews \cup {Missing, Fallback}
      BY DEF IInv, Types, Review
    <2>2. Range(ranking) \subseteq Candidates BY DEF IInv, Types, Range
    <2> QED BY <2>1, <2>2 DEF IInv, Types, Parts, Thrift, TypeOK
  <1>2. GuardKept BY DEF IInv, Parts, Types, Waking, GuardKept, Requests
  <1> QED BY <1>1, <1>2 DEF IInv, Parts, Reserve, EvaluationInv

(* The limits of an evaluation: past the guard no answer is asked for      *)
(* first, and no more than two prompts are sent in the whole run; at most  *)
(* one comparison is bought from the reserve; and what is selected has a   *)
(* patch.                                                                  *)
THEOREM EvaluationIsBounded == Spec => []EvaluationInv
  <1>1. IInv => EvaluationInv BY InvImplies
  <1> QED BY <1>1, Invariant, PTL

(* No two candidates are compared twice.                                   *)
THEOREM PairsComparedOnce == Spec => []ComparedOnce
  <1>1. IInv => ComparedOnce BY InvImplies
  <1> QED BY <1>1, Invariant, PTL

-----------------------------------------------------------------------------
(* What a model has said is kept.                                          *)
LEMMA PrefixIs ==
    ASSUME NEW S, NEW s \in Seq(S), NEW c \in S
    PROVE  IsPrefix(s, s) /\ IsPrefix(s, Append(s, c))
  <1>1. SubSeq(s, 1, Len(s)) = s
    OBVIOUS
  <1>2. Len(Append(s, c)) = Len(s) + 1 /\ Len(s) \in Nat
    OBVIOUS
  <1>3. SubSeq(Append(s, c), 1, Len(s)) = s
    <2>1. \A i \in 1..Len(s) : Append(s, c)[i] = s[i] OBVIOUS
    <2> QED BY <2>1
  <1> QED BY <1>1, <1>2, <1>3 DEF IsPrefix

(* No step puts a deterministic review in the place of a model's, and none *)
(* drops a comparison.                                                     *)
THEOREM ModelWorkIsKept == Spec => ModelWorkKept
  <1> DEFINE A == /\ \A c \in Candidates : reviews[c].by = "model" => reviews'[c].by = "model"
                  /\ IsPrefix(comparisons, comparisons')
  <1>1. ASSUME IInv, Next PROVE A
    <2>1. comparisons \in Seq(Comparison) /\ reviews \in [Candidates -> Review]
      BY <1>1 DEF IInv, Types
    <2>2. IsPrefix(comparisons, comparisons')
      <3>1. CASE UNCHANGED comparisons
        <4>1. CASE comparisons = <<>>
          BY <3>1, <4>1 DEF IsPrefix
        <4>2. CASE comparisons # <<>>
          <5>1. comparisons[1] \in Comparison BY <2>1, <4>2
          <5> QED BY <2>1, <3>1, <5>1, PrefixIs
        <4> QED BY <4>1, <4>2
      <3>2. CASE Comparing
        <4>1. PICK c \in Comparison : comparisons' = Append(comparisons, c)
          BY <1>1, <3>2, ComparisonIs DEF IInv, Parts
        <4> QED BY <2>1, <4>1, PrefixIs
      <3> QED BY <1>1, <3>1, <3>2, ComparisonsAre
    <2>3. \A c \in Candidates : reviews[c].by = "model" => reviews'[c].by = "model"
      <3>1. CASE \E C : reviews' = Filled(reviews, C)
        BY <2>1, <3>1, FilledIs
      <3>2. CASE AskForReview
        BY <1>1, <3>2, ReviewIs DEF IInv, Parts
      <3>3. CASE ~(\E C : reviews' = Filled(reviews, C)) /\ ~AskForReview
        <4>1. UNCHANGED reviews
          BY <1>1, <3>3, Zenon DEF Next, EvaluateInHaste, Begin, BeginRaises, LeaveReview, EndReviews, AskForComparison,
             FallsBack, Rank, Commit, Raises, RecoveryCommits, TimePasses, evidence
        <4> QED BY <4>1
      <3> QED BY <3>1, <3>2, <3>3
    <2> QED BY <2>2, <2>3
  <1>2. IInv /\ [Next]_vars => [A]_vars
    BY <1>1
  <1> HIDE DEF A
  <1>3. Spec => [][A]_vars
    BY <1>2, Invariant, PTL DEF Spec
  <1> QED BY <1>3 DEF ModelWorkKept, A

-----------------------------------------------------------------------------
(* Only the ranking leads to the commit.                                   *)
LEMMA OnlyRank ==
    ASSUME Next, pc' = "commit"
    PROVE  Rank
  BY Zenon DEF Next, EvaluateInHaste, Begin, BeginRaises, AskForReview, LeaveReview, EndReviews, AskForComparison,
     FallsBack, Commit, Raises, RecoveryCommits, TimePasses, Called

(* The order in which the coverage is counted holds every candidate that   *)
(* can be delivered, and so the pairs of its places are all the pairs.     *)
LEMMA CoverageIs ==
    ASSUME Types, NEW order \in RoughOrders(reviews, material), Coverage(order) = "all",
           NEW a \in material, NEW b \in material, a # b
    PROVE  \E c \in ByModel : PairOf(c) = {a, b}
  <1> DEFINE top(n) == {{order[p[1]], order[p[2]]} : p \in {q \in Places(order) : q[2] <= n}}
  <1>1. order \in Seq(material) /\ \A x \in material : \E i \in DOMAIN order : order[i] = x
    BY SortedIs, MaterialIsFinite DEF RoughOrders
  <1>2. Claimed(top(Len(order)))
    BY Zenon DEF Coverage
  <1>3. PICK i \in DOMAIN order, j \in DOMAIN order : order[i] = a /\ order[j] = b
    BY <1>1
  <1>4. i \in Nat /\ j \in Nat /\ i # j /\ i <= Len(order) /\ j <= Len(order)
    BY <1>1, <1>3
  <1>5. {a, b} \in top(Len(order))
    <2>1. CASE i < j
      <3>1. <<i, j>> \in {q \in Places(order) : q[2] <= Len(order)} BY <1>4, <2>1 DEF Places
      <3> QED BY <1>3, <3>1
    <2>2. CASE j < i
      <3>1. <<j, i>> \in {q \in Places(order) : q[2] <= Len(order)} BY <1>4, <2>2 DEF Places
      <3>2. {order[j], order[i]} \in top(Len(order)) BY <3>1
      <3> QED BY <1>3, <3>2
    <2>3. i < j \/ j < i BY <1>4
    <2> QED BY <2>1, <2>2, <2>3
  <1> HIDE DEF top
  <1> QED BY <1>2, <1>5 DEF Claimed

(* Full coverage is claimed only when a model has compared every pair of   *)
(* the candidates that can be delivered.                                   *)
THEOREM CoverageIsEarned == Spec => CoverageEarned
  <1> DEFINE A == coverage' = "all" /\ pc' = "commit" =>
                     \A a, b \in material : a # b => \E c \in ByModel : PairOf(c) = {a, b}
  <1>1. ASSUME IInv, Next, coverage' = "all", pc' = "commit", NEW a \in material, NEW b \in material, a # b
        PROVE  \E c \in ByModel : PairOf(c) = {a, b}
    <2>1. Rank BY <1>1, OnlyRank
    <2>2. PICK order \in RoughOrders(reviews, material) : coverage' = Coverage(order) BY <2>1 DEF Rank
    <2> QED BY <1>1, <2>2, CoverageIs DEF IInv
  <1>2. IInv /\ [Next]_vars => [A]_vars
    BY <1>1
  <1> HIDE DEF A
  <1>3. Spec => [][A]_vars
    BY <1>2, Invariant, PTL DEF Spec
  <1> QED BY <1>3 DEF CoverageEarned, A

-----------------------------------------------------------------------------
(* The ranking.  Where every pair has been compared once and a has beaten  *)
(* all others, each of them accounts for a win of a, while a win of b is   *)
(* over one that is neither a nor b.                                       *)
Undefeated(a) ==
    /\ material # {a}
    /\ \A b, c \in material : b # c => \E x \in ByModel : PairOf(x) = {b, c}
    /\ \A b \in material \ {a} : Beats(a, b)

ModelWon(c) == {i \in DOMAIN comparisons : comparisons[i].winner = c /\ comparisons[i].by = "model"}

LEMMA ComparisonsFinite ==
    ASSUME Types, NEW c
    PROVE  IsFiniteSet(ModelWon(c)) /\ Cardinality(ModelWon(c)) \in Nat /\ ModelWins(c) = Cardinality(ModelWon(c))
  <1>1. IsFiniteSet(DOMAIN comparisons)
    BY FS_Interval DEF Types
  <1>2. ModelWon(c) \subseteq DOMAIN comparisons
    BY DEF ModelWon
  <1>3. IsFiniteSet(ModelWon(c))
    BY <1>1, <1>2, FS_Subset
  <1> QED BY <1>3, FS_CardinalityType DEF ModelWon, ModelWins

LEMMA WinsOfUndefeated ==
    ASSUME IInv, NEW a \in material, Undefeated(a)
    PROVE  Cardinality(material \ {a}) <= Cardinality(ModelWon(a))
  <1> DEFINE beaten == material \ {a}
             win == [b \in beaten |-> CHOOSE i \in ModelWon(a) : PairOf(comparisons[i]) = {a, b}]
  <1>1. ASSUME NEW b \in beaten PROVE win[b] \in ModelWon(a) /\ PairOf(comparisons[win[b]]) = {a, b}
    <2>1. PICK x \in ByModel : PairOf(x) = {a, b} /\ x.winner = a BY DEF Undefeated, Beats
    <2>2. PICK i \in DOMAIN comparisons : comparisons[i] = x /\ x.by = "model" BY DEF ByModel, Range
    <2>3. i \in ModelWon(a) /\ PairOf(comparisons[i]) = {a, b} BY <2>1, <2>2 DEF ModelWon
    <2> QED BY <2>3
  <1>2. \A b, c \in beaten : {a, b} = {a, c} => b = c
    OBVIOUS
  <1>3. win \in [beaten -> ModelWon(a)]
    BY <1>1
  <1> HIDE DEF win
  <1>4. \A b, c \in beaten : win[b] = win[c] => b = c
    BY <1>1, <1>2
  <1>5. win \in Injection(beaten, ModelWon(a))
    BY <1>3, <1>4 DEF Injection, IsInjective
  <1>6. IsFiniteSet(ModelWon(a))
    BY ComparisonsFinite DEF IInv
  <1> QED BY <1>5, <1>6, FS_Injection

LEMMA WinsOfOthers ==
    ASSUME IInv, NEW a \in material, Undefeated(a), NEW b \in material, b # a
    PROVE  Cardinality(ModelWon(b)) <= Cardinality(material \ {a, b})
  <1> DEFINE loser == [i \in ModelWon(b) |-> CHOOSE c \in material \ {a, b} : PairOf(comparisons[i]) = {b, c}]
  <1>1. b # None
    BY EvaluationAssumption DEF IInv, Types
  <1>2. PICK k \in DOMAIN comparisons : PairOf(comparisons[k]) = {a, b} /\ comparisons[k].winner = a
    <2>1. PICK x \in ByModel : PairOf(x) = {a, b} /\ x.winner = a BY DEF Undefeated, Beats
    <2> QED BY <2>1 DEF ByModel, Range
  <1>3. ASSUME NEW i \in ModelWon(b)
        PROVE  loser[i] \in material \ {a, b} /\ PairOf(comparisons[i]) = {b, loser[i]}
    <2>1. i \in DOMAIN comparisons /\ comparisons[i].winner = b BY DEF ModelWon
    <2>2. /\ comparisons[i].a # comparisons[i].b /\ PairOf(comparisons[i]) \subseteq material
          /\ b \in PairOf(comparisons[i])
      BY <1>1, <2>1 DEF IInv, Parts, Honest
    <2>3. PICK c \in material : c # b /\ PairOf(comparisons[i]) = {b, c} BY <2>2 DEF PairOf
    <2>4. i # k BY <1>2, <2>1
    <2>5. PairOf(comparisons[i]) # PairOf(comparisons[k]) BY <2>1, <2>4 DEF IInv, Parts, ComparedOnce
    <2>6. c # a BY <1>2, <2>3, <2>5
    <2> QED BY <2>3, <2>6
  <1>4. loser \in [ModelWon(b) -> material \ {a, b}]
    BY <1>3
  <1> HIDE DEF loser
  <1>5. \A i, j \in ModelWon(b) : loser[i] = loser[j] => i = j
    <2>1. \A i \in ModelWon(b) : i \in DOMAIN comparisons BY DEF ModelWon
    <2> QED BY <1>3, <2>1 DEF IInv, Parts, ComparedOnce
  <1>6. loser \in Injection(ModelWon(b), material \ {a, b})
    BY <1>4, <1>5 DEF Injection, IsInjective
  <1>7. IsFiniteSet(material \ {a, b})
    BY MaterialIsFinite, FS_Subset DEF IInv
  <1> QED BY <1>6, <1>7, FS_Injection

LEMMA UndefeatedWinsMost ==
    ASSUME IInv, NEW a \in material, Undefeated(a), NEW b \in material, b # a
    PROVE  ModelWins(b) < ModelWins(a) /\ ModelWins(a) \in Nat /\ ModelWins(b) \in Nat
  <1>1. IsFiniteSet(material \ {a})
    BY MaterialIsFinite, FS_Subset DEF IInv
  <1>2. b \in material \ {a} /\ (material \ {a}) \ {b} = material \ {a, b}
    OBVIOUS
  <1>3. Cardinality(material \ {a, b}) = Cardinality(material \ {a}) - 1 /\ Cardinality(material \ {a}) \in Nat
    BY <1>1, <1>2, FS_RemoveElement, FS_CardinalityType
  <1>4. /\ Cardinality(ModelWon(a)) \in Nat /\ Cardinality(ModelWon(b)) \in Nat
        /\ ModelWins(a) = Cardinality(ModelWon(a)) /\ ModelWins(b) = Cardinality(ModelWon(b))
    BY ComparisonsFinite DEF IInv
  <1> QED BY <1>3, <1>4, WinsOfUndefeated, WinsOfOthers

LEMMA FirstOfRanking ==
    ASSUME IInv, NEW a \in material, Undefeated(a), NEW rk \in Ranked
    PROVE  a \in Foremost(rk)
  <1> DEFINE key == [c \in Candidates |-> <<ModelWins(c), Wins(c), Len(comparisons) - Losses(c), Flag(~reviews[c].gap)>>]
  <1>1. material \subseteq Candidates /\ IsFiniteSet(Candidates)
    BY MaterialIsFinite DEF IInv, Types
  <1>2. rk \in Sorted(Candidates, key)
    BY DEF Ranked
  <1>3. \A b \in material : DOMAIN key[b] = 1..4 /\ key[b][1] = ModelWins(b)
    BY <1>1
  <1> HIDE DEF key
  <1>4. /\ rk \in Seq(Candidates)
        /\ \A i, j \in DOMAIN rk : i # j => rk[i] # rk[j]
        /\ \A x \in Candidates : \E i \in DOMAIN rk : rk[i] = x
        /\ \A i, j \in DOMAIN rk : i < j => ~Exceeds(key[rk[j]], key[rk[i]])
    BY <1>1, <1>2, SortedIs
  <1>5. PICK i \in DOMAIN rk : rk[i] = a
    BY <1>1, <1>4
  <1>6. ASSUME NEW j \in 1..(i - 1), rk[j] \in material PROVE FALSE
    <2>1. j \in DOMAIN rk /\ j < i /\ j # i BY <1>4, <1>5
    <2>2. rk[j] # a BY <1>4, <1>5, <2>1
    <2>3. ModelWins(rk[j]) < ModelWins(a) /\ ModelWins(a) \in Nat /\ ModelWins(rk[j]) \in Nat
      BY <1>6, <2>2, UndefeatedWinsMost
    <2>4. Exceeds(key[a], key[rk[j]])
      <3>1. 1 \in DOMAIN key[a] /\ key[a][1] > key[rk[j]][1] BY <1>3, <1>6, <2>3
      <3>2. 1..(1 - 1) = {} OBVIOUS
      <3> QED BY <3>1, <3>2 DEF Exceeds
    <2> QED BY <1>4, <1>5, <2>1, <2>4
  <1> QED BY <1>5, <1>6 DEF Foremost

(* The ranking has a candidate that a model found better than every other  *)
(* one before all of them.                                                 *)
THEOREM UndefeatedLeads == Spec => UndefeatedFirst
  <1> DEFINE A == pc' = "commit" =>
                     \A a \in material :
                        /\ material # {a}
                        /\ \A b, c \in material : b # c => \E x \in ByModel : PairOf(x) = {b, c}
                        /\ \A b \in material \ {a} : Beats(a, b)
                        => a \in Foremost(ranking')
  <1>1. ASSUME IInv, Next, pc' = "commit", NEW a \in material, Undefeated(a)
        PROVE  a \in Foremost(ranking')
    <2>1. Rank BY <1>1, OnlyRank
    <2>2. ranking' \in Ranked BY <2>1 DEF Rank
    <2> QED BY <1>1, <2>2, FirstOfRanking
  <1>2. IInv /\ [Next]_vars => [A]_vars
    BY <1>1 DEF Undefeated
  <1> HIDE DEF A
  <1>3. Spec => [][A]_vars
    BY <1>2, Invariant, PTL DEF Spec
  <1> QED BY <1>3 DEF UndefeatedFirst, A

-----------------------------------------------------------------------------
(* There is an order for the evaluation to go by, whatever the keys are.   *)
LEMMA LeastNatural ==
    ASSUME NEW S \in SUBSET Nat, S # {}
    PROVE  \E n \in S : \A m \in S : n <= m
  <1> DEFINE Less == OpToRel(<, Nat)
  <1>1. IsWellFoundedOn(Less, Nat)
    BY NatLessThanWellFounded
  <1>2. \A m, n \in Nat : m < n => <<m, n>> \in Less
    BY DEF OpToRel
  <1> HIDE DEF Less
  <1>3. PICK n \in S : \A m \in S : <<m, n>> \notin Less
    BY <1>1, WFMin
  <1>4. n \in Nat /\ \A m \in S : m \in Nat /\ ~(m < n)
    BY <1>2, <1>3
  <1> QED BY <1>4

(* Keys of one length are compared at the first place where they differ.   *)
LEMMA ExceedsOrders ==
    ASSUME NEW n \in Nat, NEW s \in [1..n -> Int], NEW t \in [1..n -> Int], NEW u \in [1..n -> Int]
    PROVE  /\ ~Exceeds(s, s)
           /\ s # t => Exceeds(s, t) \/ Exceeds(t, s)
           /\ Exceeds(s, t) /\ Exceeds(t, u) => Exceeds(s, u)
  <1>1. ~Exceeds(s, s)
    BY DEF Exceeds
  <1>2. ASSUME s # t PROVE Exceeds(s, t) \/ Exceeds(t, s)
    <2> DEFINE differ == {i \in 1..n : s[i] # t[i]}
    <2>1. differ \in SUBSET Nat /\ differ # {} BY <1>2
    <2>2. PICK i \in differ : \A j \in differ : i <= j BY <2>1, LeastNatural
    <2>3. \A j \in 1..(i - 1) : s[j] = t[j] BY <2>2
    <2>4. s[i] > t[i] \/ t[i] > s[i] BY <2>2
    <2> QED BY <2>2, <2>3, <2>4 DEF Exceeds
  <1>3. ASSUME Exceeds(s, t), Exceeds(t, u) PROVE Exceeds(s, u)
    <2>1. PICK i \in 1..n : s[i] > t[i] /\ \A j \in 1..(i - 1) : s[j] = t[j] BY <1>3 DEF Exceeds
    <2>2. PICK k \in 1..n : t[k] > u[k] /\ \A j \in 1..(k - 1) : t[j] = u[j] BY <1>3 DEF Exceeds
    <2>3. CASE i <= k
      <3>1. s[i] > u[i] BY <2>1, <2>2, <2>3
      <3>2. \A j \in 1..(i - 1) : s[j] = u[j] BY <2>1, <2>2, <2>3
      <3> QED BY <3>1, <3>2 DEF Exceeds
    <2>4. CASE k < i
      <3>1. s[k] > u[k] BY <2>1, <2>2, <2>4
      <3>2. \A j \in 1..(k - 1) : s[j] = u[j] BY <2>1, <2>2, <2>4
      <3> QED BY <3>1, <3>2 DEF Exceeds
    <2> QED BY <2>3, <2>4
  <1> QED BY <1>1, <1>2, <1>3

(* A finite set with a total order can be listed in it: each element at    *)
(* the place that the number of those before it gives.                     *)
LEMMA OrderExists ==
    ASSUME NEW S, IsFiniteSet(S), NEW B,
           \A x \in S : <<x, x>> \notin B,
           \A x, y \in S : x # y => <<x, y>> \in B \/ <<y, x>> \in B,
           \A x, y, z \in S : <<x, y>> \in B /\ <<y, z>> \in B => <<x, z>> \in B
    PROVE  \E rk \in SetToSeqs(S) : \A i, j \in DOMAIN rk : i < j => <<rk[i], rk[j]>> \in B
  <1> DEFINE n == Cardinality(S)
             Before(x) == {y \in S : <<y, x>> \in B}
             at == [x \in S |-> Cardinality(Before(x)) + 1]
  <1>1. n \in Nat /\ IsFiniteSet(1..n) /\ Cardinality(1..n) = n
    BY FS_CardinalityType, FS_Interval
  <1>2. ASSUME NEW x \in S PROVE IsFiniteSet(Before(x)) /\ Cardinality(Before(x)) \in Nat /\ Cardinality(Before(x)) < n
    <2>1. Before(x) \subseteq S /\ x \notin Before(x) OBVIOUS
    <2>2. Before(x) # S BY <2>1
    <2> HIDE DEF Before
    <2>3. IsFiniteSet(Before(x)) BY <2>1, FS_Subset
    <2>4. Cardinality(Before(x)) \in Nat BY <2>3, FS_CardinalityType
    <2>5. Cardinality(Before(x)) <= n /\ Cardinality(Before(x)) # n BY <2>1, <2>2, FS_Subset
    <2> QED BY <1>1, <2>3, <2>4, <2>5
  <1>3. ASSUME NEW x \in S, NEW y \in S, <<x, y>> \in B PROVE Cardinality(Before(x)) < Cardinality(Before(y))
    <2>1. Before(x) \subseteq Before(y) /\ x \in Before(y) /\ x \notin Before(x) BY <1>3
    <2>2. Before(x) # Before(y) BY <2>1
    <2>3. IsFiniteSet(Before(y)) BY <1>2
    <2> HIDE DEF Before
    <2> QED BY <2>1, <2>2, <2>3, FS_Subset, FS_CardinalityType
  <1> HIDE DEF Before
  <1>4. /\ at \in [S -> 1..n]
        /\ \A x, y \in S : <<x, y>> \in B => at[x] < at[y]
    BY <1>1, <1>2, <1>3
  <1> HIDE DEF at, n
  <1>5. \A x, y \in S : at[x] = at[y] => x = y
    <2>1. ASSUME NEW x \in S, NEW y \in S, at[x] = at[y], x # y PROVE FALSE
      <3>1. at[x] \in Nat /\ at[y] \in Nat BY <1>1, <1>4
      <3>2. <<x, y>> \in B \/ <<y, x>> \in B BY <2>1
      <3>3. at[x] < at[y] \/ at[y] < at[x] BY <1>4, <3>2
      <3> QED BY <2>1, <3>1, <3>3
    <2> QED BY <2>1
  <1>6. at \in Injection(S, 1..n)
    BY <1>4, <1>5 DEF Injection, IsInjective
  <1>7. at \in Surjection(S, 1..n)
    BY <1>1, <1>6, FS_Injection DEF n
  <1> DEFINE rk == [i \in 1..n |-> CHOOSE x \in S : at[x] = i]
  <1>8. \A i \in 1..n : rk[i] \in S /\ at[rk[i]] = i
    BY <1>7 DEF Surjection
  <1>9. rk \in [1..n -> S]
    BY <1>8
  <1>10. DOMAIN rk = 1..n
    OBVIOUS
  <1> HIDE DEF rk
  <1>11. \A i, j \in 1..n : i # j => rk[i] # rk[j]
    BY <1>8
  <1>12. ASSUME NEW i \in 1..n, NEW j \in 1..n, i < j PROVE <<rk[i], rk[j]>> \in B
    <2>1. rk[i] # rk[j] BY <1>11, <1>12
    <2>2. <<rk[j], rk[i]>> \notin B BY <1>4, <1>8, <1>12
    <2> QED BY <1>8, <2>1, <2>2
  <1>13. rk \in SetToSeqs(S)
    BY <1>9, <1>11 DEF SetToSeqs, n
  <1> QED BY <1>10, <1>12, <1>13

LEMMA SortedExists ==
    ASSUME NEW S, IsFiniteSet(S), NEW n \in Nat, NEW key, \A x \in S : key[x] \in [1..n -> Int]
    PROVE  Sorted(S, key) # {}
  <1>1. PICK f : f \in Bijection(1..Cardinality(S), S)
    BY FS_CardinalityType DEF ExistsBijection
  <1>2. Cardinality(S) \in Nat
    BY FS_CardinalityType
  <1>3. PICK number \in [S -> Nat] : \A x, y \in S : number[x] = number[y] => x = y
    <2> DEFINE number == [x \in S |-> CHOOSE i \in 1..Cardinality(S) : f[i] = x]
    <2>1. \A x \in S : number[x] \in 1..Cardinality(S) /\ f[number[x]] = x
      BY <1>1 DEF Bijection, Surjection
    <2>2. number \in [S -> Nat] BY <1>2, <2>1
    <2> HIDE DEF number
    <2>3. \A x, y \in S : number[x] = number[y] => x = y BY <2>1
    <2> QED BY <2>2, <2>3
  <1> DEFINE Sooner(x, y) == Exceeds(key[x], key[y]) \/ (key[x] = key[y] /\ number[x] < number[y])
             B == {p \in S \X S : Sooner(p[1], p[2])}
  <1>4. \A x, y \in S : <<x, y>> \in B <=> Sooner(x, y)
    OBVIOUS
  <1> HIDE DEF B
  <1>5. \A x \in S : ~Sooner(x, x)
    BY <1>3, ExceedsOrders, SMTT(30)
  <1>6. ASSUME NEW x \in S, NEW y \in S, x # y PROVE Sooner(x, y) \/ Sooner(y, x)
    <2>1. CASE key[x] = key[y] BY <1>3, <1>6, <2>1
    <2>2. CASE key[x] # key[y] BY <2>2, ExceedsOrders
    <2> QED BY <2>1, <2>2
  <1>7. ASSUME NEW x \in S, NEW y \in S, NEW z \in S, Sooner(x, y), Sooner(y, z) PROVE Sooner(x, z)
    <2>1. Exceeds(key[x], key[y]) /\ Exceeds(key[y], key[z]) => Exceeds(key[x], key[z])
      BY ExceedsOrders
    <2>2. number[x] \in Nat /\ number[y] \in Nat /\ number[z] \in Nat BY <1>3
    <2>3. number[x] < number[y] /\ number[y] < number[z] => number[x] < number[z] BY <2>2
    <2> QED BY <1>7, <2>1, <2>3
  <1> HIDE DEF Sooner
  <1>8. PICK rk \in SetToSeqs(S) : \A i, j \in DOMAIN rk : i < j => <<rk[i], rk[j]>> \in B
    BY <1>4, <1>5, <1>6, <1>7, OrderExists
  <1>9. ASSUME NEW i \in DOMAIN rk, NEW j \in DOMAIN rk, i < j PROVE ~Exceeds(key[rk[j]], key[rk[i]])
    <2>1. rk[i] \in S /\ rk[j] \in S BY DEF SetToSeqs
    <2>2. Sooner(rk[i], rk[j]) BY <1>4, <1>8, <1>9, <2>1
    <2>3. Exceeds(key[rk[j]], key[rk[i]]) /\ Exceeds(key[rk[i]], key[rk[j]]) => Exceeds(key[rk[j]], key[rk[j]])
      BY <2>1, ExceedsOrders
    <2>4. ~Exceeds(key[rk[j]], key[rk[j]]) /\ ~Exceeds(key[rk[i]], key[rk[i]])
      BY <2>1, ExceedsOrders
    <2> QED BY <2>2, <2>3, <2>4 DEF Sooner
  <1>10. rk \in Sorted(S, key)
    BY <1>8, <1>9 DEF Sorted
  <1> QED BY <1>10

(* Where no two keys are the same, there is no other way to list the set:  *)
(* at the first place where two lists differ, each has an element that the *)
(* other has only later.                                                   *)
LEMMA SortedIsUnique ==
    ASSUME NEW S, IsFiniteSet(S), NEW n \in Nat, NEW key, \A x \in S : key[x] \in [1..n -> Int],
           \A x, y \in S : key[x] = key[y] => x = y,
           NEW r \in Sorted(S, key), NEW s \in Sorted(S, key)
    PROVE  r = s
  <1> DEFINE N == Cardinality(S)
  <1>1. N \in Nat
    BY FS_CardinalityType
  <1>2. r \in [1..N -> S] /\ s \in [1..N -> S]
    BY DEF Sorted, SetToSeqs
  <1> HIDE DEF N
  <1>3. /\ \A i, j \in 1..N : i # j => r[i] # r[j] /\ s[i] # s[j]
        /\ \A x \in S : (\E i \in 1..N : r[i] = x) /\ (\E i \in 1..N : s[i] = x)
        /\ \A i, j \in 1..N : i < j => ~Exceeds(key[r[j]], key[r[i]]) /\ ~Exceeds(key[s[j]], key[s[i]])
    <2>1. DOMAIN r = 1..N /\ DOMAIN s = 1..N BY <1>2
    <2>2. ASSUME NEW rk \in Sorted(S, key), DOMAIN rk = 1..N
          PROVE  /\ \A i, j \in 1..N : i # j => rk[i] # rk[j]
                 /\ \A x \in S : \E i \in 1..N : rk[i] = x
                 /\ \A i, j \in 1..N : i < j => ~Exceeds(key[rk[j]], key[rk[i]])
      <3>1. /\ \A i, j \in DOMAIN rk : i # j => rk[i] # rk[j]
            /\ \A x \in S : \E i \in DOMAIN rk : rk[i] = x
            /\ \A i, j \in DOMAIN rk : i < j => ~Exceeds(key[rk[j]], key[rk[i]])
        BY SortedIs
      <3> QED BY <2>2, <3>1
    <2> QED BY <2>1, <2>2
  <1>4. ASSUME r # s PROVE FALSE
    <2> DEFINE differ == {i \in 1..N : r[i] # s[i]}
    <2>0. (\A i \in 1..N : r[i] = s[i]) => r = s
      <3>1. r = [i \in 1..N |-> r[i]] /\ s = [i \in 1..N |-> s[i]] BY <1>2
      <3> QED BY <3>1, Zenon
    <2>1. differ \in SUBSET Nat /\ differ # {} BY <1>4, <2>0
    <2>2. PICK i \in differ : \A j \in differ : i <= j BY <2>1, LeastNatural
    <2>3. i \in 1..N /\ r[i] # s[i] /\ r[i] \in S /\ s[i] \in S BY <1>2, <2>2
    <2>4. \A j \in 1..N : j < i => r[j] = s[j] BY <2>2
    <2>5. PICK j \in 1..N : s[j] = r[i] BY <1>3, <2>3
    <2>6. PICK k \in 1..N : r[k] = s[i] BY <1>3, <2>3
    <2> HIDE DEF differ
    <2>7. i < j
      <3>1. j # i BY <2>3, <2>5
      <3>2. ~(j < i) BY <1>3, <2>3, <2>4, <2>5
      <3> QED BY <2>3, <3>1, <3>2
    <2>8. i < k
      <3>1. k # i BY <2>3, <2>6
      <3>2. ~(k < i) BY <1>3, <2>3, <2>4, <2>6
      <3> QED BY <2>3, <3>1, <3>2
    <2>9. ~Exceeds(key[r[i]], key[s[i]]) BY <1>3, <2>3, <2>5, <2>7
    <2>10. ~Exceeds(key[s[i]], key[r[i]]) BY <1>3, <2>3, <2>6, <2>8
    <2>11. key[r[i]] = key[s[i]] BY <2>3, <2>9, <2>10, ExceedsOrders
    <2> QED BY <2>3, <2>11
  <1> QED BY <1>4

LEMMA RoughOrderIs ==
    ASSUME Types, NEW C \in {material, Candidates}
    PROVE  \E order : RoughOrders(reviews, C) = {order}
  <1> DEFINE key == [c \in C |-> <<Flag(c \in material), Flag(reviews[c].by = "model"), Flag(~reviews[c].gap), c>>]
  <1>1. IsFiniteSet(C) /\ \A c \in C : c \in Int
    <2>1. C \subseteq Candidates BY DEF Types
    <2>2. \A c \in Candidates : c \in Int BY EvaluationAssumption
    <2>3. IsFiniteSet(C) BY MaterialIsFinite
    <2> QED BY <2>1, <2>2, <2>3
  <1>2. \A c \in C : key[c] \in [1..4 -> Int] /\ key[c][4] = c
    BY <1>1 DEF Flag
  <1> HIDE DEF key
  <1>3. \A x, y \in C : key[x] = key[y] => x = y
    BY <1>2
  <1>4. Sorted(C, key) # {} /\ \A r, s \in Sorted(C, key) : r = s
    <2>1. \A c \in C : key[c] \in [1..4 -> Int] BY <1>2
    <2>2. Sorted(C, key) # {} BY <1>1, <2>1, SortedExists
    <2>3. \A r, s \in Sorted(C, key) : r = s BY <1>1, <1>3, <2>1, SortedIsUnique, ZenonT(90)
    <2> QED BY <2>2, <2>3
  <1>5. RoughOrders(reviews, C) = Sorted(C, key)
    BY DEF RoughOrders, key
  <1> QED BY <1>4, <1>5

LEMMA ToCompareIs ==
    ASSUME Types, NEW order \in RoughOrders(reviews, material)
    PROVE  \E list : ToCompare(order) = {list}
  <1> DEFINE new == {p \in Places(order) : ~Done(order[p[1]], order[p[2]])}
             key == [p \in new |-> Priority(p, Len(order))]
             Listed(first) == [i \in DOMAIN first |-> <<order[first[i][1]], order[first[i][2]]>>]
  <1>1. order \in Seq(material)
    BY SortedIs, MaterialIsFinite DEF RoughOrders
  <1>2. IsFiniteSet(new)
    <2>1. IsFiniteSet(DOMAIN order) BY <1>1, FS_Interval
    <2>2. IsFiniteSet((DOMAIN order) \X (DOMAIN order)) BY <2>1, FS_Product
    <2>3. new \subseteq (DOMAIN order) \X (DOMAIN order) BY DEF Places
    <2> QED BY <2>2, <2>3, FS_Subset
  <1>3. \A p \in new : p \in Nat \X Nat
    BY <1>1 DEF Places
  <1>4. ToCompare(order) = {Listed(first) : first \in Sorted(new, key)}
    BY Zenon DEF ToCompare
  <1>5. \A p \in new : key[p] = Priority(p, Len(order))
    OBVIOUS
  <1> HIDE DEF new, key
  <1>6. \A p \in new : key[p] \in [1..3 -> Int]
    <2>1. ASSUME NEW p \in new PROVE Priority(p, Len(order)) \in [1..3 -> Int]
      <3>1. p[1] \in Int /\ p[2] \in Int /\ Len(order) \in Int BY <1>1, <1>3
      <3>2. \A x, y, z \in Int : <<x, y, z>> \in [1..3 -> Int] OBVIOUS
      <3>3. Len(order) - p[2] \in Int /\ Len(order) - p[1] \in Int BY <3>1
      <3> QED BY <3>2, <3>3 DEF Priority
    <2> QED BY <1>5, <2>1
  <1>7. ASSUME NEW p \in new, NEW q \in new, key[p] = key[q] PROVE p = q
    <2>1. p \in Nat \X Nat /\ q \in Nat \X Nat /\ Len(order) \in Nat BY <1>1, <1>3
    <2>2. Priority(p, Len(order)) = Priority(q, Len(order)) BY <1>5, <1>7
    <2>3. p[1] = q[1] /\ p[2] = q[2] BY <2>1, <2>2 DEF Priority
    <2> QED BY <2>1, <2>3
  <1>8. Sorted(new, key) # {} /\ \A r, s \in Sorted(new, key) : r = s
    BY <1>2, <1>6, <1>7, SortedExists, SortedIsUnique, ZenonT(40)
  <1>9. PICK r : Sorted(new, key) = {r}
    BY <1>8
  <1> HIDE DEF Listed
  <1> QED BY <1>4, <1>9

LEMMA RankingExists ==
    ASSUME Types
    PROVE  Ranked # {} /\ BestEffort # {}
  <1>1. IsFiniteSet(Candidates) /\ IsFiniteSet(material)
    BY MaterialIsFinite
  <1>2. Ranked # {}
    <2> DEFINE key == [c \in Candidates |->
                         <<ModelWins(c), Wins(c), Len(comparisons) - Losses(c), Flag(~reviews[c].gap)>>]
    <2>1. IsFiniteSet(DOMAIN comparisons) /\ Len(comparisons) \in Nat BY FS_Interval DEF Types
    <2>2. \A D \in SUBSET DOMAIN comparisons : Cardinality(D) \in Nat BY <2>1, FS_Subset, FS_CardinalityType
    <2>3. ASSUME NEW c PROVE Wins(c) \in Nat /\ Losses(c) \in Nat /\ ModelWins(c) \in Nat
      BY <2>2 DEF Wins, Losses, ModelWins
    <2>4. \A c \in Candidates : key[c] \in [1..4 -> Int] BY <2>1, <2>3 DEF Flag
    <2> HIDE DEF key
    <2>5. Sorted(Candidates, key) # {} BY <1>1, <2>4, SortedExists
    <2> QED BY <2>5 DEF Ranked, key
  <1>3. BestEffort # {}
    <2> DEFINE key == [c \in material |-> <<c>>]
    <2>1. \A c \in material : c \in Int BY EvaluationAssumption DEF Types
    <2>2. \A c \in material : key[c] \in [1..1 -> Int] BY <2>1
    <2> HIDE DEF key
    <2>3. Sorted(material, key) # {} BY <1>1, <2>2, SortedExists
    <2> QED BY <2>3 DEF BestEffort, key
  <1> QED BY <1>2, <1>3

(* No evaluation is stuck for want of an order, and what the code decides  *)
(* by sorting is decided: one order of the candidates, one list of pairs.  *)
THEOREM OrdersAreDecided ==
    Spec => [](/\ \E order : RoughOrders(reviews, Candidates) = {order}
               /\ \E order : RoughOrders(reviews, material) = {order} /\ \E list : ToCompare(order) = {list}
               /\ Ranked # {} /\ BestEffort # {})
  <1> DEFINE D == /\ \E order : RoughOrders(reviews, Candidates) = {order}
                  /\ \E order : RoughOrders(reviews, material) = {order} /\ \E list : ToCompare(order) = {list}
                  /\ Ranked # {} /\ BestEffort # {}
  <1>1. ASSUME IInv PROVE D
    <2>1. Types BY <1>1 DEF IInv
    <2>2. \E order : RoughOrders(reviews, Candidates) = {order} BY <2>1, RoughOrderIs
    <2>3. PICK order : RoughOrders(reviews, material) = {order} BY <2>1, RoughOrderIs
    <2>4. \E list : ToCompare(order) = {list} BY <2>1, <2>3, ToCompareIs
    <2> QED BY <2>1, <2>2, <2>3, <2>4, RankingExists
  <1> HIDE DEF D
  <1>2. Spec => []D
    BY <1>1, Invariant, PTL
  <1> QED BY <1>2 DEF D
=============================================================================
