---------------------------- MODULE SubtaskRunProofs ----------------------------
(***************************************************************************)
(* Theorems about SubtaskRun, for any subtasks and dependencies, any       *)
(* budget, and whatever the runner, the validations and the reviewer may   *)
(* bring.                                                                  *)
(*                                                                         *)
(* The argument: every operator of Decomposition keeps the record of the   *)
(* subtasks sound and touches one subtask only, and says what becomes of   *)
(* it (Moved); from that the invariant of the run follows, one conjunct at *)
(* a time, and what the recovery recommends follows from the invariant.    *)
(***************************************************************************)
EXTENDS SubtaskRun, FiniteSetTheorems, WellFoundedInduction, TLAPS

-----------------------------------------------------------------------------
(* The records of the subtasks.                                            *)
Places == Tasks \X (1..Budget)

Entry == [work : Attempt, base : SUBSET Places]

Record ==
    [deps     : [Tasks -> SUBSET Tasks],
     status   : [Tasks -> {"pending", "running", "accepted", "failed"}],
     attempts : [Tasks -> Seq(Entry)],
     chosen   : [Tasks -> Nat],
     applied  : [Tasks -> Nat],
     rolling  : SUBSET Places,
     exec     : {"running", "blocked", "completed"},
     late     : BOOLEAN]

Sane(e) ==
    /\ e \in Record
    /\ \A t \in Tasks :
          /\ Len(e.attempts[t]) <= Budget
          /\ e.chosen[t] <= Len(e.attempts[t]) /\ e.applied[t] <= Len(e.attempts[t])

(* What is said of subtasks that are deadlocked, unless an acceptance has  *)
(* raised.                                                                 *)
Seen(e) == Deadlocked(e) => e.exec = "blocked" \/ e.late

(* Two records that differ at most in the status, the attempts, the choice *)
(* and the patch of one subtask.                                           *)
Elsewhere(e, f, s) ==
    /\ f.deps = e.deps
    /\ \A t \in Tasks \ {s} :
          /\ f.status[t] = e.status[t] /\ f.attempts[t] = e.attempts[t]
          /\ f.chosen[t] = e.chosen[t] /\ f.applied[t] = e.applied[t]

(* The same subtasks but for the evidence of the attempts at one of them.  *)
Weighed(e, f, s) ==
    /\ Elsewhere(e, f, s)
    /\ f.status = e.status /\ f.chosen = e.chosen /\ f.applied = e.applied
    /\ f.rolling = e.rolling /\ f.exec = e.exec /\ f.late = e.late
    /\ Len(f.attempts[s]) = Len(e.attempts[s])

(* One of them accepted, with an attempt at it that has passed its review. *)
Approved(e, s) ==
    /\ e.status[s] = "accepted" /\ e.chosen[s] \in DOMAIN e.attempts[s]
    /\ ReviewStatus(e.attempts[s][e.chosen[s]].work) = "passed"

(* A sequence keeps its length and its other elements when one is changed. *)
LEMMA OneEntry ==
    ASSUME NEW e \in Record, NEW s \in Tasks, NEW n \in DOMAIN e.attempts[s], NEW w \in Attempt
    PROVE  LET f == [e EXCEPT !.attempts[s][n].work = w] IN
           /\ f \in Record /\ Weighed(e, f, s)
           /\ f.attempts[s][n] = [work |-> w, base |-> e.attempts[s][n].base]
           /\ \A m \in DOMAIN e.attempts[s] \ {n} : f.attempts[s][m] = e.attempts[s][m]
  <1> DEFINE f == [e EXCEPT !.attempts[s][n].work = w]
             q == [e.attempts[s] EXCEPT ![n].work = w]
  <1>1. e.attempts \in [Tasks -> Seq(Entry)] /\ e.attempts[s] \in Seq(Entry)
    BY DEF Record
  <1>2. e.attempts[s][n] \in Entry
    BY <1>1
  <1>3. [e.attempts[s][n] EXCEPT !.work = w] = [work |-> w, base |-> e.attempts[s][n].base]
    BY <1>2 DEF Entry
  <1>4. [work |-> w, base |-> e.attempts[s][n].base] \in Entry
    BY <1>2 DEF Entry
  <1>5. q = [e.attempts[s] EXCEPT ![n] = [work |-> w, base |-> e.attempts[s][n].base]]
    BY <1>3, Zenon
  <1>6. q \in Seq(Entry) /\ Len(q) = Len(e.attempts[s])
    BY <1>1, <1>4, <1>5
  <1>7. q[n] = [work |-> w, base |-> e.attempts[s][n].base] /\ \A m \in DOMAIN e.attempts[s] \ {n} : q[m] = e.attempts[s][m]
    BY <1>1, <1>5
  <1>8. f = [e EXCEPT !.attempts = [e.attempts EXCEPT ![s] = q]]
    BY Zenon
  <1> HIDE DEF q
  <1>9. f.attempts[s] = q /\ \A t \in Tasks \ {s} : f.attempts[t] = e.attempts[t]
    BY <1>1, <1>8 DEF Record
  <1>10. f \in Record
    BY <1>1, <1>6, <1>8 DEF Record
  <1>11. /\ f.deps = e.deps /\ f.status = e.status /\ f.chosen = e.chosen /\ f.applied = e.applied
         /\ f.rolling = e.rolling /\ f.exec = e.exec /\ f.late = e.late
    BY <1>8 DEF Record
  <1> HIDE DEF f
  <1>12. Weighed(e, f, s)
    BY <1>6, <1>9, <1>11 DEF Weighed, Elsewhere
  <1> QED BY <1>7, <1>9, <1>10, <1>12 DEF f

-----------------------------------------------------------------------------
(* Evidence, the status of the whole, and acceptance.                      *)
LEMMA EvidenceIs ==
    ASSUME NEW w \in Attempt
    PROVE  /\ \A v \in Decided : Validated(w, v) \in Attempt /\ Validated(w, v).review = w.review
           /\ \A r \in Verdicts : Reviewed(w, r) \in Attempt /\ Reviewed(w, r).review = r
  BY DEF Attempt, Validated, Reviewed, Decided, Verdicts

LEMMA UpdatedIs ==
    ASSUME NEW e, Sane(e)
    PROVE  LET f == Updated(e) IN
           /\ Sane(f) /\ Seen(f)
           /\ f.deps = e.deps /\ f.status = e.status /\ f.attempts = e.attempts
           /\ f.chosen = e.chosen /\ f.applied = e.applied /\ f.rolling = e.rolling
  <1> DEFINE f == Updated(e)
  <1>1. \E x \in {"running", "blocked", "completed"} :
           f = [e EXCEPT !.exec = x, !.late = FALSE] /\ (Deadlocked(e) => x = "blocked")
    <2>1. e.exec \in {"running", "blocked", "completed"}
      BY DEF Sane, Record
    <2> HIDE DEF f
    <2>2. CASE Deadlocked(e)
      BY <2>2, Zenon DEF Updated, f
    <2>3. CASE ~Deadlocked(e) /\ AllAccepted(e)
      BY <2>3, Zenon DEF Updated, f
    <2>4. CASE ~Deadlocked(e) /\ ~AllAccepted(e)
      BY <2>1, <2>4, Zenon DEF Updated, f
    <2> QED BY <2>2, <2>3, <2>4
  <1>2. PICK x \in {"running", "blocked", "completed"} : f = [e EXCEPT !.exec = x, !.late = FALSE] /\ (Deadlocked(e) => x = "blocked")
    BY <1>1
  <1> HIDE DEF f
  <1>3. /\ f.deps = e.deps /\ f.status = e.status /\ f.attempts = e.attempts
        /\ f.chosen = e.chosen /\ f.applied = e.applied /\ f.rolling = e.rolling /\ f.exec = x
        /\ f \in Record
    BY <1>2 DEF Sane, Record
  <1>4. Sane(f)
    BY <1>3 DEF Sane
  <1>5. Deadlocked(f) <=> Deadlocked(e)
    BY <1>3 DEF Deadlocked, Ready
  <1>6. Seen(f)
    BY <1>2, <1>3, <1>5 DEF Seen
  <1> QED BY <1>3, <1>4, <1>6 DEF f

LEMMA AcceptingIs ==
    ASSUME NEW e, Sane(e), NEW s \in Tasks, NEW n \in DOMAIN e.attempts[s],
           ReviewStatus(e.attempts[s][n].work) = "passed"
    PROVE  LET c == Accepting(e, s, n) IN
           /\ Sane(c) /\ Elsewhere(e, c, s)
           /\ Approved(c, s) /\ c.chosen[s] = n
           /\ c.applied = e.applied /\ c.rolling = e.rolling /\ c.exec = e.exec /\ c.late = e.late
           /\ Len(c.attempts[s]) = Len(e.attempts[s])
           /\ e.status[s] = "accepted" => c.status = e.status
           /\ e.chosen[s] = n => c.chosen = e.chosen
  <1> DEFINE w == [e.attempts[s][n].work EXCEPT !.status = "accepted"]
             h == [e EXCEPT !.attempts[s][n].work = w]
             c == Accepting(e, s, n)
  <1>1. e \in Record /\ e.attempts[s] \in Seq(Entry) /\ e.attempts[s][n] \in Entry
    BY DEF Sane, Record
  <1>2. w \in Attempt /\ w.review = e.attempts[s][n].work.review
    BY <1>1 DEF Entry, Attempt
  <1>3. c = [h EXCEPT !.status[s] = "accepted", !.chosen[s] = n]
    BY <1>1 DEF Accepting, Record
  <1> HIDE DEF w
  <1>4. /\ h \in Record /\ Weighed(e, h, s)
        /\ h.attempts[s][n] = [work |-> w, base |-> e.attempts[s][n].base]
    BY <1>1, <1>2, OneEntry
  <1> HIDE DEF h, c
  <1>5. n \in Nat /\ n <= Len(e.attempts[s]) /\ n \in 1..Len(e.attempts[s])
    BY <1>1
  <1>6. /\ c \in Record
        /\ c.deps = h.deps /\ c.attempts = h.attempts /\ c.applied = h.applied /\ c.rolling = h.rolling
        /\ c.exec = h.exec /\ c.late = h.late
        /\ c.status = [h.status EXCEPT ![s] = "accepted"] /\ c.chosen = [h.chosen EXCEPT ![s] = n]
    BY <1>3, <1>4, <1>5 DEF Record
  <1>7. h.status \in [Tasks -> {"pending", "running", "accepted", "failed"}] /\ h.chosen \in [Tasks -> Nat]
    BY <1>4 DEF Record
  <1>8. /\ c.status[s] = "accepted" /\ c.chosen[s] = n
        /\ \A t \in Tasks \ {s} : c.status[t] = h.status[t] /\ c.chosen[t] = h.chosen[t]
        /\ h.status[s] = "accepted" => c.status = h.status
        /\ h.chosen[s] = n => c.chosen = h.chosen
    BY <1>6, <1>7
  <1>9. Elsewhere(e, c, s)
    BY <1>4, <1>6, <1>8 DEF Weighed, Elsewhere
  <1>10. Len(c.attempts[s]) = Len(e.attempts[s]) /\ c.attempts[s] \in Seq(Entry)
    BY <1>4, <1>6 DEF Weighed, Record
  <1>11. Sane(c)
    BY <1>4, <1>5, <1>6, <1>8, <1>9, <1>10 DEF Sane, Elsewhere, Weighed
  <1>12. c.attempts[s][n].work.review = e.attempts[s][n].work.review
    BY <1>2, <1>4, <1>6
  <1>13. Approved(c, s)
    BY <1>5, <1>8, <1>10, <1>12 DEF Approved, ReviewStatus
  <1> QED BY <1>4, <1>6, <1>8, <1>9, <1>10, <1>11, <1>13 DEF Weighed, c

(* What a commit leads to: the subtask is accepted, and either the status  *)
(* of the whole was brought up to date or nothing it depends on changed.   *)
Unmoved(e, f) == f.status = e.status /\ f.chosen = e.chosen /\ f.exec = e.exec /\ f.late = e.late

Committed(e, f, s, n) ==
    /\ Sane(f) /\ Elsewhere(e, f, s) /\ Len(f.attempts[s]) = Len(e.attempts[s])
    /\ Approved(f, s) /\ f.chosen[s] = n
    /\ Seen(f) \/ Unmoved(e, f)

LEMMA CommitIs ==
    ASSUME NEW e, Sane(e), NEW s \in Tasks, NEW n \in DOMAIN e.attempts[s],
           ReviewStatus(e.attempts[s][n].work) = "passed"
    PROVE  /\ Commit(e, s, n) # {}
           /\ \A f \in Commit(e, s, n) : Committed(e, f, s, n)
  <1> DEFINE c == Accepting(e, s, n)
             a == [c EXCEPT !.applied[s] = n, !.rolling = @ \cup {<<s, n>>}]
             g == Updated(a)
             r == [c EXCEPT !.applied[s] = 0, !.exec = "blocked"]
             fits == Fits(e.rolling, e.attempts[s][n])
  <1>1. /\ Sane(c) /\ Elsewhere(e, c, s)
        /\ Approved(c, s) /\ c.chosen[s] = n
        /\ c.applied = e.applied /\ c.rolling = e.rolling /\ c.exec = e.exec /\ c.late = e.late
        /\ Len(c.attempts[s]) = Len(e.attempts[s])
        /\ e.status[s] = "accepted" => c.status = e.status
        /\ e.chosen[s] = n => c.chosen = e.chosen
    BY AcceptingIs
  <1>2. Commit(e, s, n) = IF e.applied[s] = n THEN {IF e.status[s] = "accepted" /\ e.chosen[s] = n THEN c ELSE g}
                          ELSE {IF fit THEN g ELSE r : fit \in fits}
    BY Zenon DEF Commit
  <1>3. fits # {}
    BY Zenon DEF Fits
  <1>4. e.attempts[s] \in Seq(Entry) /\ n \in Nat /\ n <= Len(e.attempts[s]) /\ Len(e.attempts[s]) <= Budget
    BY DEF Sane, Record
  <1>5. Budget \in Nat
    BY DecompositionAssumption
  <1> HIDE DEF c, fits
  <1>6. n \in 1..Budget /\ <<s, n>> \in Places
    BY <1>4, <1>5 DEF Places
  <1>7. /\ a \in Record
        /\ a.deps = c.deps /\ a.status = c.status /\ a.attempts = c.attempts /\ a.chosen = c.chosen
        /\ a.applied = [c.applied EXCEPT ![s] = n]
    BY <1>1, <1>4, <1>6 DEF Sane, Record
  <1>8. /\ r \in Record
        /\ r.deps = c.deps /\ r.status = c.status /\ r.attempts = c.attempts /\ r.chosen = c.chosen
        /\ r.applied = [c.applied EXCEPT ![s] = 0] /\ r.exec = "blocked"
    BY <1>1 DEF Sane, Record
  <1> HIDE DEF a, r
  <1>9. c.applied \in [Tasks -> Nat]
    BY <1>1 DEF Sane, Record
  <1>10. Sane(a) /\ Elsewhere(e, a, s)
    BY <1>1, <1>4, <1>7, <1>9 DEF Sane, Elsewhere
  <1>11. \A t \in Tasks : 0 <= Len(c.attempts[t])
    <2>1. \A t \in Tasks : c.attempts[t] \in Seq(Entry)
      BY <1>1 DEF Sane, Record
    <2> QED BY <2>1
  <1>12. Sane(r) /\ Elsewhere(e, r, s)
    BY <1>1, <1>4, <1>8, <1>9, <1>11 DEF Sane, Elsewhere
  <1>13. /\ Sane(g) /\ Seen(g)
         /\ g.deps = a.deps /\ g.status = a.status /\ g.attempts = a.attempts
         /\ g.chosen = a.chosen /\ g.applied = a.applied
    BY <1>10, UpdatedIs
  <1> HIDE DEF g
  <1>14. Committed(e, g, s, n)
    BY <1>1, <1>7, <1>10, <1>13 DEF Committed, Elsewhere, Approved
  <1>15. Committed(e, r, s, n)
    BY <1>1, <1>8, <1>12 DEF Committed, Approved, Seen
  <1>16. e.status[s] = "accepted" /\ e.chosen[s] = n => Committed(e, c, s, n)
    BY <1>1 DEF Committed, Unmoved
  <1> QED BY <1>2, <1>3, <1>14, <1>15, <1>16

(* One that raises: the subtask is accepted just the same.                 *)
LEMMA RaisedIs ==
    ASSUME NEW e, Sane(e), NEW s \in Tasks, NEW n \in DOMAIN e.attempts[s],
           ReviewStatus(e.attempts[s][n].work) = "passed", NEW f \in CommitRaises(e, s, n)
    PROVE  Committed(e, f, s, n)
  <1> DEFINE c == Accepting(e, s, n)
             b == [c EXCEPT !.late = TRUE]
             there == [b EXCEPT !.rolling = @ \cup {<<s, n>>}]
             a == [there EXCEPT !.applied[s] = n]
             r == [b EXCEPT !.applied[s] = 0]
             x == [b EXCEPT !.applied[s] = 0, !.exec = "blocked"]
             O(fits) == IF fits THEN {b, there, a} ELSE {b, r, x}
             all == UNION {O(fits) : fits \in Fits(e.rolling, e.attempts[s][n])}
  <1>1. /\ Sane(c) /\ Elsewhere(e, c, s)
        /\ Approved(c, s) /\ c.chosen[s] = n
        /\ Len(c.attempts[s]) = Len(e.attempts[s])
    BY AcceptingIs
  <1>2. CommitRaises(e, s, n) = IF e.applied[s] = n
                                THEN IF e.status[s] = "accepted" /\ e.chosen[s] = n THEN {} ELSE {b}
                                ELSE all
    BY Zenon DEF CommitRaises
  <1>3. e.attempts[s] \in Seq(Entry) /\ n \in Nat /\ n <= Len(e.attempts[s]) /\ Len(e.attempts[s]) <= Budget
    BY DEF Sane, Record
  <1>4. Budget \in Nat
    BY DecompositionAssumption
  <1> HIDE DEF c
  <1>5. n \in 1..Budget /\ <<s, n>> \in Places
    BY <1>3, <1>4 DEF Places
  <1>6. c \in Record /\ c.applied \in [Tasks -> Nat]
    BY <1>1 DEF Sane, Record
  <1>7. \A t \in Tasks : Len(c.attempts[t]) \in Nat
    <2>1. \A t \in Tasks : c.attempts[t] \in Seq(Entry)
      BY <1>1 DEF Sane, Record
    <2> QED BY <2>1
  <1> DEFINE Like(g) == /\ g \in Record /\ g.late
                        /\ g.deps = c.deps /\ g.status = c.status /\ g.attempts = c.attempts /\ g.chosen = c.chosen
  <1>8. Like(b) /\ b.applied = c.applied
    BY <1>6 DEF Record
  <1> HIDE DEF b
  <1>9. Like(there) /\ there.applied = c.applied
    BY <1>5, <1>8 DEF Record
  <1> HIDE DEF there
  <1>10. Like(a) /\ a.applied = [c.applied EXCEPT ![s] = n]
    BY <1>3, <1>6, <1>9 DEF Record
  <1>11. Like(r) /\ r.applied = [c.applied EXCEPT ![s] = 0]
    BY <1>6, <1>8 DEF Record
  <1>17. Like(x) /\ x.applied = [c.applied EXCEPT ![s] = 0]
    BY <1>6, <1>8 DEF Record
  <1> HIDE DEF a, r, x
  <1>12. f \in {b, there, a, r, x}
    BY <1>2
  <1>13. PICK m \in {n, 0, c.applied[s]} : Like(f) /\ f.applied = [c.applied EXCEPT ![s] = m]
    <2>1. c.applied = [c.applied EXCEPT ![s] = c.applied[s]]
      BY <1>6
    <2> QED BY <1>8, <1>9, <1>10, <1>11, <1>12, <1>17, <2>1
  <1>14. m \in Nat /\ m <= Len(c.attempts[s])
    BY <1>1, <1>3, <1>6, <1>7, <1>13 DEF Sane
  <1>15. f.applied[s] = m /\ \A t \in Tasks \ {s} : f.applied[t] = c.applied[t]
    BY <1>6, <1>13
  <1>16. Sane(f) /\ Elsewhere(e, f, s)
    BY <1>1, <1>13, <1>14, <1>15 DEF Sane, Elsewhere
  <1> QED BY <1>1, <1>13, <1>16 DEF Committed, Approved, Seen

(* A review of one attempt at a subtask.                                   *)
LEMMA JudgedIs ==
    ASSUME NEW e, Sane(e), NEW s \in Tasks, NEW n \in DOMAIN e.attempts[s],
           NEW f \in Judged(e, s, n) \cup JudgingRaises(e, s, n)
    PROVE  \/ Sane(f) /\ Weighed(e, f, s) /\ ~Eligible(f.attempts[s][n].work, "subtask")
           \/ Committed(e, f, s, n)
  <1> DEFINE h(r) == [e EXCEPT !.attempts[s][n].work = Reviewed(@, r)]
             F(r) == IF Eligible(h(r).attempts[s][n].work, "subtask") THEN Commit(h(r), s, n) ELSE {h(r)}
             G(r) == IF Eligible(h(r).attempts[s][n].work, "subtask") THEN CommitRaises(h(r), s, n) ELSE {}
  <1>1. Judged(e, s, n) = UNION {F(r) : r \in Opinions} /\ JudgingRaises(e, s, n) = UNION {G(r) : r \in Opinions}
    BY Zenon DEF Judged, JudgingRaises
  <1> HIDE DEF F, G
  <1>2. PICK r \in Opinions : f \in F(r) \cup G(r)
    BY <1>1
  <1>3. r \in Verdicts
    BY DecompositionAssumption
  <1>4. e.attempts[s] \in Seq(Entry) /\ e.attempts[s][n] \in Entry /\ e \in Record
    BY DEF Sane, Record
  <1>5. e.attempts[s][n].work \in Attempt
    BY <1>4 DEF Entry
  <1>6. Reviewed(e.attempts[s][n].work, r) \in Attempt
    BY <1>3, <1>5, EvidenceIs
  <1> DEFINE w == Reviewed(e.attempts[s][n].work, r)
             g == [e EXCEPT !.attempts[s][n].work = w]
  <1>7. h(r) = g
    BY <1>4 DEF Record
  <1>w. w \in Attempt
    BY <1>6
  <1> HIDE DEF w
  <1>8. g \in Record /\ Weighed(e, g, s) /\ g.attempts[s][n].work = w
    <2>1. g \in Record /\ Weighed(e, g, s) /\ g.attempts[s][n] = [work |-> w, base |-> e.attempts[s][n].base]
      BY <1>4, <1>w, OneEntry
    <2> QED BY <2>1
  <1> HIDE DEF g
  <1> HIDE DEF h
  <1>9. Sane(h(r))
    BY <1>7, <1>8 DEF Sane, Weighed, Elsewhere
  <1>10. n \in DOMAIN h(r).attempts[s]
    <2>1. h(r).attempts[s] \in Seq(Entry) BY <1>7, <1>8 DEF Record
    <2> QED BY <1>4, <1>7, <1>8, <2>1 DEF Weighed
  <1>11. CASE Eligible(h(r).attempts[s][n].work, "subtask")
    <2>1. ReviewStatus(h(r).attempts[s][n].work) = "passed"
      BY <1>11 DEF Eligible, ReviewStatus
    <2>2. f \in Commit(h(r), s, n) \/ f \in CommitRaises(h(r), s, n)
      BY <1>2, <1>11 DEF F, G
    <2>3. Committed(h(r), f, s, n)
      BY <1>9, <1>10, <2>1, <2>2, CommitIs, RaisedIs
    <2> QED BY <1>7, <1>8, <2>3 DEF Committed, Weighed, Elsewhere, Unmoved
  <1>12. CASE ~Eligible(h(r).attempts[s][n].work, "subtask")
    <2>1. f = h(r)
      BY <1>2, <1>12 DEF F, G
    <2> QED BY <1>7, <1>8, <1>9, <1>12, <2>1
  <1> QED BY <1>11, <1>12

-----------------------------------------------------------------------------
(* One attempt, stage by stage.                                            *)
Underway(e, f, s, n) ==
    Sane(f) /\ Elsewhere(e, f, s) /\ f.status[s] = "running" /\ Len(f.attempts[s]) = n

LEMMA BegunIs ==
    ASSUME NEW e, Sane(e), NEW s \in Tasks
    PROVE  LET b == Begun(e, s) IN
           /\ Underway(e, b, s, Len(e.attempts[s]))
           /\ b.attempts = e.attempts /\ b.rolling = e.rolling
  BY ZenonT(40) DEF Begun, Sane, Record, Elsewhere, Underway

LEMMA AttemptedIs ==
    ASSUME NEW e, Sane(e), NEW s \in Tasks, ~Spent(e, s)
    PROVE  /\ Attempted(e, s) # {}
           /\ \A f \in Attempted(e, s) : Underway(e, f, s, Len(e.attempts[s]) + 1)
  <1> DEFINE b == Begun(e, s)
             x(w) == [work |-> w, base |-> e.rolling]
             g(w) == [b EXCEPT !.attempts[s] = Append(@, x(w))]
  <1>1. Attempted(e, s) = {g(w) : w \in Results}
    BY Zenon DEF Attempted
  <1>2. Results # {} /\ Results \subseteq Attempt /\ Budget \in Nat
    BY DecompositionAssumption
  <1>3. SUFFICES ASSUME NEW w \in Results PROVE Underway(e, g(w), s, Len(e.attempts[s]) + 1)
    BY <1>1, <1>2
  <1>4. Sane(b) /\ Elsewhere(e, b, s) /\ b.status[s] = "running" /\ b.attempts = e.attempts
    BY BegunIs DEF Underway
  <1>5. x(w) \in Entry
    BY <1>2 DEF Sane, Record, Entry
  <1> HIDE DEF b, x
  <1> DEFINE q == Append(b.attempts[s], x(w))
  <1>6. b \in Record /\ b.attempts \in [Tasks -> Seq(Entry)] /\ b.attempts[s] \in Seq(Entry)
    BY <1>4 DEF Sane, Record
  <1>7. q \in Seq(Entry) /\ Len(q) = Len(e.attempts[s]) + 1 /\ Len(q) <= Budget
    BY <1>2, <1>4, <1>5, <1>6 DEF Spent, Sane
  <1>8. g(w) = [b EXCEPT !.attempts = [b.attempts EXCEPT ![s] = q]]
    BY <1>6 DEF Record
  <1> HIDE DEF q, g
  <1>9. /\ g(w) \in Record /\ g(w).attempts = [b.attempts EXCEPT ![s] = q]
        /\ g(w).deps = b.deps /\ g(w).status = b.status /\ g(w).chosen = b.chosen /\ g(w).applied = b.applied
    <2> DEFINE all == [b.attempts EXCEPT ![s] = q]
    <2>1. all \in [Tasks -> Seq(Entry)]
      BY <1>6, <1>7
    <2>2. g(w) = [b EXCEPT !.attempts = all]
      BY <1>8
    <2> HIDE DEF all
    <2>3. /\ g(w) \in Record /\ g(w).attempts = all
          /\ g(w).deps = b.deps /\ g(w).status = b.status /\ g(w).chosen = b.chosen /\ g(w).applied = b.applied
      BY <1>6, <2>1, <2>2 DEF Record
    <2> QED BY <2>3 DEF all
  <1>10. g(w).attempts[s] = q /\ \A t \in Tasks \ {s} : g(w).attempts[t] = b.attempts[t]
    BY <1>6, <1>9
  <1>11. \A t \in Tasks : b.chosen[t] \in Nat /\ b.applied[t] \in Nat
    BY <1>6 DEF Record
  <1>12. Len(e.attempts[s]) \in Nat /\ b.chosen[s] <= Len(e.attempts[s]) /\ b.applied[s] <= Len(e.attempts[s])
    BY <1>4, <1>6 DEF Sane
  <1>13. Sane(g(w))
    BY <1>4, <1>7, <1>9, <1>10, <1>11, <1>12 DEF Sane
  <1> QED BY <1>4, <1>7, <1>9, <1>10, <1>13 DEF Underway, Elsewhere

LEMMA CheckedIs ==
    ASSUME NEW e, Sane(e), NEW s \in Tasks, Len(e.attempts[s]) > 0, NEW plan, NEW f \in Checked(e, s, plan)
    PROVE  Sane(f) /\ Weighed(e, f, s)
  <1> DEFINE n == Len(e.attempts[s])
             F(v) == [e EXCEPT !.attempts[s][n].work = Validated(@, v)]
  <1>1. e \in Record /\ e.attempts[s] \in Seq(Entry) /\ n \in DOMAIN e.attempts[s] /\ e.attempts[s][n] \in Entry
    BY DEF Sane, Record
  <1>2. CASE f = e
    BY <1>2 DEF Weighed, Elsewhere
  <1>3. CASE f \in {F(v) : v \in Findings}
    <2>1. PICK v \in Findings : f = F(v)
      BY <1>3
    <2>2. v \in Decided /\ e.attempts[s][n].work \in Attempt
      BY <1>1, DecompositionAssumption DEF Entry
    <2> DEFINE w == Validated(e.attempts[s][n].work, v)
    <2>3. w \in Attempt
      BY <2>2, EvidenceIs
    <2>4. f = [e EXCEPT !.attempts[s][n].work = w]
      BY <1>1, <2>1 DEF Record
    <2> HIDE DEF w
    <2>5. f \in Record /\ Weighed(e, f, s)
      BY <1>1, <2>3, <2>4, OneEntry
    <2> QED BY <2>5 DEF Sane, Weighed, Elsewhere
  <1> HIDE DEF F
  <1>4. Checked(e, s, plan) \in {{e}, {F(v) : v \in Findings}}
    BY Zenon DEF Checked, F
  <1> QED BY <1>2, <1>3, <1>4

LEMMA SettledIs ==
    ASSUME NEW e, Sane(e), NEW s \in Tasks, e.status[s] = "accepted" => Approved(e, s)
    PROVE  LET f == Settled(e, s) IN
           /\ Sane(f) /\ Seen(f) /\ Elsewhere(e, f, s) /\ Len(f.attempts[s]) = Len(e.attempts[s])
           /\ f.status[s] = "accepted" => Approved(f, s)
  <1> DEFINE w == e.attempts[s][Len(e.attempts[s])].work
             x == IF Len(e.attempts[s]) >= Budget THEN "failed" ELSE "pending"
             h == IF Eligible(w, "subtask") /\ w.val # "failed" THEN e ELSE [e EXCEPT !.status[s] = x]
             f == Updated(h)
  <1>1. Settled(e, s) = f
    BY Zenon DEF Settled
  <1>2. x \in {"failed", "pending"}
    OBVIOUS
  <1> HIDE DEF w, x
  <1>3. /\ Sane(h) /\ Elsewhere(e, h, s) /\ h.attempts = e.attempts /\ h.chosen = e.chosen
        /\ h.status[s] = "accepted" => e.status[s] = "accepted"
    BY <1>2 DEF Sane, Record, Elsewhere
  <1> HIDE DEF h
  <1>4. /\ Sane(f) /\ Seen(f)
        /\ f.deps = h.deps /\ f.status = h.status /\ f.attempts = h.attempts
        /\ f.chosen = h.chosen /\ f.applied = h.applied
    BY <1>3, UpdatedIs
  <1> HIDE DEF f
  <1> QED BY <1>1, <1>3, <1>4 DEF Elsewhere, Approved

(* What an attempt, or a call for a subtask at all, may do to the record.  *)
Moved(e, f, s) ==
    /\ Sane(f) /\ Elsewhere(e, f, s) /\ Len(f.attempts[s]) >= Len(e.attempts[s])
    /\ f.status[s] = "accepted" => Approved(f, s)
    /\ f.status[s] = "running" \/ Seen(f)

LEMMA TriedIs ==
    ASSUME NEW e, Sane(e), NEW s \in Tasks, ~Spent(e, s),
           NEW stage \in {"started", "accepted"} \cup Stages, NEW plan, NEW judge
    PROVE  /\ \A f \in Tried(e, s, stage, plan, judge) :
                 /\ Moved(e, f, s)
                 /\ stage # "started" => Len(f.attempts[s]) = Len(e.attempts[s]) + 1
           /\ Tried(e, s, "ran", plan, judge) # {}
  <1> DEFINE n == Len(e.attempts[s]) + 1
             validated == UNION {Checked(g, s, plan) : g \in Attempted(e, s)}
             judged(g) == IF judge /\ g.attempts[s][Len(g.attempts[s])].work.ok
                          THEN Judged(g, s, Len(g.attempts[s])) ELSE {g}
             reviewed == UNION {judged(g) : g \in validated}
             raised == IF judge THEN UNION {JudgingRaises(g, s, Len(g.attempts[s])) : g \in validated} ELSE {}
             settled == {Settled(g, s) : g \in reviewed}
             T(x) == Tried(e, s, x, plan, judge)
  <1>1. /\ T("started") = {Begun(e, s)} /\ T("ran") = Attempted(e, s)
        /\ T("validated") = validated /\ T("reviewed") = reviewed /\ T("observed") = settled
        /\ T("accepted") = raised
    <2>1. T("started") = {Begun(e, s)} BY Zenon DEF Tried
    <2>2. T("ran") = Attempted(e, s) BY Zenon DEF Tried
    <2>3. T("validated") = validated BY Zenon DEF Tried
    <2>4. T("reviewed") = reviewed BY Zenon DEF Tried
    <2>5. T("observed") = settled BY Zenon DEF Tried
    <2>6. T("accepted") = raised BY Zenon DEF Tried
    <2> QED BY <2>1, <2>2, <2>3, <2>4, <2>5, <2>6
  <1> HIDE DEF judged
  <1>2. Len(e.attempts[s]) \in Nat /\ n \in Nat /\ n > 0
    <2>1. e.attempts[s] \in Seq(Entry) BY DEF Sane, Record
    <2> QED BY <2>1
  <1>3. ASSUME NEW g \in Attempted(e, s) PROVE Underway(e, g, s, n)
    BY <1>3, AttemptedIs
  <1>4. ASSUME NEW g \in validated PROVE Underway(e, g, s, n)
    <2>1. PICK h \in Attempted(e, s) : g \in Checked(h, s, plan)
      BY <1>4
    <2>2. Sane(h) /\ Len(h.attempts[s]) > 0 /\ Underway(e, h, s, n)
      BY <1>2, <1>3 DEF Underway
    <2>3. Sane(g) /\ Weighed(h, g, s)
      BY <2>1, <2>2, CheckedIs
    <2> QED BY <2>2, <2>3 DEF Underway, Weighed, Elsewhere
  <1> HIDE DEF validated
  <1>5. ASSUME NEW g \in reviewed \cup raised
        PROVE  /\ Sane(g) /\ Elsewhere(e, g, s) /\ Len(g.attempts[s]) = n
               /\ g.status[s] = "running" \/ (Approved(g, s) /\ Seen(g))
    <2>1. PICK h \in validated : g \in judged(h) \cup JudgingRaises(h, s, Len(h.attempts[s]))
      BY <1>5
    <2>2. Underway(e, h, s, n)
      BY <1>4
    <2>3. CASE g = h
      BY <2>2, <2>3 DEF Underway
    <2>4. CASE g \in Judged(h, s, n) \cup JudgingRaises(h, s, n)
      <3>1. h.attempts[s] \in Seq(Entry) /\ n \in DOMAIN h.attempts[s] /\ Sane(h)
        BY <1>2, <2>2 DEF Underway, Sane, Record
      <3>2. (Sane(g) /\ Weighed(h, g, s)) \/ Committed(h, g, s, n)
        BY <2>4, <3>1, JudgedIs
      <3>3. CASE Sane(g) /\ Weighed(h, g, s)
        BY <2>2, <3>3 DEF Weighed, Elsewhere, Underway
      <3>4. CASE Committed(h, g, s, n)
        BY <2>2, <3>4 DEF Committed, Unmoved, Approved, Elsewhere, Underway
      <3> QED BY <3>2, <3>3, <3>4
    <2>5. Len(h.attempts[s]) = n
      BY <2>2 DEF Underway
    <2> QED BY <2>1, <2>3, <2>4, <2>5 DEF judged
  <1> HIDE DEF reviewed, raised
  <1>6. ASSUME NEW g \in settled PROVE Moved(e, g, s) /\ Len(g.attempts[s]) = n
    <2>1. PICK h \in reviewed : g = Settled(h, s)
      BY <1>6
    <2>2. /\ Sane(h) /\ Elsewhere(e, h, s) /\ Len(h.attempts[s]) = n
          /\ h.status[s] = "accepted" => Approved(h, s)
      BY <1>5
    <2>3. /\ Sane(g) /\ Seen(g) /\ Elsewhere(h, g, s) /\ Len(g.attempts[s]) = Len(h.attempts[s])
          /\ g.status[s] = "accepted" => Approved(g, s)
      BY <2>1, <2>2, SettledIs
    <2>4. n >= Len(e.attempts[s])
      BY <1>2
    <2> QED BY <2>2, <2>3, <2>4 DEF Moved, Elsewhere
  <1> HIDE DEF settled
  <1>7. ASSUME NEW g \in reviewed \cup raised PROVE Moved(e, g, s) /\ Len(g.attempts[s]) = n
    BY <1>2, <1>5 DEF Moved
  <1>8. ASSUME NEW g, Underway(e, g, s, n) PROVE Moved(e, g, s) /\ Len(g.attempts[s]) = n
    BY <1>2, <1>8 DEF Moved, Underway
  <1>9. Moved(e, Begun(e, s), s)
    BY <1>2, BegunIs DEF Moved, Underway
  <1>10. T("ran") # {}
    BY <1>1, AttemptedIs
  <1>11. stage \in {"started", "accepted", "ran", "validated", "reviewed", "observed"}
    BY DEF Stages
  <1>12. ASSUME NEW f \in T(stage) PROVE Moved(e, f, s) /\ (stage # "started" => Len(f.attempts[s]) = n)
    BY <1>1, <1>3, <1>4, <1>6, <1>7, <1>8, <1>9, <1>11, <1>12
  <1> QED BY <1>10, <1>11, <1>12

-----------------------------------------------------------------------------
(* A set of numbers that is not empty has a least one.                     *)
LEMMA LeastNatural ==
    ASSUME NEW S \in SUBSET Nat, S # {}
    PROVE  \E n \in S : \A m \in S : n <= m
  <1> DEFINE Less == OpToRel(<, Nat)
  <1>1. IsWellFoundedOn(Less, Nat)
    BY NatLessThanWellFounded
  <1>2. \A m, n \in Nat : m < n => <<m, n>> \in Less
    BY DEF OpToRel
  <1> HIDE DEF Less
  <1>3. PICK n \in S : \A m \in S : <<m, n>> \notin Less
    BY <1>1, WFMin
  <1>4. n \in Nat /\ \A m \in S : m \in Nat /\ ~(m < n)
    BY <1>2, <1>3
  <1> QED BY <1>4

(* A call for a subtask.  The attempt that is committed is the last of     *)
(* those that are ready for it.                                            *)
LEMMA LastIsReady ==
    ASSUME NEW e, Sane(e), NEW s \in Tasks, CommitReady(e, s) # {}
    PROVE  LET ready == CommitReady(e, s)
               last == CHOOSE n \in ready : \A j \in ready : j <= n
           IN  last \in DOMAIN e.attempts[s] /\ ReviewStatus(e.attempts[s][last].work) = "passed"
  <1> DEFINE ready == CommitReady(e, s)
             all == Len(e.attempts[s])
             behind == {all - j : j \in ready}
  <1>1. e.attempts[s] \in Seq(Entry) /\ all \in Nat
    BY DEF Sane, Record
  <1>2. ready \subseteq DOMAIN e.attempts[s] /\ \A j \in ready : ReviewStatus(e.attempts[s][j].work) = "passed"
    BY DEF CommitReady, Committable
  <1>3. \A j \in ready : j \in Nat /\ j <= all
    BY <1>1, <1>2
  <1> HIDE DEF ready, all
  <1>4. behind \in SUBSET Nat /\ behind # {}
    BY <1>1, <1>3 DEF ready
  <1>5. \E m \in behind : \A i \in behind : m <= i
    BY <1>4, LeastNatural
  <1>6. PICK n \in ready : \A j \in ready : all - n <= all - j
    BY <1>5
  <1>7. \A j \in ready : j <= n
    BY <1>1, <1>3, <1>6
  <1>8. (CHOOSE m \in ready : \A j \in ready : j <= m) \in ready
    BY <1>7
  <1> QED BY <1>2, <1>8 DEF ready

LEMMA RunIs ==
    ASSUME NEW e, Sane(e), NEW s \in Tasks, NEW stage \in {"started", "accepted"} \cup Stages, NEW plan, NEW judge
    PROVE  /\ \A f \in Run(e, s, stage, plan, judge) :
                 /\ Moved(e, f, s) /\ e.status[s] # "accepted"
                 /\ Met(e, s) \/ CommitReady(e, s) # {}
                 /\ stage # "started" => CASE CommitReady(e, s) # {} -> f.status[s] = "accepted"
                                          [] CommitReady(e, s) = {} /\ Spent(e, s) -> f.status[s] = "failed"
                                          [] OTHER -> Len(f.attempts[s]) = Len(e.attempts[s]) + 1
           /\ e.status[s] # "accepted" /\ (Met(e, s) \/ CommitReady(e, s) # {})
              => Run(e, s, "ran", plan, judge) # {}
  <1> DEFINE ready == CommitReady(e, s)
             last == CHOOSE n \in ready : \A j \in ready : j <= n
             x == [e EXCEPT !.status[s] = "failed"]
             R(y) == Run(e, s, y, plan, judge)
  <1>1. \A y : R(y) = IF e.status[s] = "accepted" THEN {}
                      ELSE IF ready # {} THEN (IF y = "accepted" THEN CommitRaises(e, s, last) ELSE Commit(e, s, last))
                      ELSE IF ~Met(e, s) THEN {}
                      ELSE IF Spent(e, s) THEN {Updated(x)}
                      ELSE Tried(e, s, y, plan, judge)
    <2> SUFFICES ASSUME NEW y
                 PROVE  R(y) = IF e.status[s] = "accepted" THEN {}
                               ELSE IF ready # {} THEN (IF y = "accepted" THEN CommitRaises(e, s, last) ELSE Commit(e, s, last))
                               ELSE IF ~Met(e, s) THEN {}
                               ELSE IF Spent(e, s) THEN {Updated(x)}
                               ELSE Tried(e, s, y, plan, judge)
      OBVIOUS
    <2>1. CASE e.status[s] = "accepted"
      BY <2>1, Zenon DEF Run
    <2>2. CASE e.status[s] # "accepted" /\ ready # {}
      BY <2>2, SMT DEF Run
    <2>3. CASE e.status[s] # "accepted" /\ ready = {} /\ ~Met(e, s)
      BY <2>3, Zenon DEF Run
    <2>4. CASE e.status[s] # "accepted" /\ ready = {} /\ Met(e, s) /\ Spent(e, s)
      BY <2>4, Zenon DEF Run
    <2>5. CASE e.status[s] # "accepted" /\ ready = {} /\ Met(e, s) /\ ~Spent(e, s)
      BY <2>5, Zenon DEF Run
    <2> QED BY <2>1, <2>2, <2>3, <2>4, <2>5
  <1> HIDE DEF R
  <1>2. CASE e.status[s] = "accepted"
    BY <1>1, <1>2 DEF R
  <1>3. CASE e.status[s] # "accepted" /\ ready # {}
    <2>1. last \in DOMAIN e.attempts[s] /\ ReviewStatus(e.attempts[s][last].work) = "passed"
      BY <1>3, LastIsReady
    <2> HIDE DEF last
    <2>2. Commit(e, s, last) # {} /\ \A f \in Commit(e, s, last) : Committed(e, f, s, last)
      BY <2>1, CommitIs
    <2>3. \A y : R(y) = IF y = "accepted" THEN CommitRaises(e, s, last) ELSE Commit(e, s, last)
      BY <1>1, <1>3
    <2>8. \A f \in CommitRaises(e, s, last) : Committed(e, f, s, last)
      BY <2>1, RaisedIs
    <2>4. Len(e.attempts[s]) \in Nat
      <3>1. e.attempts[s] \in Seq(Entry) BY DEF Sane, Record
      <3> QED BY <3>1
    <2>5. ASSUME NEW f, Committed(e, f, s, last) PROVE Moved(e, f, s) /\ f.status[s] = "accepted"
      <3>1. f.status[s] = "accepted" /\ Seen(f)
        BY <1>3, <2>5 DEF Committed, Unmoved, Approved
      <3> QED BY <2>4, <2>5, <3>1 DEF Committed, Moved
    <2> HIDE DEF ready
    <2>6. \A f \in R(stage) : Moved(e, f, s) /\ f.status[s] = "accepted"
      BY <2>2, <2>3, <2>5, <2>8
    <2>7. R("ran") # {}
      BY <2>2, <2>3
    <2> QED BY <1>3, <2>6, <2>7 DEF R, ready
  <1>4. CASE e.status[s] # "accepted" /\ ready = {} /\ ~Met(e, s)
    BY <1>1, <1>4 DEF R
  <1>5. CASE e.status[s] # "accepted" /\ ready = {} /\ Met(e, s) /\ Spent(e, s)
    <2>1. /\ Sane(x) /\ Elsewhere(e, x, s) /\ x.attempts = e.attempts /\ x.chosen = e.chosen
          /\ x.status[s] = "failed"
      <3>1. e.status \in [Tasks -> {"pending", "running", "accepted", "failed"}] /\ e \in Record
        BY DEF Sane, Record
      <3>2. /\ x \in Record /\ x.status = [e.status EXCEPT ![s] = "failed"]
            /\ x.deps = e.deps /\ x.attempts = e.attempts /\ x.chosen = e.chosen /\ x.applied = e.applied
        BY <3>1 DEF Record
      <3> HIDE DEF x
      <3> QED BY <3>1, <3>2 DEF Sane, Elsewhere
    <2> DEFINE f == Updated(x)
    <2>2. /\ Sane(f) /\ Seen(f)
          /\ f.deps = x.deps /\ f.status = x.status /\ f.attempts = x.attempts
          /\ f.chosen = x.chosen /\ f.applied = x.applied
      BY <2>1, UpdatedIs
    <2>3. Len(e.attempts[s]) \in Nat
      <3>1. e.attempts[s] \in Seq(Entry) BY DEF Sane, Record
      <3> QED BY <3>1
    <2>4. \A y : R(y) = {f}
      BY <1>1, <1>5
    <2> HIDE DEF f
    <2>5. Moved(e, f, s) /\ f.status[s] = "failed"
      BY <2>1, <2>2, <2>3 DEF Moved, Elsewhere
    <2> QED BY <1>5, <2>4, <2>5 DEF R
  <1>6. CASE e.status[s] # "accepted" /\ ready = {} /\ Met(e, s) /\ ~Spent(e, s)
    <2>1. \A y : R(y) = Tried(e, s, y, plan, judge)
      BY <1>1, <1>6
    <2>2. /\ \A f \in Tried(e, s, stage, plan, judge) :
                 /\ Moved(e, f, s)
                 /\ stage # "started" => Len(f.attempts[s]) = Len(e.attempts[s]) + 1
          /\ Tried(e, s, "ran", plan, judge) # {}
      BY <1>6, TriedIs
    <2> QED BY <1>6, <2>1, <2>2 DEF R
  <1> QED BY <1>2, <1>3, <1>4, <1>5, <1>6

-----------------------------------------------------------------------------
(* The inductive invariant.  Besides the parts of SubtaskInv it holds what *)
(* the deadlock and the end of the run have in store, and that there are   *)
(* no candidates but those of a fallback.                                  *)
CandidatesOnlyInFallback ==
    /\ fallback \in BOOLEAN /\ cands \in Seq(Attempt) /\ Len(cands) <= Budget
    /\ cands # <<>> => fallback

IInv ==
    /\ Sane(d) /\ final \in {"none", "accepted", "failed"}
    /\ CandidatesOnlyInFallback
    /\ DependenciesFirst /\ IntegrationWaits /\ DeadlockSeen /\ FinalIsIntegrated

(* What a step may do to the subtasks: change one of them, the others and  *)
(* the rest of the run staying as they are.  An accepted one stays so.     *)
Change(s) ==
    /\ UNCHANGED <<integration, fallback, cands, selection, final>>
    /\ Sane(d') /\ Elsewhere(d, d', s) /\ Len(d'.attempts[s]) >= Len(d.attempts[s])
    /\ d.status[s] = "accepted" => d'.status[s] = "accepted"
    /\ d.status[s] # "accepted" /\ d'.status[s] = "accepted" => Approved(d', s)
    /\ \/ d'.status[s] = "running"
       \/ Seen(d')
       \/ Unmoved(d, d') /\ Len(d'.attempts[s]) = Len(d.attempts[s])
    /\ Met(d, s) \/ d.attempts[s] # <<>>

(* The steps that leave the subtasks alone.                                *)
OverCandidates ==
    \/ \E stage \in WorkStages : RunCandidate(stage)
    \/ \E i \in DOMAIN cands : ValidateCandidate(i) \/ ReviewCandidate(i)

OverIntegration == Integrate \/ ValidateIntegration \/ ReviewIntegration

Decides ==
    \/ Stop \/ Accept \/ Repair \/ StartFallback
    \/ \E x \in Choices : Select(x)
    \/ \E decision \in {"rejected", "failed"}, b \in {"plain", "deadlock", "fatal"} : GiveUp(decision, b)

LEMMA Steps ==
    ASSUME Sane(d), [Next]_vars
    PROVE  \/ \E s \in Tasks : Change(s)
           \/ OverCandidates \/ OverIntegration \/ Decides
           \/ UNCHANGED vars
  <1>1. ASSUME NEW s \in Tasks, NEW stage \in Raises \cup {"observed"}, RunSubtask(s, stage)
        PROVE  Change(s)
    <2>1. stage \in {"started", "accepted"} \cup Stages
      BY DependenciesAssumption DEF Stages
    <2>2. d' \in Run(d, s, stage, focused, reviewer) /\ UNCHANGED <<integration, fallback, cands, selection, final>>
      BY <1>1 DEF RunSubtask
    <2>3. /\ Moved(d, d', s) /\ d.status[s] # "accepted"
          /\ Met(d, s) \/ CommitReady(d, s) # {}
      BY <2>1, <2>2, RunIs
    <2>4. CommitReady(d, s) # {} => d.attempts[s] # <<>>
      BY DEF CommitReady
    <2> QED BY <2>2, <2>3, <2>4 DEF Change, Moved
  <1>2. ASSUME NEW s \in Tasks, NEW n \in DOMAIN d.attempts[s], ReviewSubtask(s, n)
        PROVE  Change(s)
    <2>1. d' \in Judged(d, s, n) \cup JudgingRaises(d, s, n) /\ UNCHANGED <<integration, fallback, cands, selection, final>>
      BY <1>2 DEF ReviewSubtask
    <2>2. (Sane(d') /\ Weighed(d, d', s)) \/ Committed(d, d', s, n)
      BY <2>1, JudgedIs
    <2>3. d.attempts[s] # <<>> /\ Len(d.attempts[s]) \in Nat
      BY DEF Sane, Record
    <2>4. CASE Sane(d') /\ Weighed(d, d', s)
      BY <2>1, <2>3, <2>4 DEF Weighed, Elsewhere, Change, Unmoved
    <2>5. CASE Committed(d, d', s, n)
      BY <2>1, <2>3, <2>5 DEF Committed, Approved, Change
    <2> QED BY <2>2, <2>4, <2>5
  <1>3. ASSUME NEW s \in Tasks, NEW n \in DOMAIN d.attempts[s], ValidateSubtask(s, n)
        PROVE  Change(s)
    <2>1. PICK v \in Findings : d' = [d EXCEPT !.attempts[s][n].work = Validated(@, v)]
      BY <1>3 DEF ValidateSubtask
    <2>2. d.attempts[s] \in Seq(Entry) /\ d.attempts[s][n] \in Entry /\ d \in Record /\ v \in Decided
      BY DecompositionAssumption DEF Sane, Record
    <2> DEFINE w == Validated(d.attempts[s][n].work, v)
               g == [d EXCEPT !.attempts[s][n].work = w]
    <2>3. w \in Attempt
      BY <2>2, EvidenceIs DEF Entry
    <2>4. d' = g
      BY <2>1, <2>2 DEF Record
    <2> HIDE DEF w
    <2>5. g \in Record /\ Weighed(d, g, s)
      BY <2>2, <2>3, OneEntry
    <2> HIDE DEF g
    <2>6. Sane(d') /\ Weighed(d, d', s)
      BY <2>4, <2>5 DEF Sane, Weighed, Elsewhere
    <2>7. d.attempts[s] # <<>> /\ Len(d.attempts[s]) \in Nat
      BY <2>2
    <2>8. UNCHANGED <<integration, fallback, cands, selection, final>>
      BY <1>3 DEF ValidateSubtask
    <2> QED BY <2>6, <2>7, <2>8 DEF Weighed, Elsewhere, Change, Unmoved
  <1>4. CASE Next
    BY <1>1, <1>2, <1>3, <1>4 DEF Next, Call, OverCandidates, OverIntegration, Decides
  <1> QED BY <1>4

-----------------------------------------------------------------------------
(* Every step keeps the invariant, one conjunct at a time.                 *)
LEMMA RanIsAttempt ==
    ASSUME NEW stage, NEW judge, NEW w \in RanThrough(stage, Results, judge)
    PROVE  w \in Attempt
  <1> DEFINE checked(a) == IF a.ok THEN {Validated(a, v) : v \in Decided} ELSE {a}
             validated == UNION {checked(a) : a \in Results}
             judged(a) == IF a.ok /\ judge THEN {Reviewed(a, r) : r \in Verdicts} ELSE {a}
             reviewed == UNION {judged(a) : a \in validated}
  <1>1. Results \subseteq Attempt
    BY DecompositionAssumption
  <1>2. \A a \in Attempt : checked(a) \subseteq Attempt /\ judged(a) \subseteq Attempt
    BY EvidenceIs
  <1>3. RanThrough(stage, Results, judge) \in {Results, validated, reviewed}
    BY Zenon DEF RanThrough
  <1> HIDE DEF checked, judged
  <1>4. validated \subseteq Attempt
    BY <1>1, <1>2
  <1> HIDE DEF validated
  <1>5. reviewed \subseteq Attempt
    BY <1>2, <1>4
  <1> QED BY <1>1, <1>3, <1>4, <1>5

LEMMA ShapeStep ==
    ASSUME IInv, [Next]_vars
    PROVE  Sane(d)' /\ final' \in {"none", "accepted", "failed"}
  <1>1. CASE \E s \in Tasks : Change(s)
    BY <1>1 DEF Change, IInv
  <1>2. CASE OverCandidates
    BY <1>2 DEF IInv, OverCandidates, RunCandidate, ValidateCandidate, ReviewCandidate
  <1>3. CASE OverIntegration
    BY <1>3 DEF IInv, OverIntegration, Integrate, ValidateIntegration, ReviewIntegration
  <1>4. CASE Decides
    BY <1>4 DEF IInv, Decides, Stop, Accept, Repair, StartFallback, Select, GiveUp, workVars
  <1>5. CASE UNCHANGED vars
    BY <1>5 DEF IInv, vars, workVars
  <1> QED BY <1>1, <1>2, <1>3, <1>4, <1>5, Steps DEF IInv

LEMMA CandidatesStep ==
    ASSUME IInv, [Next]_vars
    PROVE  CandidatesOnlyInFallback'
  <1> USE DEF IInv, CandidatesOnlyInFallback
  <1>1. CASE \E s \in Tasks : Change(s)
    BY <1>1 DEF Change
  <1>2. CASE OverCandidates
    <2>1. ASSUME NEW stage \in WorkStages, RunCandidate(stage) PROVE CandidatesOnlyInFallback'
      <3>1. PICK w \in RanThrough(stage, Results, reviewer) : cands' = Append(cands, w)
        BY <2>1 DEF RunCandidate
      <3>2. w \in Attempt
        BY RanIsAttempt
      <3>3. fallback /\ Len(cands) < Budget /\ fallback' = fallback
        BY <2>1 DEF RunCandidate
      <3> QED BY <3>1, <3>2, <3>3, DecompositionAssumption
    <2>2. ASSUME NEW i \in DOMAIN cands, ValidateCandidate(i) \/ ReviewCandidate(i) PROVE CandidatesOnlyInFallback'
      <3>1. fallback' = fallback /\ cands[i] \in Attempt /\ cands # <<>>
        BY <2>2 DEF ValidateCandidate, ReviewCandidate
      <3>2. \E w \in Attempt : cands' = [cands EXCEPT ![i] = w]
        <4>1. CASE ValidateCandidate(i)
          BY <3>1, <4>1, EvidenceIs, DecompositionAssumption DEF ValidateCandidate
        <4>2. CASE ReviewCandidate(i)
          BY <3>1, <4>2, EvidenceIs, DecompositionAssumption DEF ReviewCandidate
        <4> QED BY <2>2, <4>1, <4>2
      <3>3. PICK w \in Attempt : cands' = [cands EXCEPT ![i] = w]
        BY <3>2
      <3>4. cands' \in Seq(Attempt) /\ Len(cands') = Len(cands)
        BY <3>3
      <3> QED BY <3>1, <3>4
    <2> QED BY <1>2, <2>1, <2>2 DEF OverCandidates
  <1>3. CASE OverIntegration
    BY <1>3 DEF OverIntegration, Integrate, ValidateIntegration, ReviewIntegration
  <1>4. CASE Decides
    BY <1>4 DEF Decides, Stop, Accept, Repair, StartFallback, Select, GiveUp, workVars
  <1>5. CASE UNCHANGED vars
    BY <1>5 DEF vars, workVars
  <1> QED BY <1>1, <1>2, <1>3, <1>4, <1>5, Steps DEF IInv

LEMMA DependenciesStep ==
    ASSUME IInv, [Next]_vars
    PROVE  DependenciesFirst'
  <1>1. CASE \E s \in Tasks : Change(s)
    <2>1. PICK s \in Tasks : Change(s)
      BY <1>1
    <2>2. d \in Record
      BY DEF IInv, Sane
    <2>3. \A t \in Tasks : d.status[t] = "accepted" => d'.status[t] = "accepted"
      BY <2>1 DEF Change, Elsewhere
    <2>4. Met(d, s)
      BY <2>1 DEF Change, IInv, DependenciesFirst, Met
    <2>5. d'.deps = d.deps /\ \A t \in Tasks : d.deps[t] \subseteq Tasks
      BY <2>1, <2>2 DEF Change, Elsewhere, Record
    <2>6. \A t \in Tasks \ {s} : d'.status[t] = d.status[t] /\ d'.attempts[t] = d.attempts[t]
      BY <2>1 DEF Change, Elsewhere
    <2> QED BY <2>3, <2>4, <2>5, <2>6 DEF IInv, DependenciesFirst, Met
  <1>2. CASE UNCHANGED d
    BY <1>2 DEF IInv, DependenciesFirst
  <1>3. OverCandidates => UNCHANGED d
    BY DEF OverCandidates, RunCandidate, ValidateCandidate, ReviewCandidate
  <1>4. OverIntegration => UNCHANGED d
    BY DEF OverIntegration, Integrate, ValidateIntegration, ReviewIntegration
  <1>5. Decides => UNCHANGED d
    BY DEF Decides, Stop, Accept, Repair, StartFallback, Select, GiveUp, workVars
  <1>6. UNCHANGED vars => UNCHANGED d
    BY DEF vars, workVars
  <1> QED BY <1>1, <1>2, <1>3, <1>4, <1>5, <1>6, Steps DEF IInv

LEMMA IntegrationStep ==
    ASSUME IInv, [Next]_vars
    PROVE  IntegrationWaits'
  <1> USE DEF IInv, IntegrationWaits
  <1>1. CASE \E s \in Tasks : Change(s)
    BY <1>1 DEF Change, Elsewhere, AllAccepted
  <1>2. CASE OverCandidates
    BY <1>2 DEF OverCandidates, RunCandidate, ValidateCandidate, ReviewCandidate
  <1>3. CASE OverIntegration
    <2>1. CASE Integrate
      <3>1. Allowed("integrate") /\ UNCHANGED <<d, fallback>>
        BY <2>1 DEF Integrate
      <3>2. AllAccepted(d) /\ ~fallback
        BY <3>1 DEF Allowed, CandidateTools, SubtaskTools
      <3> QED BY <3>1, <3>2
    <2>2. CASE ValidateIntegration \/ ReviewIntegration
      BY <2>2 DEF ValidateIntegration, ReviewIntegration
    <2> QED BY <1>3, <2>1, <2>2 DEF OverIntegration
  <1>4. CASE Decides
    <2>1. CASE StartFallback
      BY <2>1 DEF StartFallback, Deadlocked, AllAccepted
    <2>2. CASE Decides /\ ~StartFallback
      BY <2>2 DEF Decides, Stop, Accept, Repair, Select, GiveUp, workVars
    <2> QED BY <1>4, <2>1, <2>2
  <1>5. CASE UNCHANGED vars
    BY <1>5 DEF vars, workVars
  <1> QED BY <1>1, <1>2, <1>3, <1>4, <1>5, Steps

LEMMA DeadlockStep ==
    ASSUME IInv, [Next]_vars
    PROVE  DeadlockSeen'
  <1>1. CASE \E s \in Tasks : Change(s)
    <2>1. PICK s \in Tasks : Change(s)
      BY <1>1
    <2>2. CASE d'.status[s] = "running"
      BY <2>2 DEF DeadlockSeen, Quiet
    <2>3. CASE Seen(d')
      BY <2>3 DEF DeadlockSeen, Seen
    <2>4. CASE Unmoved(d, d') /\ Len(d'.attempts[s]) = Len(d.attempts[s])
      <3>1. d'.deps = d.deps /\ d'.status = d.status /\ d'.exec = d.exec /\ d'.late = d.late
        BY <2>1, <2>4 DEF Change, Elsewhere, Unmoved
      <3>2. \A t \in Tasks : Len(d'.attempts[t]) = Len(d.attempts[t])
        BY <2>1, <2>4 DEF Change, Elsewhere
      <3> QED BY <3>1, <3>2 DEF IInv, DeadlockSeen, Deadlocked, Ready, Quiet
    <2> QED BY <2>1, <2>2, <2>3, <2>4 DEF Change
  <1>2. CASE UNCHANGED d
    BY <1>2 DEF IInv, DeadlockSeen, Quiet
  <1>3. OverCandidates => UNCHANGED d
    BY DEF OverCandidates, RunCandidate, ValidateCandidate, ReviewCandidate
  <1>4. OverIntegration => UNCHANGED d
    BY DEF OverIntegration, Integrate, ValidateIntegration, ReviewIntegration
  <1>5. Decides => UNCHANGED d
    BY DEF Decides, Stop, Accept, Repair, StartFallback, Select, GiveUp, workVars
  <1>6. UNCHANGED vars => UNCHANGED d
    BY DEF vars, workVars
  <1> QED BY <1>1, <1>2, <1>3, <1>4, <1>5, <1>6, Steps DEF IInv

LEMMA FinalStep ==
    ASSUME IInv, [Next]_vars
    PROVE  FinalIsIntegrated'
  <1> USE DEF IInv, FinalIsIntegrated
  <1>1. CASE \E s \in Tasks : Change(s)
    BY <1>1 DEF Change, Elsewhere, AllAccepted
  <1>2. CASE OverCandidates
    BY <1>2 DEF OverCandidates, RunCandidate, ValidateCandidate, ReviewCandidate
  <1>3. CASE OverIntegration
    <2>1. final = "none" /\ final' = final
      BY <1>3 DEF OverIntegration, Integrate, ValidateIntegration, ReviewIntegration, Allowed, Active
    <2> QED BY <2>1
  <1>4. CASE Decides
    <2>1. CASE Accept
      BY <2>1 DEF Accept, MayAccept, GoodIntegration, Eligible, workVars
    <2>2. CASE \E x \in Choices : Select(x)
      BY <2>2 DEF Select, Allowed, Active
    <2>3. CASE Stop \/ \E decision \in {"rejected", "failed"}, b \in {"plain", "deadlock", "fatal"} : GiveUp(decision, b)
      BY <2>3 DEF Stop, GiveUp
    <2>4. CASE Repair \/ StartFallback
      BY <2>4 DEF Repair, StartFallback
    <2> QED BY <1>4, <2>1, <2>2, <2>3, <2>4 DEF Decides
  <1>5. CASE UNCHANGED vars
    BY <1>5 DEF vars, workVars
  <1> QED BY <1>1, <1>2, <1>3, <1>4, <1>5, Steps

LEMMA InitInvariant == Init => IInv
  <1> SUFFICES ASSUME Init PROVE IInv
    OBVIOUS
  <1>1. PICK deps \in Dependencies : d = Fresh0(deps)
    BY DEF Init
  <1>2. deps \in [Tasks -> SUBSET Tasks] /\ Budget \in Nat
    BY DependenciesAssumption, DecompositionAssumption
  <1>3. /\ d.deps = deps /\ d.rolling = {} /\ d.exec = "running"
        /\ d.status = [s \in Tasks |-> "pending"] /\ d.attempts = [s \in Tasks |-> <<>>]
        /\ d.chosen = [s \in Tasks |-> 0] /\ d.applied = [s \in Tasks |-> 0]
    BY <1>1 DEF Fresh0
  <1>4. d \in Record
    <2>1. <<>> \in Seq(Entry) OBVIOUS
    <2> QED BY <1>1, <1>2, <2>1 DEF Fresh0, Record
  <1>5. Sane(d)
    BY <1>2, <1>3, <1>4 DEF Sane
  <1>6. DependenciesFirst
    BY <1>3 DEF DependenciesFirst
  <1>7. DeadlockSeen
    BY <1>3 DEF DeadlockSeen, Deadlocked
  <1>8. CandidatesOnlyInFallback
    <2>1. fallback = FALSE /\ cands = <<>>
      BY DEF Init
    <2>2. <<>> \in Seq(Attempt) /\ Len(<<>>) = 0
      OBVIOUS
    <2>3. Budget >= 0
      BY <1>2
    <2> QED BY <2>1, <2>2, <2>3, Zenon DEF CandidatesOnlyInFallback
  <1>9. IntegrationWaits /\ FinalIsIntegrated /\ final \in {"none", "accepted", "failed"}
    BY DEF Init, IntegrationWaits, FinalIsIntegrated
  <1> QED BY <1>5, <1>6, <1>7, <1>8, <1>9 DEF IInv

LEMMA NextInvariant == IInv /\ [Next]_vars => IInv'
  BY ShapeStep, CandidatesStep, DependenciesStep, IntegrationStep, DeadlockStep, FinalStep DEF IInv

LEMMA SubtaskInvariant == Spec => []IInv
  BY InitInvariant, NextInvariant, PTL DEF Spec

-----------------------------------------------------------------------------
(* What follows from the invariant.  The limits of the budget, and what    *)
(* comes after what: a subtask is attempted after all it depends on, and   *)
(* integrated after all have been accepted.                                *)
THEOREM SubtasksInOrder == Spec => []SubtaskInv
  <1>1. IInv => SubtaskInv
    <2> SUFFICES ASSUME IInv PROVE SubtaskInv
      OBVIOUS
    <2>1. d \in Record /\ Sane(d)
      BY DEF IInv, Sane
    <2>2. \A s \in Tasks :
             /\ d.attempts[s] \in Seq(Entry) /\ Len(d.attempts[s]) \in Nat /\ Len(d.attempts[s]) <= Budget
             /\ \A n \in DOMAIN d.attempts[s] : d.attempts[s][n].work \in Attempt
             /\ d.chosen[s] \in 0..Len(d.attempts[s]) /\ d.applied[s] \in 0..Len(d.attempts[s])
      <3> SUFFICES ASSUME NEW s \in Tasks
                   PROVE  /\ d.attempts[s] \in Seq(Entry) /\ Len(d.attempts[s]) \in Nat /\ Len(d.attempts[s]) <= Budget
                          /\ \A n \in DOMAIN d.attempts[s] : d.attempts[s][n].work \in Attempt
                          /\ d.chosen[s] \in 0..Len(d.attempts[s]) /\ d.applied[s] \in 0..Len(d.attempts[s])
        OBVIOUS
      <3>1. d.attempts[s] \in Seq(Entry) /\ d.chosen[s] \in Nat /\ d.applied[s] \in Nat
        BY <2>1 DEF Record
      <3>2. \A n \in DOMAIN d.attempts[s] : d.attempts[s][n].work \in Attempt
        <4>1. \A n \in DOMAIN d.attempts[s] : d.attempts[s][n] \in Entry
          BY <3>1
        <4> QED BY <4>1 DEF Entry
      <3> QED BY <2>1, <3>1, <3>2 DEF Sane
    <2>3. d.status \in [Tasks -> {"pending", "running", "accepted", "failed"}]
      BY <2>1 DEF Record
    <2>4. d.rolling \subseteq {<<s, k>> : s \in Tasks, k \in 1..Budget}
      BY <2>1 DEF Record, Places
    <2>5. d.exec \in {"running", "blocked", "completed"}
      BY <2>1 DEF Record
    <2> QED BY <2>2, <2>3, <2>4, <2>5 DEF IInv, CandidatesOnlyInFallback, SubtaskInv, TypeOK
  <1> QED BY <1>1, SubtaskInvariant, PTL

(* An accepted run is the validated and reviewed integration of accepted   *)
(* subtasks, and stays so, whatever the response still calls.              *)
THEOREM AcceptedIsIntegrated == Spec => []FinalIsIntegrated
  BY SubtaskInvariant, PTL DEF IInv

(* A deadlock among the subtasks is noticed, so that a fallback can start, *)
(* but for one that comes about when an acceptance raises half-way.        *)
THEOREM DeadlockOpensFallback == Spec => []DeadlockSeen
  BY SubtaskInvariant, PTL DEF IInv

(* A subtask is accepted with an attempt that has passed its review.       *)
THEOREM AcceptedByReviewer == Spec => AcceptedOnReview
  <1> DEFINE A == \A s \in Tasks : d.status[s] # "accepted" /\ d'.status[s] = "accepted" =>
                     d'.chosen[s] # 0 /\ ReviewStatus(Chosen(d', s).work) = "passed"
  <1>1. IInv /\ [Next]_vars => A
    <2> SUFFICES ASSUME IInv, [Next]_vars PROVE A
      OBVIOUS
    <2>1. CASE \E s \in Tasks : Change(s)
      <3>1. PICK s \in Tasks : Change(s)
        BY <2>1
      <3>2. d'.attempts[s] \in Seq(Entry)
        BY <3>1 DEF Change, Sane, Record
      <3>3. Approved(d', s) => d'.chosen[s] # 0 /\ ReviewStatus(Chosen(d', s).work) = "passed"
        BY <3>2 DEF Approved, Chosen
      <3> QED BY <3>1, <3>3 DEF Change, Elsewhere
    <2>2. CASE UNCHANGED d
      BY <2>2
    <2>3. OverCandidates => UNCHANGED d
      BY DEF OverCandidates, RunCandidate, ValidateCandidate, ReviewCandidate
    <2>4. OverIntegration => UNCHANGED d
      BY DEF OverIntegration, Integrate, ValidateIntegration, ReviewIntegration
    <2>5. Decides => UNCHANGED d
      BY DEF Decides, Stop, Accept, Repair, StartFallback, Select, GiveUp, workVars
    <2>6. UNCHANGED vars => UNCHANGED d
      BY DEF vars, workVars
    <2> QED BY <2>1, <2>2, <2>3, <2>4, <2>5, <2>6, Steps DEF IInv
  <1>2. Spec => [][A]_vars
    <2>1. IInv /\ [Next]_vars => [A]_vars
      BY <1>1
    <2> HIDE DEF A
    <2> QED BY <2>1, SubtaskInvariant, PTL DEF Spec
  <1> QED BY <1>2 DEF AcceptedOnReview

-----------------------------------------------------------------------------
(* The recovery.  Before a fallback and with a subtask that is ready there *)
(* is no integration and no candidate, so that none of the rules applies   *)
(* that come before those about subtasks.                                  *)
LEMMA RecommendedIs ==
    ASSUME IInv, ~fallback, Ready(d) # {}
    PROVE  Recommended = IF RecoveryReady # {} THEN "commit" ELSE "run"
  <1> DEFINE W(i) == Rules[i].when
             n == IF RecoveryReady # {} THEN 5 ELSE 6
  <1>1. ~AllAccepted(d) /\ ~Deadlocked(d)
    BY DEF AllAccepted, Deadlocked, Ready
  <1>2. integration = None /\ cands = <<>>
    BY <1>1 DEF IInv, IntegrationWaits, CandidatesOnlyInFallback
  <1>3. ~GoodIntegration /\ Good = {}
    BY <1>2 DEF GoodIntegration, Good
  <1>4. integration.val \notin {"failed", "inconclusive"}
    BY <1>2 DEF None
  <1>5. /\ W(1) <=> (selection.what = "integration" /\ GoodIntegration) \/ (selection.what = "candidate" /\ selection.id \in Good)
        /\ W(2) <=> Deadlocked(d) /\ ~fallback /\ cands = <<>>
        /\ W(3) <=> fallback /\ cands = <<>>
        /\ W(4) <=> integration.val \in {"failed", "inconclusive"}
        /\ W(5) <=> RecoveryReady # {}
        /\ W(6) <=> Ready(d) # {}
    BY DEF Rules, Rule
  <1>6. DOMAIN Rules = 1..12
    BY DEF Rules
  <1>7. Rules[5].tool = "commit" /\ Rules[6].tool = "run"
    BY DEF Rules, Rule
  <1> HIDE DEF W
  <1>8. ~W(1) /\ ~W(2) /\ ~W(3) /\ ~W(4)
    BY <1>1, <1>3, <1>4, <1>5
  <1>9. W(n) /\ n \in {5, 6} /\ (n = 6 => ~W(5))
    BY <1>5
  <1> HIDE DEF n
  <1>10. \A j \in 1..(n - 1) : ~W(j)
    BY <1>8, <1>9
  <1>11. ASSUME NEW i \in 1..12, W(i), \A j \in 1..(i - 1) : ~W(j) PROVE i = n
    <2>1. ~(i < n)
      BY <1>9, <1>10, <1>11
    <2>2. ~(n < i)
      BY <1>9, <1>11
    <2> QED BY <1>9, <2>1, <2>2
  <1>12. n \in 1..12
    BY <1>9
  <1>13. (CHOOSE i \in 1..12 : W(i) /\ \A j \in 1..(i - 1) : ~W(j)) = n
    BY <1>9, <1>10, <1>11, <1>12
  <1>14. Recommended = Rules[CHOOSE i \in 1..12 : W(i) /\ \A j \in 1..(i - 1) : ~W(j)].tool
    BY <1>6, Zenon DEF Recommended, W
  <1>15. Recommended = Rules[n].tool
    BY <1>13, <1>14, Zenon
  <1> QED BY <1>7, <1>15 DEF n

(* A call for a subtask brings the run forward when it does anything, and  *)
(* when the subtask has not failed already with nothing to be committed.   *)
LEMMA CallAdvances ==
    ASSUME IInv, NEW s \in Tasks, d.status[s] # "accepted",
           CommitReady(d, s) # {} \/ (Met(d, s) /\ d.status[s] # "failed")
    PROVE  LET outcomes == UNION {Run(d, s, stage, focused, reviewer) : stage \in Stages \cup {"accepted"}}
           IN  outcomes # {} /\ \A e \in outcomes : Advanced(e)
  <1> DEFINE R(stage) == Run(d, s, stage, focused, reviewer)
             stages == Stages \cup {"accepted"}
             outcomes == UNION {R(stage) : stage \in stages}
  <1>1. Sane(d) /\ d \in Record
    BY DEF IInv, Sane
  <1>2. "ran" \in stages /\ R("ran") # {}
    BY <1>1, RunIs DEF Stages
  <1>3. ASSUME NEW stage \in stages, NEW e \in R(stage) PROVE Advanced(e)
    <2>1. /\ Moved(d, e, s)
          /\ CASE CommitReady(d, s) # {} -> e.status[s] = "accepted"
               [] CommitReady(d, s) = {} /\ Spent(d, s) -> e.status[s] = "failed"
               [] OTHER -> Len(e.attempts[s]) = Len(d.attempts[s]) + 1
      BY <1>1, <1>3, RunIs DEF Stages
    <2>2. \/ CommitReady(d, s) # {} /\ e.status[s] = "accepted"
          \/ CommitReady(d, s) = {} /\ e.status[s] = "failed"
          \/ CommitReady(d, s) = {} /\ Len(e.attempts[s]) = Len(d.attempts[s]) + 1
      BY <2>1
    <2>3. \A t \in Tasks : Rank(d, t) \in {0, 1, 2} /\ Rank(e, t) \in {0, 1, 2}
      BY DEF Rank
    <2>4. \A t \in Tasks \ {s} : Rank(e, t) = Rank(d, t)
      BY <2>1 DEF Moved, Elsewhere, Rank
    <2>5. /\ d.status[s] # "failed" => Rank(d, s) = 0
          /\ Rank(d, s) \in {0, 1}
          /\ e.status[s] = "accepted" => Rank(e, s) = 2
          /\ e.status[s] = "failed" => Rank(e, s) = 1
      BY DEF Rank
    <2>6. Len(d.attempts[s]) \in Nat
      <3>1. d.attempts[s] \in Seq(Entry) BY <1>1 DEF Record
      <3> QED BY <3>1
    <2>7. Rank(d, s) <= Rank(e, s) /\ (Rank(d, s) < Rank(e, s) \/ Len(d.attempts[s]) < Len(e.attempts[s]))
      BY <2>2, <2>3, <2>5, <2>6
    <2>8. \A t \in Tasks : Rank(d, t) <= Rank(e, t)
      BY <2>3, <2>4, <2>7
    <2> QED BY <2>7, <2>8 DEF Advanced
  <1> HIDE DEF R
  <1>4. outcomes # {} /\ \A e \in outcomes : Advanced(e)
    BY <1>2, <1>3
  <1> QED BY <1>4 DEF R

(* What the recovery recommends is what the handler does, and brings the   *)
(* run forward; but for a subtask that has failed with stray changes.      *)
THEOREM RecoveryDrives == Spec => []RecoveryAdvances
  <1>1. IInv => RecoveryAdvances
    <2> SUFFICES ASSUME IInv, Active, ~fallback, Ready(d) # {}
                 PROVE  /\ Recommended \in {"commit", "run"}
                        /\ \A s \in IF Recommended = "commit" THEN RecoveryReady \ Mistaken ELSE Ready(d) :
                              LET outcomes == UNION {Run(d, s, stage, focused, reviewer) : stage \in Stages \cup {"accepted"}} IN
                              outcomes # {} /\ \A e \in outcomes : Advanced(e)
      BY DEF RecoveryAdvances
    <2>1. Recommended \in {"commit", "run"}
      BY RecommendedIs
    <2>2. ASSUME NEW s \in RecoveryReady \ Mistaken
          PROVE  /\ s \in Tasks /\ d.status[s] # "accepted"
                 /\ CommitReady(d, s) # {} \/ (Met(d, s) /\ d.status[s] # "failed")
      BY <2>2 DEF RecoveryReady, Mistaken, IInv, DependenciesFirst, Met
    <2>3. ASSUME NEW s \in Ready(d)
          PROVE  s \in Tasks /\ d.status[s] = "pending" /\ Met(d, s)
      BY <2>3 DEF Ready, Met
    <2>4. \A s \in IF Recommended = "commit" THEN RecoveryReady \ Mistaken ELSE Ready(d) :
             /\ s \in Tasks /\ d.status[s] # "accepted"
             /\ CommitReady(d, s) # {} \/ (Met(d, s) /\ d.status[s] # "failed")
      BY <2>2, <2>3
    <2> QED BY <2>1, <2>4, CallAdvances
  <1> QED BY <1>1, SubtaskInvariant, PTL
=============================================================================
