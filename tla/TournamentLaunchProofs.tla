----------------------- MODULE TournamentLaunchProofs -----------------------
(***************************************************************************)
(* Theorems about TournamentLaunch, for every number of candidates and     *)
(* every parallelism.  The inductive invariant IInv says, for each place   *)
(* of the main thread, how the batch, the workers, the records in memory   *)
(* and the files relate; every safety property of the module follows.      *)
(***************************************************************************)
EXTENDS TournamentLaunch, FiniteSetTheorems, TLAPS

(* Where the main thread is once the write it is doing is over. *)
Persisting == pc \in {"summary", "evidence"}
Place  == IF Persisting THEN after ELSE pc
Broken == pc \in {"drain", "aborted", "escaped"}

(* A batch begins at a multiple of MaxParallel. *)
Aligned == \E k \in 0..off : off = k * MaxParallel

(* The batch: candidates are made up to the end of the current batch, and  *)
(* exactly up to it where a batch begins, is collected, or none follows.   *)
PositionInv ==
    /\ made <= BatchEnd
    /\ off <= made \/ made = Requested
    /\ Place \in {"begin", "check", "returned"} => made <= off
    /\ Place \in {"schedule", "submit", "collect", "packet"} => off < Requested
    /\ Place = "submit" => off < made
    /\ Place \in {"collect", "packet"} => made = BatchEnd

(* The workers: one for each candidate made, but for the last one while it *)
(* is being recorded or if the launch broke before submitting it.          *)
WorkerInv ==
    \A c \in Candidates :
        /\ made < c => worker[c] = "idle"
        /\ c <= made /\ worker[c] = "idle" => c = made /\ (Place = "submit" \/ Broken)
        /\ c = made /\ Place = "submit" => worker[c] = "idle"

(* The records in memory: a result is the worker's, it comes with an       *)
(* evidence packet unless that is being built or the launch broke, and the *)
(* batches before the current one are complete.                            *)
Packing(c) == pc = "packet" /\ c = wr

RecordInv ==
    /\ \A c \in Candidates :
        /\ cands[c] = "none" <=> made < c
        /\ cands[c] \in Terminal =>
              Finished(c) /\ cands[c] = ResultOf(c) /\ (c \in evidence \/ Packing(c) \/ Broken)
        /\ c \in evidence => cands[c] \in Terminal
        /\ c <= off => c \in evidence
    /\ completed = Cardinality({d \in Candidates : cands[d] \in Terminal})
    /\ Place = "returned" => launched = made /\ (made < Requested => limitReason)

(* The files: never ahead of memory, always ahead of the workers, and the  *)
(* artifacts written so far by the pass that is under way.                 *)
Recorded(c) == summaryFile[c] # "none" /\ stateFile[c] # "none"

FileInv ==
    \A c \in Candidates :
        /\ summaryFile[c] \in Terminal => cands[c] = summaryFile[c]
        /\ stateFile[c] \in Terminal => cands[c] = stateFile[c]
        /\ worker[c] # "idle" => Recorded(c)
        /\ pc = "submit" /\ c = made => Recorded(c)
        /\ pc # "aborted" /\ stateFile[c] \in Terminal =>
              summaryFile[c] = stateFile[c] /\ c \in evidenceFile
        /\ c <= off => stateFile[c] \in Terminal /\ c \in evidenceFile

PassInv ==
    /\ Persisting =>
        \A c \in Candidates : c < wr /\ c <= made =>
            summaryFile[c] = cands[c] /\ (c \in evidence => c \in evidenceFile)
    /\ pc = "evidence" => wr <= made /\ wr \in evidence /\ summaryFile[wr] = cands[wr]
    /\ pc = "packet" => wr <= made /\ wr \notin evidence /\ cands[wr] \in Terminal

(* state.json is behind memory by at most one candidate, and only while it *)
(* is being written or if the launch broke.                                *)
LagsAt(c) ==
    /\ \A d \in Candidates : d # c => stateFile[d] = cands[d]
    /\ \/ stateFile[c] = cands[c]
       \/ stateFile[c] = "none" /\ cands[c] = "running" /\ c = made
       \/ stateFile[c] = "running" /\ cands[c] \in Terminal

LagInv ==
    /\ Persisting \/ pc \in {"packet", "drain"} => \E c \in Candidates : LagsAt(c)
    /\ ~(Persisting /\ after \in {"submit", "collect"}) /\ pc \notin {"packet", "drain", "escaped"}
          => stateFile = cands

IInv == /\ TypeOK /\ Aligned /\ PositionInv /\ WorkerInv /\ RecordInv
        /\ FileInv /\ PassInv /\ LagInv /\ NoOrphanWorker /\ OneFileTorn

-----------------------------------------------------------------------------
(* The bounds of a batch. *)
LEMMA BatchBounds ==
    ASSUME TypeOK
    PROVE  /\ BatchEnd \in Nat /\ BatchEnd <= Requested /\ BatchEnd <= off + MaxParallel
           /\ off < Requested => off < BatchEnd
           /\ Requested <= off => BatchEnd = Requested
  BY LaunchAssumption DEF TypeOK, BatchEnd

(* A batch has at most MaxParallel candidates. *)
LEMMA BatchSize ==
    ASSUME TypeOK
    PROVE  IsFiniteSet(Batch) /\ Cardinality(Batch) <= MaxParallel
  <1>1. off \in Nat /\ MaxParallel \in Nat /\ BatchEnd \in Nat /\ BatchEnd <= off + MaxParallel
    BY BatchBounds, LaunchAssumption DEF TypeOK
  <1>2. /\ IsFiniteSet(off + 1 .. BatchEnd)
        /\ Cardinality(off + 1 .. BatchEnd)
              = IF off + 1 > BatchEnd THEN 0 ELSE BatchEnd - (off + 1) + 1
    BY <1>1, FS_Interval
  <1> QED BY <1>1, <1>2 DEF Batch

(* There are Requested candidates, so no set of candidates is larger. *)
LEMMA CandidateCount ==
    ASSUME NEW S \in SUBSET Candidates
    PROVE  IsFiniteSet(S) /\ Cardinality(S) \in 0..Requested
  <1>1. IsFiniteSet(Candidates) /\ Cardinality(Candidates) = Requested
    BY FS_Interval, LaunchAssumption DEF Candidates
  <1>2. IsFiniteSet(S) /\ Cardinality(S) <= Cardinality(Candidates)
    BY <1>1, FS_Subset
  <1>3. Cardinality(S) \in Nat
    BY <1>2, FS_CardinalityType
  <1> QED BY <1>1, <1>2, <1>3, LaunchAssumption

-----------------------------------------------------------------------------
LEMMA InitInvariant == Init => IInv
  <1> SUFFICES ASSUME Init PROVE IInv
    OBVIOUS
  <1> USE LaunchAssumption DEF Init, Candidates, Terminal, Outcomes, Ended
  <1>1. TypeOK
    <2>1. limitReason \in BOOLEAN /\ deadlinePassed \in BOOLEAN
      OBVIOUS
    <2> QED BY <2>1 DEF TypeOK
  <1>2. Aligned /\ PositionInv
    <2>1. Aligned
      BY 0 \in 0..0, 0 = 0 * MaxParallel DEF Aligned
    <2> QED BY <2>1 DEF PositionInv, Place, Persisting, BatchEnd
  <1>3. WorkerInv
    BY DEF WorkerInv, Place, Persisting
  <1>4. RecordInv
    <2>1. {d \in Candidates : cands[d] \in Terminal} = {}
      OBVIOUS
    <2>2. completed = Cardinality({d \in Candidates : cands[d] \in Terminal})
      BY <2>1, FS_EmptySet
    <2> QED BY <2>2 DEF RecordInv, Place, Persisting
  <1>5. FileInv /\ PassInv
    BY DEF FileInv, PassInv, Persisting, Recorded
  <1>6. LagInv /\ NoOrphanWorker /\ OneFileTorn
    BY DEF LagInv, NoOrphanWorker, OneFileTorn, Persisting
  <1> QED BY <1>1, <1>2, <1>3, <1>4, <1>5, <1>6 DEF IInv

(* Every step preserves the types. *)
LEMMA TypeStep == IInv /\ [Next]_vars => TypeOK'
  <1> SUFFICES ASSUME IInv, [Next]_vars PROVE TypeOK'
    OBVIOUS
  <1> USE LaunchAssumption DEF Terminal, Outcomes, Ended, memVars, fileVars
  <1>0. TypeOK
    BY DEF IInv
  <1>1. BatchEnd <= Requested
    BY <1>0, BatchBounds
  <1>2. CASE Begin \/ StartBatch
    BY <1>0, <1>2 DEF TypeOK, Begin, StartBatch, Persist
  <1>3. CASE DeadlineReached
    <2>1. limitReason' \in BOOLEAN
      BY <1>3 DEF DeadlineReached
    <2> QED BY <1>0, <1>3, <2>1 DEF TypeOK, DeadlineReached, Persist
  <1>4. CASE AllBatchesDone
    BY <1>0, <1>4 DEF TypeOK, AllBatchesDone, Persist
  <1>5. CASE Schedule
    <2>1. made' \in 0..Requested /\ launched' \in 0..Requested
      BY <1>0, <1>1, <1>5, BatchBounds DEF TypeOK, Schedule
    <2>2. cands' \in [Candidates -> {"none", "running"} \cup Terminal]
      BY <1>0, <1>5 DEF TypeOK, Schedule
    <2>3. pc' = "summary" /\ after' = "submit" /\ wr' \in 1..Requested + 1
      BY <1>5 DEF Schedule, Persist
    <2> QED BY <1>0, <1>5, <2>1, <2>2, <2>3 DEF TypeOK, Schedule
  <1>6. CASE Submit \/ SubmitFails \/ BatchScheduled
    BY <1>0, <1>6 DEF TypeOK, Submit, SubmitFails, BatchScheduled
  <1>7. ASSUME NEW c \in Candidates, TakeResult(c)
        PROVE  TypeOK'
    <2>1. cands' \in [Candidates -> {"none", "running"} \cup Terminal]
      BY <1>0, <1>7 DEF TypeOK, TakeResult, ResultOf, Finished
    <2>2. completed' \in 0..Requested
      <3>1. {d \in Candidates : cands'[d] \in Terminal} \in SUBSET Candidates
        OBVIOUS
      <3> QED BY <1>7, <3>1, CandidateCount DEF TakeResult
    <2>3. wr' \in 1..Requested + 1
      BY <1>7 DEF TakeResult, Candidates
    <2> QED BY <1>0, <1>7, <2>1, <2>2, <2>3 DEF TypeOK, TakeResult
  <1>8. CASE EndBatch \/ Drain
    BY <1>0, <1>8 DEF TypeOK, EndBatch, Drain
  <1>9. CASE WriteSummary
    <2>1. wr' \in 1..Requested + 1 /\ pc' \in {"summary", "evidence"}
      BY <1>0, <1>9 DEF TypeOK, WriteSummary
    <2>2. summaryFile' \in [Candidates -> {"none", "running"} \cup Terminal]
      BY <1>0, <1>9 DEF TypeOK, WriteSummary
    <2>3. torn' \in SUBSET ({"summary", "evidence"} \X Candidates)
      <3>1. torn' = torn \ {Target}
        BY <1>9 DEF WriteSummary
      <3> QED BY <1>0, <3>1 DEF TypeOK
    <2> QED BY <1>0, <1>9, <2>1, <2>2, <2>3 DEF TypeOK, WriteSummary
  <1>10. CASE WriteEvidence
    <2>1. wr <= made
      BY <1>10 DEF IInv, PassInv, WriteEvidence
    <2>2. torn' \in SUBSET ({"summary", "evidence"} \X Candidates)
      BY <1>0, <1>10 DEF TypeOK, WriteEvidence
    <2> QED BY <1>0, <1>10, <2>1, <2>2 DEF TypeOK, WriteEvidence, Candidates
  <1>11. CASE SaveState \/ WriteFails
    BY <1>0, <1>11 DEF TypeOK, SaveState, WriteFails
  <1>12. ASSUME NEW c \in Candidates, StartWorker(c) \/ FinishWorker(c)
        PROVE  TypeOK'
    BY <1>0, <1>12 DEF TypeOK, StartWorker, FinishWorker
  <1>13. CASE Truncate
    <2>1. wr \in Candidates
      BY <1>0, <1>13 DEF IInv, PassInv, TypeOK, Truncate, Candidates
    <2>2. torn' \in SUBSET ({"summary", "evidence"} \X Candidates)
      BY <1>0, <1>13, <2>1 DEF TypeOK, Truncate, Target
    <2> QED BY <1>0, <1>13, <2>2 DEF TypeOK, Truncate
  <1>15. CASE StorePacket
    <2>1. wr \in Candidates
      BY <1>0, <1>15 DEF IInv, PassInv, TypeOK, StorePacket, Candidates
    <2>2. torn' \in SUBSET ({"summary", "evidence"} \X Candidates)
      BY <1>0, <1>15 DEF TypeOK, StorePacket
    <2>3. evidence' \in SUBSET Candidates /\ evidenceFile' \in SUBSET Candidates
      BY <1>0, <1>15, <2>1 DEF TypeOK, StorePacket
    <2> QED BY <1>0, <1>15, <2>2, <2>3 DEF TypeOK, StorePacket, Persist
  <1>14. CASE DeadlinePasses \/ UNCHANGED vars
    BY <1>0, <1>14 DEF TypeOK, DeadlinePasses, vars
  <1> QED BY <1>2, <1>3, <1>4, <1>5, <1>6, <1>7, <1>8, <1>9, <1>10, <1>11, <1>12, <1>13, <1>14,
             <1>15
          DEF Next, MainThread

(* Only the end of a batch moves its beginning. *)
LEMMA OffStep == [Next]_vars => UNCHANGED off \/ EndBatch
  BY DEF Next, MainThread, vars, memVars, Begin, StartBatch, DeadlineReached, AllBatchesDone,
         Schedule, Submit, SubmitFails, BatchScheduled, TakeResult, StorePacket,
         EndBatch, Drain, WriteSummary, WriteEvidence, SaveState, WriteFails, StartWorker,
         FinishWorker, DeadlinePasses, Truncate

LEMMA AlignedStep == IInv /\ [Next]_vars => Aligned'
  <1> SUFFICES ASSUME IInv, [Next]_vars PROVE Aligned'
    OBVIOUS
  <1>1. off \in Nat /\ MaxParallel \in Nat \ {0}
    BY LaunchAssumption DEF IInv, TypeOK
  <1>2. PICK k \in 0..off : off = k * MaxParallel
    BY DEF IInv, Aligned
  <1>3. CASE UNCHANGED off
    BY <1>2, <1>3 DEF Aligned
  <1>4. CASE EndBatch
    <2>1. off' = off + MaxParallel
      BY <1>4 DEF EndBatch
    <2>2. off + MaxParallel = (k + 1) * MaxParallel
      BY <1>1, <1>2
    <2>3. k + 1 \in 0..off'
      BY <1>1, <1>2, <2>1
    <2> QED BY <2>1, <2>2, <2>3 DEF Aligned
  <1> QED BY <1>3, <1>4, OffStep

LEMMA PositionStep == IInv /\ [Next]_vars => PositionInv'
  <1> SUFFICES ASSUME IInv, [Next]_vars PROVE PositionInv'
    OBVIOUS
  <1> USE LaunchAssumption DEF Place, Persisting, memVars, fileVars
  <1>0. TypeOK /\ PositionInv
    BY DEF IInv
  <1>1. CASE Begin \/ StartBatch
    BY <1>0, <1>1 DEF TypeOK, PositionInv, BatchEnd, Begin, StartBatch, Persist
  <1>2. CASE DeadlineReached \/ AllBatchesDone
    BY <1>0, <1>2 DEF TypeOK, PositionInv, BatchEnd, DeadlineReached, AllBatchesDone, Persist
  <1>3. CASE Schedule
    BY <1>0, <1>3 DEF TypeOK, PositionInv, BatchEnd, Schedule, Persist
  <1>4. CASE Submit \/ SubmitFails \/ BatchScheduled
    BY <1>0, <1>4 DEF TypeOK, PositionInv, BatchEnd, Submit, SubmitFails, BatchScheduled
  <1>5. ASSUME NEW c \in Candidates, TakeResult(c)
        PROVE  PositionInv'
    BY <1>0, <1>5 DEF TypeOK, PositionInv, BatchEnd, TakeResult
  <1>12. CASE StorePacket
    BY <1>0, <1>12 DEF TypeOK, PositionInv, BatchEnd, StorePacket, Persist
  <1>6. CASE EndBatch
    BY <1>0, <1>6 DEF TypeOK, PositionInv, BatchEnd, EndBatch
  <1>7. CASE Drain
    BY <1>0, <1>7 DEF TypeOK, PositionInv, BatchEnd, Drain
  <1>8. CASE WriteSummary \/ WriteEvidence
    BY <1>0, <1>8 DEF TypeOK, PositionInv, BatchEnd, WriteSummary, WriteEvidence
  <1>9. CASE SaveState \/ WriteFails
    BY <1>0, <1>9 DEF TypeOK, PositionInv, BatchEnd, SaveState, WriteFails
  <1>10. ASSUME NEW c \in Candidates, StartWorker(c) \/ FinishWorker(c)
         PROVE  PositionInv'
    BY <1>0, <1>10 DEF TypeOK, PositionInv, BatchEnd, StartWorker, FinishWorker
  <1>11. CASE DeadlinePasses \/ Truncate \/ UNCHANGED vars
    BY <1>0, <1>11 DEF TypeOK, PositionInv, BatchEnd, DeadlinePasses, Truncate, vars
  <1> QED BY <1>1, <1>2, <1>3, <1>4, <1>5, <1>6, <1>7, <1>8, <1>9, <1>10, <1>11, <1>12
          DEF Next, MainThread

LEMMA WorkerStep == IInv /\ [Next]_vars => WorkerInv'
  <1> SUFFICES ASSUME IInv, [Next]_vars PROVE WorkerInv'
    OBVIOUS
  <1> USE LaunchAssumption DEF Place, Persisting, Broken, Candidates, memVars, fileVars
  <1>0. TypeOK /\ PositionInv /\ WorkerInv
    BY DEF IInv
  <1>1. CASE Begin \/ StartBatch
    BY <1>0, <1>1 DEF TypeOK, WorkerInv, Begin, StartBatch, Persist
  <1>2. CASE DeadlineReached \/ AllBatchesDone
    BY <1>0, <1>2 DEF TypeOK, WorkerInv, DeadlineReached, AllBatchesDone, Persist
  <1>3. CASE Schedule
    BY <1>0, <1>3 DEF TypeOK, WorkerInv, Schedule, Persist
  <1>4. CASE Submit \/ SubmitFails \/ BatchScheduled
    BY <1>0, <1>4 DEF TypeOK, WorkerInv, Submit, SubmitFails, BatchScheduled
  <1>5. ASSUME NEW c \in Candidates, TakeResult(c)
        PROVE  WorkerInv'
    BY <1>0, <1>5 DEF TypeOK, WorkerInv, TakeResult
  <1>11. CASE StorePacket
    BY <1>0, <1>11 DEF TypeOK, WorkerInv, StorePacket, Persist
  <1>6. CASE EndBatch \/ Drain
    BY <1>0, <1>6 DEF TypeOK, WorkerInv, EndBatch, Drain
  <1>7. CASE WriteSummary \/ WriteEvidence
    BY <1>0, <1>7 DEF TypeOK, WorkerInv, WriteSummary, WriteEvidence
  <1>8. CASE SaveState \/ WriteFails
    BY <1>0, <1>8 DEF TypeOK, WorkerInv, SaveState, WriteFails
  <1>9. ASSUME NEW c \in Candidates, StartWorker(c) \/ FinishWorker(c)
        PROVE  WorkerInv'
    <2>1. PICK s \in {"running"} \cup Outcomes :
             worker[c] # "idle" /\ worker' = [worker EXCEPT ![c] = s]
      BY <1>9 DEF StartWorker, FinishWorker
    <2>2. UNCHANGED <<pc, after, made>>
      BY <1>9 DEF StartWorker, FinishWorker
    <2>3. s # "idle"
      BY DEF Outcomes, Terminal
    <2> QED BY <1>0, <2>1, <2>2, <2>3 DEF TypeOK, WorkerInv
  <1>10. CASE DeadlinePasses \/ Truncate \/ UNCHANGED vars
    BY <1>0, <1>10 DEF TypeOK, WorkerInv, DeadlinePasses, Truncate, vars
  <1> QED BY <1>1, <1>2, <1>3, <1>4, <1>5, <1>6, <1>7, <1>8, <1>9, <1>10, <1>11
          DEF Next, MainThread

(* What a step of a worker or of the clock leaves alone: a worker that has *)
(* not been submitted, or has finished, does not move.                     *)
LEMMA WorkerMoves ==
    ASSUME TypeOK, NEW c \in Candidates, StartWorker(c) \/ FinishWorker(c)
    PROVE  /\ UNCHANGED <<pc, after, wr, memVars, deadlinePassed, fileVars>>
           /\ worker[c] \in {"queued", "running"} /\ worker'[c] # "idle"
           /\ \A d \in Candidates : d # c => worker'[d] = worker[d]
  <1>1. PICK s \in {"running"} \cup Outcomes :
           worker[c] \in {"queued", "running"} /\ worker' = [worker EXCEPT ![c] = s]
    BY DEF StartWorker, FinishWorker
  <1>2. s # "idle"
    BY DEF Outcomes, Terminal
  <1> QED BY <1>1, <1>2 DEF TypeOK, StartWorker, FinishWorker

(* Records and results when neither memory nor the main thread moves. *)
LEMMA RecordFrame ==
    ASSUME RecordInv, UNCHANGED <<made, off, cands, evidence, completed, launched, limitReason>>,
           \A c \in Candidates : Finished(c) => worker'[c] = worker[c],
           Place' = "returned" => Place = "returned", Broken => Broken',
           pc = "packet" => Broken' \/ UNCHANGED <<pc, wr>>
    PROVE  RecordInv'
  BY DEF RecordInv, Finished, ResultOf, Packing

LEMMA RecordStep == IInv /\ [Next]_vars => RecordInv'
  <1> SUFFICES ASSUME IInv, [Next]_vars PROVE RecordInv'
    OBVIOUS
  <1> USE LaunchAssumption DEF memVars, fileVars
  <1>0. TypeOK /\ PositionInv /\ RecordInv
    BY DEF IInv
  <1>1. CASE Begin \/ StartBatch
    BY <1>0, <1>1, RecordFrame DEF Begin, StartBatch, Persist, Place, Persisting, Broken
  <1>2. CASE DeadlineReached \/ AllBatchesDone
    <2>1. launched' = made' /\ (made' < Requested => limitReason')
      BY <1>0, <1>2 DEF DeadlineReached, AllBatchesDone, TypeOK, PositionInv
    <2>2. (Broken' <=> Broken) /\ pc # "packet"
      BY <1>2 DEF DeadlineReached, AllBatchesDone, Persist, Broken
    <2> QED BY <1>0, <1>2, <2>1, <2>2
            DEF RecordInv, DeadlineReached, AllBatchesDone, Finished, ResultOf, Packing
  <1>3. CASE Schedule
    <2>1. /\ made' = made + 1 /\ made \in Nat /\ made + 1 <= Requested
          /\ off <= made /\ off' = off
      BY <1>0, <1>3, BatchBounds DEF Schedule, TypeOK, PositionInv, Place, Persisting
    <2>2. /\ made + 1 \in Candidates
          /\ cands' = [cands EXCEPT ![made + 1] = "running"]
          /\ UNCHANGED <<worker, evidence, completed>>
      BY <2>1, <1>3 DEF Schedule, Candidates
    <2>3. cands[made + 1] = "none"
      BY <2>1, <2>2, <1>0 DEF RecordInv
    <2>4. {d \in Candidates : cands'[d] \in Terminal} = {d \in Candidates : cands[d] \in Terminal}
      BY <1>0, <2>2, <2>3 DEF TypeOK, Terminal
    <2>5. ~Broken /\ pc # "packet" /\ Place' = "submit"
      BY <1>3 DEF Schedule, Persist, Broken, Place, Persisting
    <2>6. ASSUME NEW c \in Candidates
          PROVE  /\ cands'[c] = "none" <=> made' < c
                 /\ cands'[c] \in Terminal =>
                       Finished(c)' /\ cands'[c] = ResultOf(c)'
                          /\ (c \in evidence' \/ Packing(c)' \/ Broken')
                 /\ c \in evidence' => cands'[c] \in Terminal
                 /\ c <= off' => c \in evidence'
      <3>1. CASE c = made + 1
        BY <1>0, <2>1, <2>2, <2>3, <3>1 DEF TypeOK, RecordInv, Terminal
      <3>2. CASE c # made + 1
        BY <1>0, <2>1, <2>2, <2>5, <3>2 DEF TypeOK, RecordInv, Finished, ResultOf, Packing, Candidates
      <3> QED BY <3>1, <3>2
    <2> QED BY <1>0, <2>2, <2>4, <2>5, <2>6 DEF RecordInv
  <1>4. CASE Submit
    <2>1. made \in Candidates /\ worker' = [worker EXCEPT ![made] = "queued"]
      BY <1>0, <1>4, BatchBounds DEF Submit, TypeOK, PositionInv, Place, Persisting, Candidates
    <2>2. worker[made] = "idle"
      BY <1>4, <2>1 DEF IInv, WorkerInv, Submit, Place, Persisting
    <2> QED BY <1>0, <1>4, <2>1, <2>2, RecordFrame
            DEF TypeOK, Submit, Place, Persisting, Broken, Finished, Outcomes, Terminal
  <1>5. CASE SubmitFails \/ BatchScheduled \/ WriteFails \/ Drain
    BY <1>0, <1>5, RecordFrame
       DEF SubmitFails, BatchScheduled, WriteFails, Drain, Place, Persisting, Broken
  <1>6. ASSUME NEW c \in Candidates, TakeResult(c)
        PROVE  RecordInv'
    <2>1. /\ c \notin evidence /\ Finished(c) /\ off < c /\ c <= made
          /\ cands' = [cands EXCEPT ![c] = ResultOf(c)]
          /\ completed' = Cardinality({d \in Candidates : cands'[d] \in Terminal})
          /\ UNCHANGED <<made, off, launched, limitReason, worker, evidence>>
      BY <1>0, <1>6 DEF TakeResult, TypeOK, PositionInv, Batch, Place, Persisting, Candidates
    <2>2. ResultOf(c) \in Terminal
      BY <2>1 DEF Finished, ResultOf, Outcomes, Terminal
    <2>3. Place' # "returned"
      BY <1>6 DEF TakeResult, Place, Persisting
    <2>4. Packing(c)' /\ pc # "packet" /\ ~Broken
      BY <1>6 DEF TakeResult, Packing, Broken
    <2>5. ASSUME NEW d \in Candidates
          PROVE  /\ cands'[d] = "none" <=> made' < d
                 /\ cands'[d] \in Terminal =>
                       Finished(d)' /\ cands'[d] = ResultOf(d)'
                          /\ (d \in evidence' \/ Packing(d)' \/ Broken')
                 /\ d \in evidence' => cands'[d] \in Terminal
                 /\ d <= off' => d \in evidence'
      <3>1. CASE d = c
        BY <1>0, <2>1, <2>2, <2>4, <3>1 DEF TypeOK, Finished, ResultOf, Terminal, Candidates
      <3>2. CASE d # c
        BY <1>0, <2>1, <2>4, <3>2 DEF TypeOK, RecordInv, Finished, ResultOf, Packing
      <3> QED BY <3>1, <3>2
    <2> QED BY <2>1, <2>3, <2>5 DEF RecordInv
  <1>12. CASE StorePacket
    <2>1. /\ UNCHANGED <<made, off, cands, worker, completed, launched, limitReason>>
          /\ evidence' = evidence \cup {wr} /\ pc = "packet" /\ Place' # "returned"
      BY <1>12 DEF StorePacket, Persist, Place, Persisting
    <2>2. cands[wr] \in Terminal /\ ~Broken
      BY <2>1 DEF IInv, PassInv, Broken
    <2> QED BY <1>0, <2>1, <2>2 DEF RecordInv, Finished, ResultOf, Packing
  <1>7. CASE EndBatch
    <2>1. /\ UNCHANGED <<made, cands, evidence, launched, completed, limitReason, worker>>
          /\ Place' # "returned" /\ ~Broken /\ ~Broken' /\ pc # "packet"
      BY <1>7 DEF EndBatch, Place, Persisting, Broken
    <2>2. ASSUME NEW c \in Candidates, c <= off' PROVE c \in evidence
      <3>1. CASE c <= off
        BY <1>0, <3>1 DEF RecordInv
      <3>2. CASE off < c
        BY <1>0, <1>7, <2>2, <3>2 DEF EndBatch, Batch, BatchEnd, TypeOK, Candidates
      <3> QED BY <1>0, <3>1, <3>2 DEF TypeOK, Candidates
    <2> QED BY <1>0, <2>1, <2>2 DEF RecordInv, Finished, ResultOf, Packing
  <1>8. CASE WriteSummary \/ WriteEvidence
    BY <1>0, <1>8, RecordFrame DEF WriteSummary, WriteEvidence, Place, Persisting, Broken
  <1>9. CASE SaveState
    BY <1>0, <1>9, RecordFrame DEF SaveState, Place, Persisting, Broken
  <1>10. ASSUME NEW c \in Candidates, StartWorker(c) \/ FinishWorker(c)
         PROVE  RecordInv'
    <2>1. \A d \in Candidates : Finished(d) => worker'[d] = worker[d]
      BY <1>0, <1>10, WorkerMoves DEF Finished, Outcomes, Terminal
    <2> QED BY <1>0, <1>10, <2>1, WorkerMoves, RecordFrame DEF Place, Persisting, Broken
  <1>11. CASE DeadlinePasses \/ Truncate \/ UNCHANGED vars
    BY <1>0, <1>11, RecordFrame DEF DeadlinePasses, Truncate, vars, Place, Persisting, Broken
  <1> QED BY <1>1, <1>2, <1>3, <1>4, <1>5, <1>6, <1>7, <1>8, <1>9, <1>10, <1>11, <1>12
          DEF Next, MainThread

(* The files when no file, record or batch moves. *)
LEMMA FileFrame ==
    ASSUME FileInv, UNCHANGED <<cands, off, summaryFile, evidenceFile, stateFile>>,
           pc' = "submit" => pc = "submit" /\ made' = made, pc = "aborted" => pc' = "aborted",
           \A c \in Candidates : worker'[c] # "idle" => worker[c] # "idle"
    PROVE  FileInv'
  BY DEF FileInv, Recorded

LEMMA FileStep == IInv /\ [Next]_vars => FileInv'
  <1> SUFFICES ASSUME IInv, [Next]_vars PROVE FileInv'
    OBVIOUS
  <1> USE LaunchAssumption DEF memVars, fileVars
  <1>0. TypeOK /\ PositionInv /\ WorkerInv /\ RecordInv /\ FileInv
    BY DEF IInv
  <1>1. CASE Begin \/ StartBatch \/ DeadlineReached \/ AllBatchesDone
    BY <1>0, <1>1, FileFrame DEF Begin, StartBatch, DeadlineReached, AllBatchesDone, Persist
  <1>2. CASE SubmitFails \/ BatchScheduled \/ WriteFails
    BY <1>0, <1>2, FileFrame DEF SubmitFails, BatchScheduled, WriteFails
  <1>3. CASE Schedule
    <2>1. made + 1 \in Candidates /\ cands' = [cands EXCEPT ![made + 1] = "running"]
      BY <1>0, <1>3, BatchBounds DEF Schedule, TypeOK, Candidates
    <2>2. cands[made + 1] = "none"
      BY <1>0, <2>1 DEF RecordInv, TypeOK
    <2>3. \A c \in Candidates : cands'[c] = cands[c] \/ cands[c] = "none"
      BY <1>0, <2>1, <2>2 DEF TypeOK
    <2> QED BY <1>0, <1>3, <2>3 DEF FileInv, Recorded, Schedule, Persist, Terminal
  <1>4. CASE Submit
    <2>1. made \in Candidates /\ worker' = [worker EXCEPT ![made] = "queued"]
      BY <1>0, <1>4 DEF Submit, TypeOK, PositionInv, Place, Persisting, Candidates
    <2> QED BY <1>0, <1>4, <2>1 DEF TypeOK, FileInv, Recorded, Submit
  <1>5. ASSUME NEW c \in Candidates, TakeResult(c)
        PROVE  FileInv'
    <2>1. cands[c] \notin Terminal
      BY <1>0, <1>5 DEF TakeResult, RecordInv, Packing, Broken
    <2>2. \A d \in Candidates : cands'[d] = cands[d] \/ cands[d] \notin Terminal
      BY <1>0, <1>5, <2>1 DEF TakeResult, TypeOK
    <2> QED BY <1>0, <1>5, <2>2 DEF FileInv, Recorded, TakeResult
  <1>6. CASE EndBatch
    <2>1. stateFile = cands
      BY <1>6 DEF IInv, LagInv, EndBatch, Persisting
    <2>2. ASSUME NEW c \in Candidates, c <= off'
          PROVE  stateFile[c] \in Terminal /\ c \in evidenceFile
      <3>1. c <= off \/ c \in Batch
        BY <1>0, <1>6, <2>2 DEF EndBatch, Batch, BatchEnd, TypeOK, Candidates
      <3>2. stateFile[c] \in Terminal
        BY <1>0, <1>6, <2>1, <3>1 DEF EndBatch, RecordInv
      <3> QED BY <1>0, <1>6, <3>2 DEF EndBatch, FileInv
    <2> QED BY <1>0, <1>6, <2>2 DEF FileInv, Recorded, EndBatch
  <1>7. CASE Drain
    <2>1. CASE pc' = "escaped"
      BY <1>0, <1>7, <2>1, FileFrame DEF Drain
    <2>2. CASE pc' = "aborted"
      <3>1. stateFile' = cands /\ UNCHANGED <<cands, worker, off, summaryFile, evidenceFile>>
        BY <1>7, <2>2 DEF Drain
      <3>2. \A c \in Candidates : worker[c] # "idle" => cands[c] # "none"
        BY <1>0 DEF TypeOK, WorkerInv, RecordInv, Candidates
      <3> QED BY <1>0, <2>2, <3>1, <3>2 DEF FileInv, RecordInv, Recorded
    <2> QED BY <1>7, <2>1, <2>2 DEF Drain
  <1>8. CASE WriteSummary
    <2>1. wr \in Candidates /\ cands[wr] # "none"
      BY <1>0, <1>8 DEF WriteSummary, TypeOK, RecordInv, Candidates
    <2>2. /\ summaryFile' = [summaryFile EXCEPT ![wr] = cands[wr]]
          /\ pc' # "submit" /\ pc # "aborted"
          /\ UNCHANGED <<cands, worker, off, stateFile, evidenceFile>>
      BY <1>8 DEF WriteSummary
    <2>3. ASSUME NEW c \in Candidates
          PROVE  /\ summaryFile'[c] \in Terminal => cands[c] = summaryFile'[c]
                 /\ summaryFile[c] # "none" => summaryFile'[c] # "none"
                 /\ stateFile[c] \in Terminal => summaryFile'[c] = stateFile[c]
      BY <1>0, <2>1, <2>2 DEF TypeOK, FileInv
    <2> QED BY <1>0, <2>2, <2>3 DEF FileInv, Recorded
  <1>9. CASE WriteEvidence \/ StorePacket
    BY <1>0, <1>9 DEF FileInv, Recorded, WriteEvidence, StorePacket, Persist
  <1>10. CASE SaveState
    <2>1. /\ stateFile' = cands /\ made < wr
          /\ UNCHANGED <<cands, made, worker, off, summaryFile, evidenceFile>>
      BY <1>0, <1>10 DEF SaveState, TypeOK
    <2>2. ASSUME NEW c \in Candidates, c <= made
          PROVE  summaryFile[c] = cands[c] /\ (c \in evidence => c \in evidenceFile)
      BY <1>0, <1>10, <2>1, <2>2 DEF IInv, PassInv, SaveState, Persisting, TypeOK, Candidates
    <2>3. ASSUME NEW c \in Candidates, cands[c] \in Terminal
          PROVE  summaryFile[c] = cands[c] /\ c \in evidenceFile
      <3>1. c \in evidence
        BY <1>0, <1>10, <2>3 DEF RecordInv, SaveState, Packing, Broken
      <3>2. c <= made
        BY <1>0, <2>3 DEF RecordInv, TypeOK, Candidates, Terminal
      <3> QED BY <2>2, <3>1, <3>2
    <2>4. ASSUME NEW c \in Candidates, worker[c] # "idle" \/ c = made
          PROVE  summaryFile[c] # "none" /\ cands[c] # "none"
      BY <1>0, <2>2, <2>4 DEF TypeOK, WorkerInv, RecordInv, Candidates
    <2>5. ASSUME NEW c \in Candidates, c <= off
          PROVE  cands[c] \in Terminal /\ c \in evidenceFile
      BY <1>0, <2>3, <2>5 DEF RecordInv
    <2> QED BY <1>0, <2>1, <2>3, <2>4, <2>5 DEF FileInv, Recorded
  <1>11. ASSUME NEW c \in Candidates, StartWorker(c) \/ FinishWorker(c)
         PROVE  FileInv'
    <2>1. \A d \in Candidates : worker'[d] # "idle" => worker[d] # "idle"
      BY <1>0, <1>11, WorkerMoves
    <2> QED BY <1>0, <1>11, <2>1, WorkerMoves, FileFrame
  <1>12. CASE DeadlinePasses \/ Truncate \/ UNCHANGED vars
    BY <1>0, <1>12, FileFrame DEF DeadlinePasses, Truncate, vars
  <1> QED BY <1>1, <1>2, <1>3, <1>4, <1>5, <1>6, <1>7, <1>8, <1>9, <1>10, <1>11, <1>12
          DEF Next, MainThread

LEMMA PassStep == IInv /\ [Next]_vars => PassInv'
  <1> SUFFICES ASSUME IInv, [Next]_vars PROVE PassInv'
    OBVIOUS
  <1> USE LaunchAssumption DEF memVars, fileVars, Persisting
  <1>0. TypeOK /\ PassInv
    BY DEF IInv
  <1>1. CASE Begin \/ DeadlineReached \/ AllBatchesDone \/ Schedule
    BY <1>0, <1>1 DEF PassInv, Begin, DeadlineReached, AllBatchesDone, Schedule, Persist, Candidates
  <1>2. CASE StartBatch \/ Submit \/ SubmitFails \/ BatchScheduled \/ EndBatch \/ WriteFails
    BY <1>2 DEF PassInv, StartBatch, Submit, SubmitFails, BatchScheduled, EndBatch, WriteFails
  <1>3. CASE Drain
    BY <1>3 DEF PassInv, Drain
  <1>4. ASSUME NEW c \in Candidates, TakeResult(c)
        PROVE  PassInv'
    <2>1. pc' = "packet" /\ wr' = c /\ made' = made /\ evidence' = evidence /\ c \notin evidence
      BY <1>4 DEF TakeResult
    <2>2. c <= made
      BY <1>0, <1>4 DEF IInv, PositionInv, Place, TakeResult, Batch, TypeOK, Candidates
    <2>3. cands'[c] \in Terminal
      BY <1>0, <1>4 DEF TypeOK, TakeResult, Finished, ResultOf, Outcomes, Terminal
    <2> QED BY <2>1, <2>2, <2>3 DEF PassInv
  <1>10. CASE StorePacket
    BY <1>10 DEF PassInv, StorePacket, Persist, Candidates
  <1>5. CASE WriteSummary
    <2>1. wr \in Candidates /\ wr <= made
      BY <1>0, <1>5 DEF WriteSummary, TypeOK, Candidates
    <2>2. /\ summaryFile' = [summaryFile EXCEPT ![wr] = cands[wr]]
          /\ UNCHANGED <<cands, made, evidence, evidenceFile>>
          /\ \/ wr \in evidence /\ pc' = "evidence" /\ wr' = wr
             \/ wr \notin evidence /\ pc' = "summary" /\ wr' = wr + 1
      BY <1>5 DEF WriteSummary
    <2>3. \A c \in Candidates : c < wr /\ c <= made =>
            summaryFile[c] = cands[c] /\ (c \in evidence => c \in evidenceFile)
      BY <1>0, <1>5 DEF PassInv, WriteSummary
    <2>4. \A c \in Candidates : c < wr' => c < wr \/ (c = wr /\ wr \notin evidence)
      BY <1>0, <2>2 DEF TypeOK, Candidates
    <2>5. summaryFile'[wr] = cands[wr] /\ \A c \in Candidates : c # wr => summaryFile'[c] = summaryFile[c]
      BY <1>0, <2>1, <2>2 DEF TypeOK
    <2> QED BY <2>1, <2>2, <2>3, <2>4, <2>5 DEF PassInv
  <1>6. CASE WriteEvidence
    <2>1. /\ wr' = wr + 1 /\ pc' = "summary" /\ evidenceFile' = evidenceFile \cup {wr}
          /\ UNCHANGED <<cands, made, evidence, summaryFile>>
      BY <1>6 DEF WriteEvidence
    <2>2. summaryFile[wr] = cands[wr]
      BY <1>0, <1>6 DEF PassInv, WriteEvidence
    <2>3. \A c \in Candidates : c < wr' => c < wr \/ c = wr
      BY <1>0, <2>1 DEF TypeOK, Candidates
    <2>4. \A c \in Candidates : c < wr /\ c <= made =>
            summaryFile[c] = cands[c] /\ (c \in evidence => c \in evidenceFile)
      BY <1>0, <1>6 DEF PassInv, WriteEvidence
    <2> QED BY <2>1, <2>2, <2>3, <2>4 DEF PassInv
  <1>7. CASE SaveState
    BY <1>0, <1>7 DEF PassInv, SaveState, TypeOK
  <1>8. ASSUME NEW c \in Candidates, StartWorker(c) \/ FinishWorker(c)
        PROVE  PassInv'
    BY <1>0, <1>8, WorkerMoves DEF PassInv
  <1>9. CASE DeadlinePasses \/ Truncate \/ UNCHANGED vars
    BY <1>0, <1>9 DEF PassInv, DeadlinePasses, Truncate, vars
  <1> QED BY <1>1, <1>2, <1>3, <1>4, <1>5, <1>6, <1>7, <1>8, <1>9, <1>10 DEF Next, MainThread

(* state.json and memory when neither moves. *)
LEMMA LagFrame ==
    ASSUME UNCHANGED <<made, cands, stateFile>>, stateFile = cands
    PROVE  LagInv'
  <1>1. 1 \in Candidates
    BY LaunchAssumption DEF Candidates
  <1> QED BY <1>1 DEF LagInv, LagsAt

LEMMA LagStep == IInv /\ [Next]_vars => LagInv'
  <1> SUFFICES ASSUME IInv, [Next]_vars PROVE LagInv'
    OBVIOUS
  <1> USE LaunchAssumption DEF memVars, fileVars, Persisting
  <1>0. TypeOK /\ PositionInv /\ RecordInv /\ LagInv
    BY DEF IInv
  <1>1. CASE Begin \/ StartBatch \/ DeadlineReached \/ AllBatchesDone
    BY <1>0, <1>1, LagFrame DEF LagInv, Begin, StartBatch, DeadlineReached, AllBatchesDone, Persist
  <1>2. CASE Submit \/ SubmitFails \/ BatchScheduled \/ EndBatch
    BY <1>0, <1>2, LagFrame DEF LagInv, Submit, SubmitFails, BatchScheduled, EndBatch
  <1>3. CASE Schedule
    <2>0. made + 1 \in Candidates
      BY <1>0, <1>3, BatchBounds DEF Schedule, TypeOK, Candidates
    <2>1. PICK c \in Candidates :
             c = made + 1 /\ made' = c /\ cands' = [cands EXCEPT ![c] = "running"]
      BY <1>3, <2>0 DEF Schedule
    <2>2. stateFile = cands /\ stateFile' = stateFile /\ pc' = "summary" /\ after' = "submit"
      BY <1>0, <1>3 DEF LagInv, Schedule, Persist
    <2>3. cands[c] = "none"
      BY <1>0, <2>1 DEF RecordInv, TypeOK
    <2>4. LagsAt(c)'
      BY <1>0, <2>1, <2>2, <2>3 DEF LagsAt, TypeOK
    <2> QED BY <2>1, <2>2, <2>4 DEF LagInv
  <1>4. ASSUME NEW c \in Candidates, TakeResult(c)
        PROVE  LagInv'
    <2>1. stateFile = cands /\ stateFile' = stateFile /\ cands' = [cands EXCEPT ![c] = ResultOf(c)]
      BY <1>0, <1>4 DEF LagInv, TakeResult
    <2>2. ResultOf(c) \in Terminal
      BY <1>4 DEF TakeResult, Finished, ResultOf, Outcomes, Terminal
    <2>3. cands[c] = "running"
      <3>1. cands[c] \notin Terminal
        BY <1>0, <1>4 DEF TakeResult, RecordInv, Packing, Broken
      <3>2. c <= made
        BY <1>0, <1>4 DEF TakeResult, TypeOK, PositionInv, Batch, Place, Candidates
      <3> QED BY <1>0, <3>1, <3>2 DEF RecordInv, TypeOK, Candidates
    <2>4. LagsAt(c)'
      BY <1>0, <2>1, <2>2, <2>3 DEF LagsAt, TypeOK
    <2>5. pc' = "packet"
      BY <1>4 DEF TakeResult
    <2> QED BY <2>4, <2>5 DEF LagInv
  <1>5. CASE Drain
    <2>1. CASE pc' = "escaped"
      BY <2>1 DEF LagInv
    <2>2. CASE pc' = "aborted"
      BY <1>5, <2>2 DEF LagInv, Drain
    <2> QED BY <1>5, <2>1, <2>2 DEF Drain
  <1>6. CASE WriteSummary \/ WriteEvidence
    <2>1. UNCHANGED <<made, cands, stateFile, after>> /\ Persisting /\ Persisting'
      BY <1>6 DEF WriteSummary, WriteEvidence
    <2> QED BY <1>0, <2>1 DEF LagInv, LagsAt
  <1>11. CASE StorePacket
    <2>1. /\ UNCHANGED <<made, cands, stateFile>> /\ pc = "packet"
          /\ pc' = "summary" /\ after' = "collect"
      BY <1>11 DEF StorePacket, Persist
    <2> QED BY <1>0, <2>1 DEF LagInv, LagsAt
  <1>7. CASE WriteFails
    BY <1>0, <1>7 DEF LagInv, LagsAt, WriteFails
  <1>8. CASE SaveState
    <2>1. stateFile' = cands /\ cands' = cands /\ 1 \in Candidates
      BY <1>8 DEF SaveState, Candidates
    <2> QED BY <2>1 DEF LagInv, LagsAt
  <1>9. ASSUME NEW c \in Candidates, StartWorker(c) \/ FinishWorker(c)
        PROVE  LagInv'
    BY <1>0, <1>9, WorkerMoves DEF LagInv, LagsAt
  <1>10. CASE DeadlinePasses \/ Truncate \/ UNCHANGED vars
    BY <1>0, <1>10 DEF LagInv, LagsAt, DeadlinePasses, Truncate, vars
  <1> QED BY <1>1, <1>2, <1>3, <1>4, <1>5, <1>6, <1>7, <1>8, <1>9, <1>10, <1>11 DEF Next, MainThread

(* Only the file being written is cut off, and the save of state.json      *)
(* comes after the last of them.                                           *)
LEMMA TornStep == IInv /\ [Next]_vars => OneFileTorn'
  <1> SUFFICES ASSUME IInv, [Next]_vars PROVE OneFileTorn'
    OBVIOUS
  <1> USE DEF memVars, fileVars
  <1>0. TypeOK /\ OneFileTorn
    BY DEF IInv
  <1>1. CASE Begin \/ StartBatch \/ DeadlineReached \/ AllBatchesDone \/ Schedule
    BY <1>0, <1>1 DEF OneFileTorn, Begin, StartBatch, DeadlineReached, AllBatchesDone, Schedule, Persist
  <1>2. CASE Submit \/ SubmitFails \/ BatchScheduled \/ EndBatch \/ Drain
    BY <1>0, <1>2 DEF OneFileTorn, Submit, SubmitFails, BatchScheduled, EndBatch, Drain
  <1>3. ASSUME NEW c \in Candidates, TakeResult(c)
        PROVE  OneFileTorn'
    BY <1>0, <1>3 DEF OneFileTorn, TakeResult
  <1>4. CASE WriteSummary \/ WriteEvidence \/ StorePacket
    <2>1. torn = {Target} /\ torn' = torn \ {Target}
      BY <1>0, <1>4 DEF OneFileTorn, WriteSummary, WriteEvidence, StorePacket
    <2>2. torn' = {}
      BY <2>1
    <2> QED BY <2>2 DEF OneFileTorn
  <1>5. CASE SaveState
    <2>1. torn' = torn /\ pc = "summary" /\ ~(wr <= made)
      BY <1>0, <1>5 DEF SaveState, TypeOK
    <2>2. torn' = {}
      BY <1>0, <2>1 DEF OneFileTorn
    <2> QED BY <2>2 DEF OneFileTorn
  <1>6. CASE WriteFails
    BY <1>0, <1>6 DEF OneFileTorn, WriteFails
  <1>7. CASE Truncate
    <2>1. /\ Target \notin torn /\ pc \in {"packet", "summary", "evidence"}
          /\ torn' = torn \cup {Target} /\ UNCHANGED <<pc, wr, made>>
          /\ wr <= made
      BY <1>7 DEF IInv, PassInv, Truncate
    <2>2. torn = {}
      BY <1>0, <2>1 DEF OneFileTorn
    <2>3. torn' = {Target'}
      BY <2>1, <2>2 DEF Target
    <2> QED BY <2>1, <2>3 DEF OneFileTorn
  <1>8. ASSUME NEW c \in Candidates, StartWorker(c) \/ FinishWorker(c)
        PROVE  OneFileTorn'
    BY <1>0, <1>8, WorkerMoves DEF OneFileTorn, Target
  <1>9. CASE DeadlinePasses \/ UNCHANGED vars
    BY <1>0, <1>9 DEF OneFileTorn, Target, DeadlinePasses, vars
  <1> QED BY <1>1, <1>2, <1>3, <1>4, <1>5, <1>6, <1>7, <1>8, <1>9 DEF Next, MainThread

LEMMA NoOrphanStep == IInv /\ [Next]_vars => NoOrphanWorker'
  <1> SUFFICES ASSUME IInv, [Next]_vars PROVE NoOrphanWorker'
    OBVIOUS
  <1> USE DEF memVars, fileVars, Ended
  <1>0. TypeOK /\ PositionInv /\ WorkerInv /\ RecordInv /\ NoOrphanWorker
    BY DEF IInv
  <1>1. CASE Begin \/ StartBatch \/ DeadlineReached \/ AllBatchesDone \/ Schedule
    BY <1>1 DEF NoOrphanWorker, Begin, StartBatch, DeadlineReached, AllBatchesDone, Schedule, Persist
  <1>2. CASE Submit \/ SubmitFails \/ BatchScheduled \/ EndBatch \/ WriteFails
    BY <1>2 DEF NoOrphanWorker, Submit, SubmitFails, BatchScheduled, EndBatch, WriteFails
  <1>3. ASSUME NEW c \in Candidates, TakeResult(c)
        PROVE  NoOrphanWorker'
    BY <1>3 DEF NoOrphanWorker, TakeResult
  <1>4. CASE Drain
    BY <1>4 DEF NoOrphanWorker, Drain, Submitted, Finished
  <1>5. CASE WriteSummary \/ WriteEvidence \/ StorePacket
    BY <1>5 DEF NoOrphanWorker, WriteSummary, WriteEvidence, StorePacket, Persist
  <1>6. CASE SaveState
    <2>1. CASE pc' = "returned"
      <3>1. made <= off /\ UNCHANGED worker
        BY <1>0, <1>6, <2>1 DEF SaveState, PositionInv, Place, Persisting
      <3>2. ASSUME NEW c \in Candidates PROVE worker[c] = "idle" \/ Finished(c)
        <4>1. CASE made < c
          BY <1>0, <4>1 DEF WorkerInv
        <4>2. CASE c <= made
          BY <1>0, <3>1, <4>2 DEF RecordInv, TypeOK, Candidates
        <4> QED BY <1>0, <4>1, <4>2 DEF TypeOK, Candidates
      <3> QED BY <3>1, <3>2 DEF NoOrphanWorker, Finished
    <2>2. CASE pc' # "returned"
      BY <1>0, <1>6, <2>2 DEF NoOrphanWorker, SaveState, TypeOK
    <2> QED BY <2>1, <2>2
  <1>7. ASSUME NEW c \in Candidates, StartWorker(c) \/ FinishWorker(c)
        PROVE  NoOrphanWorker'
    BY <1>0, <1>7, WorkerMoves DEF NoOrphanWorker, Finished, Outcomes, Terminal
  <1>8. CASE DeadlinePasses \/ Truncate \/ UNCHANGED vars
    BY <1>0, <1>8 DEF NoOrphanWorker, Finished, DeadlinePasses, Truncate, vars
  <1> QED BY <1>1, <1>2, <1>3, <1>4, <1>5, <1>6, <1>7, <1>8 DEF Next, MainThread

-----------------------------------------------------------------------------
(* The invariant holds in every state of every launch. *)
THEOREM Invariance == Spec => []IInv
  <1>1. IInv /\ [Next]_vars => IInv'
    BY TypeStep, AlignedStep, PositionStep, WorkerStep, RecordStep, FileStep, PassStep,
       LagStep, NoOrphanStep, TornStep DEF IInv
  <1> QED BY InitInvariant, <1>1, PTL DEF Spec

(* Every variable keeps its type; no more candidates are made than asked.  *)
THEOREM TypeCorrect == Spec => []TypeOK
  <1>1. IInv => TypeOK
    BY DEF IInv
  <1> QED BY Invariance, <1>1, PTL

(* The backend's parallelism is never exceeded: the running workers are    *)
(* candidates of the current batch, whatever its number.                   *)
THEOREM Parallelism == Spec => []ParallelBound
  <1>1. IInv => ParallelBound
    <2> SUFFICES ASSUME IInv PROVE Cardinality(Running) <= MaxParallel
      BY DEF ParallelBound
    <2> USE DEF IInv
    <2>1. Running \subseteq Batch
      <3> SUFFICES ASSUME NEW c \in Candidates, worker[c] = "running" PROVE c \in Batch
        BY DEF Running
      <3>1. c <= made
        BY DEF WorkerInv, TypeOK, Candidates
      <3>2. off < c
        BY DEF RecordInv, Finished, Outcomes, Terminal, TypeOK, Candidates
      <3> QED BY <3>1, <3>2, BatchBounds DEF Batch, PositionInv, TypeOK, Candidates
    <2>2. IsFiniteSet(Batch) /\ Cardinality(Batch) <= MaxParallel
      BY BatchSize
    <2>3. IsFiniteSet(Running) /\ Cardinality(Running) <= Cardinality(Batch)
      BY <2>1, <2>2, FS_Subset
    <2>4. Cardinality(Running) \in Nat /\ Cardinality(Batch) \in Nat
      BY <2>2, <2>3, FS_CardinalityType
    <2> QED BY <2>2, <2>3, <2>4, LaunchAssumption
  <1> QED BY Invariance, <1>1, PTL

(* The files know of every worker before it exists. *)
THEOREM RecordedFirst == Spec => []WriteAhead
  <1>1. IInv => WriteAhead
    BY DEF IInv, FileInv, Recorded, WriteAhead, Submitted
  <1> QED BY Invariance, <1>1, PTL

(* A result in a file is the one its worker produced. *)
THEOREM Truthfulness == Spec => []FilesTruthful
  <1>1. IInv => FilesTruthful
    <2> SUFFICES ASSUME IInv, NEW c \in Candidates, NEW s \in {SummaryText(c), stateFile[c]}
                 PROVE  TruthfulStatus(s, c)
      BY DEF FilesTruthful
    <2>0. s \in {"torn", summaryFile[c], stateFile[c]}
      BY DEF SummaryText
    <2>1. s \in Terminal => cands[c] = s
      BY <2>0 DEF IInv, FileInv, Terminal
    <2>2. s \in Terminal => Finished(c) /\ s = ResultOf(c)
      BY <2>1 DEF IInv, RecordInv
    <2> QED BY <2>2 DEF TruthfulStatus, ResultOf, Finished, Outcomes, Terminal
  <1> QED BY Invariance, <1>1, PTL

(* A result in state.json has its artifacts on disk. *)
THEOREM ArtifactsFirst == Spec => []ArtifactsAhead
  <1>1. IInv => ArtifactsAhead
    BY DEF IInv, FileInv, ArtifactsAhead, SummaryText
  <1> QED BY Invariance, <1>1, PTL

(* No agent survives the launch. *)
THEOREM NoOrphans == Spec => []NoOrphanWorker
  <1>1. IInv => NoOrphanWorker
    BY DEF IInv
  <1> QED BY Invariance, <1>1, PTL

(* A launch that returns has accounted for every candidate it started. *)
THEOREM Completeness == Spec => []ReturnedComplete
  <1>1. IInv => ReturnedComplete
    <2> SUFFICES ASSUME IInv, pc = "returned"
                 PROVE  /\ \A c \in 1..made : cands[c] \in Terminal /\ c \in evidence
                        /\ launched = made /\ completed = made
                        /\ stateFile = cands
                        /\ made < Requested => limitReason
      BY DEF ReturnedComplete
    <2> USE LaunchAssumption DEF IInv, Place, Persisting
    <2>1. made <= off /\ off \in Nat /\ made \in 0..Requested
      BY DEF PositionInv, TypeOK
    <2>2. ASSUME NEW c \in 1..made PROVE c \in Candidates /\ cands[c] \in Terminal /\ c \in evidence
      BY <2>1 DEF RecordInv, Candidates
    <2>3. {d \in Candidates : cands[d] \in Terminal} = 1..made
      BY <2>1, <2>2 DEF RecordInv, Candidates, Terminal
    <2>4. completed = made
      <3>1. Cardinality(1..made) = IF 1 > made THEN 0 ELSE made - 1 + 1
        BY <2>1, FS_Interval
      <3>2. completed = Cardinality(1..made)
        BY <2>3 DEF RecordInv
      <3> QED BY <2>1, <3>1, <3>2
    <2>5. stateFile = cands
      BY DEF LagInv
    <2> QED BY <2>2, <2>4, <2>5 DEF RecordInv
  <1> QED BY Invariance, <1>1, PTL

-----------------------------------------------------------------------------
(* If d belongs to an earlier batch than c, and the batch of c ends at most *)
(* at (k + 1) * m, then d belongs to the first k batches.                   *)
LEMMA EarlierBatch ==
    ASSUME NEW m \in Nat \ {0}, NEW k \in Nat, NEW c \in Nat \ {0}, NEW d \in Nat \ {0},
           c <= k * m + m, (d - 1) \div m < (c - 1) \div m
    PROVE  d <= k * m
  <1> DEFINE q == (c - 1) \div m
             r == (d - 1) \div m
  <1>1. q \in Int /\ r \in Int /\ q * m <= c - 1 /\ d - 1 < r * m + m
    OBVIOUS
  <1> HIDE DEF q, r
  <1>2. q < k + 1
    <2> SUFFICES ASSUME k + 1 <= q PROVE FALSE
      BY <1>1
    <2>1. (k + 1) * m <= q * m
      BY <1>1
    <2> QED BY <1>1, <2>1
  <1>3. r + 1 <= k
    BY <1>1, <1>2 DEF q, r
  <1>4. (r + 1) * m <= k * m
    BY <1>1, <1>3
  <1> QED BY <1>1, <1>4

(* A batch starts when the earlier ones are over and on disk. *)
THEOREM Batches == Spec => []BatchBarrier
  <1>1. IInv => BatchBarrier
    <2> SUFFICES ASSUME IInv, NEW c \in Submitted, NEW d \in Candidates,
                        (d - 1) \div MaxParallel < (c - 1) \div MaxParallel
                 PROVE  stateFile[d] \in Terminal /\ d \in evidenceFile
      BY DEF BatchBarrier
    <2> USE DEF IInv
    <2>1. c \in Candidates /\ c <= made
      BY DEF Submitted, WorkerInv, TypeOK, Candidates
    <2>2. c <= off + MaxParallel
      BY <2>1, BatchBounds, LaunchAssumption DEF PositionInv, TypeOK, Candidates
    <2>3. PICK k \in 0..off : off = k * MaxParallel
      BY DEF Aligned
    <2>4. d <= off
      <3>1. c \in Nat \ {0} /\ d \in Nat \ {0} /\ k \in Nat /\ MaxParallel \in Nat \ {0}
        BY <2>1, LaunchAssumption DEF Candidates, TypeOK
      <3>2. c <= k * MaxParallel + MaxParallel
        BY <2>2, <2>3
      <3>3. d <= k * MaxParallel
        BY <3>1, <3>2, EarlierBatch
      <3> QED BY <2>3, <3>3
    <2> QED BY <2>4 DEF FileInv
  <1> QED BY Invariance, <1>1, PTL

(* How a launch goes and how it ends, for any number of candidates and     *)
(* any parallelism.                                                        *)
THEOREM LaunchSafety == Spec => []LaunchInv
  BY TypeCorrect, Parallelism, Batches, Completeness, NoOrphans, PTL DEF LaunchInv

(* No more than one file is ever cut off. *)
THEOREM OneTorn == Spec => []OneFileTorn
  <1>1. IInv => OneFileTorn
    BY DEF IInv
  <1> QED BY Invariance, <1>1, PTL

(* What the files of the run directory say at any moment, between the      *)
(* opening and the writing of one as well.                                 *)
THEOREM Honesty == Spec => []FilesHonest
  BY RecordedFirst, Truthfulness, ArtifactsFirst, OneTorn, PTL DEF FilesHonest

-----------------------------------------------------------------------------
(* The instance counts as this module does. *)
LEMMA SameCardinality == \A S : Ledger!Cardinality(S) = Cardinality(S)
  BY Zenon DEF Ledger!Cardinality, Cardinality

(* Saving memory to state.json opens or closes at most one ledger entry. *)
LEMMA SaveIsLedgerStep ==
    ASSUME IInv, Persisting \/ pc = "drain", stateFile' = cands
    PROVE  \/ UNCHANGED stateFile
           \/ \E c \in Candidates : Ledger!OpenEntry(c)
           \/ \E c \in Candidates, r \in Terminal : Ledger!CloseEntry(c, r)
  <1> USE LaunchAssumption DEF IInv, Ended, Persisting
  <1>1. PICK c \in Candidates : LagsAt(c)
    BY DEF LagInv
  <1>2. stateFile \in [Candidates -> {"none", "running"} \cup Terminal]
    BY DEF TypeOK
  <1>3. cands \in [Candidates -> {"none", "running"} \cup Terminal]
    BY DEF TypeOK
  <1>4. stateFile' = [stateFile EXCEPT ![c] = cands[c]]
    BY <1>1, <1>2, <1>3 DEF LagsAt
  <1>5. CASE stateFile[c] = cands[c]
    BY <1>2, <1>4, <1>5
  <1>6. CASE stateFile[c] = "none" /\ cands[c] = "running" /\ c = made
    <2>1. \A d \in Candidates : d < c => stateFile[d] # "none"
      BY <1>1, <1>6 DEF LagsAt, RecordInv, TypeOK, Candidates
    <2>2. off < made /\ made <= off + MaxParallel /\ made \in Nat /\ off \in Nat
      BY <1>6, BatchBounds DEF RecordInv, PositionInv, TypeOK, Candidates, Terminal
    <2>3. {d \in Candidates : stateFile[d] = "running"} \subseteq off + 1 .. made - 1
      <3> SUFFICES ASSUME NEW d \in Candidates, stateFile[d] = "running"
                   PROVE  d \in off + 1 .. made - 1
        OBVIOUS
      <3>1. d # c /\ cands[d] = "running"
        BY <1>1, <1>6 DEF LagsAt
      <3>2. off < d /\ d <= made
        BY <3>1 DEF RecordInv, TypeOK, Candidates, Terminal
      <3> QED BY <1>6, <2>2, <3>1, <3>2 DEF Candidates
    <2>4. /\ IsFiniteSet(off + 1 .. made - 1)
          /\ Cardinality(off + 1 .. made - 1)
                = IF off + 1 > made - 1 THEN 0 ELSE made - 1 - (off + 1) + 1
      BY <2>2, FS_Interval
    <2>5. Cardinality(off + 1 .. made - 1) < MaxParallel
      BY <2>2, <2>4
    <2>6. /\ IsFiniteSet({d \in Candidates : stateFile[d] = "running"})
          /\ Cardinality({d \in Candidates : stateFile[d] = "running"})
                <= Cardinality(off + 1 .. made - 1)
      BY <2>3, <2>4, FS_Subset
    <2>7. Cardinality({d \in Candidates : stateFile[d] = "running"}) < MaxParallel
      BY <2>2, <2>4, <2>5, <2>6, FS_CardinalityType
    <2>8. Ledger!OpenEntry(c)
      BY <1>4, <1>6, <2>1, <2>7, SameCardinality
         DEF Ledger!OpenEntry, Ledger!OpenEntries, Ledger!Attempts, Candidates
    <2> QED BY <2>8
  <1>7. CASE stateFile[c] = "running" /\ cands[c] \in Terminal
    <2>1. Ledger!CloseEntry(c, cands[c])
      BY <1>4, <1>7 DEF Ledger!CloseEntry
    <2> QED BY <1>7, <2>1
  <1> QED BY <1>1, <1>5, <1>6, <1>7 DEF LagsAt

LEMMA LedgerStep == IInv /\ [Next]_vars => [Ledger!LedgerNext]_(Ledger!ledgerVars)
  <1> SUFFICES ASSUME IInv, [Next]_vars
               PROVE  Ledger!LedgerNext \/ UNCHANGED Ledger!ledgerVars
    OBVIOUS
  <1> USE DEF memVars, fileVars, Ended
  <1>1. CASE UNCHANGED stateFile /\ (pc' = pc \/ (pc \notin Ended /\ pc' \notin Ended))
    BY <1>1 DEF Ledger!ledgerVars
  <1>2. CASE SaveState
    <2>1. /\ Persisting /\ pc \notin Ended /\ stateFile' = cands
          /\ pc' \in {after, "drain"} /\ UNCHANGED after
      BY <1>2 DEF SaveState, Persisting
    <2>2. CASE pc' = "returned"
      <3>1. stateFile = cands
        BY <2>1, <2>2 DEF IInv, LagInv, Persisting
      <3>2. ASSUME NEW c \in Candidates PROVE stateFile[c] # "running"
        <4>1. made <= off
          BY <2>1, <2>2 DEF IInv, PositionInv, Place
        <4>2. cands[c] = "none" \/ cands[c] \in Terminal
          BY <4>1 DEF IInv, RecordInv, TypeOK, Candidates
        <4> QED BY <3>1, <4>2 DEF Terminal
      <3>3. Ledger!EndLaunch("returned") /\ UNCHANGED stateFile
        BY <2>1, <2>2, <3>1, <3>2
           DEF Ledger!EndLaunch, Ledger!OpenEntries, Ledger!Attempts, Candidates
      <3> QED BY <3>3 DEF Ledger!LedgerNext, Ledger!Ended
    <2>3. CASE pc' # "returned"
      <3>1. pc' \notin Ended
        BY <2>1, <2>3 DEF IInv, TypeOK
      <3>2. CASE UNCHANGED stateFile
        BY <2>1, <3>1, <3>2 DEF Ledger!ledgerVars
      <3> QED BY <2>1, <3>1, <3>2, SaveIsLedgerStep
              DEF Ledger!LedgerNext, Ledger!Attempts, Ledger!Results, Candidates, Terminal
    <2> QED BY <2>2, <2>3
  <1>3. CASE Drain
    <2>1. CASE pc' = "escaped"
      <3>1. Ledger!EndLaunch("escaped") /\ UNCHANGED stateFile
        BY <1>3, <2>1 DEF Drain, Ledger!EndLaunch
      <3> QED BY <3>1 DEF Ledger!LedgerNext, Ledger!Ended
    <2>2. CASE pc' = "aborted"
      <3>1. pc = "drain" /\ stateFile' = cands
        BY <1>3, <2>2 DEF Drain
      <3>2. CASE UNCHANGED stateFile
        <4>1. Ledger!EndLaunch("aborted")
          BY <2>2, <3>1 DEF Ledger!EndLaunch
        <4> QED BY <3>2, <4>1 DEF Ledger!LedgerNext, Ledger!Ended
      <3> QED BY <2>2, <3>1, <3>2, SaveIsLedgerStep
              DEF Ledger!LedgerNext, Ledger!Attempts, Ledger!Results, Candidates, Terminal
    <2> QED BY <1>3, <2>1, <2>2 DEF Drain
  <1>4. CASE Begin \/ StartBatch \/ DeadlineReached \/ AllBatchesDone \/ Schedule
    BY <1>1, <1>4 DEF Begin, StartBatch, DeadlineReached, AllBatchesDone, Schedule, Persist
  <1>5. CASE Submit \/ SubmitFails \/ BatchScheduled \/ EndBatch
    BY <1>1, <1>5 DEF Submit, SubmitFails, BatchScheduled, EndBatch
  <1>6. CASE WriteSummary \/ WriteEvidence \/ WriteFails \/ StorePacket
    BY <1>1, <1>6 DEF WriteSummary, WriteEvidence, WriteFails, StorePacket, Persist, Ended
  <1>7. ASSUME NEW c \in Candidates, TakeResult(c)
        PROVE  Ledger!LedgerNext \/ UNCHANGED Ledger!ledgerVars
    BY <1>1, <1>7 DEF TakeResult
  <1>8. ASSUME NEW c \in Candidates, StartWorker(c) \/ FinishWorker(c)
        PROVE  Ledger!LedgerNext \/ UNCHANGED Ledger!ledgerVars
    BY <1>1, <1>8, WorkerMoves DEF IInv
  <1>9. CASE DeadlinePasses \/ Truncate \/ UNCHANGED vars
    BY <1>1, <1>9 DEF DeadlinePasses, Truncate, vars
  <1> QED BY <1>2, <1>3, <1>4, <1>5, <1>6, <1>7, <1>8, <1>9 DEF Next, MainThread

(* state.json is the ledger that CandidateLedger specifies. *)
THEOREM LedgerRefinement == Spec => ImplementsLedger
  <1>1. Init => Ledger!LedgerInit
    BY DEF Init, Ledger!LedgerInit, Ledger!Attempts, Candidates, Ended
  <1> QED BY Invariance, <1>1, LedgerStep, PTL DEF Spec, ImplementsLedger, Ledger!LedgerSpec

-----------------------------------------------------------------------------
(* A launch takes boundedly many steps.  What is still to do, as a number: *)
(* the candidates to make, the results to collect, the batches to begin    *)
(* and the way of the main thread to its end, each of which costs at most  *)
(* one pass over the files; and what is left of the pass under way, the    *)
(* steps of the workers, and the deadline.                                 *)
Distance ==
    CASE Place = "begin"               -> 7
      [] Place \in {"submit", "check"} -> 6
      [] Place = "schedule"            -> 5
      [] Place = "collect"             -> 4
      [] Place = "packet"              -> 3
      [] Place = "returned"            -> 2
      [] Place = "drain"               -> 1
      [] OTHER                         -> 0

Beyond == IF off < Requested THEN Requested - off ELSE 0

Road == 2 * (Requested - made) + 2 * (Requested - Cardinality(evidence)) + 3 * Beyond + Distance

Unopened == IF Target \in torn THEN 0 ELSE 1

PassLeft ==
    CASE pc = "summary"  -> 4 * (Requested + 1 - wr) + 2 + Unopened
      [] pc = "evidence" -> 4 * (Requested + 1 - wr) + Unopened
      [] pc = "packet"   -> Unopened
      [] OTHER           -> 0

Unsubmitted == {c \in Candidates : worker[c] = "idle"}
Unstarted   == {c \in Candidates : worker[c] \in {"idle", "queued"}}
Unfinished  == {c \in Candidates : worker[c] \notin Outcomes}

PoolLeft == Cardinality(Unsubmitted) + Cardinality(Unstarted) + Cardinality(Unfinished)

ClockLeft == IF deadlinePassed THEN 0 ELSE 1

Effort == (4 * Requested + 4) * Road + PassLeft + PoolLeft + ClockLeft

Spans == /\ Road \in Nat /\ PassLeft \in 0..4 * Requested + 3 /\ ClockLeft \in 0..1
         /\ PoolLeft \in Nat /\ Distance \in 0..7 /\ Beyond \in Nat
         /\ Cardinality(evidence) \in 0..Requested

LEMMA EffortTypes == TypeOK => Spans
  <1> SUFFICES ASSUME TypeOK PROVE Spans
    OBVIOUS
  <1>1. Cardinality(evidence) \in 0..Requested
    BY CandidateCount DEF TypeOK
  <1>2. Distance \in 0..7
    BY DEF Distance
  <1>3. Beyond \in Nat
    BY LaunchAssumption DEF Beyond, TypeOK
  <1>4. Road \in Nat
    BY <1>1, <1>2, <1>3, LaunchAssumption DEF Road, TypeOK
  <1>5. PassLeft \in 0..4 * Requested + 3
    BY LaunchAssumption DEF PassLeft, Unopened, TypeOK
  <1>6. /\ Cardinality(Unsubmitted) \in 0..Requested
        /\ Cardinality(Unstarted) \in 0..Requested
        /\ Cardinality(Unfinished) \in 0..Requested
    <2>1. Unsubmitted \in SUBSET Candidates /\ Unstarted \in SUBSET Candidates
            /\ Unfinished \in SUBSET Candidates
      BY DEF Unsubmitted, Unstarted, Unfinished
    <2> QED BY <2>1, CandidateCount
  <1>7. PoolLeft \in Nat
    BY <1>6, LaunchAssumption DEF PoolLeft
  <1> QED BY <1>1, <1>2, <1>3, <1>4, <1>5, <1>7 DEF ClockLeft, Spans

LEMMA EffortTypesNext == TypeOK' => Spans'
  BY EffortTypes, PTL

(* A shorter road is worth more than a whole pass. *)
LEMMA RoadFirst ==
    ASSUME NEW p \in Nat, NEW r \in Nat, NEW s \in Nat, s < r
    PROVE  p * s + p <= p * r
  <1>1. PICK k \in Nat : r = s + 1 + k
    <2>1. r - s - 1 \in Nat /\ r = s + 1 + (r - s - 1)
      OBVIOUS
    <2> QED BY <2>1
  <1>2. p * r = p * s + p + p * k /\ p * k \in Nat /\ p * s \in Nat
    BY <1>1
  <1> QED BY <1>2

LEMMA MeasureDrops ==
    ASSUME NEW n \in Nat, NEW r \in Nat, NEW s \in Nat,
           NEW a \in 0..4 * n + 3, NEW b \in 0..4 * n + 3,
           NEW w \in Nat, NEW v \in Nat, NEW t \in 0..1, NEW u \in 0..1,
           (s < r /\ v <= w /\ t = u) \/ (s = r /\ b + v + u < a + w + t)
    PROVE  (4 * n + 4) * s + b + v + u < (4 * n + 4) * r + a + w + t
  <1> DEFINE p == 4 * n + 4
  <1>1. p \in Nat /\ b < p
    OBVIOUS
  <1> HIDE DEF p
  <1>2. p * s \in Nat /\ p * r \in Nat
    BY <1>1
  <1>3. CASE s < r /\ v <= w /\ t = u
    <2>1. p * s + p <= p * r
      BY <1>1, <1>3, RoadFirst
    <2> QED BY <1>1, <1>2, <1>3, <2>1 DEF p
  <1>4. CASE s = r /\ b + v + u < a + w + t
    BY <1>2, <1>4 DEF p
  <1> QED BY <1>3, <1>4

(* What the parts of the measure have to do for the whole to shrink.       *)
LEMMA EffortDrops ==
    ASSUME TypeOK, TypeOK',
           \/ Road' < Road /\ PoolLeft' <= PoolLeft /\ ClockLeft' = ClockLeft
           \/ Road' = Road /\ PassLeft' + PoolLeft' + ClockLeft' < PassLeft + PoolLeft + ClockLeft
    PROVE  Effort' < Effort
  <1>1. /\ Road \in Nat /\ PassLeft \in 0..4 * Requested + 3 /\ ClockLeft \in 0..1
        /\ PoolLeft \in Nat /\ Requested \in Nat
    BY EffortTypes, LaunchAssumption DEF Spans
  <1>2. /\ Road' \in Nat /\ PassLeft' \in 0..4 * Requested + 3 /\ ClockLeft' \in 0..1
        /\ PoolLeft' \in Nat
    BY EffortTypesNext DEF Spans
  <1>3. (4 * Requested + 4) * Road' + PassLeft' + PoolLeft' + ClockLeft'
            < (4 * Requested + 4) * Road + PassLeft + PoolLeft + ClockLeft
    BY <1>1, <1>2, MeasureDrops
  <1> QED BY <1>3 DEF Effort

(* The main thread gets on with its way whenever it does not write files.  *)
LEMMA RoadAhead ==
    ASSUME IInv, IInv',
           \/ Begin \/ StartBatch \/ DeadlineReached \/ AllBatchesDone \/ Schedule \/ Submit
           \/ SubmitFails \/ BatchScheduled \/ EndBatch \/ Drain \/ WriteFails
    PROVE  Road' < Road
  <1> USE LaunchAssumption DEF Place, Persisting, memVars, fileVars
  <1>0. TypeOK /\ PositionInv /\ Cardinality(evidence) \in 0..Requested
    BY EffortTypes DEF IInv, Spans
  <1>1. CASE Begin
    BY <1>0, <1>1 DEF TypeOK, Road, Beyond, Distance, Begin, Persist
  <1>2. CASE StartBatch
    BY <1>0, <1>2 DEF TypeOK, Road, Beyond, Distance, StartBatch
  <1>3. CASE DeadlineReached \/ AllBatchesDone
    BY <1>0, <1>3 DEF TypeOK, Road, Beyond, Distance, DeadlineReached, AllBatchesDone, Persist
  <1>4. CASE Schedule
    BY <1>0, <1>4, BatchBounds DEF TypeOK, Road, Beyond, Distance, Schedule, Persist
  <1>5. CASE Submit \/ SubmitFails
    BY <1>0, <1>5 DEF TypeOK, Road, Beyond, Distance, Submit, SubmitFails
  <1>6. CASE BatchScheduled
    BY <1>0, <1>6 DEF TypeOK, Road, Beyond, Distance, BatchScheduled
  <1>7. CASE EndBatch
    BY <1>0, <1>7 DEF TypeOK, PositionInv, Road, Beyond, Distance, EndBatch
  <1>8. CASE Drain
    BY <1>0, <1>8 DEF TypeOK, Road, Beyond, Distance, Drain
  <1>9. CASE WriteFails
    BY <1>0, <1>9 DEF TypeOK, Road, Beyond, Distance, WriteFails
  <1> QED BY <1>1, <1>2, <1>3, <1>4, <1>5, <1>6, <1>7, <1>8, <1>9

LEMMA RoadOfCollect ==
    ASSUME IInv, (\E c \in Candidates : TakeResult(c)) \/ StorePacket
    PROVE  Road' < Road
  <1> USE LaunchAssumption DEF Place, Persisting, memVars, fileVars
  <1>0. TypeOK /\ PositionInv /\ Cardinality(evidence) \in 0..Requested
    BY EffortTypes DEF IInv, Spans
  <1>1. CASE StorePacket
    <2>1. IsFiniteSet(evidence) /\ wr \notin evidence
      BY <1>0, <1>1, CandidateCount DEF IInv, PassInv, TypeOK, StorePacket
    <2>2. Cardinality(evidence \cup {wr}) = Cardinality(evidence) + 1
      BY <2>1, FS_AddElement
    <2>3. evidence' = evidence \cup {wr}
      BY <1>1 DEF StorePacket
    <2>4. Cardinality(evidence') = Cardinality(evidence) + 1
      BY <2>2, <2>3
    <2> QED BY <1>0, <1>1, <2>4 DEF TypeOK, Road, Beyond, Distance, StorePacket, Persist
  <1>2. ASSUME NEW c \in Candidates, TakeResult(c) PROVE Road' < Road
    BY <1>0, <1>2 DEF TypeOK, Road, Beyond, Distance, TakeResult
  <1> QED BY <1>1, <1>2

(* Writing gets on with the pass, and the last write ends it.              *)
LEMMA PassGoesOn ==
    ASSUME IInv, Truncate \/ WriteSummary \/ WriteEvidence \/ SaveState
    PROVE  Road' < Road \/ (Road' = Road /\ PassLeft' < PassLeft)
  <1> USE LaunchAssumption DEF Place, Persisting, memVars, fileVars
  <1>0. TypeOK /\ PositionInv /\ Cardinality(evidence) \in 0..Requested
    BY EffortTypes DEF IInv, Spans
  <1>1. CASE WriteSummary \/ WriteEvidence
    <2>1. Unopened = 0 /\ Unopened' \in 0..1
      BY <1>1 DEF Unopened, WriteSummary, WriteEvidence
    <2> QED BY <1>0, <1>1, <2>1 DEF TypeOK, Road, Beyond, Distance, PassLeft, WriteSummary, WriteEvidence
  <1>2. CASE SaveState
    <2>1. Unopened \in 0..1
      BY DEF Unopened
    <2>2. PassLeft >= 2
      BY <1>0, <1>2, <2>1 DEF TypeOK, PassLeft, SaveState
    <2>3. /\ UNCHANGED <<made, evidence, off>> /\ pc = "summary"
          /\ pc' = after \/ pc' = "drain"
          /\ after \in {"check", "submit", "collect", "returned"}
      BY <1>0, <1>2 DEF TypeOK, SaveState
    <2>4. Beyond' = Beyond /\ Beyond \in Nat
      BY <1>0, <2>3 DEF Beyond, TypeOK
    <2>5. CASE pc' = after
      <3>1. Distance' = Distance /\ PassLeft' = 0
        BY <2>3, <2>5 DEF Distance, PassLeft
      <3>2. Road' = Road
        BY <2>3, <2>4, <3>1 DEF Road
      <3>3. PassLeft \in Int
        BY <1>0, EffortTypes, LaunchAssumption DEF Spans
      <3> QED BY <2>2, <3>1, <3>2, <3>3
    <2>6. CASE pc' = "drain"
      <3>1. Distance' < Distance /\ Distance \in Nat /\ Distance' \in Nat
        BY <2>3, <2>6 DEF Distance
      <3> QED BY <1>0, <2>3, <2>4, <3>1 DEF Road, TypeOK
    <2> QED BY <2>3, <2>5, <2>6
  <1>3. CASE Truncate
    <2>1. Unopened = 1 /\ Unopened' = 0
      BY <1>3 DEF Unopened, Target, Truncate
    <2> QED BY <1>0, <1>3, <2>1 DEF TypeOK, Road, Beyond, Distance, PassLeft, Truncate
  <1> QED BY <1>1, <1>2, <1>3

(* The workers only go forward.                                            *)
LEMMA PoolGoesOn ==
    ASSUME TypeOK
    PROVE  /\ \A c \in Candidates : StartWorker(c) \/ FinishWorker(c) => PoolLeft' < PoolLeft
           /\ PositionInv /\ WorkerInv /\ Submit => PoolLeft' <= PoolLeft
  <1> DEFINE Sizes == /\ IsFiniteSet(Unsubmitted) /\ Cardinality(Unsubmitted) \in Nat
                      /\ IsFiniteSet(Unstarted) /\ Cardinality(Unstarted) \in Nat
                      /\ IsFiniteSet(Unfinished) /\ Cardinality(Unfinished) \in Nat
  <1>1. Sizes
    <2>1. Unsubmitted \in SUBSET Candidates /\ Unstarted \in SUBSET Candidates
            /\ Unfinished \in SUBSET Candidates
      BY DEF Unsubmitted, Unstarted, Unfinished
    <2> QED BY <2>1, CandidateCount
  <1>2. ASSUME NEW c \in Candidates, StartWorker(c)
        PROVE  PoolLeft' < PoolLeft
    <2>1. /\ Unsubmitted' = Unsubmitted /\ Unfinished' = Unfinished
          /\ Unstarted' = Unstarted \ {c} /\ c \in Unstarted
      BY <1>2 DEF TypeOK, StartWorker, Unsubmitted, Unstarted, Unfinished, Outcomes, Terminal
    <2>2. Cardinality(Unstarted \ {c}) = Cardinality(Unstarted) - 1
      BY <1>1, <2>1, FS_RemoveElement
    <2> QED BY <1>1, <2>1, <2>2 DEF PoolLeft
  <1>3. ASSUME NEW c \in Candidates, FinishWorker(c)
        PROVE  PoolLeft' < PoolLeft
    <2>1. /\ Unsubmitted' = Unsubmitted /\ Unstarted' = Unstarted
          /\ Unfinished' = Unfinished \ {c} /\ c \in Unfinished
      BY <1>3 DEF TypeOK, FinishWorker, Unsubmitted, Unstarted, Unfinished, Outcomes, Terminal
    <2>2. Cardinality(Unfinished \ {c}) = Cardinality(Unfinished) - 1
      BY <1>1, <2>1, FS_RemoveElement
    <2> QED BY <1>1, <2>1, <2>2 DEF PoolLeft
  <1>4. ASSUME PositionInv, WorkerInv, Submit
        PROVE  PoolLeft' <= PoolLeft
    <2>1. made \in Candidates /\ worker[made] = "idle"
      BY <1>4, LaunchAssumption DEF TypeOK, PositionInv, WorkerInv, Submit, Place, Persisting, Candidates
    <2>2. /\ Unsubmitted' = Unsubmitted \ {made} /\ Unstarted' = Unstarted /\ Unfinished' = Unfinished
          /\ made \in Unsubmitted
      BY <1>4, <2>1 DEF TypeOK, Submit, Unsubmitted, Unstarted, Unfinished, Outcomes, Terminal
    <2>3. Cardinality(Unsubmitted \ {made}) = Cardinality(Unsubmitted) - 1
      BY <1>1, <2>2, FS_RemoveElement
    <2> QED BY <1>1, <2>2, <2>3 DEF PoolLeft
  <1> QED BY <1>2, <1>3, <1>4

LEMMA EffortFrames ==
    /\ UNCHANGED worker => PoolLeft' = PoolLeft
    /\ UNCHANGED deadlinePassed => ClockLeft' = ClockLeft
    /\ UNCHANGED <<pc, after, wr, torn, memVars>> => Road' = Road /\ PassLeft' = PassLeft
  <1>1. UNCHANGED worker => PoolLeft' = PoolLeft
    BY DEF PoolLeft, Unsubmitted, Unstarted, Unfinished
  <1>2. UNCHANGED deadlinePassed => ClockLeft' = ClockLeft
    BY DEF ClockLeft
  <1>3. UNCHANGED <<pc, after, wr, torn, memVars>> => Road' = Road
    BY DEF Road, Beyond, Distance, Place, Persisting, memVars
  <1>4. UNCHANGED <<pc, after, wr, torn, memVars>> => PassLeft' = PassLeft
    BY DEF PassLeft, Unopened, Target
  <1> QED BY <1>1, <1>2, <1>3, <1>4

LEMMA SumDrops ==
    ASSUME NEW a \in Int, NEW b \in Int, NEW c \in Int, NEW x \in Int, NEW y \in Int, NEW z \in Int,
           \/ a < x /\ b = y /\ c = z
           \/ a = x /\ b < y /\ c = z
    PROVE  a + b + c < x + y + z
  OBVIOUS

LEMMA EffortStep == IInv /\ IInv' /\ Next => Effort' < Effort
  <1> SUFFICES ASSUME IInv, IInv', Next PROVE Effort' < Effort
    OBVIOUS
  <1>0. TypeOK /\ TypeOK' /\ PositionInv /\ WorkerInv
    BY DEF IInv
  <1>1. /\ PassLeft \in Int /\ PassLeft' \in Int /\ PoolLeft \in Int /\ PoolLeft' \in Int
        /\ ClockLeft \in Int /\ ClockLeft' \in Int
    BY <1>0, EffortTypes, EffortTypesNext, LaunchAssumption DEF Spans
  <1>2. CASE \/ Begin \/ StartBatch \/ DeadlineReached \/ AllBatchesDone \/ Schedule
             \/ SubmitFails \/ BatchScheduled \/ EndBatch \/ Drain \/ WriteFails
    <2>1. Road' < Road
      BY <1>2, RoadAhead
    <2>2. UNCHANGED <<worker, deadlinePassed>>
      BY <1>2 DEF Begin, StartBatch, DeadlineReached, AllBatchesDone, Schedule, SubmitFails,
                  BatchScheduled, EndBatch, Drain, WriteFails
    <2>3. PoolLeft' <= PoolLeft /\ ClockLeft' = ClockLeft
      BY <1>1, <2>2, EffortFrames
    <2> QED BY <1>0, <2>1, <2>3, EffortDrops
  <1>3. CASE Submit
    <2>1. Road' < Road /\ PoolLeft' <= PoolLeft
      BY <1>0, <1>3, RoadAhead, PoolGoesOn
    <2>2. ClockLeft' = ClockLeft
      BY <1>3, EffortFrames DEF Submit
    <2> QED BY <1>0, <2>1, <2>2, EffortDrops
  <1>4. CASE (\E c \in Candidates : TakeResult(c)) \/ StorePacket
    <2>1. Road' < Road
      BY <1>4, RoadOfCollect
    <2>2. UNCHANGED <<worker, deadlinePassed>>
      BY <1>4 DEF TakeResult, StorePacket
    <2>3. PoolLeft' <= PoolLeft /\ ClockLeft' = ClockLeft
      BY <1>1, <2>2, EffortFrames
    <2> QED BY <1>0, <2>1, <2>3, EffortDrops
  <1>5. CASE Truncate \/ WriteSummary \/ WriteEvidence \/ SaveState
    <2>1. UNCHANGED <<worker, deadlinePassed>>
      BY <1>5 DEF Truncate, WriteSummary, WriteEvidence, SaveState
    <2>2. PoolLeft' = PoolLeft /\ ClockLeft' = ClockLeft
      BY <2>1, EffortFrames
    <2>3. PoolLeft' <= PoolLeft
      BY <1>1, <2>2
    <2>4. CASE Road' < Road
      BY <1>0, <2>2, <2>3, <2>4, EffortDrops
    <2>5. CASE Road' = Road /\ PassLeft' < PassLeft
      <3>1. PassLeft' + PoolLeft' + ClockLeft' < PassLeft + PoolLeft + ClockLeft
        BY <1>1, <2>2, <2>5, SumDrops
      <3> QED BY <1>0, <2>5, <3>1, EffortDrops
    <2> QED BY <1>5, <2>4, <2>5, PassGoesOn
  <1>6. ASSUME NEW c \in Candidates, StartWorker(c) \/ FinishWorker(c)
        PROVE  Effort' < Effort
    <2>1. PoolLeft' < PoolLeft
      BY <1>0, <1>6, PoolGoesOn
    <2>2. Road' = Road /\ PassLeft' = PassLeft /\ ClockLeft' = ClockLeft
      BY <1>6, EffortFrames DEF StartWorker, FinishWorker, fileVars
    <2>3. PassLeft' + PoolLeft' + ClockLeft' < PassLeft + PoolLeft + ClockLeft
      BY <1>1, <2>1, <2>2, SumDrops
    <2> QED BY <1>0, <2>2, <2>3, EffortDrops
  <1>7. CASE DeadlinePasses
    <2>1. Road' = Road /\ PassLeft' = PassLeft /\ PoolLeft' = PoolLeft
      BY <1>7, EffortFrames DEF DeadlinePasses, fileVars
    <2>2. ClockLeft = 1 /\ ClockLeft' = 0
      BY <1>7 DEF DeadlinePasses, ClockLeft
    <2>3. PassLeft' + PoolLeft' + ClockLeft' < PassLeft + PoolLeft + ClockLeft
      BY <1>1, <2>1, <2>2
    <2> QED BY <1>0, <2>1, <2>3, EffortDrops
  <1> QED BY <1>2, <1>3, <1>4, <1>5, <1>6, <1>7 DEF Next, MainThread

(* The steps of a launch, at most: the worth of the way before the first.  *)
LaunchSteps == (4 * Requested + 4) * (7 * Requested + 7) + 3 * Requested + 1

LEMMA EffortAtFirst == Init => Effort = LaunchSteps
  <1> SUFFICES ASSUME Init PROVE Effort = LaunchSteps
    OBVIOUS
  <1> USE LaunchAssumption DEF Init, Outcomes, Terminal
  <1>1. Cardinality(evidence) = 0
    BY FS_EmptySet
  <1>2. Road = 7 * Requested + 7
    BY <1>1 DEF Road, Beyond, Distance, Place, Persisting
  <1>3. PassLeft = 0 /\ ClockLeft = 1
    BY DEF PassLeft, ClockLeft
  <1>4. Unsubmitted = Candidates /\ Unstarted = Candidates /\ Unfinished = Candidates
    BY DEF Unsubmitted, Unstarted, Unfinished
  <1>5. Cardinality(Candidates) = Requested
    BY FS_Interval DEF Candidates
  <1>6. PoolLeft = 3 * Requested
    BY <1>4, <1>5 DEF PoolLeft
  <1>7. \A m, n \in Int : m * n + 0 + 3 * Requested + 1 = m * n + 3 * Requested + 1
    OBVIOUS
  <1>8. Effort = (4 * Requested + 4) * (7 * Requested + 7) + 0 + 3 * Requested + 1
    BY <1>2, <1>3, <1>6 DEF Effort
  <1> QED BY <1>7, <1>8 DEF LaunchSteps

(* A launch comes to rest: what is left to do is a natural number, and     *)
(* every step of the main thread, of a worker or of the clock, failures    *)
(* included, makes it smaller.  So a launch has no infinite run, whoever   *)
(* is scheduled, and no more steps than LaunchSteps.                       *)
THEOREM LaunchBounded ==
    Spec => Effort = LaunchSteps /\ [](Effort \in Nat) /\ [][Effort' < Effort]_vars
  <1>1. IInv => Effort \in Nat
    <2>1. IInv => /\ Road \in Nat /\ PassLeft \in Nat /\ PoolLeft \in Nat /\ ClockLeft \in Nat
                  /\ 4 * Requested + 4 \in Nat
      BY EffortTypes, LaunchAssumption DEF IInv, Spans
    <2>2. \A p, r \in Nat : p * r \in Nat
      OBVIOUS
    <2>3. IInv => (4 * Requested + 4) * Road \in Nat
      BY <2>1, <2>2
    <2> QED BY <2>1, <2>3 DEF Effort
  <1>2. IInv /\ IInv' /\ [Next]_vars => [Effort' < Effort]_vars
    BY EffortStep
  <1>3. Spec => [][Next]_vars
    BY PTL DEF Spec
  <1>4. Spec => Effort = LaunchSteps
    BY EffortAtFirst DEF Spec
  <1> QED BY <1>1, <1>2, <1>3, <1>4, Invariance, PTL

(* The guards of the steps: of the main thread ...                         *)
MainReady ==
    \/ pc \in {"begin", "check", "submit", "packet", "summary", "evidence"}
    \/ pc = "schedule" /\ made <= BatchEnd
    \/ pc = "collect" /\ (Batch \subseteq evidence \/ \E c \in Batch \ evidence : Finished(c))
    \/ pc = "drain" /\ \A c \in Submitted : Finished(c)

(* ... and of the workers.                                                 *)
WorkerReady ==
    \E c \in Candidates :
        \/ worker[c] = "running"
        \/ worker[c] = "queued" /\ Cardinality(Running) < Cardinality(Batch)

LEMMA PoolReady ==
    ASSUME TypeOK, NEW c \in Candidates, c \in Batch, worker[c] \in {"queued", "running"}
    PROVE  WorkerReady
  <1>1. CASE \E d \in Candidates : worker[d] = "running"
    BY <1>1 DEF WorkerReady
  <1>2. CASE ~\E d \in Candidates : worker[d] = "running"
    <2>1. Cardinality(Running) = 0
      BY <1>2, FS_EmptySet DEF Running
    <2>2. IsFiniteSet(Batch) /\ Batch # {}
      BY BatchSize
    <2>3. Cardinality(Batch) \in Nat /\ Cardinality(Batch) # 0
      BY <2>2, FS_EmptySet, FS_CardinalityType
    <2>4. worker[c] = "queued" /\ Cardinality(Running) < Cardinality(Batch)
      BY <1>2, <2>1, <2>3
    <2> QED BY <2>4 DEF WorkerReady
  <1> QED BY <1>1, <1>2

(* The launch is never stuck: until it has ended, the guard of some step   *)
(* holds.  The main thread waits only for workers, and among those it      *)
(* waits for there is one that runs, or one for which the pool has room.   *)
THEOREM LaunchNeverStuck == Spec => [](pc \in Ended \/ MainReady \/ WorkerReady)
  <1>1. IInv => pc \in Ended \/ MainReady \/ WorkerReady
    <2> SUFFICES ASSUME IInv, pc \notin Ended, ~MainReady
                 PROVE  WorkerReady
      OBVIOUS
    <2>0. TypeOK /\ PositionInv /\ WorkerInv /\ RecordInv
      BY DEF IInv
    <2>1. \E c \in Candidates : c \in Batch /\ ~Finished(c) /\ worker[c] # "idle"
      <3>1. CASE pc = "collect"
        <4>1. PICK c \in Batch : ~Finished(c)
          BY <3>1 DEF MainReady
        <4>2. c \in Candidates /\ c <= made
          BY <2>0, <3>1, <4>1, BatchBounds, LaunchAssumption
             DEF Batch, Candidates, TypeOK, PositionInv, Place, Persisting
        <4>3. worker[c] # "idle"
          BY <2>0, <3>1, <4>2 DEF WorkerInv, Place, Persisting, Broken
        <4> QED BY <4>1, <4>2, <4>3
      <3>2. CASE pc = "drain"
        <4>1. PICK c \in Submitted : ~Finished(c)
          BY <3>2 DEF MainReady
        <4>2. c \in Candidates /\ worker[c] # "idle"
          BY DEF Submitted
        <4>3. c <= made
          BY <2>0, <4>2, LaunchAssumption DEF WorkerInv, TypeOK, Candidates
        <4>4. ~(c <= off)
          BY <2>0, <4>1, <4>2 DEF RecordInv
        <4>5. c \in Batch
          BY <2>0, <4>2, <4>3, <4>4, BatchBounds, LaunchAssumption
             DEF Batch, Candidates, TypeOK, PositionInv
        <4> QED BY <4>1, <4>2, <4>5
      <3>3. pc \in {"collect", "drain"}
        <4>1. pc \in {"begin", "check", "schedule", "submit", "collect", "packet", "summary",
                      "evidence", "drain"}
          BY <2>0 DEF TypeOK
        <4>2. pc # "schedule"
          BY <2>0 DEF MainReady, TypeOK, PositionInv
        <4> QED BY <4>1, <4>2 DEF MainReady
      <3> QED BY <3>1, <3>2, <3>3
    <2>2. PICK c \in Candidates : c \in Batch /\ ~Finished(c) /\ worker[c] # "idle"
      BY <2>1
    <2>3. worker[c] \in {"queued", "running"}
      BY <2>0, <2>2 DEF TypeOK, Finished
    <2> QED BY <2>0, <2>2, <2>3, PoolReady
  <1> QED BY <1>1, Invariance, PTL
=============================================================================
