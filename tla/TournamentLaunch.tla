-------------------------- MODULE TournamentLaunch --------------------------
(***************************************************************************)
(* h_launch_tournament_candidates of agentic/tools.py: candidates are      *)
(* launched in batches of at most MaxParallel, each batch on a thread pool *)
(* of its own.  The main thread records a placeholder for a candidate,     *)
(* persists it and only then submits the worker; it then collects results  *)
(* in the order in which the workers finish, persisting after each.        *)
(*                                                                         *)
(* The state of the files between any two steps is what a killed process   *)
(* leaves behind.  state.json is replaced in one step (durable_write_text),*)
(* while runner_summary.json and evidence.json are opened, and so emptied, *)
(* in one step and written in another.  Any write (and any event record)   *)
(* may raise: the pool is drained and the exception reaches                *)
(* execute_tool_with_policy, which saves the state and returns an error.   *)
(*                                                                         *)
(* A definition named Mut... is a mistake one could make in this code; the *)
(* properties below are checked to fail when it takes the place of the     *)
(* definition that follows it.                                             *)
(***************************************************************************)
EXTENDS Naturals, FiniteSets

CONSTANTS Requested,    \* inp.attempts or state.candidate_attempts
          MaxParallel   \* coding_backend.max_parallel or ctx.max_parallel

ASSUME LaunchAssumption ==
    /\ Requested \in Nat \ {0}
    /\ MaxParallel \in Nat \ {0}

VARIABLES
    pc,             \* where the main thread is
    after,          \* where it goes on once _persist_tournament_state is done
    wr,             \* the candidate whose artifact file is written next
    off,            \* first index of the current batch, counted from 0
    made,           \* number of candidates launched: len(made) = next_index-1
    cands,          \* status of each candidate of state.candidates
    worker,         \* each candidate's future: not submitted, queued, ...
    evidence,       \* keys of state.candidate_evidence_packets
    launched,       \* state.tournament_candidates_launched
    completed,      \* state.tournament_candidates_completed
    limitReason,    \* state.candidate_launch_limit_reason is set
    deadlinePassed, \* time.time() >= state.candidate_generation_deadline
    summaryFile,    \* status last written to candidates/<id>/runner_summary.json
    evidenceFile,   \* candidates whose evidence.json has been written
    torn,           \* the files that are cut off: <<"summary", c>>, <<"evidence", c>>
    stateFile       \* status of each candidate in state.json

memVars  == <<off, made, cands, evidence, launched, completed, limitReason>>
fileVars == <<summaryFile, evidenceFile, torn, stateFile>>
vars == <<pc, after, wr, memVars, worker, deadlinePassed, fileVars>>

Candidates == 1..Requested
Terminal   == {"completed", "failed"}
Outcomes   == Terminal \cup {"raised"}
Ended      == {"returned", "aborted", "escaped"}

MutBatchEnd == off + MaxParallel

MutBatchEndOff == IF off + MaxParallel + 1 < Requested THEN off + MaxParallel + 1 ELSE Requested

BatchEnd == IF off + MaxParallel < Requested THEN off + MaxParallel ELSE Requested
Batch    == off + 1 .. BatchEnd
Submitted == {c \in Candidates : worker[c] # "idle"}
Running   == {c \in Candidates : worker[c] = "running"}
Finished(c) == worker[c] \in Outcomes

(* What the collector stores for a finished future: the worker's own       *)
(* attempt, or the placeholder marked failed when the worker raised.       *)
MutResultOf(c) == IF worker[c] = "raised" THEN "completed" ELSE worker[c]

ResultOf(c) == IF worker[c] = "raised" THEN "failed" ELSE worker[c]

Init ==
    /\ pc = "begin" /\ after = "check" /\ wr = 1
    /\ off = 0 /\ made = 0
    /\ cands = [c \in Candidates |-> "none"]
    /\ worker = [c \in Candidates |-> "idle"]
    /\ evidence = {}
    /\ launched = 0 /\ completed = 0
    /\ limitReason = FALSE /\ deadlinePassed = FALSE
    /\ summaryFile = [c \in Candidates |-> "none"]
    /\ evidenceFile = {} /\ torn = {}
    /\ stateFile = [c \in Candidates |-> "none"]

-----------------------------------------------------------------------------
(* _persist_tournament_state: the artifact files of every candidate in     *)
(* order, then state.json.                                                 *)

Persist(k) == pc' = "summary" /\ after' = k /\ wr' = 1

(* The file the main thread is about to write.                             *)
Target == <<IF pc = "summary" THEN "summary" ELSE "evidence", wr>>

(* It is opened: write_json_utf8 without atomic cuts it off before it      *)
(* writes.                                                                 *)
Truncate ==
    /\ pc \in {"evidence", "packet"} \/ (pc = "summary" /\ wr <= made)
    /\ Target \notin torn
    /\ torn' = torn \cup {Target}
    /\ UNCHANGED <<pc, after, wr, memVars, worker, deadlinePassed, summaryFile, evidenceFile,
                   stateFile>>

(* runner_summary.json of candidate wr; its evidence.json follows if the   *)
(* candidate has an evidence packet.                                       *)
MutWriteSummary ==
    /\ pc = "summary" /\ wr <= made /\ Target \in torn
    /\ summaryFile' = IF summaryFile[wr] = "none"
                      THEN [summaryFile EXCEPT ![wr] = cands[wr]] ELSE summaryFile
    /\ torn' = torn \ {Target}
    /\ IF wr \in evidence THEN pc' = "evidence" /\ wr' = wr
                          ELSE pc' = "summary" /\ wr' = wr + 1
    /\ UNCHANGED <<after, memVars, worker, deadlinePassed, evidenceFile, stateFile>>

WriteSummary ==
    /\ pc = "summary" /\ wr <= made /\ Target \in torn
    /\ summaryFile' = [summaryFile EXCEPT ![wr] = cands[wr]]
    /\ torn' = torn \ {Target}
    /\ IF wr \in evidence THEN pc' = "evidence" /\ wr' = wr
                          ELSE pc' = "summary" /\ wr' = wr + 1
    /\ UNCHANGED <<after, memVars, worker, deadlinePassed, evidenceFile, stateFile>>

WriteEvidence ==
    /\ pc = "evidence" /\ Target \in torn
    /\ evidenceFile' = evidenceFile \cup {wr}
    /\ torn' = torn \ {Target}
    /\ pc' = "summary" /\ wr' = wr + 1
    /\ UNCHANGED <<after, memVars, worker, deadlinePassed, summaryFile, stateFile>>

(* state.save, then the state_saved event; recording the event may raise.  *)
SaveState ==
    /\ pc = "summary" /\ wr > made
    /\ stateFile' = cands
    /\ pc' \in {after, "drain"}
    /\ UNCHANGED <<after, wr, memVars, worker, deadlinePassed, summaryFile, evidenceFile, torn>>

(* A write raises, or the packet cannot be built: state.json, after its    *)
(* retries, is left as it was; the file of a candidate may have been cut   *)
(* off by then (torn stays).                                               *)
WriteFails ==
    /\ pc \in {"summary", "evidence", "packet"}
    /\ pc' = "drain"
    /\ UNCHANGED <<after, wr, memVars, worker, deadlinePassed, fileVars>>

-----------------------------------------------------------------------------
(* The main thread.                                                        *)

Begin ==
    /\ pc = "begin"
    /\ Persist("check")
    /\ UNCHANGED <<memVars, worker, deadlinePassed, fileVars>>

(* The head of the loop over batches. *)
StartBatch ==
    /\ pc = "check" /\ off < Requested /\ ~deadlinePassed
    /\ pc' = "schedule"
    /\ UNCHANGED <<after, wr, memVars, worker, deadlinePassed, fileVars>>

MutDeadlineReached ==
    /\ pc = "check" /\ off < Requested /\ deadlinePassed
    /\ launched' = made
    /\ Persist("returned")
    /\ UNCHANGED <<off, made, cands, evidence, completed, limitReason, worker,
                   deadlinePassed, fileVars>>

DeadlineReached ==
    /\ pc = "check" /\ off < Requested /\ deadlinePassed
    /\ limitReason' = TRUE
    /\ launched' = made
    /\ Persist("returned")
    /\ UNCHANGED <<off, made, cands, evidence, completed, worker, deadlinePassed, fileVars>>

AllBatchesDone ==
    /\ pc = "check" /\ off >= Requested
    /\ launched' = made
    /\ Persist("returned")
    /\ UNCHANGED <<off, made, cands, evidence, completed, limitReason, worker,
                   deadlinePassed, fileVars>>

(* The placeholder of the next candidate is appended and persisted.        *)
MutSchedule ==
    /\ pc = "schedule" /\ made < BatchEnd
    /\ made' = made + 1
    /\ cands' = [cands EXCEPT ![made + 1] = "running"]
    /\ launched' = made + 1
    /\ pc' = "submit"
    /\ UNCHANGED <<after, wr, off, evidence, completed, limitReason, worker,
                   deadlinePassed, fileVars>>

Schedule ==
    /\ pc = "schedule" /\ made < BatchEnd
    /\ made' = made + 1
    /\ cands' = [cands EXCEPT ![made + 1] = "running"]
    /\ launched' = made + 1
    /\ Persist("submit")
    /\ UNCHANGED <<off, evidence, completed, limitReason, worker, deadlinePassed, fileVars>>

(* candidate_attempt_started is recorded and the worker is submitted.      *)
Submit ==
    /\ pc = "submit"
    /\ worker' = [worker EXCEPT ![made] = "queued"]
    /\ pc' = "schedule"
    /\ UNCHANGED <<after, wr, memVars, deadlinePassed, fileVars>>

(* The event record raises, or the pool cannot start a thread.             *)
SubmitFails ==
    /\ pc = "submit"
    /\ pc' = "drain"
    /\ UNCHANGED <<after, wr, memVars, worker, deadlinePassed, fileVars>>

BatchScheduled ==
    /\ pc = "schedule" /\ made = BatchEnd
    /\ pc' = "collect"
    /\ UNCHANGED <<after, wr, memVars, worker, deadlinePassed, fileVars>>

(* One turn of the as_completed loop: the result replaces the placeholder  *)
(* and is counted ...                                                      *)
TakeResult(c) ==
    /\ pc = "collect"
    /\ c \in Batch \ evidence
    /\ Finished(c)
    /\ cands' = [cands EXCEPT ![c] = ResultOf(c)]
    /\ completed' = Cardinality({d \in Candidates : cands'[d] \in Terminal})
    /\ pc' = "packet" /\ wr' = c
    /\ UNCHANGED <<after, off, made, evidence, launched, limitReason, worker, deadlinePassed,
                   fileVars>>

(* ... its evidence packet is built, which writes evidence.json, and kept. *)
StorePacket ==
    /\ pc = "packet" /\ Target \in torn
    /\ evidenceFile' = evidenceFile \cup {wr}
    /\ torn' = torn \ {Target}
    /\ evidence' = evidence \cup {wr}
    /\ Persist("collect")
    /\ UNCHANGED <<off, made, cands, launched, completed, limitReason, worker, deadlinePassed,
                   summaryFile, stateFile>>

MutEndBatchEarly ==
    /\ pc = "collect" /\ Batch \cap evidence # {}
    /\ off' = off + MaxParallel
    /\ pc' = "check"
    /\ UNCHANGED <<after, wr, made, cands, evidence, launched, completed, limitReason,
                   worker, deadlinePassed, fileVars>>

MutEndBatchCompleted ==
    /\ pc = "collect" /\ \A c \in Batch : cands[c] = "completed"
    /\ off' = off + MaxParallel
    /\ pc' = "check"
    /\ UNCHANGED <<after, wr, made, cands, evidence, launched, completed, limitReason,
                   worker, deadlinePassed, fileVars>>

EndBatch ==
    /\ pc = "collect" /\ Batch \subseteq evidence
    /\ off' = off + MaxParallel
    /\ pc' = "check"
    /\ UNCHANGED <<after, wr, made, cands, evidence, launched, completed, limitReason,
                   worker, deadlinePassed, fileVars>>

(* Leaving the pool's with block waits for its workers; then               *)
(* execute_tool_with_policy saves state.json, which may raise again.       *)
MutDrain ==
    /\ pc = "drain"
    /\ \/ pc' = "aborted" /\ stateFile' = cands
       \/ pc' = "escaped" /\ UNCHANGED stateFile
    /\ UNCHANGED <<after, wr, memVars, worker, deadlinePassed, summaryFile, evidenceFile, torn>>

Drain ==
    /\ pc = "drain"
    /\ \A c \in Submitted : Finished(c)
    /\ \/ pc' = "aborted" /\ stateFile' = cands
       \/ pc' = "escaped" /\ UNCHANGED stateFile
    /\ UNCHANGED <<after, wr, memVars, worker, deadlinePassed, summaryFile, evidenceFile, torn>>

-----------------------------------------------------------------------------
(* The pool's threads (max_workers = len(batch)) and the clock.            *)

StartWorker(c) ==
    /\ worker[c] = "queued"
    /\ Cardinality(Running) < Cardinality(Batch)
    /\ worker' = [worker EXCEPT ![c] = "running"]
    /\ UNCHANGED <<pc, after, wr, memVars, deadlinePassed, fileVars>>

(* _run_attempt returns an attempt of either status, or raises.            *)
FinishWorker(c) ==
    /\ worker[c] = "running"
    /\ \E o \in Outcomes : worker' = [worker EXCEPT ![c] = o]
    /\ UNCHANGED <<pc, after, wr, memVars, deadlinePassed, fileVars>>

DeadlinePasses ==
    /\ pc \notin Ended /\ ~deadlinePassed
    /\ deadlinePassed' = TRUE
    /\ UNCHANGED <<pc, after, wr, memVars, worker, fileVars>>

MainThread ==
    \/ Begin \/ StartBatch \/ DeadlineReached \/ AllBatchesDone
    \/ Schedule \/ Submit \/ SubmitFails \/ BatchScheduled
    \/ \E c \in Candidates : TakeResult(c)
    \/ StorePacket \/ EndBatch \/ Drain
    \/ Truncate \/ WriteSummary \/ WriteEvidence \/ SaveState \/ WriteFails

Next ==
    \/ MainThread
    \/ \E c \in Candidates : StartWorker(c) \/ FinishWorker(c)
    \/ DeadlinePasses

Fairness ==
    /\ WF_vars(MainThread)
    /\ \A c \in Candidates : WF_vars(StartWorker(c)) /\ WF_vars(FinishWorker(c))

Spec == Init /\ [][Next]_vars
FairSpec == Spec /\ Fairness

-----------------------------------------------------------------------------
(* Every variable has its type; in particular no candidate is launched     *)
(* beyond the requested number (next_index, tools.py).                     *)
TypeOK ==
    /\ pc \in {"begin", "check", "schedule", "submit", "collect",
               "packet", "summary", "evidence", "drain"} \cup Ended
    /\ after \in {"check", "submit", "collect", "returned"}
    /\ wr \in 1..Requested + 1
    /\ off \in Nat /\ made \in 0..Requested
    /\ cands \in [Candidates -> {"none", "running"} \cup Terminal]
    /\ worker \in [Candidates -> {"idle", "queued", "running"} \cup Outcomes]
    /\ evidence \in SUBSET Candidates
    /\ launched \in 0..Requested /\ completed \in 0..Requested
    /\ limitReason \in BOOLEAN /\ deadlinePassed \in BOOLEAN
    /\ summaryFile \in [Candidates -> {"none", "running"} \cup Terminal]
    /\ evidenceFile \in SUBSET Candidates
    /\ torn \in SUBSET ({"summary", "evidence"} \X Candidates)
    /\ stateFile \in [Candidates -> {"none", "running"} \cup Terminal]

(* "Villani Ops will not exceed the backend's configured parallelism":     *)
(* never more than max_parallel coding agents run, whatever the number of  *)
(* candidates and the order in which they finish.                          *)
ParallelBound == Cardinality(Running) <= MaxParallel

(* What somebody reads in the runner_summary.json of a candidate.          *)
SummaryText(c) == IF <<"summary", c>> \in torn THEN "torn" ELSE summaryFile[c]

(* No agent works on a candidate that the run directory does not know: its *)
(* placeholder is in state.json before the worker is submitted, and its    *)
(* runner_summary.json has been written, so a process killed at any point  *)
(* leaves a record of every worktree it started to write.  (A later pass   *)
(* may be rewriting the runner_summary.json; state.json is always whole.)  *)
WriteAhead ==
    \A c \in Submitted : summaryFile[c] # "none" /\ stateFile[c] # "none"

(* A batch starts only when every earlier batch is over: each candidate of *)
(* an earlier batch has its result in state.json and its evidence on disk. *)
BatchBarrier ==
    \A c \in Submitted, d \in Candidates :
        (d - 1) \div MaxParallel < (c - 1) \div MaxParallel
            => stateFile[d] \in Terminal /\ d \in evidenceFile

(* The files that are whole never claim a result that the worker did not   *)
(* produce.                                                                *)
TruthfulStatus(s, c) ==
    /\ s = "completed" => worker[c] = "completed"
    /\ s = "failed" => worker[c] \in {"failed", "raised"}

FilesTruthful ==
    \A c \in Candidates : TruthfulStatus(SummaryText(c), c) /\ TruthfulStatus(stateFile[c], c)

(* As long as the launch has not aborted, a result in state.json is backed *)
(* by the artifacts hydrate_tournament_state_from_artifacts reads, which   *)
(* are written first: each is there and says the same, but for the one a   *)
(* later pass may have cut off.                                            *)
ArtifactsAhead ==
    pc # "aborted" =>
        \A c \in Candidates : stateFile[c] \in Terminal =>
            SummaryText(c) \in {stateFile[c], "torn"} /\ c \in evidenceFile

(* Only the file that is being written can be cut off: at most one at any  *)
(* moment, none once state.json is saved and none after a launch that      *)
(* returns; after one that raised, the one whose write raised.             *)
OneFileTorn ==
    \/ torn = {}
    \/ torn = {Target} /\ pc \in {"packet", "summary", "evidence"} /\ wr <= made
    \/ pc \in {"drain", "aborted", "escaped"} /\ \E f \in torn : torn = {f}

(* A launch that returns has accounted for every candidate it started: all *)
(* results collected, the counters agree, state.json says what memory      *)
(* says, and fewer candidates than requested only with a recorded reason.  *)
ReturnedComplete ==
    pc = "returned" =>
        /\ \A c \in 1..made : cands[c] \in Terminal /\ c \in evidence
        /\ launched = made /\ completed = made
        /\ stateFile = cands
        /\ made < Requested => limitReason

(* However the launch ends, no agent is left behind that still runs or     *)
(* will run.                                                               *)
NoOrphanWorker ==
    pc \in Ended => \A c \in Candidates : worker[c] = "idle" \/ Finished(c)

(* How a launch goes and how it ends: the parts above.                     *)
LaunchInv == TypeOK /\ ParallelBound /\ BatchBarrier /\ ReturnedComplete /\ NoOrphanWorker

(* What the files of the run directory say at any moment, as somebody      *)
(* would find them after the death of the process.                         *)
FilesHonest == WriteAhead /\ FilesTruthful /\ ArtifactsAhead /\ OneFileTorn

(* The policy refuses to finalize "while work is running" when a candidate *)
(* is recorded as running.  That is what the record should mean once the   *)
(* launch is over: a candidate recorded as running has a worker that runs. *)
RunningMeansRunning ==
    pc \in Ended => \A c \in Candidates : cands[c] = "running" => worker[c] = "running"

(* The launch comes to an end, by returning or by raising, provided every  *)
(* worker does (run_task has a timeout).                                   *)
LaunchEnds == <>(pc \in Ended)

(* state.json, read as a ledger of attempts, obeys CandidateLedger.        *)
Ledger == INSTANCE CandidateLedger WITH
    ledger <- stateFile, outcome <- IF pc \in Ended THEN pc ELSE "open"

ImplementsLedger == Ledger!LedgerSpec
=============================================================================
