-------------------------- MODULE ControllerDelivery --------------------------
(***************************************************************************)
(* A run of the cost-policy controller, and then the commands with which   *)
(* the user brings its accepted patch into the repository.  While the run  *)
(* is going on, or after it died, there is no decision.json: a command     *)
(* fails in resolve_accepted without touching anything, so that the        *)
(* commands begin when the process of the run has ended.                   *)
(***************************************************************************)
EXTENDS CostController

CONSTANTS Main, Target, Detached, None, MaxCalls

VARIABLES isRepo, branches, head, tip, tree, cmd, art, remote, calls

ASSUME GitAssumption ==
    /\ Main # Target /\ Detached # None /\ {Main, Target} \cap {Detached, None} = {}
    /\ MaxCalls \in Nat

Repo == INSTANCE GitApply WITH accepted <- decision.accepted

repoVars == <<isRepo, branches, head, tip, tree, cmd, art, remote, calls>>
vars     == <<ctrlVars, repoVars>>

(* The run works on worktrees and leaves the user's repository alone; what *)
(* the user has made of it meanwhile is looked at when the run ends.       *)
Untouched ==
    /\ isRepo = TRUE /\ branches = {Main} /\ head = Main
    /\ tip = [h \in Repo!Heads |-> {}] /\ tree = {}
    /\ cmd = Repo!Idle /\ art = Repo!NoArtifact /\ remote = {} /\ calls = 0

DeliveryInit == Init /\ Untouched

Reveal ==
    \E r \in Repo!Repositories :
        /\ isRepo' = r.isRepo /\ branches' = r.branches /\ head' = r.head
        /\ tip' = r.tip /\ tree' = r.tree
        /\ UNCHANGED <<cmd, art, remote, calls>>

RunStep == CtrlStep /\ IF pc' = "done" THEN Reveal ELSE UNCHANGED repoVars
RunDies == Dies /\ UNCHANGED repoVars

CommandStep == pc = "done" /\ UNCHANGED ctrlVars /\ Repo!GitNext

Next == RunStep \/ RunDies \/ CommandStep

Spec == DeliveryInit /\ [][Next]_vars

-----------------------------------------------------------------------------
(* The types, and an attempt that is within its backend's share.           *)
TypeOK ==
    /\ pc \in {"classify", "plan", "attempt", "run", "review", "human", "decide", "next", "finalize", "done"}
    /\ setting \in Setting
    /\ DOMAIN tried = DOMAIN strategy
    /\ pc \in {"attempt", "run", "review", "human", "decide", "next"} =>
          k \in DOMAIN strategy /\ j \in 1..strategy[k]
    /\ cur.review \in Review \cup {NoReview}
    /\ Repo!GitTypeOK

(* An accepted run rests on evidence: the attempt exited with 0, left a    *)
(* patch the gate has nothing against and got a review without complaint;  *)
(* or a human at a terminal was asked, and took a patch that is not empty. *)
AcceptedOnEvidence ==
    winner # NoAttempt =>
        \/ /\ winner.exit = 0 /\ winner.patch = "good" /\ winner.review.faultless
           /\ winner.review.verdict = "pass" /\ winner.review.recommends = "accept"
        \/ winner.human = "accept" /\ winner.patch # "empty"

(* A run that accepts nothing has tried the last backend of its plan: no   *)
(* failure, and no answer, ends it on a weaker one.                        *)
GivesUpAtTheEnd ==
    pc = "finalize" /\ strategy # <<>> /\ winner = NoAttempt => tried[Len(strategy)] > 0

(* A backend is left with attempts to spare only when the reviewer or the  *)
(* human asked for that, when the question was left open, or when the      *)
(* attempt raised.                                                         *)
NoAttemptWasted ==
    [][k' > k /\ tried[k] < strategy[k] =>
         \/ cur.review.recommends = "escalate" \/ cur.human \in {"escalate", "fail"}
         \/ cur.action = "ask_human" \/ cur.status = "failed"]_vars

(* An attempt that was to be escalated is followed by one on another       *)
(* backend, unless a human asked for it against a reviewer who asked for a *)
(* retry.                                                                  *)
EscalationMovesOn ==
    [][pc = "next" /\ cur.action = "escalate" /\ pc' = "attempt" =>
         \/ k' > k
         \/ cur.human = "escalate" /\ cur.review.recommends = "retry_same_backend"]_vars

(* The command line's --non-interactive is honoured: nobody is asked, and  *)
(* no attempt is left with an open question.                               *)
NeverAsksUnattended ==
    setting.nonInteractive => cur.human \notin Answers /\ lastAction # "ask_human"

(* What is in the repository, and what is pushed, is the patch of an       *)
(* accepted attempt.                                                       *)
DeliveredIsAccepted == Repo!DeliveredIsAccepted

WorkKept                == Repo!WorkKept
RolledBackIsBack        == Repo!RolledBackIsBack
OnlyThePatchIsCommitted == Repo!OnlyThePatchIsCommitted

(* What a run accepts and when it gives up, and what becomes of the        *)
(* repository: the parts above.                                            *)
ControllerInv ==
    /\ TypeOK /\ AcceptedOnEvidence /\ GivesUpAtTheEnd /\ NeverAsksUnattended
    /\ DeliveredIsAccepted /\ RolledBackIsBack

(* decide_next_action answers a human's "fail" with should_stop: no        *)
(* attempt is made after it.                                               *)
HumanFailureStops == [][pc = "next" /\ cur.human = "fail" => pc' # "attempt"]_vars
=============================================================================
