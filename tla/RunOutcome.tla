------------------------------ MODULE RunOutcome ------------------------------
(***************************************************************************)
(* What a run promises to its caller, as two decisions.  A candidate, or   *)
(* the rejection of all of them, is chosen; a chosen candidate is never    *)
(* given up.  A verdict is reached once; it is acceptance only of a chosen *)
(* candidate.  AdaptiveRun implements this specification with              *)
(* state.selection and state.final_decision.                               *)
(***************************************************************************)
CONSTANTS Candidates, None, RejectAll

VARIABLES chosen, verdict

outcomeVars == <<chosen, verdict>>

OutcomeInit == chosen = None /\ verdict = "open"

Choose(x) ==
    /\ chosen \notin Candidates
    /\ chosen' = x

Reach(d) ==
    /\ verdict = "open"
    /\ d = "accepted" => chosen' \in Candidates
    /\ verdict' = d

OutcomeNext ==
    \/ \E x \in Candidates \cup {RejectAll} : Choose(x) /\ UNCHANGED verdict
    \/ \E d \in {"accepted", "rejected", "failed"} : Reach(d) /\ UNCHANGED chosen
    \/ \E x \in Candidates : Choose(x) /\ Reach("accepted")

OutcomeSpec == OutcomeInit /\ [][OutcomeNext]_outcomeVars
=============================================================================
