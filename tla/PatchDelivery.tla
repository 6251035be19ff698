----------------------------- MODULE PatchDelivery -----------------------------
(***************************************************************************)
(* What a verifier orchestrator promises, with the materialize command:    *)
(* one candidate at most is ever chosen, it is put on record before its    *)
(* patch reaches the repository, and no other candidate's patch does.  A   *)
(* death of the process may lose the choice while nothing was delivered.   *)
(***************************************************************************)
CONSTANTS Candidates, None

VARIABLES chosen,    \* the candidate on record
          delivered  \* the candidates whose patch is in the repository

Start == chosen = None /\ delivered = {}

Choose(c) == chosen = None /\ chosen' = c /\ delivered' = {}

Deliver == chosen # None /\ delivered' = {chosen} /\ UNCHANGED chosen

TakenBack == delivered' = {} /\ UNCHANGED chosen

Progress == (\E c \in Candidates : Choose(c)) \/ Deliver \/ TakenBack

DeliverySpec == Start /\ [][Progress]_<<chosen, delivered>>
=============================================================================
