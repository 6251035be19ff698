--------------------------- MODULE CandidateLedger ---------------------------
(***************************************************************************)
(* What the tournament launch promises to whoever reads state.json: the    *)
(* ledger of candidate attempts.  Attempts are opened one by one, in the   *)
(* order of their numbers; an attempt that was closed keeps its result; at *)
(* most MaxParallel attempts are open at once; and a launch that returned  *)
(* leaves none open.  TournamentLaunch implements this specification with  *)
(* the state.json file as the ledger.                                      *)
(***************************************************************************)
EXTENDS Naturals, FiniteSets

CONSTANTS Requested,    \* candidate attempts the launch was asked for
          MaxParallel   \* max_parallel of the coding backend

VARIABLES ledger,   \* the recorded status of every attempt
          outcome   \* "open" while the launch runs, then how it ended

ledgerVars == <<ledger, outcome>>

Attempts == 1..Requested
Results  == {"completed", "failed"}
Ended    == {"returned", "aborted", "escaped"}

OpenEntries == {c \in Attempts : ledger[c] = "running"}

LedgerInit ==
    /\ ledger = [c \in Attempts |-> "none"]
    /\ outcome = "open"

(* The next attempt in order is recorded as running. *)
OpenEntry(c) ==
    /\ outcome = "open"
    /\ ledger[c] = "none"
    /\ \A d \in Attempts : d < c => ledger[d] # "none"
    /\ Cardinality(OpenEntries) < MaxParallel
    /\ ledger' = [ledger EXCEPT ![c] = "running"]

(* An open attempt gets its result. *)
CloseEntry(c, r) ==
    /\ outcome = "open"
    /\ ledger[c] = "running"
    /\ ledger' = [ledger EXCEPT ![c] = r]

(* The launch ends; only one that raised may leave attempts open. *)
EndLaunch(o) ==
    /\ outcome = "open"
    /\ o = "returned" => OpenEntries = {}
    /\ outcome' = o

LedgerNext ==
    \/ \E c \in Attempts : OpenEntry(c) /\ outcome' \in {"open", "aborted"}
    \/ \E c \in Attempts, r \in Results :
          CloseEntry(c, r) /\ outcome' \in {"open", "aborted"}
    \/ \E o \in Ended : EndLaunch(o) /\ UNCHANGED ledger

LedgerSpec == LedgerInit /\ [][LedgerNext]_ledgerVars
=============================================================================
