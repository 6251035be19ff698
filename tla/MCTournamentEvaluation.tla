----------------------- MODULE MCTournamentEvaluation -----------------------
(* TournamentEvaluation for TLC. *)
EXTENDS TournamentEvaluation
=============================================================================
