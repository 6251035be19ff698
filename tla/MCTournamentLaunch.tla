------------------------- MODULE MCTournamentLaunch -------------------------
(* TournamentLaunch for TLC: every value comes from the .cfg files.  The   *)
(* candidates are numbered and launched in order, so they are no symmetry  *)
(* set.                                                                    *)
EXTENDS TournamentLaunch
=============================================================================
