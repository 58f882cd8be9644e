----------------------------- MODULE MCUserTokens ----------------------------
(* Small sets for the run of UserTokens. *)
EXTENDS UserTokens, TLC

BothServices == {"twitch", "discord"}
SymmetricJobs == Permutations(Jobs)
===============================================================================
