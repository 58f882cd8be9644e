----------------------------- MODULE MCAppTokens -----------------------------
(* Small sets for the run of AppTokens. *)
EXTENDS AppTokens, TLC

SymmetricCalls == Permutations(Calls)
===============================================================================
