-------------------------- MODULE MCGuildAccessCache --------------------------
(* Small sets for the run of GuildAccessCache. *)
EXTENDS GuildAccessCache, TLC

MCEvents == {"load_fails", "redis_fails", "crash"}
==============================================================================
