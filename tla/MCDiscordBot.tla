---------------------------- MODULE MCDiscordBot ----------------------------
(* Model values and small sets for the run of DiscordBot. *)
EXTENDS DiscordBot, TLC

CONSTANTS k1, c0, c1, p1, p2, g1, g2, h1, h2

\* Presses and handlers are interchangeable.
SymmetricBot ==
  Permutations({p1, p2}) \cup Permutations({h1, h2})
=============================================================================
