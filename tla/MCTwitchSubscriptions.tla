------------------------ MODULE MCTwitchSubscriptions ------------------------
(* Instances of TwitchSubscriptions for TLC: one or two events of a streamer,  *)
(* one internal app and one ordinary one.                                     *)
EXTENDS TwitchSubscriptions, TLC

CONSTANTS st1, online1, offline1, own, a1

OneStreamer == {st1}
OneSlot == {online1}
TwoSlots == {online1, offline1}
MCStreamerOf == [s \in Slots |-> st1]
TwoApps == {own, a1}
MCAppStatus == [a \in Apps |-> IF a = own THEN "internal" ELSE "active"]
MCMaxCost == [a \in Apps |-> 1]
ZeroOrOne == {0, 1}

\* Operations in flight are interchangeable.
SymmetricTasks == Permutations(Tasks)
=============================================================================
