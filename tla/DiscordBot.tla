------------------------------ MODULE DiscordBot ------------------------------
(***************************************************************************)
(* The discord-bot process: the dialogs it keeps in memory and the lists it  *)
(* keeps in Redis.  A restart loses the first and writes the second again;   *)
(* nobody is answered before the listeners are registered.                   *)
(***************************************************************************)
EXTENDS Drafts, BotChannels

listVars == <<guildVars, channelVars>>
vars == <<dialogVars, listVars>>

Init == InitDialogs /\ InitGuilds /\ InitChannels

\* The command is used in a guild the bot is in.
Command == member # {} /\ \E k \in Tokens : AddDestination(k)

Crash == StopBot /\ LoseDrafts /\ UNCHANGED channelVars

Next ==
  \/ listening /\ (Command \/ Interaction) /\ UNCHANGED listVars
  \/ (\E p \in Presses : CreateDestination(p)) /\ UNCHANGED listVars
  \/ ListStep /\ UNCHANGED dialogVars
  \/ Crash

Spec == Init /\ [][Next]_vars

-----------------------------------------------------------------------------
(* Properties                                                               *)

\* The types; an in-flight press has its dialog, and what the listeners began
\* needs a bot that is up.
TypeOK ==
  /\ DialogsOK
  /\ GuildsOK
  /\ ChannelsOK
  /\ \A k \in Tokens : Live(k) => listening
  /\ \A p \in Presses : press[p].pc \in {"defer", "call"} => listening
=============================================================================
