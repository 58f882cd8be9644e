------------------------------ MODULE BotChannels ------------------------------
(***************************************************************************)
(* The lists of text channels in Redis, one for every guild of the bot:      *)
(* ChannelSyncService of the discord-bot writes them, DiscordBotService of   *)
(* the api reads them.                                                       *)
(*                                                                         *)
(* A list is followed as far as it is, or is not, what the client has; the   *)
(* client's channels are read and the write asked for without an await.      *)
(***************************************************************************)
EXTENDS BotGuilds

CONSTANT Watched   \* the guilds whose lists are followed

ASSUME ChannelConstants == Watched \subseteq Guilds

VARIABLES
  channels,     \* discordGuildChannels(g): none, the same as the client's, or old
  excused       \* guilds that were left, or changed before there was a listener,
                \* while they had the list they still have

channelVars == <<channels, excused>>

-----------------------------------------------------------------------------

\* syncGuild; a guild the client does not have is left alone.
SyncGuild(G) ==
  /\ channels' = [g \in Watched |-> IF g \in G \cap member THEN "same" ELSE channels[g]]
  /\ excused' = excused \ (G \cap member)

SyncAllForgets == UNCHANGED channelVars

\* syncAll, when the client is ready.
SyncAll == SyncGuild(Watched)

Listed == {g \in Watched : channels[g] # "none"}

GetsOld(g) == channels' = [w \in Watched |-> IF w \in {g} \cap Listed THEN "old" ELSE channels[w]]

\* A channel is made, deleted or changed; nobody hears it of a guild the bot is not
\* in, or before the listeners are registered.
ChangeChannels(g) ==
  /\ IF listening /\ g \in member
     THEN SyncGuild({g})
     ELSE /\ GetsOld(g)
          /\ excused' = IF up THEN excused \cup ({g} \cap Listed) ELSE excused
  /\ UNCHANGED guildVars

\* getGuildTextChannels of the api asks the bot when there is no list.
AskChannels(g) ==
  /\ up /\ channels[g] = "none"
  /\ SyncGuild({g})
  /\ UNCHANGED guildVars

\* CHANNELS_TTL: 24 hours.
ExpireChannels(g) ==
  /\ channels' = [channels EXCEPT ![g] = "none"]
  /\ excused' = excused \ {g}
  /\ UNCHANGED guildVars

\* No handler tells the list that its guild was left.
LeaveChannels(g) ==
  /\ excused' = excused \cup ({g} \cap Listed)
  /\ UNCHANGED channels

LoseChannels ==
  /\ channels' = [g \in Watched |-> "none"]
  /\ excused' = {}

-----------------------------------------------------------------------------

InitChannels ==
  /\ channels = [g \in Watched |-> "none"]
  /\ excused = {}

ListStep ==
  \/ GuildStep /\ UNCHANGED channelVars
  \/ \E g \in Guilds : Leave(g) /\ LeaveChannels(g)
  \/ StartBot /\ SyncAll
  \/ LoseKey /\ LoseChannels
  \/ \E g \in Watched : ChangeChannels(g) \/ AskChannels(g) \/ ExpireChannels(g)

ChannelsOK ==
  /\ channels \in [Watched -> {"none", "same", "old"}]
  /\ excused \subseteq Watched

-----------------------------------------------------------------------------
(* Properties                                                               *)

\* Once its listeners are registered, the channels of a guild the bot is in are as
\* it has them, whatever happened while it was down; but for a guild it left and
\* came back to, and for what changed between its start and its listeners.
ChannelsInStep ==
  listening => \A g \in (Watched \cap member) \ excused : channels[g] # "old"
=============================================================================
