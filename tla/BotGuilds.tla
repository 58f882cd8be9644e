------------------------------ MODULE BotGuilds ------------------------------
(***************************************************************************)
(* The list of the bot's guilds in Redis: GuildSyncService of the            *)
(* discord-bot writes it, DiscordBotService of the api reads it.             *)
(*                                                                         *)
(* The key has no limit in time.  A join and a leave read the list, change   *)
(* it and write it; the whole list is written when the bot starts and when   *)
(* the api finds no key.  Commands of the bot's one connection are executed  *)
(* in order, so a read or a write happens when it is asked for.              *)
(***************************************************************************)
EXTENDS Naturals

CONSTANTS
  Guilds,
  Handlers,     \* handlers of guildCreate and guildDelete in flight at once
  MaxMoves,     \* bound on joins and leaves
  NoKey

ASSUME GuildConstants == (\A G \in SUBSET Guilds : G # NoKey) /\ NoKey \notin Guilds /\ MaxMoves \in Nat

VARIABLES
  member,       \* the guilds the bot is in: the client's cache
  list,         \* botGuildIds() in Redis
  handler,
  up,           \* the bot runs and has written the list
  listening,    \* its listeners are registered
  moves,        \* joins and leaves so far
  steady        \* no event was missed, crossed another or found no key since the
                \* whole list was written

guildVars == <<member, list, handler, up, listening, moves, steady>>

-----------------------------------------------------------------------------

Idle == [pc |-> "idle", guild |-> NoKey, seen |-> {}]

Working == {h \in Handlers : handler[h].pc # "idle"}

\* getBotGuildIds of the bot
Read == IF list = NoKey THEN {} ELSE list

\* syncGuilds
WriteAll == list' = member

\* What becomes of "steady" when an event is heard, and when it is not.
Heard == steady' = (steady /\ Working = {} /\ list # NoKey)
Missed == steady' = FALSE

\* The client emits guildCreate or guildDelete, and a listener begins; without a
\* listener nobody hears, and the next start makes up for it.
Move(pc, g) ==
  /\ moves < MaxMoves
  /\ moves' = moves + 1
  /\ IF listening
     THEN /\ Heard
          /\ \E h \in Handlers \ Working :
               handler' = [handler EXCEPT ![h] = [pc |-> pc, guild |-> g, seen |-> Read]]
     ELSE Missed /\ UNCHANGED handler
  /\ UNCHANGED <<list, up, listening>>

\* onGuildJoin and onGuildLeave up to their await
Join(g) == g \notin member /\ member' = member \cup {g} /\ Move("join", g)
Leave(g) == g \in member /\ member' = member \ {g} /\ Move("leave", g)

WriteKeepsLeft(h) ==
  /\ handler[h].pc # "idle"
  /\ list' = handler[h].seen \cup {handler[h].guild}
  /\ handler' = [handler EXCEPT ![h] = Idle]
  /\ UNCHANGED <<member, up, listening, moves, steady>>

\* The rest of them: what was read, with the guild or without it.
Write(h) ==
  LET t == handler[h]
  IN  /\ t.pc # "idle"
      /\ list' = IF t.pc = "join" THEN t.seen \cup {t.guild} ELSE t.seen \ {t.guild}
      /\ handler' = [handler EXCEPT ![h] = Idle]
      /\ UNCHANGED <<member, up, listening, moves, steady>>

\* GuildSyncService.onModuleInit: the client is ready by then.
StartBot ==
  /\ ~up
  /\ up' = TRUE /\ WriteAll /\ steady' = TRUE
  /\ UNCHANGED <<member, handler, listening, moves>>

\* DiscordExplorer.onModuleInit waits for Discord to take the commands before it
\* registers any listener.
RegisterListeners ==
  /\ up /\ ~listening
  /\ listening' = TRUE
  /\ UNCHANGED <<member, list, handler, up, moves, steady>>

\* DiscordBotService.getBotGuildIds of the api asks the bot when there is no key.
AskGuildIds ==
  /\ up /\ list = NoKey
  /\ WriteAll
  /\ steady' = (steady \/ Working = {})
  /\ UNCHANGED <<member, handler, up, listening, moves>>

\* Redis comes back empty.
LoseKey ==
  /\ list # NoKey
  /\ list' = NoKey
  /\ UNCHANGED <<member, handler, up, listening, moves, steady>>

\* The bot ends; a handler whose command to Redis is rejected ends it, too.
StopBot ==
  /\ up
  /\ up' = FALSE /\ listening' = FALSE /\ steady' = FALSE
  /\ handler' = [h \in Handlers |-> Idle]
  /\ UNCHANGED <<member, list, moves>>

-----------------------------------------------------------------------------

InitGuilds ==
  /\ member \in SUBSET Guilds
  /\ list = NoKey
  /\ handler = [h \in Handlers |-> Idle]
  /\ up = FALSE /\ listening = FALSE
  /\ moves = 0
  /\ steady = FALSE

\* The steps that no other list of the bot takes part in.
GuildStep ==
  \/ \E g \in Guilds : Join(g)
  \/ \E h \in Handlers : Write(h)
  \/ RegisterListeners \/ AskGuildIds

GuildsOK ==
  /\ member \subseteq Guilds
  /\ list = NoKey \/ list \in SUBSET Guilds
  /\ handler \in [Handlers -> [pc: {"idle", "join", "leave"}, guild: Guilds \cup {NoKey},
                               seen: SUBSET Guilds]]
  /\ \A h \in Working : listening /\ handler[h].guild \in Guilds
  /\ up \in BOOLEAN /\ listening \in BOOLEAN /\ steady \in BOOLEAN
  /\ moves \in Nat
  /\ listening => up

-----------------------------------------------------------------------------
(* Properties                                                               *)

\* What the api takes for the bot's guilds (hasBot, "Discord guild does not have
\* bot") differs from them only after two events crossed, an event came before
\* the listeners or found no key; or while a handler is at work.
ListInStep == up /\ steady /\ Working = {} => list \in {NoKey, member}
=============================================================================
