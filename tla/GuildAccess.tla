----------------------------- MODULE GuildAccess -----------------------------
(***************************************************************************)
(* What a user may do for a Discord guild, as DiscordGuildAccessService and  *)
(* DiscordGuildService decide it: from the guilds Discord lists for him,     *)
(* which are kept for half an hour, and the guild's managerPermission; the   *)
(* answer is kept for two hours more.  Discord tells nobody when it changes, *)
(* and linking or unlinking an account drops no key: what is old goes only   *)
(* with its limit, or with setManagerPermission.                             *)
(*                                                                         *)
(* One user and one guild.  GuildAccessCache has the lock of getOrSet, which *)
(* makes loads fewer; here any number of them overlap.                       *)
(***************************************************************************)
EXTENDS Integers

CONSTANTS
  Callers,      \* questions in flight at once
  Flags,        \* Discord's permissions
  Standings,    \* what Discord may list for the user and the guild
  Absent,       \* it does not list the guild
  Unlinked,     \* no Discord account is linked
  NoFlag,       \* the guild has no managerPermission
  GuildsTTL,    \* how long the user's guilds are kept
  AccessTTL,    \* how long an answer is kept
  MaxLoad,      \* bound on the time a question takes
  MaxChanges    \* bound on the changes at Discord, of the link and of the permission

ASSUME AccessConstants ==
  /\ "ADMINISTRATOR" \in Flags
  /\ Standings \subseteq [owner : BOOLEAN, permissions : SUBSET Flags] \cup {Absent}
  /\ GuildsTTL \in Nat /\ AccessTTL \in Nat
  /\ MaxLoad \in Nat \ {0}
  /\ MaxChanges \in Nat
  /\ Absent \notin [owner : BOOLEAN, permissions : SUBSET Flags]
  /\ Unlinked \notin Standings
  /\ NoFlag \notin Flags

VARIABLES
  standing,           \* of the linked account
  managerPermission,  \* of the guild
  dropping,           \* calls of setManagerPermission between the row and the keys
  userGuilds,         \* the key with the user's guilds
  answers,            \* the keys with the answers
  question,           \* questions in flight
  ago,                \* how long each standing and each permission has not been the real one
  changes             \* how many there were

accessVars == <<standing, managerPermission, dropping, userGuilds, answers, question, ago,
                changes>>
keys == <<userGuilds, answers>>
world == <<standing, managerPermission, dropping, ago, changes>>

\* canAccessGuild, canManageGuild, and the guilds getUserGuilds lists.
Kinds == {"user", "admin", "list"}

Quiet == [pc |-> "idle", kind |-> "user", waited |-> 0, standing |-> Unlinked, answer |-> FALSE]

Stands(c, pc) == question[c].pc = pc
Proceed(c, next) == question' = [question EXCEPT ![c] = next]
Quit(c) == Proceed(c, Quiet)

\* A key is there while something is left of its limit.
Live(key) == key.left > 0
NoGuilds == [value |-> Absent, left |-> 0]
NoAnswer == [value |-> FALSE, left |-> 0]

\* Whatever is longer ago is all the same.
Long == AccessTTL + GuildsTTL + 2 * MaxLoad

-----------------------------------------------------------------------------
(* The decision                                                             *)

HasDiscordPermission(s, flag) == flag \in s.permissions

\* The owner, and whoever has the bit of the administrator.
IsGuildAdmin(s) == s.owner \/ HasDiscordPermission(s, "ADMINISTRATOR")

MeetsManagerPermission(s, flag) == flag # NoFlag /\ HasDiscordPermission(s, flag)

\* The filter of getUserGuilds.
IsListed(s, flag) == s # Absent /\ (IsGuildAdmin(s) \/ MeetsManagerPermission(s, flag))

\* resolveAccess after its first await.  fetchUserGuildById throws if the guild is not
\* among the user's.
Resolved(c, s) ==
  LET q == [question[c] EXCEPT !.standing = s]
  IN  CASE q.kind = "list" -> [q EXCEPT !.pc = "row"]
        [] q.kind # "list" /\ s = Absent -> Quiet
        [] q.kind # "list" /\ s # Absent ->
             IF IsGuildAdmin(s) \/ q.kind = "admin"
             THEN [q EXCEPT !.pc = "store", !.standing = Unlinked, !.answer = IsGuildAdmin(s)]
             ELSE [q EXCEPT !.pc = "row"]

-----------------------------------------------------------------------------
(* Questions                                                                *)

GetAccessRenews(c, k) ==
  /\ Stands(c, "idle")
  /\ k # "list"
  /\ \/ ~Live(answers[k]) /\ Proceed(c, [Quiet EXCEPT !.pc = "guilds", !.kind = k])
        /\ UNCHANGED answers
     \/ Live(answers[k]) /\ answers' = [answers EXCEPT ![k].left = AccessTTL]
        /\ UNCHANGED question
  /\ UNCHANGED <<world, userGuilds>>

\* canAccessGuild and canManageGuild find no answer under their key; a caller that
\* finds one is through at once.
GetAccess(c, k) ==
  /\ Stands(c, "idle")
  /\ k # "list"
  /\ ~Live(answers[k])
  /\ Proceed(c, [Quiet EXCEPT !.pc = "guilds", !.kind = k])
  /\ UNCHANGED <<world, keys>>

\* getUserGuilds, behind the guard that demands a linked account.
GetUserGuilds(c) ==
  /\ Stands(c, "idle")
  /\ standing # Unlinked
  /\ Proceed(c, [Quiet EXCEPT !.pc = "guilds", !.kind = "list"])
  /\ UNCHANGED <<world, keys>>

\* fetchUserGuilds finds the key.
CachedGuilds(c) ==
  /\ Stands(c, "guilds")
  /\ Live(userGuilds)
  /\ Proceed(c, Resolved(c, userGuilds.value))
  /\ UNCHANGED <<world, keys>>

\* It asks Discord, which lists the guilds as they are now.
FetchUserGuilds(c) ==
  /\ Stands(c, "guilds")
  /\ ~Live(userGuilds)
  /\ standing # Unlinked
  /\ Proceed(c, [question[c] EXCEPT !.pc = "keep", !.standing = standing])
  /\ UNCHANGED <<world, keys>>

KeepGuilds(c) ==
  /\ Stands(c, "keep")
  /\ userGuilds' = [value |-> question[c].standing, left |-> GuildsTTL]
  /\ Proceed(c, Resolved(c, question[c].standing))
  /\ UNCHANGED <<world, answers>>

\* The guild's row.  getUserGuilds is through with its answer.
FindGuild(c) ==
  /\ Stands(c, "row")
  /\ LET s == question[c].standing
     IN  Proceed(c, IF question[c].kind = "list"
                    THEN [question[c] EXCEPT !.pc = "listed",
                                             !.standing = Unlinked,
                                             !.answer = IsListed(s, managerPermission)]
                    ELSE [question[c] EXCEPT !.pc = "store",
                                             !.standing = Unlinked,
                                             !.answer = MeetsManagerPermission(s, managerPermission)])
  /\ UNCHANGED <<world, keys>>

StoreAnswer(c) ==
  /\ Stands(c, "store")
  /\ answers' = [answers EXCEPT ![question[c].kind] =
                   [value |-> question[c].answer, left |-> AccessTTL]]
  /\ Quit(c)
  /\ UNCHANGED <<world, userGuilds>>

\* The answer of getUserGuilds goes out; or a request to Discord, the database or Redis
\* fails, or finds no account, and the question with it.
Leave(c) ==
  /\ ~Stands(c, "idle")
  /\ Quit(c)
  /\ UNCHANGED <<world, keys>>

Ask(c) ==
  \/ \E k \in Kinds : GetAccess(c, k)
  \/ GetUserGuilds(c) \/ CachedGuilds(c) \/ FetchUserGuilds(c) \/ KeepGuilds(c)
  \/ FindGuild(c) \/ StoreAnswer(c) \/ Leave(c)

-----------------------------------------------------------------------------
(* What the answers depend on                                               *)

Change == changes < MaxChanges /\ changes' = changes + 1

\* The user's standing becomes s.
Becomes(s) ==
  /\ Change
  /\ s # standing
  /\ standing' = s
  /\ ago' = [ago EXCEPT !.standing[s] = 0]
  /\ UNCHANGED <<managerPermission, dropping, keys, question>>

\* At Discord.
StandingChanges == standing # Unlinked /\ \E s \in Standings : Becomes(s)

UnlinkDiscord == standing # Unlinked /\ Becomes(Unlinked)

\* The same account or another, which may take the place of a linked one.
LinkDiscord == \E s \in Standings : Becomes(s)

UpdatePermission(flag) ==
  /\ Change
  /\ managerPermission' = flag
  /\ ago' = [ago EXCEPT !.permission[flag] = 0]
  /\ dropping' = dropping + 1
  /\ UNCHANGED <<standing, keys, question>>

\* The pattern has the keys of all users and kinds, but not that of the guilds.  The
\* deletion may fail.
InvalidateGuildCache ==
  /\ dropping > 0
  /\ dropping' = dropping - 1
  /\ \/ answers' = [k \in Kinds |-> NoAnswer]
     \/ UNCHANGED answers
  /\ UNCHANGED <<standing, managerPermission, userGuilds, question, ago, changes>>

Aged(n) == IF n < Long THEN n + 1 ELSE n

\* Time passes, and what has no time left is gone.
Tick ==
  /\ \A c \in Callers : Stands(c, "idle") \/ question[c].waited < MaxLoad
  /\ question' = [c \in Callers |-> IF Stands(c, "idle") THEN Quiet
                                    ELSE [question[c] EXCEPT !.waited = @ + 1]]
  /\ userGuilds' = IF userGuilds.left > 1 THEN [userGuilds EXCEPT !.left = @ - 1] ELSE NoGuilds
  /\ answers' = [k \in Kinds |-> IF answers[k].left > 1 THEN [answers[k] EXCEPT !.left = @ - 1]
                                                        ELSE NoAnswer]
  /\ ago' = [standing |-> [s \in DOMAIN ago.standing |->
                              IF s = standing THEN 0 ELSE Aged(ago.standing[s])],
             permission |-> [f \in DOMAIN ago.permission |->
                              IF f = managerPermission THEN 0 ELSE Aged(ago.permission[f])]]
  /\ UNCHANGED <<standing, managerPermission, dropping, changes>>

-----------------------------------------------------------------------------

\* Any user and any guild, while nothing is in Redis.
InitAccess ==
  /\ standing \in Standings \cup {Unlinked}
  /\ managerPermission \in Flags \cup {NoFlag}
  /\ dropping = 0
  /\ userGuilds = NoGuilds
  /\ answers = [k \in Kinds |-> NoAnswer]
  /\ question = [c \in Callers |-> Quiet]
  /\ ago = [standing |-> [s \in Standings \cup {Unlinked} |-> IF s = standing THEN 0 ELSE Long],
            permission |-> [f \in Flags \cup {NoFlag} |->
                              IF f = managerPermission THEN 0 ELSE Long]]
  /\ changes = 0

AccessStep ==
  \/ \E c \in Callers : Ask(c)
  \/ StandingChanges \/ UnlinkDiscord \/ LinkDiscord
  \/ \E flag \in Flags \cup {NoFlag} : UpdatePermission(flag)
  \/ InvalidateGuildCache
  \/ Tick

AccessSpec == InitAccess /\ [][AccessStep]_accessVars

-----------------------------------------------------------------------------
(* Properties                                                               *)

\* What somebody with this standing may do while the guild asks for this permission.
May(k, s, flag) ==
  /\ s # Absent
  /\ \/ s.owner
     \/ "ADMINISTRATOR" \in s.permissions
     \/ k # "admin" /\ flag \in s.permissions

\* An answer is right for a standing and a permission that were real a while ago: the
\* permission for as long as an answer is loaded and kept, the standing for as long as
\* the user's guilds are kept and loaded before that.
AnsweredRecently(k, answer, kept) ==
  \E s \in Standings, flag \in Flags \cup {NoFlag} :
    /\ answer = May(k, s, flag)
    /\ ago.standing[s] < kept + MaxLoad + GuildsTTL + MaxLoad
    /\ ago.permission[flag] < kept + MaxLoad

\* Two caches, one filled from the other, and four ways to ask: whoever is let in, kept
\* out or shown the guild was to be so at most the sum of their limits ago, also after
\* he has left the guild, lost a role in it or unlinked his account.
AnswersAreRecent ==
  /\ \A k \in {"user", "admin"} :
       Live(answers[k]) => AnsweredRecently(k, answers[k].value, AccessTTL)
  /\ \A c \in Callers :
       Stands(c, "listed") => AnsweredRecently("list", question[c].answer, 1)
=============================================================================
