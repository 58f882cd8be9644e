----------------------------- MODULE UserTokens ------------------------------
(***************************************************************************)
(* The tokens a user has given the api for one service: Twitch, kept by       *)
(* TwitchUserTokenService, or Discord, kept by DiscordTokenService.  Both are  *)
(* three columns of the user's row, which logins, links and every save of a   *)
(* loaded user write as well.                                                *)
(*                                                                         *)
(* An access token, the refresh token that came with it and their expiry       *)
(* have one number.  Discord replaces a refresh token that is used, Twitch     *)
(* does so always or never.  What becomes of a streamer's subscriptions is in  *)
(* TwitchSubscriptions, how a user logs in, in Sessions.  No name here is one   *)
(* of AppTokens: TokenProofs reasons about both.                              *)
(***************************************************************************)
EXTENDS Integers

CONSTANTS
  Services,   \* the services to look at, of "twitch" and "discord"
  Jobs,       \* requests and jobs under way at once
  Faults,     \* what may go wrong
  MaxPairs    \* bound on the pairs of tokens ever issued

ASSUME UserTokenConstants ==
  /\ Services \subseteq {"twitch", "discord"}
  /\ MaxPairs \in Nat

VARIABLES
  svc,       \* the service
  replaces,  \* whether it replaces refresh tokens
  columns,   \* of the row, and whether an account is linked: discordId, or a streamer
  personal,  \* allowPersonalSubscriptions of the streamer
  age,       \* of each access token
  spent,     \* refresh tokens that were used and replaced
  dead,      \* pairs whose grant was withdrawn
  lost,      \* spent tokens whose successor was lost, or that a save brought back
  job        \* requests and jobs

userTokensVars == <<svc, replaces, columns, personal, age, spent, dead, lost, job>>
service == <<replaces, age, spent, dead>>

Pairs == 1..MaxPairs
Columns == [linked : BOOLEAN, access : 0..MaxPairs, refresh : 0..MaxPairs,
            exp : 0..MaxPairs]
NoColumns == [linked |-> FALSE, access |-> 0, refresh |-> 0, exp |-> 0]

\* "crossed" is set when another job, or change of the row, falls into this one.
NoJob == [pc |-> "idle", op |-> "use", access |-> 0, refresh |-> 0, used |-> 0,
          copy |-> NoColumns, retried |-> FALSE, failed |-> FALSE, crossed |-> FALSE]

Stands(c, pc) == job[c].pc = pc
Move(c, next) == job' = [job EXCEPT ![c] = next]

Crossed(D) == [d \in Jobs |-> IF d \in D /\ ~Stands(d, "idle")
                              THEN [job[d] EXCEPT !.crossed = TRUE] ELSE job[d]]
Begin(c, next) ==
  job' = [Crossed(Jobs) EXCEPT
            ![c] = [next EXCEPT !.crossed = \E d \in Jobs \ {c} : ~Stands(d, "idle")]]

-----------------------------------------------------------------------------
(* The service                                                              *)

Unissued == {k \in Pairs : age[k] = "unused"}
Usable(k) == k # 0 /\ k \notin spent /\ k \notin dead

\* The next pair.
Issue(k) ==
  /\ k \in Unissued /\ \A j \in Unissued : k <= j
  /\ age' = [age EXCEPT ![k] = "live"]

\* exchangeCodeForTokens: the first pair of a grant.  If it fails nothing has happened.
ExchangeCodeForTokens(k) == Issue(k)

\* The last hour, and the last five minutes and what comes after them.
Age(k) ==
  /\ \/ age[k] = "live" /\ age' = [age EXCEPT ![k] = "hour"]
     \/ age[k] = "hour" /\ age' = [age EXCEPT ![k] = "last"]
  /\ UNCHANGED <<svc, replaces, columns, personal, spent, dead, lost, job>>

\* The user withdraws what was granted.
Withdraw ==
  /\ "withdraw" \in Faults
  /\ dead' = Pairs \ Unissued
  /\ dead' # dead
  /\ UNCHANGED <<svc, replaces, columns, personal, age, spent, lost, job>>

-----------------------------------------------------------------------------
(* The token services                                                       *)

\* getUserWithTokens of TwitchUserTokenService
HasTokens == columns.access # 0 /\ columns.refresh # 0 /\ columns.exp # 0

\* that of DiscordTokenService, which asks for the account as well.
Connected == HasTokens /\ (svc = "discord" => columns.linked)

\* isExpired, with its buffer of five minutes.
AccessExpired == age[columns.exp] = "last"

Refreshing(op, retried) ==
  [NoJob EXCEPT !.pc = "ask", !.op = op, !.refresh = columns.refresh,
                !.used = columns.refresh, !.retried = retried]

\* getValidToken, for a request that sends the token.
GetValidToken(c) ==
  /\ Stands(c, "idle")
  /\ Connected
  /\ \/ AccessExpired /\ Begin(c, Refreshing("use", FALSE))
     \/ ~AccessExpired /\ Begin(c, [NoJob EXCEPT !.pc = "send", !.access = columns.access])
  /\ UNCHANGED <<svc, columns, personal, service, lost>>

\* validateConnection, before requests about a guild.
ValidateConnection(c) ==
  /\ svc = "discord"
  /\ Stands(c, "idle")
  /\ Connected /\ AccessExpired
  /\ Begin(c, Refreshing("validate", FALSE))
  /\ UNCHANGED <<svc, columns, personal, service, lost>>

\* The cron job has read the row; it comes to it after the rows before.
RefreshExpiringTokens(c) ==
  /\ svc = "twitch"
  /\ Stands(c, "idle")
  /\ columns.refresh # 0 /\ columns.exp # 0 /\ age[columns.exp] \in {"hour", "last"}
  /\ Begin(c, Refreshing("cron", FALSE))
  /\ UNCHANGED <<svc, columns, personal, service, lost>>

\* The service takes the refresh token.
Renews(c, k) ==
  /\ Stands(c, "ask")
  /\ Usable(job[c].used)
  /\ Issue(k)
  /\ spent' = IF replaces THEN spent \cup {job[c].used} ELSE spent

\* refreshToken, refreshUserToken
RefreshSucceeds(c, k) ==
  /\ Renews(c, k)
  /\ Move(c, [job[c] EXCEPT !.pc = "store", !.access = k,
                            !.refresh = IF replaces THEN k ELSE @])
  /\ UNCHANGED <<svc, replaces, columns, personal, dead, lost>>

FailedAlike(c) == [job[c] EXCEPT !.pc = "clear", !.failed = TRUE]

\* What follows any failure but a 401: Discord's tokens are cleared, Twitch's kept.
Failed(c) == IF svc = "discord" THEN [job[c] EXCEPT !.pc = "clear", !.failed = TRUE] ELSE NoJob

ServiceFails(c) ==
  /\ Stands(c, "ask")
  /\ "service_fails" \in Faults
  /\ Move(c, Failed(c))
  /\ UNCHANGED <<svc, columns, personal, service, lost>>

\* The service has renewed the tokens and its answer does not arrive.
AnswerLost(c, k) ==
  /\ "service_fails" \in Faults
  /\ Renews(c, k)
  /\ lost' = lost \cup (spent' \ spent)
  /\ Move(c, Failed(c))
  /\ UNCHANGED <<svc, replaces, columns, personal, dead>>

\* A 401: TwitchTokenRevokedException, DiscordTokenRevokedException.
RefreshRefused(c) ==
  /\ Stands(c, "ask")
  /\ ~Usable(job[c].used)
  /\ Move(c, [job[c] EXCEPT !.pc = "clear"])
  /\ UNCHANGED <<svc, columns, personal, service, lost>>

AfterStore(c) ==
  IF job[c].op = "use" THEN [job[c] EXCEPT !.pc = "send"] ELSE NoJob

StoreAccessOnly(c) ==
  /\ Stands(c, "store")
  /\ columns' = [columns EXCEPT !.access = job[c].access, !.exp = job[c].access]
  /\ Move(c, AfterStore(c))
  /\ UNCHANGED <<svc, personal, service, lost>>

\* The update of refresh, of whatever the row is by now.
Store(c) ==
  /\ Stands(c, "store")
  /\ columns' = [columns EXCEPT !.access = job[c].access, !.refresh = job[c].refresh,
                                !.exp = job[c].access]
  /\ Move(c, AfterStore(c))
  /\ UNCHANGED <<svc, personal, service, lost>>

StoreFails(c) ==
  /\ Stands(c, "store")
  /\ "db_fails" \in Faults
  /\ lost' = lost \cup ({job[c].used} \cap spent)
  /\ Move(c, Failed(c))
  /\ UNCHANGED <<svc, columns, personal, service>>

\* clearTokens, and the catch of Discord's refresh.
ClearTokens(c) ==
  /\ Stands(c, "clear")
  /\ columns' = [columns EXCEPT !.access = 0, !.refresh = 0, !.exp = 0]
  /\ Move(c, IF svc = "twitch" THEN [job[c] EXCEPT !.pc = "flag"] ELSE NoJob)
  /\ UNCHANGED <<svc, personal, service, lost>>

ClearFails(c) ==
  /\ Stands(c, "clear") \/ Stands(c, "flag")
  /\ "db_fails" \in Faults
  /\ Move(c, NoJob)
  /\ UNCHANGED <<svc, columns, personal, service, lost>>

\* clearTokens, its second update.
ClearFlag(c) ==
  /\ Stands(c, "flag")
  /\ personal' = personal /\ ~columns.linked
  /\ Move(c, NoJob)
  /\ UNCHANGED <<svc, columns, service, lost>>

-----------------------------------------------------------------------------
(* A request with the token                                                 *)

RequestAnswered(c) ==
  /\ Stands(c, "send")
  /\ job[c].access \notin dead
  /\ Move(c, NoJob)
  /\ UNCHANGED <<svc, columns, personal, service, lost>>

\* A 401.  The interceptor of Twitch's requests refreshes once and repeats the request.
RequestUnauthorised(c) ==
  /\ Stands(c, "send")
  /\ job[c].access \in dead \/ age[job[c].access] = "last"
  /\ Move(c, IF svc = "twitch" /\ ~job[c].retried /\ Connected
             THEN [Refreshing("use", TRUE) EXCEPT !.crossed = job[c].crossed]
             ELSE NoJob)
  /\ UNCHANGED <<svc, columns, personal, service, lost>>

-----------------------------------------------------------------------------
(* Accounts                                                                 *)

\* linkTwitch: the streamer is saved with the user.
LinkTwitch(c, k) ==
  /\ svc = "twitch"
  /\ Stands(c, "idle")
  /\ ExchangeCodeForTokens(k)
  /\ columns' = [columns EXCEPT !.linked = TRUE]
  /\ personal' = TRUE
  /\ Begin(c, [NoJob EXCEPT !.pc = "link", !.access = k])
  /\ UNCHANGED <<svc, replaces, spent, dead, lost>>

\* linkTwitch: the tokens are.
LinkStore(c) ==
  /\ Stands(c, "link")
  /\ columns' = [columns EXCEPT !.access = job[c].access, !.refresh = job[c].access,
                                !.exp = job[c].access]
  /\ Move(c, NoJob)
  /\ UNCHANGED <<svc, personal, service, lost>>

\* unlinkTwitch: the streamer leaves the user.
UnlinkTwitch(c) ==
  /\ svc = "twitch"
  /\ Stands(c, "idle")
  /\ columns.linked
  /\ columns' = [columns EXCEPT !.linked = FALSE]
  /\ Begin(c, [NoJob EXCEPT !.pc = "unlink"])
  /\ UNCHANGED <<svc, personal, service, lost>>

\* unlinkTwitch: the tokens are removed.
UnlinkTokens(c) ==
  /\ Stands(c, "unlink")
  /\ columns' = [columns EXCEPT !.access = 0, !.refresh = 0, !.exp = 0]
  /\ Move(c, NoJob)
  /\ UNCHANGED <<svc, personal, service, lost>>

\* setTwitchPersonalAuth
SetTwitchPersonalAuth ==
  /\ svc = "twitch"
  /\ columns.linked
  /\ personal' = ~personal
  /\ UNCHANGED <<svc, columns, service, lost, job>>

\* linkDiscord stores the access token alone.
LinkDiscord(k) ==
  /\ svc = "discord"
  /\ ExchangeCodeForTokens(k)
  /\ columns' = [columns EXCEPT !.linked = TRUE, !.access = k]
  /\ job' = Crossed(Jobs)
  /\ UNCHANGED <<svc, replaces, personal, spent, dead, lost>>

\* unlinkDiscord leaves the expiry.
UnlinkDiscord ==
  /\ svc = "discord"
  /\ columns.linked
  /\ columns' = [columns EXCEPT !.linked = FALSE, !.access = 0, !.refresh = 0]
  /\ job' = Crossed(Jobs)
  /\ UNCHANGED <<svc, personal, service, lost>>

\* authByDiscordCode has put the new tokens into the user it loaded.
AuthByDiscordCode(c, k) ==
  /\ svc = "discord"
  /\ Stands(c, "idle")
  /\ ExchangeCodeForTokens(k)
  /\ Begin(c, [NoJob EXCEPT !.pc = "save",
                            !.copy = [linked |-> TRUE, access |-> k, refresh |-> k, exp |-> k]])
  /\ UNCHANGED <<svc, replaces, columns, personal, spent, dead, lost>>

\* updateProfile has loaded the user.
UpdateProfile(c) ==
  /\ Stands(c, "idle")
  /\ Begin(c, [NoJob EXCEPT !.pc = "save", !.copy = columns])
  /\ UNCHANGED <<svc, columns, personal, service, lost>>

\* The save of a loaded user writes all of the user's columns.
SaveUser(c) ==
  /\ Stands(c, "save")
  /\ LET copy == job[c].copy IN
     /\ columns' = IF svc = "discord" THEN copy ELSE [copy EXCEPT !.linked = columns.linked]
     /\ lost' = IF copy.refresh = columns.refresh THEN lost
                ELSE lost \cup ({copy.refresh} \cap spent)
  /\ Move(c, NoJob)
  /\ UNCHANGED <<svc, personal, service>>

-----------------------------------------------------------------------------

Restart ==
  /\ "crash" \in Faults
  /\ \E c \in Jobs : ~Stands(c, "idle")
  /\ lost' = lost \cup ({job[c].used : c \in {d \in Jobs : Stands(d, "store")}} \cap spent)
  /\ job' = [c \in Jobs |-> NoJob]
  /\ UNCHANGED <<svc, columns, personal, service>>

InitUserTokens ==
  /\ svc \in Services
  /\ replaces \in BOOLEAN /\ (svc = "discord" => replaces)
  /\ columns = NoColumns
  /\ personal = TRUE
  /\ age = [k \in Pairs |-> "unused"]
  /\ spent = {} /\ dead = {} /\ lost = {}
  /\ job = [c \in Jobs |-> NoJob]

UserTokensStep ==
  \/ \E c \in Jobs : GetValidToken(c) \/ ValidateConnection(c) \/ RefreshExpiringTokens(c)
  \/ \E c \in Jobs, k \in Pairs : RefreshSucceeds(c, k) \/ AnswerLost(c, k) \/ LinkTwitch(c, k)
       \/ AuthByDiscordCode(c, k)
  \/ \E c \in Jobs : ServiceFails(c) \/ RefreshRefused(c) \/ Store(c) \/ StoreFails(c)
  \/ \E c \in Jobs : ClearTokens(c) \/ ClearFails(c) \/ ClearFlag(c)
  \/ \E c \in Jobs : RequestAnswered(c) \/ RequestUnauthorised(c)
  \/ \E c \in Jobs : LinkStore(c) \/ UnlinkTwitch(c) \/ UnlinkTokens(c)
  \/ SetTwitchPersonalAuth \/ UnlinkDiscord
  \/ \E c \in Jobs : UpdateProfile(c) \/ SaveUser(c)
  \/ \E k \in Pairs : Age(k) \/ LinkDiscord(k)
  \/ Withdraw
  \/ Restart

UserTokensSpec == InitUserTokens /\ [][UserTokensStep]_userTokensVars

-----------------------------------------------------------------------------
(* Properties                                                               *)

Job == [pc : {"idle", "ask", "store", "clear", "flag", "send", "link", "unlink", "save"},
        op : {"use", "validate", "cron"}, access : 0..MaxPairs, refresh : 0..MaxPairs,
        used : 0..MaxPairs, copy : Columns, retried : BOOLEAN, failed : BOOLEAN,
        crossed : BOOLEAN]

\* Types; what is sent, stored or asked with is a token the service has issued.
UserTokensTypeOK ==
  /\ svc \in Services /\ replaces \in BOOLEAN
  /\ columns \in Columns
  /\ personal \in BOOLEAN
  /\ age \in [Pairs -> {"unused", "live", "hour", "last"}]
  /\ spent \subseteq Pairs /\ dead \subseteq Pairs /\ lost \subseteq Pairs
  /\ job \in [Jobs -> Job]
  /\ \A c \in Jobs :
       /\ job[c].pc \in {"send", "store", "link"} => job[c].access \in Pairs \ Unissued
       /\ job[c].pc \in {"ask", "store"} => job[c].used \in Pairs \ Unissued

\* The row holds a refresh token that has been used up only while its successor is on its
\* way to the row, or when that was lost on the way, or when a save of a row loaded before
\* brought the token back: no refresh forgets what it was given, and none of two of them
\* undoes the other.
SpentOnlyIfLost ==
  columns.refresh \in spent =>
    \/ columns.refresh \in lost
    \/ \E c \in Jobs : Stands(c, "store") /\ job[c].used = columns.refresh

\* A refresh clears tokens that are still good only if another job fell into it, or, with
\* Discord, if the refresh failed for any reason whatever.
KeptUnlessCrossed ==
  [][\A c \in Jobs :
       ClearTokens(c) /\ Usable(columns.refresh)
       => job[c].crossed \/ (svc = "discord" /\ job[c].failed)]_userTokensVars
===============================================================================
