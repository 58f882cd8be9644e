------------------------------- MODULE Sessions -------------------------------
(***************************************************************************)
(* Accounts and their sessions: AuthService, MeService, the two JWT          *)
(* strategies, and what the administrator's routes of UsersService do to     *)
(* them.                                                                     *)
(*                                                                         *)
(* A login inserts a session row and hands out a pair of tokens.  An access  *)
(* token is good until it expires or is on the list of logged-out tokens: a  *)
(* request that carries one looks at no session row.  A refresh token is     *)
(* good while its row exists and is not expired; a refresh reads the user,   *)
(* the row and the roles one after the other and hands out another pair.     *)
(*                                                                         *)
(* Some handlers update a column of the user, others load the row and save   *)
(* all of it back, after awaits in which others write.                       *)
(*                                                                         *)
(* Time is counted in half-seconds: a JWT has whole seconds, and a key in    *)
(* Redis or a session row what is left of the current one too.               *)
(***************************************************************************)
EXTENDS Integers, FiniteSets

CONSTANTS
  Users,        \* ids of user rows
  Mails,        \* e-mail addresses
  Accounts,     \* Discord accounts
  MailOf,       \* the address of a Discord account
  Roles,
  Requests,     \* requests in flight at once
  Events,       \* what may go wrong
  AccessTTL,    \* seconds an access token lives
  RefreshTTL,   \* seconds a refresh token and its session live
  MaxSessions,  \* bound on the sessions ever opened
  MaxTokens,    \* bound on the pairs of tokens ever handed out
  Instants,     \* the half-seconds at which anything happens: a bound on the clock
  Null

ASSUME SessionConstants ==
  /\ MailOf \in [Accounts -> Mails]
  /\ AccessTTL \in Nat /\ RefreshTTL \in Nat
  /\ MaxSessions \in Nat /\ MaxTokens \in Nat
  /\ Instants \subseteq Nat /\ Instants # {}
  /\ Null \notin Users \cup Accounts \cup Nat

VARIABLES
  now,          \* half-seconds
  users,        \* user rows
  sessions,     \* session rows
  opened,       \* sessions ever opened
  tokens,       \* pairs of tokens handed out
  issued,       \* how many
  blacklist,    \* until when a pair's access token is on the list
  loggedOut,    \* pairs whose logout was answered "true"
  decided,      \* what administrators decided last, for the properties, until stale
  stale,        \* a row was saved that somebody had changed since it was loaded
  req           \* requests

vars == <<now, users, sessions, opened, tokens, issued, blacklist,
          loggedOut, decided, stale, req>>
accounts == <<users, decided, stale>>
rows == <<sessions, opened>>
handed == <<tokens, issued>>
revoked == <<blacklist, loggedOut>>

Sids == 1..MaxSessions
Pairs == 1..MaxTokens

Idle == [pc |-> "idle", user |-> Null, pair |-> Null, session |-> Null,
         account |-> Null, row |-> Null, roles |-> {}, iat |-> 0, active |-> FALSE]

At(r, pc) == req[r].pc = pc

\* Active records, for the properties, whether the request's user was active at some
\* moment since it began.
Begun(u) == [Idle EXCEPT !.user = u, !.active = users[u].status = "active"]
Witnessed(rq, us) ==
  [r \in Requests |->
     IF rq[r].pc \in {"saveDiscord", "saveProfile", "saveRoles", "rolesOfLogin", "findSession",
                     "rolesOfRefresh"}
     THEN [rq[r] EXCEPT !.active = @ \/ us[rq[r].user].status = "active"]
     ELSE rq[r]]

Undecided == [status |-> "active", roles |-> {}]

Become(r, rec) == req' = [req EXCEPT ![r] = rec]
Goto(r, pc) == Become(r, [req[r] EXCEPT !.pc = pc])
Done(r) == Become(r, Idle)

-----------------------------------------------------------------------------
(* Tokens                                                                   *)

Seconds(t) == t \div 2
Expiry(iat, ttl) == iat + ttl

\* bcrypt reads 72 bytes.  They hold the JWT's header, its use and the first
\* letters of its subject, and are the same in all refresh tokens of a user.
Hash(pair) == pair.user

Unexpired(pair, ttl) == Seconds(now) < Expiry(pair.iat, ttl)

\* JwtAccessStrategy: the signature, the expiry and the list.
Accepts(p) ==
  /\ Unexpired(tokens[p], AccessTTL)
  /\ ~(now < blacklist[p])

VerifyRefreshToken(pair) ==
  /\ sessions[pair.session] # Null
  /\ sessions[pair.session].expiresAt >= now
  /\ sessions[pair.session].hash = Hash(pair)

\* JwtRefreshStrategy.
AcceptsRefresh(p) == Unexpired(tokens[p], RefreshTTL) /\ VerifyRefreshToken(tokens[p])

\* generateTokens: what a request hands out when it ends.
Pair(r, s) == [user |-> req[r].user, session |-> s, iat |-> req[r].iat]
HandOut(r, s) ==
  /\ issued < MaxTokens
  /\ issued' = issued + 1
  /\ tokens' = [tokens EXCEPT ![issued + 1] = Pair(r, s)]

\* What getSessions lists: it filters the expired rows out, and deletes none.
GetSessions(u) ==
  {s \in Sids : sessions[s] # Null /\ sessions[s].user = u /\ sessions[s].expiresAt >= now}

-----------------------------------------------------------------------------
(* Logins                                                                   *)

\* loginByEmail.  Whoever has no password, is blocked or gives a wrong password
\* gets an error.
LoginByEmail(r, u) ==
  /\ At(r, "idle")
  /\ users[u] # Null
  /\ users[u].password
  /\ users[u].status # "blocked"
  /\ Become(r, [Begun(u) EXCEPT !.pc = "rolesOfLogin"])
  /\ UNCHANGED <<now, accounts, rows, handed, revoked>>

\* registerByEmail: findOne, the hash, and the insertion, which fails for a taken
\* address.  The new row has no roles.
RegisterByEmail(r, m) ==
  /\ At(r, "idle")
  /\ \A u \in Users : users[u] # Null => users[u].mail # m
  /\ \E u \in Users :
       /\ users[u] = Null
       /\ users' = [users EXCEPT ![u] = [mail |-> m, discord |-> Null, password |-> TRUE,
                                         status |-> "active", roles |-> {}]]
       /\ Become(r, [Idle EXCEPT !.pc = "createSession", !.user = u, !.iat = Seconds(now),
                                 !.active = TRUE])
  /\ UNCHANGED <<now, decided, stale, rows, handed, revoked>>

\* Two accounts may not have one Discord id.
Unique(us) == \A u, v \in Users :
  us[u] # Null /\ us[v] # Null /\ us[u].discord = us[v].discord /\ us[u].discord # Null => u = v

\* Nobody asks for the decisions any more once a row has undone some.
Decides(d) == decided' = IF stale' THEN [u \in Users |-> Undecided] ELSE d

\* repository.save(user) writes every column that differs from the row as it is now.
\* It changes nothing when the Discord id is taken.
Save(u, row, loaded) ==
  LET us == [users EXCEPT ![u] = row]
  IN  /\ users' = IF Unique(us) THEN us ELSE users
      /\ stale' = (stale \/ (Unique(us) /\ loaded # users[u]))

MatchesDiscord(u, d) ==
  users[u] # Null /\ (users[u].mail = MailOf[d] \/ users[u].discord = d)

\* authByDiscordCode, to findOne and the test of the status.
AuthByDiscordCode(r, d) ==
  /\ At(r, "idle")
  /\ \/ \E u \in Users :
          /\ MatchesDiscord(u, d)
          /\ users[u].status # "blocked"
          /\ Become(r, [Begun(u) EXCEPT !.pc = "saveDiscord", !.account = d,
                                                !.row = users[u]])
     \/ /\ \A u \in Users : ~MatchesDiscord(u, d)
        /\ Become(r, [Idle EXCEPT !.pc = "insertDiscord", !.account = d])
  /\ UNCHANGED <<now, accounts, rows, handed, revoked>>

SaveDiscordBare(r) ==
  LET t == req[r] IN
  /\ At(r, "saveDiscord")
  /\ Save(t.user, [t.row EXCEPT !.discord = t.account, !.roles = {}], t.row)
  /\ Decides(decided)
  /\ req' = Witnessed([req EXCEPT ![r].pc = "rolesOfLogin"], users')
  /\ UNCHANGED <<now, rows, handed, revoked>>

\* save(userData), which was loaded with its roles and writes them too.
SaveDiscord(r) ==
  LET t == req[r]
      row == [t.row EXCEPT !.discord = t.account]
      saved == Unique([users EXCEPT ![t.user] = row])
  IN  /\ At(r, "saveDiscord")
      /\ Save(t.user, row, t.row)
      /\ Decides(decided)
      /\ req' = Witnessed([req EXCEPT ![r] = IF ~saved THEN Idle ELSE
           [@ EXCEPT !.pc = "rolesOfLogin", !.row = Null, !.account = Null]],
           users')
      /\ UNCHANGED <<now, rows, handed, revoked>>

\* save(newUser), which fails when its address or its Discord id is taken by now.
InsertDiscord(r) ==
  LET d == req[r].account IN
  /\ At(r, "insertDiscord")
  /\ \/ /\ \A u \in Users : ~MatchesDiscord(u, d)
        /\ \E u \in Users :
             /\ users[u] = Null
             /\ users' = [users EXCEPT ![u] = [mail |-> MailOf[d], discord |-> d,
                                               password |-> FALSE, status |-> "active",
                                               roles |-> {}]]
             /\ Become(r, [Idle EXCEPT !.pc = "rolesOfLogin", !.user = u, !.active = TRUE])
     \/ (\E u \in Users : MatchesDiscord(u, d)) /\ Done(r) /\ UNCHANGED users
  /\ UNCHANGED <<now, decided, stale, rows, handed, revoked>>

\* getRolesAccessesForUser, whose permissions the access token carries, and the tokens,
\* which are signed in the same breath.
ReadRoles(r) ==
  /\ req[r].pc \in {"rolesOfLogin", "rolesOfRefresh"}
  /\ Become(r, [req[r] EXCEPT
       !.pc = IF @ = "rolesOfLogin" THEN "createSession" ELSE "storeRefresh",
       !.iat = Seconds(now)])
  /\ UNCHANGED <<now, accounts, rows, handed, revoked>>

\* createSession
CreateSession(r) ==
  /\ At(r, "createSession")
  /\ opened < MaxSessions
  /\ HandOut(r, opened + 1)
  /\ opened' = opened + 1
  /\ sessions' = [sessions EXCEPT ![opened + 1] =
       [user |-> req[r].user, hash |-> Hash(Pair(r, opened + 1)),
        expiresAt |-> now + 2 * RefreshTTL]]
  /\ Done(r)
  /\ UNCHANGED <<now, accounts, revoked>>

-----------------------------------------------------------------------------
(* Refresh                                                                  *)

RefreshFindUserOnly(u) == users[u] # Null

\* refreshToken: the user must be there and not blocked.
RefreshFindUser(u) == users[u] # Null /\ users[u].status # "blocked"

\* POST refresh, behind JwtRefreshGuard, to the first query of refreshToken.
Refresh(r, p) ==
  /\ At(r, "idle")
  /\ tokens[p] # Null
  /\ AcceptsRefresh(p)
  /\ RefreshFindUser(tokens[p].user)
  /\ Become(r, [Begun(tokens[p].user) EXCEPT !.pc = "findSession", !.session = tokens[p].session])
  /\ UNCHANGED <<now, accounts, rows, handed, revoked>>

\* refreshToken: the session.  The hash is not looked at again.
RefreshFindSession(r) ==
  /\ At(r, "findSession")
  /\ IF sessions[req[r].session] = Null THEN Done(r) ELSE Goto(r, "rolesOfRefresh")
  /\ UNCHANGED <<now, accounts, rows, handed, revoked>>

StoreRefreshSaves(r) ==
  LET s == req[r].session IN
  /\ At(r, "storeRefresh")
  /\ HandOut(r, s)
  /\ sessions' = [sessions EXCEPT ![s] =
       [user |-> req[r].user, hash |-> Hash(Pair(r, s)), expiresAt |-> now + 2 * RefreshTTL]]
  /\ Done(r)
  /\ UNCHANGED <<now, accounts, opened, revoked>>

\* refreshToken: update changes no row that is gone, and nobody looks whether it did.
StoreRefresh(r) ==
  LET s == req[r].session IN
  /\ At(r, "storeRefresh")
  /\ HandOut(r, s)
  /\ sessions' = IF sessions[s] = Null THEN sessions
                 ELSE [sessions EXCEPT ![s].hash = Hash(Pair(r, s))]
  /\ Done(r)
  /\ UNCHANGED <<now, accounts, opened, revoked>>

-----------------------------------------------------------------------------
(* Requests with an access token                                            *)

\* A request behind JwtAccessGuard, to the first query of its handler.
Authorised(r, p) == At(r, "idle") /\ tokens[p] # Null /\ Accepts(p)

\* logout: without the session's row it answers "false".
LogoutFind(r, p) ==
  /\ sessions[tokens[p].session] # Null
  /\ Become(r, [Idle EXCEPT !.pc = "deleteLogout", !.pair = p, !.session = tokens[p].session])

\* POST logout
Logout(r, p) ==
  /\ Authorised(r, p)
  /\ LogoutFind(r, p)
  /\ UNCHANGED <<now, accounts, rows, handed, revoked>>

LogoutDelete(r) ==
  /\ At(r, "deleteLogout")
  /\ sessions' = [sessions EXCEPT ![req[r].session] = Null]
  /\ Goto(r, "blacklist")
  /\ UNCHANGED <<now, accounts, opened, handed, revoked>>

BlacklistAccessTokenRoundsUp(r) ==
  LET p == req[r].pair
      ttl == Expiry(tokens[p].iat, AccessTTL) - Seconds(now + 1)
  IN  /\ At(r, "blacklist")
      /\ blacklist' = IF ttl > 0 THEN [blacklist EXCEPT ![p] = now + 2 * ttl] ELSE blacklist
      /\ loggedOut' = loggedOut \cup {p}
      /\ Done(r)
      /\ UNCHANGED <<now, accounts, rows, handed>>

\* blacklistAccessToken, and the answer.
BlacklistAccessToken(r) ==
  LET p == req[r].pair
      ttl == Expiry(tokens[p].iat, AccessTTL) - Seconds(now)
  IN  /\ At(r, "blacklist")
      /\ blacklist' = IF ttl > 0 THEN [blacklist EXCEPT ![p] = now + 2 * ttl] ELSE blacklist
      /\ loggedOut' = loggedOut \cup {p}
      /\ Done(r)
      /\ UNCHANGED <<now, accounts, rows, handed>>

\* DELETE sessions/:sessionId, of a session the user was shown.
RevokeSession(r, p, s) ==
  /\ Authorised(r, p)
  /\ s \in GetSessions(tokens[p].user)
  /\ Become(r, [Idle EXCEPT !.pc = "revoke", !.session = s])
  /\ UNCHANGED <<now, accounts, rows, handed, revoked>>

\* revokeSession, after findOne has found the row.
RevokeDelete(r) ==
  /\ At(r, "revoke")
  /\ sessions' = [sessions EXCEPT ![req[r].session] = Null]
  /\ Done(r)
  /\ UNCHANGED <<now, accounts, opened, handed, revoked>>

\* UsersService.deleteUserSession: an administrator removes the row.
DeleteUserSession(s) ==
  /\ sessions[s] # Null
  /\ sessions' = [sessions EXCEPT ![s] = Null]
  /\ UNCHANGED <<now, accounts, opened, handed, revoked, req>>

\* updateProfile: findOne.
LoadProfile(r, u) == Become(r, [Begun(u) EXCEPT !.pc = "saveProfile", !.row = users[u]])

\* PATCH me, with a new password.
UpdateProfile(r, p) ==
  /\ Authorised(r, p)
  /\ LoadProfile(r, tokens[p].user)
  /\ UNCHANGED <<now, accounts, rows, handed, revoked>>

\* updateProfile: the new password, and save(user), which was loaded without its roles
\* and leaves them alone.  The sessions of the user stay.
SaveProfile(r) ==
  LET t == req[r]
      row == [t.row EXCEPT !.roles = users[t.user].roles]
  IN  /\ At(r, "saveProfile")
      /\ Save(t.user, [row EXCEPT !.password = TRUE], row)
      /\ Decides(decided)
      /\ req' = Witnessed([req EXCEPT ![r] = Idle], users')
      /\ UNCHANGED <<now, rows, handed, revoked>>

\* linkDiscord: findOne gives one row that has the Discord id or its address; it is
\* an error when that is another user's.
LinkFind(u, d) == MatchesDiscord(u, d) \/ \A v \in Users : ~MatchesDiscord(v, d)

\* POST discord/link
LinkDiscord(r, p, d) ==
  /\ Authorised(r, p)
  /\ LinkFind(tokens[p].user, d)
  /\ Become(r, [Idle EXCEPT !.pc = "updateLink", !.user = tokens[p].user, !.account = d])
  /\ UNCHANGED <<now, accounts, rows, handed, revoked>>

LinkUpdate(r) ==
  LET us == [users EXCEPT ![req[r].user].discord = req[r].account] IN
  /\ At(r, "updateLink")
  /\ users' = IF Unique(us) THEN us ELSE users
  /\ Done(r)
  /\ UNCHANGED <<now, decided, stale, rows, handed, revoked>>

UnlinkFindLinked(u) == users[u].discord # Null

\* unlinkDiscord: the account must have a password.
UnlinkFind(u) == users[u].discord # Null /\ users[u].password

\* DELETE discord/unlink
UnlinkDiscord(r, p) ==
  /\ Authorised(r, p)
  /\ UnlinkFind(tokens[p].user)
  /\ Become(r, [Idle EXCEPT !.pc = "updateUnlink", !.user = tokens[p].user])
  /\ UNCHANGED <<now, accounts, rows, handed, revoked>>

UnlinkUpdate(r) ==
  /\ At(r, "updateUnlink")
  /\ users' = [users EXCEPT ![req[r].user].discord = Null]
  /\ Done(r)
  /\ UNCHANGED <<now, decided, stale, rows, handed, revoked>>

-----------------------------------------------------------------------------
(* The administrator's routes                                               *)

UpdateUserStatus(u, status) ==
  /\ users[u] # Null
  /\ users' = [users EXCEPT ![u].status = status]
  /\ UNCHANGED stale
  /\ Decides([decided EXCEPT ![u].status = status])
  /\ req' = Witnessed(req, users')
  /\ UNCHANGED <<now, rows, handed, revoked>>

\* updateUserRoles: findOne and user.roles = newRoles.
UpdateUserRoles(r, u, roles) ==
  /\ At(r, "idle")
  /\ users[u] # Null
  /\ Become(r, [Begun(u) EXCEPT !.pc = "saveRoles", !.row = users[u], !.roles = roles])
  /\ UNCHANGED <<now, accounts, rows, handed, revoked>>

\* updateUserRoles: save(user) writes the row and the roles.
SaveRoles(r) ==
  LET t == req[r]
      row == [t.row EXCEPT !.roles = t.roles]
  IN  /\ At(r, "saveRoles")
      /\ Save(t.user, row, t.row)
      /\ Decides(IF Unique([users EXCEPT ![t.user] = row])
                 THEN [decided EXCEPT ![t.user].roles = t.roles] ELSE decided)
      /\ req' = Witnessed([req EXCEPT ![r] = Idle], users')
      /\ UNCHANGED <<now, rows, handed, revoked>>

-----------------------------------------------------------------------------

\* Time passes, and Redis drops what has run out.
Tick ==
  /\ now' \in {t \in Instants : t > now}
  /\ \A t \in Instants : t <= now \/ now' <= t
  /\ blacklist' = [p \in Pairs |-> IF now' < blacklist[p] THEN blacklist[p] ELSE 0]
  /\ UNCHANGED <<accounts, rows, handed, loggedOut, req>>

\* A query or command of a request is rejected; a restart of the api is this, for all of
\* them.
Crash ==
  /\ "crash" \in Events
  /\ \E r \in Requests : ~At(r, "idle") /\ Done(r)
  /\ UNCHANGED <<now, accounts, rows, handed, revoked>>

Init ==
  /\ now \in Instants /\ \A t \in Instants : now <= t
  /\ users = [u \in Users |-> Null]
  /\ decided = [u \in Users |-> Undecided]
  /\ sessions = [s \in Sids |-> Null]
  /\ opened = 0
  /\ tokens = [p \in Pairs |-> Null]
  /\ issued = 0
  /\ blacklist = [p \in Pairs |-> 0]
  /\ loggedOut = {}
  /\ stale = FALSE
  /\ req = [r \in Requests |-> Idle]

Login(r) ==
  \/ \E u \in Users : LoginByEmail(r, u)
  \/ \E m \in Mails : RegisterByEmail(r, m)
  \/ \E d \in Accounts : AuthByDiscordCode(r, d)
  \/ SaveDiscord(r) \/ InsertDiscord(r) \/ ReadRoles(r) \/ CreateSession(r)

Session(r) ==
  \/ \E p \in Pairs : Refresh(r, p)
  \/ RefreshFindSession(r) \/ StoreRefresh(r)
  \/ \E p \in Pairs : Logout(r, p)
  \/ LogoutDelete(r) \/ BlacklistAccessToken(r)
  \/ \E p \in Pairs, s \in Sids : RevokeSession(r, p, s)
  \/ RevokeDelete(r)

Profile(r) ==
  \/ \E p \in Pairs : UpdateProfile(r, p) \/ UnlinkDiscord(r, p)
  \/ \E p \in Pairs, d \in Accounts : LinkDiscord(r, p, d)
  \/ SaveProfile(r) \/ LinkUpdate(r) \/ UnlinkUpdate(r)

Admin ==
  \/ \E u \in Users, status \in {"active", "blocked"} : UpdateUserStatus(u, status)
  \/ \E r \in Requests, u \in Users, roles \in SUBSET Roles : UpdateUserRoles(r, u, roles)
  \/ \E r \in Requests : SaveRoles(r)
  \/ \E s \in Sids : DeleteUserSession(s)

Next ==
  \/ \E r \in Requests : Login(r) \/ Session(r) \/ Profile(r)
  \/ Admin
  \/ Tick
  \/ Crash

Spec == Init /\ [][Next]_vars

-----------------------------------------------------------------------------
(* Properties                                                               *)

UserRow == [mail : Mails, discord : Accounts \cup {Null}, password : BOOLEAN,
            status : {"active", "blocked"}, roles : SUBSET Roles]

ASSUME NullIsNoUser == Null \notin UserRow

SessionRow == [user : Users, hash : Users, expiresAt : Nat]
TokenPair == [user : Users, session : Sids, iat : Nat]
Pcs == {"idle", "rolesOfLogin", "saveDiscord", "insertDiscord", "createSession",
        "findSession", "rolesOfRefresh", "storeRefresh", "deleteLogout", "blacklist",
        "revoke", "saveProfile", "updateLink", "updateUnlink", "saveRoles"}
Request == [pc : Pcs, user : Users \cup {Null}, pair : Pairs \cup {Null},
            session : Sids \cup {Null}, account : Accounts \cup {Null},
            row : UserRow \cup {Null}, roles : SUBSET Roles, iat : Nat,
            active : BOOLEAN]

\* Types; a row is saved only by who has loaded it, and the session a request
\* carries is one that was opened.
TypeOK ==
  /\ now \in Nat
  /\ users \in [Users -> UserRow \cup {Null}]
  /\ decided \in [Users -> [status : {"active", "blocked"}, roles : SUBSET Roles]]
  /\ sessions \in [Sids -> SessionRow \cup {Null}]
  /\ opened \in 0..MaxSessions
  /\ tokens \in [Pairs -> TokenPair \cup {Null}]
  /\ issued \in 0..MaxTokens
  /\ blacklist \in [Pairs -> Nat]
  /\ loggedOut \subseteq Pairs
  /\ stale \in BOOLEAN
  /\ req \in [Requests -> Request]
  /\ \A r \in Requests :
       /\ req[r].pc \in {"saveDiscord", "saveProfile", "saveRoles"} => req[r].row # Null
       /\ req[r].session # Null => req[r].session <= opened

\* A session that was deleted never comes back: not by a refresh that had read it
\* before, either.  (The tokens of a session are handed out once its row is there.)
EndedStaysEnded ==
  [][\A s \in Sids : (\E p \in Pairs : tokens[p] # Null /\ tokens[p].session = s)
                     /\ sessions[s] = Null => sessions'[s] = Null]_vars

\* After a logout was answered, its access token is refused until it would have
\* expired: the entry does not run out before, at any half-second.
LogoutHolds == \A p \in loggedOut : ~Accepts(p)

HandsOut(r) == issued' # issued /\ req[r].pc \in {"createSession", "storeRefresh"} /\ req'[r] = Idle

\* A request that began when its user was blocked, and in whose time nobody unblocked
\* him, hands out no tokens; and it does not unblock him, though it saves his row.
BlockHolds ==
  [][/\ \A r \in Requests : HandsOut(r) => req[r].active
     /\ \A u \in Users :
          users[u] # Null /\ users[u].status = "blocked" /\ users'[u].status = "active"
          => \/ UpdateUserStatus(u, "active")
             \/ \E r \in Requests : req[r].user = u /\ req[r].active /\ req'[r] # req[r]]_vars

\* A user has the status and the roles an administrator gave him last, whoever logs in
\* or saves a profile meanwhile, unless a row was saved that had been changed since.
AsDecided ==
  ~stale => \A u \in Users : users[u] # Null =>
              decided[u] = [status |-> users[u].status, roles |-> users[u].roles]

\* An account has a password or a Discord account: "Cannot unlink Discord: no password
\* set. Set a password first."
CanLogIn ==
  \A u \in Users : users[u] # Null => users[u].password \/ users[u].discord # Null

\* It has, as long as nobody saved a row that had been changed since he loaded it.
CanLogInUnlessStale == ~stale => CanLogIn
===============================================================================
