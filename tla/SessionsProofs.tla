---------------------------- MODULE SessionsProofs ----------------------------
(***************************************************************************)
(* Theorems about Sessions, for any users, accounts, roles, limits and        *)
(* number of requests.                                                       *)
(***************************************************************************)
EXTENDS Sessions, TLAPS

Decision == [status : {"active", "blocked"}, roles : SUBSET Roles]

SessionTypes ==
  /\ now \in Nat
  /\ users \in [Users -> UserRow \cup {Null}]
  /\ decided \in [Users -> Decision]
  /\ sessions \in [Sids -> SessionRow \cup {Null}]
  /\ opened \in 0..MaxSessions
  /\ tokens \in [Pairs -> TokenPair \cup {Null}]
  /\ issued \in 0..MaxTokens
  /\ blacklist \in [Pairs -> Nat]
  /\ loggedOut \subseteq Pairs
  /\ stale \in BOOLEAN
  /\ req \in [Requests -> Request]

\* Where a request knows its user, its session; where it is a login or a refresh, which
\* hand out tokens; where it is about to save a row.
OfUser == {"rolesOfLogin", "saveDiscord", "createSession", "findSession", "rolesOfRefresh",
           "storeRefresh", "saveProfile", "updateLink", "updateUnlink", "saveRoles"}
OfSession == {"findSession", "rolesOfRefresh", "storeRefresh", "deleteLogout", "blacklist",
              "revoke"}
Granting == {"rolesOfLogin", "saveDiscord", "createSession", "findSession",
             "rolesOfRefresh", "storeRefresh"}
Saving == {"saveDiscord", "saveProfile", "saveRoles"}

\* What a request has read of the rows us, of o sessions and i pairs of tokens, and what
\* of it still holds, whoever writes: no user goes away, and one who had a password has
\* it, as long as no stale row (st) was saved.
Sound(t, us, o, i, st) ==
  /\ t.pc \in OfUser => t.user \in Users /\ us[t.user] # Null
  /\ t.pc \in OfSession => t.session \in Sids
  /\ t.session # Null => t.session <= o
  /\ t.pc \in {"deleteLogout", "blacklist"} => t.pair \in 1..i
  /\ t.pc \in {"saveDiscord", "insertDiscord", "updateLink"} => t.account \in Accounts
  /\ t.pc \in Saving => t.row \in UserRow /\ (t.row.status = "active" => t.active)
  /\ t.pc \in Granting => t.active
  /\ t.pc = "updateUnlink" /\ ~st => us[t.user].password

AllSound == \A r \in Requests : Sound(req[r], users, opened, issued, stale)

\* Tokens are of users that are there and of sessions that were opened.
TokensKnown ==
  /\ \A p \in 1..issued : /\ tokens[p] \in TokenPair
                          /\ users[tokens[p].user] # Null
                          /\ tokens[p].session <= opened
  /\ \A p \in Pairs : p > issued => tokens[p] = Null

RowsOpened == \A s \in Sids : s > opened => sessions[s] = Null

\* The half-second at which an access token expires.
End(p) == 2 * Expiry(tokens[p].iat, AccessTTL)

\* The entry of a logged-out token lasts at least as long as the token.
Outlasts == \A p \in loggedOut : p <= issued /\ (End(p) <= blacklist[p] \/ End(p) <= now)

\* Nobody decides about a user who is not there.
Undetermined == \A u \in Users : users[u] = Null => decided[u] = Undecided

AccountsKept == Undetermined /\ AsDecided /\ CanLogInUnlessStale

SessionsInv == SessionTypes /\ AllSound /\ TokensKnown /\ RowsOpened /\ Outlasts /\ AccountsKept

-----------------------------------------------------------------------------
(* What all steps keep                                                      *)

LEMMA IdleSound ==
  ASSUME NEW us, NEW o, NEW i, NEW st
  PROVE  Idle \in Request /\ Sound(Idle, us, o, i, st)
  BY DEF Idle, Request, Pcs, Sound, OfUser, OfSession, Granting, Saving

LEMMA SessionsInit == Init => SessionsInv
  <1> SUFFICES ASSUME Init PROVE SessionsInv
    OBVIOUS
  <1>1. SessionTypes
    <2>1. now \in Nat /\ 0 \in 0..MaxSessions /\ 0 \in 0..MaxTokens
      BY SessionConstants DEF Init
    <2>2. decided \in [Users -> Decision] /\ req \in [Requests -> Request]
      BY IdleSound DEF Init, Decision, Undecided
    <2> QED
      BY <2>1, <2>2 DEF Init, SessionTypes
  <1>2. AllSound
    BY IdleSound DEF Init, AllSound
  <1>3. TokensKnown /\ RowsOpened /\ Outlasts
    BY DEF Init, TokensKnown, RowsOpened, Outlasts
  <1>4. AccountsKept
    BY DEF Init, AccountsKept, Undetermined, AsDecided, CanLogInUnlessStale, CanLogIn
  <1> QED
    BY <1>1, <1>2, <1>3, <1>4 DEF SessionsInv

\* Users, sessions and tokens only become more, and a stale row is never forgotten.
Grown ==
  /\ \A u \in Users : users[u] # Null => users'[u] # Null
  /\ opened <= opened' /\ issued <= issued'
  /\ stale => stale'
  /\ ~stale' => \A u \in Users : users[u] # Null /\ users[u].password => users'[u].password

LEMMA StaysSound ==
  ASSUME SessionTypes, SessionTypes', Grown, NEW t \in Request,
         Sound(t, users, opened, issued, stale)
  PROVE  Sound(t, users', opened', issued', stale')
  <1>1. /\ opened \in Nat /\ opened' \in Nat /\ issued \in Nat /\ issued' \in Nat
        /\ t.session \in Sids \cup {Null} /\ t.pair \in Pairs \cup {Null}
    BY DEF SessionTypes, Request
  <1>2. t.session # Null => t.session <= opened'
    BY <1>1 DEF Sound, Grown, Sids
  <1>3. t.pc \in {"deleteLogout", "blacklist"} => t.pair \in 1..issued'
    BY <1>1 DEF Sound, Grown
  <1>4. t.pc \in OfUser => t.user \in Users /\ users[t.user] # Null /\ users'[t.user] # Null
    BY DEF Sound, Grown
  <1>5. t.pc = "updateUnlink" /\ ~stale' => users'[t.user].password
    BY <1>4 DEF Sound, Grown, OfUser
  <1> QED
    BY <1>2, <1>3, <1>4, <1>5 DEF Sound

LEMMA TokensStay ==
  ASSUME SessionsInv, Grown, SessionTypes', UNCHANGED handed
  PROVE  TokensKnown'
  <1>1. \A p \in 1..issued : /\ tokens[p] \in TokenPair /\ users'[tokens[p].user] # Null
                             /\ tokens[p].session <= opened'
    <2> SUFFICES ASSUME NEW p \in 1..issued
                 PROVE  /\ tokens[p] \in TokenPair /\ users'[tokens[p].user] # Null
                        /\ tokens[p].session <= opened'
      OBVIOUS
    <2>1. tokens[p] \in TokenPair /\ users[tokens[p].user] # Null /\ tokens[p].session <= opened
      BY DEF SessionsInv, TokensKnown
    <2>2. tokens[p].user \in Users /\ tokens[p].session \in Nat
      BY <2>1 DEF TokenPair, Sids
    <2> QED
      BY <2>1, <2>2 DEF Grown, SessionsInv, SessionTypes
  <1> QED
    BY <1>1 DEF TokensKnown, SessionsInv, handed

\* A step of one request that reads, and writes nothing.
LEMMA RequestStep ==
  ASSUME SessionsInv, NEW r \in Requests, NEW t \in Request, Become(r, t),
         Sound(t, users, opened, issued, stale),
         UNCHANGED <<now, accounts, rows, handed, revoked>>
  PROVE  SessionsInv'
  <1> USE DEF accounts, rows, handed, revoked
  <1>1. SessionTypes'
    BY DEF SessionsInv, SessionTypes, Become
  <1>2. AllSound'
    BY DEF SessionsInv, SessionTypes, AllSound, Become
  <1>3. TokensKnown' /\ RowsOpened' /\ Outlasts'
    BY DEF SessionsInv, TokensKnown, RowsOpened, Outlasts, End
  <1>4. AccountsKept'
    BY DEF SessionsInv, AccountsKept, Undetermined, AsDecided, CanLogInUnlessStale, CanLogIn
  <1> QED
    BY <1>1, <1>2, <1>3, <1>4 DEF SessionsInv

\* A step that writes users' rows alone.
LEMMA AccountStep ==
  ASSUME SessionsInv, Grown, SessionTypes', AllSound', AccountsKept',
         UNCHANGED <<now, rows, handed, revoked>>
  PROVE  SessionsInv'
  <1>1. TokensKnown'
    BY TokensStay
  <1>2. RowsOpened' /\ Outlasts'
    BY DEF SessionsInv, RowsOpened, Outlasts, End, rows, handed, revoked
  <1> QED
    BY <1>1, <1>2 DEF SessionsInv
-----------------------------------------------------------------------------
(* Reading                                                                  *)

\* The record of a request that begins: what it was given fits the user's row.
LEMMA BegunSound ==
  ASSUME SessionsInv, NEW u \in Users, users[u] # Null
  PROVE  /\ users[u] \in UserRow
         /\ Begun(u) \in Request
         /\ Begun(u).user = u /\ Begun(u).session = Null
         /\ Begun(u).active = (users[u].status = "active")
         /\ users[u].status # "blocked" => users[u].status = "active"
  BY DEF SessionsInv, SessionTypes, UserRow, Begun, Idle, Request, Pcs

\* The user and the session of a pair of tokens are known.
LEMMA PairKnown ==
  ASSUME SessionsInv, NEW p \in Pairs, tokens[p] # Null
  PROVE  /\ p \in 1..issued
         /\ tokens[p] \in TokenPair
         /\ tokens[p].user \in Users /\ users[tokens[p].user] # Null
         /\ tokens[p].session \in Sids /\ tokens[p].session <= opened
  BY SessionConstants DEF SessionsInv, SessionTypes, TokensKnown, TokenPair, Pairs

\* Likewise for one that has loaded the row to save it.
LEMMA LoadedSound ==
  ASSUME SessionsInv, NEW u \in Users, users[u] # Null, NEW pc \in {"saveProfile", "saveRoles"}
  PROVE  LET t == [Begun(u) EXCEPT !.pc = pc, !.row = users[u]]
         IN  t \in Request /\ Sound(t, users, opened, issued, stale)
  <1> DEFINE t == [Begun(u) EXCEPT !.pc = pc, !.row = users[u]]
  <1>1. /\ Begun(u) \in Request /\ Begun(u).user = u /\ Begun(u).session = Null
        /\ Begun(u).active = (users[u].status = "active") /\ users[u] \in UserRow
    BY BegunSound
  <1>2. t \in Request
    BY <1>1 DEF Request, Pcs
  <1>3. /\ t.pc = pc /\ t.user = u /\ t.session = Null /\ t.row = users[u]
        /\ t.row.status = "active" => t.active
    BY <1>1 DEF Request
  <1> HIDE DEF t
  <1>4. Sound(t, users, opened, issued, stale)
    BY <1>1, <1>3 DEF Sound, OfUser, OfSession, Granting, Saving
  <1> QED
    BY <1>2, <1>4 DEF t

LEMMA LoginByEmailStep ==
  ASSUME SessionsInv, NEW r \in Requests, NEW u \in Users, LoginByEmail(r, u)
  PROVE  SessionsInv'
  <1> DEFINE t == [Begun(u) EXCEPT !.pc = "rolesOfLogin"]
  <1>0. users[u] # Null /\ users[u].status # "blocked"
    BY DEF LoginByEmail
  <1>1. t \in Request /\ Sound(t, users, opened, issued, stale)
    BY <1>0, BegunSound DEF Request, Pcs, Sound, OfUser, OfSession, Granting, Saving
  <1>2. Become(r, t) /\ UNCHANGED <<now, accounts, rows, handed, revoked>>
    BY DEF LoginByEmail
  <1> HIDE DEF t
  <1> QED
    BY <1>1, <1>2, RequestStep

LEMMA AuthByDiscordCodeStep ==
  ASSUME SessionsInv, NEW r \in Requests, NEW d \in Accounts, AuthByDiscordCode(r, d)
  PROVE  SessionsInv'
  <1>1. CASE \E u \in Users :
               /\ MatchesDiscord(u, d) /\ users[u].status # "blocked"
               /\ Become(r, [Begun(u) EXCEPT !.pc = "saveDiscord", !.account = d,
                                             !.row = users[u]])
    <2> PICK u \in Users :
          /\ MatchesDiscord(u, d) /\ users[u].status # "blocked"
          /\ Become(r, [Begun(u) EXCEPT !.pc = "saveDiscord", !.account = d, !.row = users[u]])
      BY <1>1
    <2> DEFINE t == [Begun(u) EXCEPT !.pc = "saveDiscord", !.account = d, !.row = users[u]]
    <2>1. users[u] # Null
      BY DEF MatchesDiscord
    <2>2. t \in Request /\ Sound(t, users, opened, issued, stale)
      <3>1. /\ t \in Request /\ t.pc = "saveDiscord" /\ t.user = u /\ t.session = Null
            /\ t.account = d /\ t.row = users[u] /\ t.row \in UserRow /\ t.active
        <4>1. /\ Begun(u) \in Request /\ Begun(u).user = u /\ Begun(u).session = Null
              /\ Begun(u).active /\ users[u] \in UserRow
          BY <2>1, BegunSound
        <4>2. t \in Request
          BY <4>1 DEF Request, Pcs
        <4> QED
          BY <4>1, <4>2 DEF Request
      <3> HIDE DEF t
      <3> QED
        BY <2>1, <3>1 DEF Sound, OfUser, OfSession, Granting, Saving
    <2>3. Become(r, t) /\ UNCHANGED <<now, accounts, rows, handed, revoked>>
      BY DEF AuthByDiscordCode
    <2> HIDE DEF t
    <2> QED
      BY <2>2, <2>3, RequestStep
  <1>2. CASE Become(r, [Idle EXCEPT !.pc = "insertDiscord", !.account = d])
    <2> DEFINE t == [Idle EXCEPT !.pc = "insertDiscord", !.account = d]
    <2>1. t \in Request /\ Sound(t, users, opened, issued, stale)
      BY DEF Idle, Request, Pcs, Sound, OfUser, OfSession, Granting, Saving
    <2>2. Become(r, t) /\ UNCHANGED <<now, accounts, rows, handed, revoked>>
      BY <1>2 DEF AuthByDiscordCode
    <2> HIDE DEF t
    <2> QED
      BY <2>1, <2>2, RequestStep
  <1> QED
    BY <1>1, <1>2 DEF AuthByDiscordCode

LEMMA ReadRolesStep ==
  ASSUME SessionsInv, NEW r \in Requests, ReadRoles(r)
  PROVE  SessionsInv'
  <1> DEFINE t == [req[r] EXCEPT
                     !.pc = IF @ = "rolesOfLogin" THEN "createSession" ELSE "storeRefresh",
                     !.iat = Seconds(now)]
  <1>1. req[r] \in Request /\ Seconds(now) \in Nat
    BY DEF SessionsInv, SessionTypes, Seconds
  <1>2. Sound(req[r], users, opened, issued, stale)
        /\ req[r].pc \in {"rolesOfLogin", "rolesOfRefresh"}
    BY DEF SessionsInv, AllSound, ReadRoles
  <1>3. t \in Request /\ Sound(t, users, opened, issued, stale)
    BY <1>1, <1>2 DEF Request, Pcs, Sound, OfUser, OfSession, Granting, Saving
  <1>4. Become(r, t) /\ UNCHANGED <<now, accounts, rows, handed, revoked>>
    BY DEF ReadRoles
  <1> HIDE DEF t
  <1> QED
    BY <1>3, <1>4, RequestStep

LEMMA RefreshStep ==
  ASSUME SessionsInv, NEW r \in Requests, NEW p \in Pairs, Refresh(r, p)
  PROVE  SessionsInv'
  <1> DEFINE u == tokens[p].user
             t == [Begun(u) EXCEPT !.pc = "findSession", !.session = tokens[p].session]
  <1>1. /\ u \in Users /\ users[u] # Null /\ users[u].status # "blocked"
        /\ tokens[p].session \in Sids /\ tokens[p].session <= opened
    BY PairKnown DEF Refresh, RefreshFindUser
  <1>2. Become(r, t) /\ UNCHANGED <<now, accounts, rows, handed, revoked>>
    BY DEF Refresh
  <1> HIDE DEF u
  <1>3. t \in Request /\ Sound(t, users, opened, issued, stale)
    <2>1. /\ t \in Request /\ t.pc = "findSession" /\ t.user = u
          /\ t.session = tokens[p].session /\ t.active
      <3>1. Begun(u) \in Request /\ Begun(u).user = u /\ Begun(u).active
        BY <1>1, BegunSound
      <3>2. t \in Request
        BY <1>1, <3>1 DEF Request, Pcs
      <3> QED
        BY <3>1, <3>2 DEF Request
    <2> HIDE DEF t
    <2> QED
      BY <1>1, <2>1 DEF Sound, OfUser, OfSession, Granting, Saving
  <1> HIDE DEF t
  <1> QED
    BY <1>2, <1>3, RequestStep
LEMMA IdleStep ==
  ASSUME SessionsInv, NEW r \in Requests, Done(r),
         UNCHANGED <<now, accounts, rows, handed, revoked>>
  PROVE  SessionsInv'
  <1>1. Become(r, Idle)
    BY DEF Done
  <1>2. Idle \in Request /\ Sound(Idle, users, opened, issued, stale)
    BY IdleSound
  <1> QED
    BY <1>1, <1>2, RequestStep

LEMMA RefreshFindSessionStep ==
  ASSUME SessionsInv, NEW r \in Requests, RefreshFindSession(r)
  PROVE  SessionsInv'
  <1>1. CASE sessions[req[r].session] = Null
    BY <1>1, IdleStep DEF RefreshFindSession
  <1>2. CASE sessions[req[r].session] # Null
    <2> DEFINE t == [req[r] EXCEPT !.pc = "rolesOfRefresh"]
    <2>1. /\ req[r] \in Request /\ req[r].pc = "findSession"
          /\ Sound(req[r], users, opened, issued, stale)
      BY DEF SessionsInv, SessionTypes, AllSound, RefreshFindSession, At
    <2>2. t \in Request /\ Sound(t, users, opened, issued, stale)
      BY <2>1 DEF Request, Pcs, Sound, OfUser, OfSession, Granting, Saving
    <2>3. Become(r, t) /\ UNCHANGED <<now, accounts, rows, handed, revoked>>
      BY <1>2 DEF RefreshFindSession, Goto
    <2> HIDE DEF t
    <2> QED
      BY <2>2, <2>3, RequestStep
  <1> QED
    BY <1>1, <1>2

LEMMA LogoutStep ==
  ASSUME SessionsInv, NEW r \in Requests, NEW p \in Pairs, Logout(r, p)
  PROVE  SessionsInv'
  <1> DEFINE t == [Idle EXCEPT !.pc = "deleteLogout", !.pair = p,
                               !.session = tokens[p].session]
  <1>1. /\ p \in 1..issued /\ tokens[p].session \in Sids /\ tokens[p].session <= opened
    BY PairKnown DEF Logout, Authorised
  <1>2. Become(r, t) /\ UNCHANGED <<now, accounts, rows, handed, revoked>>
    BY DEF Logout, LogoutFind
  <1>3. Idle \in Request
    BY IdleSound
  <1>4. t \in Request
    BY <1>1, <1>3 DEF Request, Pcs
  <1>5. t.pc = "deleteLogout" /\ t.pair = p /\ t.session = tokens[p].session
    BY <1>3 DEF Request
  <1> HIDE DEF t
  <1>6. Sound(t, users, opened, issued, stale)
    BY <1>1, <1>5 DEF Sound, OfUser, OfSession, Granting, Saving
  <1> QED
    BY <1>2, <1>4, <1>6, RequestStep

LEMMA RevokeSessionStep ==
  ASSUME SessionsInv, NEW r \in Requests, NEW p \in Pairs, NEW s \in Sids,
         RevokeSession(r, p, s)
  PROVE  SessionsInv'
  <1> DEFINE t == [Idle EXCEPT !.pc = "revoke", !.session = s]
  <1>1. /\ Become(r, t) /\ UNCHANGED <<now, accounts, rows, handed, revoked>>
        /\ sessions[s] # Null
    BY DEF RevokeSession, GetSessions
  <1>2. Idle \in Request
    BY IdleSound
  <1>3. t \in Request
    BY <1>2 DEF Request, Pcs
  <1>4. t.pc = "revoke" /\ t.session = s
    BY <1>2 DEF Request
  <1> HIDE DEF t
  <1>5. s <= opened
    BY <1>1 DEF SessionsInv, SessionTypes, RowsOpened, Sids
  <1>6. Sound(t, users, opened, issued, stale)
    BY <1>4, <1>5 DEF Sound, OfUser, OfSession, Granting, Saving
  <1> QED
    BY <1>1, <1>3, <1>6, RequestStep

LEMMA UpdateProfileStep ==
  ASSUME SessionsInv, NEW r \in Requests, NEW p \in Pairs, UpdateProfile(r, p)
  PROVE  SessionsInv'
  <1> DEFINE u == tokens[p].user
             t == [Begun(u) EXCEPT !.pc = "saveProfile", !.row = users[u]]
  <1>1. u \in Users /\ users[u] # Null
    BY PairKnown DEF UpdateProfile, Authorised
  <1>2. Become(r, t) /\ UNCHANGED <<now, accounts, rows, handed, revoked>>
    BY DEF UpdateProfile, LoadProfile
  <1> HIDE DEF u
  <1>3. t \in Request /\ Sound(t, users, opened, issued, stale)
    BY <1>1, LoadedSound
  <1> HIDE DEF t
  <1> QED
    BY <1>2, <1>3, RequestStep

LEMMA LinkDiscordStep ==
  ASSUME SessionsInv, NEW r \in Requests, NEW p \in Pairs, NEW d \in Accounts,
         LinkDiscord(r, p, d)
  PROVE  SessionsInv'
  <1> DEFINE u == tokens[p].user
             t == [Idle EXCEPT !.pc = "updateLink", !.user = u, !.account = d]
  <1>1. u \in Users /\ users[u] # Null
    BY PairKnown DEF LinkDiscord, Authorised
  <1>2. Become(r, t) /\ UNCHANGED <<now, accounts, rows, handed, revoked>>
    BY DEF LinkDiscord
  <1> HIDE DEF u
  <1>3. t \in Request /\ Sound(t, users, opened, issued, stale)
    BY <1>1 DEF Idle, Request, Pcs, Sound, OfUser, OfSession, Granting, Saving
  <1> HIDE DEF t
  <1> QED
    BY <1>2, <1>3, RequestStep

LEMMA UnlinkDiscordStep ==
  ASSUME SessionsInv, NEW r \in Requests, NEW p \in Pairs, UnlinkDiscord(r, p)
  PROVE  SessionsInv'
  <1> DEFINE u == tokens[p].user
             t == [Idle EXCEPT !.pc = "updateUnlink", !.user = u]
  <1>1. u \in Users /\ users[u] # Null /\ users[u].password
    BY PairKnown DEF UnlinkDiscord, UnlinkFind, Authorised
  <1>2. Become(r, t) /\ UNCHANGED <<now, accounts, rows, handed, revoked>>
    BY DEF UnlinkDiscord
  <1> HIDE DEF u
  <1>3. t \in Request /\ Sound(t, users, opened, issued, stale)
    BY <1>1 DEF Idle, Request, Pcs, Sound, OfUser, OfSession, Granting, Saving
  <1> HIDE DEF t
  <1> QED
    BY <1>2, <1>3, RequestStep
LEMMA UpdateUserRolesStep ==
  ASSUME SessionsInv, NEW r \in Requests, NEW u \in Users, NEW roles \in SUBSET Roles,
         UpdateUserRoles(r, u, roles)
  PROVE  SessionsInv'
  <1> DEFINE l == [Begun(u) EXCEPT !.pc = "saveRoles", !.row = users[u]]
             t == [Begun(u) EXCEPT !.pc = "saveRoles", !.row = users[u], !.roles = roles]
  <1>1. l \in Request /\ Sound(l, users, opened, issued, stale)
    BY LoadedSound DEF UpdateUserRoles
  <1>2. Become(r, t) /\ UNCHANGED <<now, accounts, rows, handed, revoked>>
    BY DEF UpdateUserRoles
  <1>3. t = [l EXCEPT !.roles = roles]
    BY BegunSound DEF UpdateUserRoles, Request
  <1> HIDE DEF l, t
  <1>4. t \in Request /\ Sound(t, users, opened, issued, stale)
    BY <1>1, <1>3 DEF Request, Sound, OfUser, OfSession, Granting, Saving
  <1> QED
    BY <1>2, <1>4, RequestStep

-----------------------------------------------------------------------------
(* Writing the users' rows                                                  *)

\* A new user, whom no administrator has dealt with.
LEMMA InsertStep ==
  ASSUME SessionsInv, NEW r \in Requests, NEW u \in Users, users[u] = Null,
         NEW row \in UserRow, row.status = "active", row.roles = {},
         row.password \/ row.discord # Null,
         users' = [users EXCEPT ![u] = row],
         NEW t \in Request, Become(r, t),
         t.pc \in {"createSession", "rolesOfLogin"}, t.user = u, t.session = Null, t.active,
         UNCHANGED <<now, decided, stale, rows, handed, revoked>>
  PROVE  SessionsInv'
  <1> USE NullIsNoUser DEF rows, handed, revoked
  <1>1. SessionTypes'
    BY DEF SessionsInv, SessionTypes, Become
  <1>2. Grown
    BY DEF SessionsInv, SessionTypes, Grown
  <1>3. AllSound'
    <2>1. \A q \in Requests : req[q] \in Request /\ Sound(req[q], users, opened, issued, stale)
      BY DEF SessionsInv, SessionTypes, AllSound
    <2>2. \A q \in Requests : Sound(req[q], users', opened', issued', stale')
      BY <1>1, <1>2, <2>1, StaysSound DEF SessionsInv
    <2>3. users'[u] # Null
      BY DEF SessionsInv, SessionTypes
    <2>4. Sound(t, users', opened', issued', stale')
      BY <2>3 DEF Sound, OfUser, OfSession, Granting, Saving
    <2> QED
      BY <2>2, <2>4 DEF AllSound, Become, SessionsInv, SessionTypes
  <1>4. Undetermined' /\ AsDecided' /\ CanLogInUnlessStale'
    <2>1. decided[u] = [status |-> "active", roles |-> {}]
      BY DEF SessionsInv, AccountsKept, Undetermined, Undecided
    <2> QED
      BY <2>1 DEF SessionsInv, SessionTypes, AccountsKept, Undetermined, AsDecided,
                  CanLogInUnlessStale, CanLogIn
  <1> QED
    BY <1>1, <1>2, <1>3, <1>4, AccountStep DEF AccountsKept

LEMMA RegisterByEmailStep ==
  ASSUME SessionsInv, NEW r \in Requests, NEW m \in Mails, RegisterByEmail(r, m)
  PROVE  SessionsInv'
  <1> PICK u \in Users :
        /\ users[u] = Null
        /\ users' = [users EXCEPT ![u] = [mail |-> m, discord |-> Null, password |-> TRUE,
                                          status |-> "active", roles |-> {}]]
        /\ Become(r, [Idle EXCEPT !.pc = "createSession", !.user = u, !.iat = Seconds(now),
                                  !.active = TRUE])
    BY DEF RegisterByEmail
  <1> DEFINE row == [mail |-> m, discord |-> Null, password |-> TRUE, status |-> "active",
                     roles |-> {}]
             t == [Idle EXCEPT !.pc = "createSession", !.user = u, !.iat = Seconds(now),
                               !.active = TRUE]
  <1>1. row \in UserRow /\ row.status = "active" /\ row.roles = {} /\ row.password
    BY DEF UserRow
  <1>2. Seconds(now) \in Nat
    BY DEF SessionsInv, SessionTypes, Seconds
  <1>3. t \in Request /\ t.pc = "createSession" /\ t.user = u /\ t.session = Null /\ t.active
    BY <1>2 DEF Idle, Request, Pcs
  <1>4. /\ users' = [users EXCEPT ![u] = row] /\ Become(r, t)
        /\ UNCHANGED <<now, decided, stale, rows, handed, revoked>>
    BY DEF RegisterByEmail
  <1> HIDE DEF row, t
  <1> QED
    BY <1>1, <1>3, <1>4, InsertStep

LEMMA InsertDiscordStep ==
  ASSUME SessionsInv, NEW r \in Requests, InsertDiscord(r)
  PROVE  SessionsInv'
  <1> DEFINE d == req[r].account
  <1>1. d \in Accounts
    BY DEF InsertDiscord, At, SessionsInv, AllSound, Sound
  <1>2. CASE Done(r) /\ UNCHANGED users
    BY <1>2, IdleStep DEF InsertDiscord, accounts
  <1>3. ASSUME NEW u \in Users, users[u] = Null,
               users' = [users EXCEPT ![u] = [mail |-> MailOf[d], discord |-> d,
                                              password |-> FALSE, status |-> "active",
                                              roles |-> {}]],
               Become(r, [Idle EXCEPT !.pc = "rolesOfLogin", !.user = u, !.active = TRUE])
        PROVE  SessionsInv'
    <2> HIDE DEF d
    <2> DEFINE row == [mail |-> MailOf[d], discord |-> d, password |-> FALSE,
                       status |-> "active", roles |-> {}]
               t == [Idle EXCEPT !.pc = "rolesOfLogin", !.user = u, !.active = TRUE]
    <2>1. MailOf[d] \in Mails /\ d # Null
      BY <1>1, SessionConstants
    <2>2. row \in UserRow /\ row.status = "active" /\ row.roles = {} /\ row.discord # Null
      BY <1>1, <2>1 DEF UserRow
    <2>3. t \in Request /\ t.pc = "rolesOfLogin" /\ t.user = u /\ t.session = Null /\ t.active
      BY DEF Idle, Request, Pcs
    <2>4. /\ users' = [users EXCEPT ![u] = row] /\ Become(r, t)
          /\ UNCHANGED <<now, decided, stale, rows, handed, revoked>>
      BY <1>3 DEF InsertDiscord
    <2> HIDE DEF row, t
    <2> QED
      BY <1>3, <2>2, <2>3, <2>4, InsertStep
  <1> QED
    BY <1>2, <1>3 DEF InsertDiscord
\* Who takes notice that a user was active has read what he had read.
LEMMA WitnessedSound ==
  ASSUME NEW rq \in [Requests -> Request], NEW us, NEW vs, NEW o, NEW i, NEW st,
         \A q \in Requests : Sound(rq[q], vs, o, i, st)
  PROVE  /\ Witnessed(rq, us) \in [Requests -> Request]
         /\ \A q \in Requests : Sound(Witnessed(rq, us)[q], vs, o, i, st)
  <1> SUFFICES ASSUME NEW q \in Requests
               PROVE  /\ Witnessed(rq, us)[q] \in Request
                      /\ Sound(Witnessed(rq, us)[q], vs, o, i, st)
    BY DEF Witnessed
  <1> DEFINE b == us[rq[q].user].status = "active"
             t == [rq[q] EXCEPT !.active = @ \/ b]
  <1>1. rq[q] \in Request /\ Sound(rq[q], vs, o, i, st)
    OBVIOUS
  <1>2. b \in BOOLEAN
    OBVIOUS
  <1>3. Witnessed(rq, us)[q] \in {rq[q], t}
    BY DEF Witnessed
  <1> HIDE DEF b
  <1>4. t \in Request /\ t = [rq[q] EXCEPT !.active = rq[q].active \/ b]
    BY <1>1, <1>2 DEF Request
  <1>5. Sound(t, vs, o, i, st)
    <2>1. rq[q].active => t.active
      BY <1>1, <1>2, <1>4 DEF Request
    <2>2. /\ t.pc = rq[q].pc /\ t.user = rq[q].user /\ t.session = rq[q].session
          /\ t.pair = rq[q].pair /\ t.account = rq[q].account /\ t.row = rq[q].row
      BY <1>1, <1>4 DEF Request
    <2> HIDE DEF t
    <2> QED
      BY <1>1, <2>1, <2>2 DEF Sound
  <1> QED
    BY <1>1, <1>3, <1>4, <1>5

\* A save changes the row of a user who is there, or nothing; without a stale row it
\* changes what was loaded.
LEMMA SaveKeeps ==
  ASSUME SessionTypes, NEW u \in Users, users[u] # Null,
         NEW row \in UserRow, NEW loaded \in UserRow, Save(u, row, loaded),
         loaded.password => row.password,
         opened' = opened, issued' = issued
  PROVE  /\ users' \in [Users -> UserRow \cup {Null}] /\ stale' \in BOOLEAN
         /\ Grown
         /\ users' = users \/ users' = [users EXCEPT ![u] = row]
         /\ ~stale' => users' = users \/ loaded = users[u]
  <1> USE NullIsNoUser
  <1>1. /\ users' = users \/ users' = [users EXCEPT ![u] = row]
        /\ stale' \in BOOLEAN /\ (stale => stale')
        /\ ~stale' => users' = users \/ loaded = users[u]
    BY DEF Save, SessionTypes
  <1>2. users' \in [Users -> UserRow \cup {Null}]
    BY <1>1 DEF SessionTypes
  <1>3. \A v \in Users : users[v] # Null => users'[v] # Null
    BY <1>1 DEF SessionTypes
  <1>4. ~stale' => \A v \in Users : users[v] # Null /\ users[v].password => users'[v].password
    BY <1>1 DEF SessionTypes
  <1>5. opened <= opened' /\ issued <= issued'
    BY DEF SessionTypes
  <1> QED
    BY <1>1, <1>2, <1>3, <1>4, <1>5 DEF Grown

LEMMA SaveStep ==
  ASSUME SessionsInv, NEW r \in Requests, NEW u \in Users, users[u] # Null,
         NEW row \in UserRow, NEW loaded \in UserRow, Save(u, row, loaded),
         loaded.password => row.password,
         loaded.password \/ loaded.discord # Null => row.password \/ row.discord # Null,
         NEW t \in Request, Sound(t, users, opened, issued, stale),
         req' = Witnessed([req EXCEPT ![r] = t], users'),
         decided' \in [Users -> Decision], AsDecided',
         \A v \in Users : users[v] = Null => decided'[v] = Undecided,
         UNCHANGED <<now, rows, handed, revoked>>
  PROVE  SessionsInv'
  <1>0. /\ SessionTypes /\ AllSound /\ Undetermined /\ AsDecided /\ CanLogInUnlessStale
        /\ opened' = opened /\ issued' = issued
    BY DEF SessionsInv, AccountsKept, rows, handed
  <1>1. /\ users' \in [Users -> UserRow \cup {Null}] /\ stale' \in BOOLEAN
        /\ Grown
        /\ users' = users \/ users' = [users EXCEPT ![u] = row]
        /\ ~stale' => users' = users \/ loaded = users[u]
    BY <1>0, SaveKeeps
  <1>2. /\ [req EXCEPT ![r] = t] \in [Requests -> Request]
        /\ \A q \in Requests :
             Sound([req EXCEPT ![r] = t][q], users, opened, issued, stale)
    BY <1>0 DEF AllSound, SessionTypes
  <1>3. SessionTypes'
    <2>1. req' \in [Requests -> Request]
      BY <1>2, WitnessedSound
    <2> QED
      BY <1>0, <1>1, <2>1 DEF SessionTypes, rows, handed, revoked
  <1>4. AllSound'
    <2>1. \A q \in Requests :
            Sound([req EXCEPT ![r] = t][q], users', opened', issued', stale')
      BY <1>0, <1>1, <1>2, <1>3, StaysSound
    <2> QED
      BY <1>2, <2>1, WitnessedSound DEF AllSound
  <1>5. Undetermined'
    BY <1>1 DEF Undetermined, Grown
  <1>6. CanLogInUnlessStale'
    <2> SUFFICES ASSUME ~stale', NEW v \in Users, users'[v] # Null
                 PROVE  users'[v].password \/ users'[v].discord # Null
      BY DEF CanLogInUnlessStale, CanLogIn
    <2>1. ~stale /\ CanLogIn
      BY <1>0, <1>1 DEF Grown, CanLogInUnlessStale
    <2>2. CASE users' = users
      BY <2>1, <2>2 DEF CanLogIn
    <2>3. CASE users' = [users EXCEPT ![u] = row] /\ loaded = users[u]
      <3>1. row.password \/ row.discord # Null
        BY <2>1, <2>3 DEF CanLogIn
      <3> QED
        BY <1>0, <2>1, <2>3, <3>1 DEF CanLogIn, SessionTypes
    <2> QED
      BY <1>1, <2>2, <2>3
  <1> QED
    BY <1>0, <1>1, <1>3, <1>4, <1>5, <1>6, AccountStep DEF AccountsKept
\* What a request that saves has in hand.
LEMMA SavingKnows ==
  ASSUME SessionsInv, NEW r \in Requests, req[r].pc \in Saving
  PROVE  /\ req[r] \in Request
         /\ req[r].user \in Users /\ users[req[r].user] # Null
         /\ users[req[r].user] \in UserRow
         /\ req[r].row \in UserRow
         /\ req[r].session # Null => req[r].session <= opened
         /\ req[r].row.status = "active" => req[r].active
  <1>1. req[r] \in Request /\ Sound(req[r], users, opened, issued, stale)
    BY DEF SessionsInv, SessionTypes, AllSound
  <1>2. req[r].user \in Users /\ users[req[r].user] # Null
    BY <1>1 DEF Sound, OfUser, Saving
  <1> QED
    BY <1>1, <1>2 DEF Sound, SessionsInv, SessionTypes

\* A save that leaves the status and the roles as they were loaded.
LEMMA DecisionKept ==
  ASSUME SessionsInv, NEW u \in Users, users[u] # Null, NEW row \in UserRow,
         NEW loaded \in UserRow, Save(u, row, loaded), Decides(decided),
         row.status = loaded.status, row.roles = loaded.roles
  PROVE  /\ decided' \in [Users -> Decision] /\ AsDecided'
         /\ \A v \in Users : users[v] = Null => decided'[v] = Undecided
  <1>0. SessionTypes /\ AsDecided /\ Undetermined
    BY DEF SessionsInv, AccountsKept
  <1>1. decided' = decided \/ decided' = [v \in Users |-> Undecided]
    BY DEF Decides
  <1>2. Undecided \in Decision
    BY DEF Undecided, Decision
  <1>3. decided' \in [Users -> Decision]
    BY <1>0, <1>1, <1>2 DEF SessionTypes
  <1>4. \A v \in Users : users[v] = Null => decided'[v] = Undecided
    BY <1>0, <1>1 DEF Undetermined
  <1>5. AsDecided'
    <2> SUFFICES ASSUME ~stale', NEW v \in Users, users'[v] # Null
                 PROVE  decided'[v] = [status |-> users'[v].status, roles |-> users'[v].roles]
      BY DEF AsDecided
    <2>1. decided' = decided /\ ~stale
      BY DEF Decides, Save
    <2>2. \/ users' = users
          \/ users' = [users EXCEPT ![u] = row] /\ loaded = users[u]
      BY DEF Save
    <2>3. \A w \in Users : users[w] # Null =>
            decided[w] = [status |-> users[w].status, roles |-> users[w].roles]
      BY <1>0, <2>1 DEF AsDecided
    <2> QED
      BY <1>0, <2>1, <2>2, <2>3 DEF SessionTypes
  <1> QED
    BY <1>3, <1>4, <1>5

LEMMA SaveDiscordStep ==
  ASSUME SessionsInv, NEW r \in Requests, SaveDiscord(r)
  PROVE  SessionsInv'
  <1> DEFINE u == req[r].user
             loaded == req[r].row
             row == [loaded EXCEPT !.discord = req[r].account]
             saved == Unique([users EXCEPT ![u] = row])
             t == IF ~saved THEN Idle
                  ELSE [req[r] EXCEPT !.pc = "rolesOfLogin", !.row = Null, !.account = Null]
  <1>1. req[r].pc = "saveDiscord" /\ req[r].pc \in Saving
    BY DEF SaveDiscord, At, Saving
  <1>2. /\ req[r] \in Request /\ Sound(req[r], users, opened, issued, stale)
        /\ u \in Users /\ users[u] # Null /\ loaded \in UserRow
    BY <1>1, SavingKnows DEF SessionsInv, AllSound
  <1>3. req[r].account \in Accounts /\ req[r].account # Null
    BY <1>1, <1>2, SessionConstants DEF Sound
  <1>4. /\ Save(u, row, loaded) /\ Decides(decided)
        /\ req' = Witnessed([req EXCEPT ![r] = t], users')
        /\ UNCHANGED <<now, rows, handed, revoked>>
    BY DEF SaveDiscord
  <1>5. t \in Request /\ Sound(t, users, opened, issued, stale)
    <2>1. CASE ~saved
      BY <2>1, IdleSound
    <2>2. CASE saved
      <3>1. t = [req[r] EXCEPT !.pc = "rolesOfLogin", !.row = Null, !.account = Null]
        BY <2>2
      <3> HIDE DEF t, saved
      <3>2. t \in Request
        BY <1>2, <3>1 DEF Request, Pcs
      <3>3. /\ t.pc = "rolesOfLogin" /\ t.user = u /\ t.session = req[r].session
            /\ t.active = req[r].active
        BY <1>2, <3>1 DEF Request
      <3> QED
        BY <1>1, <1>2, <3>2, <3>3 DEF Sound, OfUser, OfSession, Granting, Saving
    <2> QED
      BY <2>1, <2>2
  <1>6. /\ row \in UserRow /\ row.password = loaded.password /\ row.discord # Null
        /\ row.status = loaded.status /\ row.roles = loaded.roles
    BY <1>2, <1>3 DEF UserRow
  <1> HIDE DEF u, loaded, row, t
  <1>7. /\ decided' \in [Users -> Decision] /\ AsDecided'
        /\ \A v \in Users : users[v] = Null => decided'[v] = Undecided
    BY <1>2, <1>4, <1>6, DecisionKept
  <1> QED
    BY <1>2, <1>4, <1>5, <1>6, <1>7, SaveStep

LEMMA SaveProfileStep ==
  ASSUME SessionsInv, NEW r \in Requests, SaveProfile(r)
  PROVE  SessionsInv'
  <1> DEFINE u == req[r].user
             loaded == [req[r].row EXCEPT !.roles = users[u].roles]
             row == [loaded EXCEPT !.password = TRUE]
  <1>1. req[r].pc = "saveProfile" /\ req[r].pc \in Saving
    BY DEF SaveProfile, At, Saving
  <1>2. /\ u \in Users /\ users[u] # Null /\ users[u] \in UserRow /\ req[r].row \in UserRow
    BY <1>1, SavingKnows
  <1>3. loaded \in UserRow /\ row \in UserRow
    BY <1>2 DEF UserRow
  <1>4. row.password /\ row.status = loaded.status /\ row.roles = loaded.roles
    BY <1>3 DEF UserRow
  <1>5. /\ Save(u, row, loaded) /\ Decides(decided)
        /\ req' = Witnessed([req EXCEPT ![r] = Idle], users')
        /\ UNCHANGED <<now, rows, handed, revoked>>
    BY DEF SaveProfile
  <1> HIDE DEF u, loaded, row
  <1>6. /\ decided' \in [Users -> Decision] /\ AsDecided'
        /\ \A v \in Users : users[v] = Null => decided'[v] = Undecided
    BY <1>2, <1>3, <1>4, <1>5, DecisionKept
  <1>7. Idle \in Request /\ Sound(Idle, users, opened, issued, stale)
    BY IdleSound
  <1> QED
    BY <1>2, <1>3, <1>4, <1>5, <1>6, <1>7, SaveStep
LEMMA SaveRolesStep ==
  ASSUME SessionsInv, NEW r \in Requests, SaveRoles(r)
  PROVE  SessionsInv'
  <1> DEFINE u == req[r].user
             loaded == req[r].row
             given == req[r].roles
             row == [loaded EXCEPT !.roles = given]
             saved == Unique([users EXCEPT ![u] = row])
             d == IF saved THEN [decided EXCEPT ![u].roles = given] ELSE decided
  <1>1. req[r].pc = "saveRoles" /\ req[r].pc \in Saving
    BY DEF SaveRoles, At, Saving
  <1>2. /\ u \in Users /\ users[u] # Null /\ users[u] \in UserRow /\ loaded \in UserRow
        /\ given \in SUBSET Roles
    BY <1>1, SavingKnows DEF Request
  <1>3. /\ row \in UserRow /\ row.password = loaded.password /\ row.discord = loaded.discord
        /\ row.status = loaded.status /\ row.roles = given
    BY <1>2 DEF UserRow
  <1>4. /\ Save(u, row, loaded) /\ Decides(d)
        /\ req' = Witnessed([req EXCEPT ![r] = Idle], users')
        /\ UNCHANGED <<now, rows, handed, revoked>>
    BY DEF SaveRoles
  <1>5. /\ users' = (IF saved THEN [users EXCEPT ![u] = row] ELSE users)
        /\ ~stale' => ~stale /\ (saved => loaded = users[u])
    BY <1>4 DEF Save
  <1>6. SessionTypes /\ AsDecided /\ Undetermined
    BY DEF SessionsInv, AccountsKept
  <1> HIDE DEF u, loaded, given, row, saved
  <1>7. d \in [Users -> Decision] /\ Undecided \in Decision
    BY <1>2, <1>6 DEF SessionTypes, Decision, Undecided
  <1>8. decided' \in [Users -> Decision]
    BY <1>4, <1>7 DEF Decides
  <1>9. \A v \in Users : users[v] = Null => decided'[v] = Undecided
    BY <1>2, <1>4, <1>6 DEF Decides, Undetermined, SessionTypes
  <1>10. AsDecided'
    <2> SUFFICES ASSUME ~stale', NEW v \in Users, users'[v] # Null
                 PROVE  decided'[v] = [status |-> users'[v].status, roles |-> users'[v].roles]
      BY DEF AsDecided
    <2>1. decided' = d
      BY <1>4 DEF Decides
    <2>2. \A w \in Users : users[w] # Null =>
            decided[w] = [status |-> users[w].status, roles |-> users[w].roles]
      BY <1>5, <1>6 DEF AsDecided
    <2>3. CASE saved /\ v = u
      <3>1. decided'[u] = [decided[u] EXCEPT !.roles = given] /\ users'[u] = row
        BY <1>2, <1>5, <1>6, <2>1, <2>3 DEF SessionTypes
      <3>2. decided[u] = [status |-> loaded.status, roles |-> users[u].roles]
        BY <1>2, <1>5, <2>2, <2>3
      <3> QED
        BY <1>3, <2>3, <3>1, <3>2
    <2>4. CASE ~(saved /\ v = u)
      <3>1. decided'[v] = decided[v] /\ users'[v] = users[v]
        BY <1>2, <1>5, <1>6, <2>1, <2>4 DEF SessionTypes
      <3> QED
        BY <2>2, <3>1
    <2> QED
      BY <2>3, <2>4
  <1> HIDE DEF d
  <1>11. Idle \in Request /\ Sound(Idle, users, opened, issued, stale)
    BY IdleSound
  <1> QED
    BY <1>2, <1>3, <1>4, <1>8, <1>9, <1>10, <1>11, SaveStep

\* A step that sets the Discord account of a user's row.
LEMMA DiscordStep ==
  ASSUME SessionsInv, NEW r \in Requests, Done(r), NEW u \in Users, users[u] # Null,
         NEW a \in Accounts \cup {Null},
         users' \in {users, [users EXCEPT ![u].discord = a]},
         a # Null \/ stale \/ users[u].password,
         UNCHANGED <<now, decided, stale, rows, handed, revoked>>
  PROVE  SessionsInv'
  <1> USE NullIsNoUser
  <1>0. /\ SessionTypes /\ AllSound /\ AsDecided /\ Undetermined /\ CanLogInUnlessStale
        /\ opened' = opened /\ issued' = issued
    BY DEF SessionsInv, AccountsKept, rows, handed
  <1> DEFINE row == [users[u] EXCEPT !.discord = a]
  <1>1. users[u] \in UserRow
    BY <1>0 DEF SessionTypes
  <1>2. /\ row \in UserRow /\ row.discord = a /\ row.password = users[u].password
        /\ row.status = users[u].status /\ row.roles = users[u].roles
    BY <1>1 DEF UserRow
  <1>3. users' \in {users, [users EXCEPT ![u] = row]}
    OBVIOUS
  <1> HIDE DEF row
  <1>4. SessionTypes'
    BY <1>0, <1>2, <1>3, IdleSound DEF SessionTypes, rows, handed, revoked, Done, Become
  <1>5. Grown
    BY <1>0, <1>2, <1>3 DEF SessionTypes, Grown
  <1>6. AllSound'
    <2>1. \A q \in Requests : req[q] \in Request /\ Sound(req[q], users, opened, issued, stale)
      BY <1>0 DEF SessionTypes, AllSound
    <2>2. \A q \in Requests : Sound(req[q], users', opened', issued', stale')
      BY <1>0, <1>4, <1>5, <2>1, StaysSound
    <2>3. Sound(Idle, users', opened', issued', stale')
      BY IdleSound
    <2> QED
      BY <1>0, <2>2, <2>3 DEF AllSound, SessionTypes, Done, Become
  <1>7. AsDecided' /\ Undetermined'
    BY <1>0, <1>2, <1>3 DEF AsDecided, Undetermined, SessionTypes
  <1>8. CanLogInUnlessStale'
    BY <1>0, <1>2, <1>3 DEF CanLogInUnlessStale, CanLogIn, SessionTypes
  <1> QED
    BY <1>4, <1>5, <1>6, <1>7, <1>8, AccountStep DEF AccountsKept

LEMMA LinkUpdateStep ==
  ASSUME SessionsInv, NEW r \in Requests, LinkUpdate(r)
  PROVE  SessionsInv'
  <1> DEFINE u == req[r].user
             a == req[r].account
  <1>1. u \in Users /\ users[u] # Null /\ a \in Accounts
    BY DEF LinkUpdate, At, SessionsInv, AllSound, Sound, OfUser
  <1>2. a # Null
    BY <1>1, SessionConstants
  <1>3. /\ users' \in {users, [users EXCEPT ![u].discord = a]} /\ Done(r)
        /\ UNCHANGED <<now, decided, stale, rows, handed, revoked>>
    BY DEF LinkUpdate
  <1> HIDE DEF u, a
  <1> QED
    BY <1>1, <1>2, <1>3, DiscordStep

LEMMA UnlinkUpdateStep ==
  ASSUME SessionsInv, NEW r \in Requests, UnlinkUpdate(r)
  PROVE  SessionsInv'
  <1> DEFINE u == req[r].user
  <1>1. u \in Users /\ users[u] # Null /\ (stale \/ users[u].password)
    BY DEF UnlinkUpdate, At, SessionsInv, AllSound, Sound, OfUser
  <1>2. /\ users' \in {users, [users EXCEPT ![u].discord = Null]} /\ Done(r)
        /\ UNCHANGED <<now, decided, stale, rows, handed, revoked>>
    BY DEF UnlinkUpdate
  <1> HIDE DEF u
  <1> QED
    BY <1>1, <1>2, DiscordStep
LEMMA UpdateUserStatusStep ==
  ASSUME SessionsInv, NEW u \in Users, NEW status \in {"active", "blocked"},
         UpdateUserStatus(u, status)
  PROVE  SessionsInv'
  <1> USE NullIsNoUser
  <1>0. /\ SessionTypes /\ AllSound /\ AsDecided /\ Undetermined /\ CanLogInUnlessStale
        /\ opened' = opened /\ issued' = issued /\ stale' = stale
        /\ UNCHANGED <<now, rows, handed, revoked>>
    BY DEF SessionsInv, AccountsKept, rows, handed, UpdateUserStatus
  <1> DEFINE row == [users[u] EXCEPT !.status = status]
  <1>1. users[u] # Null /\ users[u] \in UserRow
    BY <1>0 DEF SessionTypes, UpdateUserStatus
  <1>2. /\ row \in UserRow /\ row.discord = users[u].discord
        /\ row.password = users[u].password /\ row.status = status
        /\ row.roles = users[u].roles
    BY <1>1 DEF UserRow
  <1>3. users' = [users EXCEPT ![u] = row]
    BY DEF UpdateUserStatus
  <1>4. decided' = IF stale THEN [v \in Users |-> Undecided]
                   ELSE [decided EXCEPT ![u].status = status]
    BY <1>0 DEF UpdateUserStatus, Decides
  <1>5. req' = Witnessed(req, users')
    BY DEF UpdateUserStatus
  <1> HIDE DEF row
  <1>6. req' \in [Requests -> Request]
    BY <1>0, <1>5, WitnessedSound DEF SessionTypes, AllSound
  <1>7. SessionTypes'
    <2>1. decided' \in [Users -> Decision]
      BY <1>0, <1>4 DEF SessionTypes, Decision, Undecided
    <2> QED
      BY <1>0, <1>2, <1>3, <1>6, <2>1 DEF SessionTypes, rows, handed, revoked
  <1>8. Grown
    BY <1>0, <1>2, <1>3 DEF SessionTypes, Grown
  <1>9. AllSound'
    <2>1. \A q \in Requests : Sound(req[q], users', opened', issued', stale')
      BY <1>0, <1>7, <1>8, StaysSound DEF SessionTypes, AllSound
    <2> QED
      BY <1>0, <1>5, <2>1, WitnessedSound DEF SessionTypes, AllSound
  <1>10. Undetermined'
    BY <1>0, <1>1, <1>2, <1>3, <1>4 DEF Undetermined, SessionTypes
  <1>11. AsDecided'
    <2> SUFFICES ASSUME ~stale, NEW v \in Users, users'[v] # Null
                 PROVE  decided'[v] = [status |-> users'[v].status, roles |-> users'[v].roles]
      BY <1>0 DEF AsDecided
    <2>1. \A w \in Users : users[w] # Null =>
            decided[w] = [status |-> users[w].status, roles |-> users[w].roles]
      BY <1>0 DEF AsDecided
    <2>2. CASE v = u
      BY <1>0, <1>1, <1>2, <1>3, <1>4, <2>1, <2>2 DEF SessionTypes
    <2>3. CASE v # u
      BY <1>0, <1>3, <1>4, <2>1, <2>3 DEF SessionTypes
    <2> QED
      BY <2>2, <2>3
  <1>12. CanLogInUnlessStale'
    BY <1>0, <1>1, <1>2, <1>3 DEF CanLogInUnlessStale, CanLogIn, SessionTypes
  <1> QED
    BY <1>0, <1>7, <1>8, <1>9, <1>10, <1>11, <1>12, AccountStep DEF AccountsKept

-----------------------------------------------------------------------------
(* Writing sessions, handing out tokens, and the list                       *)

\* A step that ends a request or moves it on, and leaves the users' rows as they are.
LEMMA SessionStep ==
  ASSUME SessionsInv, NEW r \in Requests, NEW t \in Request, Become(r, t),
         Sound(t, users, opened, issued, stale),
         UNCHANGED <<now, accounts>>,
         SessionTypes', Grown, TokensKnown', RowsOpened', Outlasts'
  PROVE  SessionsInv'
  <1>1. AllSound'
    <2>1. \A q \in Requests : Sound(req'[q], users, opened, issued, stale)
      BY DEF SessionsInv, SessionTypes, AllSound, Become
    <2>2. req' \in [Requests -> Request]
      BY DEF SessionTypes
    <2>3. \A q \in Requests : Sound(req'[q], users', opened', issued', stale')
      BY <2>1, <2>2, StaysSound DEF SessionsInv
    <2> QED
      BY <2>3 DEF AllSound
  <1>2. AccountsKept'
    BY DEF SessionsInv, AccountsKept, Undetermined, AsDecided, CanLogInUnlessStale, CanLogIn,
           accounts
  <1> QED
    BY <1>1, <1>2 DEF SessionsInv

\* A step that removes rows of sessions.
LEMMA DeleteStep ==
  ASSUME SessionsInv, NEW r \in Requests, NEW t \in Request, Become(r, t),
         Sound(t, users, opened, issued, stale),
         NEW s \in Sids, sessions' = [sessions EXCEPT ![s] = Null],
         UNCHANGED <<now, accounts, opened, handed, revoked>>
  PROVE  SessionsInv'
  <1> USE DEF accounts, handed, revoked
  <1>1. SessionTypes'
    BY DEF SessionsInv, SessionTypes, Become
  <1>2. Grown
    BY DEF SessionsInv, SessionTypes, Grown
  <1>3. TokensKnown' /\ RowsOpened' /\ Outlasts'
    BY DEF SessionsInv, SessionTypes, TokensKnown, RowsOpened, Outlasts, End
  <1> QED
    BY <1>1, <1>2, <1>3, SessionStep

LEMMA LogoutDeleteStep ==
  ASSUME SessionsInv, NEW r \in Requests, LogoutDelete(r)
  PROVE  SessionsInv'
  <1> DEFINE t == [req[r] EXCEPT !.pc = "blacklist"]
  <1>1. /\ req[r] \in Request /\ req[r].pc = "deleteLogout"
        /\ Sound(req[r], users, opened, issued, stale)
    BY DEF LogoutDelete, At, SessionsInv, SessionTypes, AllSound
  <1>2. req[r].session \in Sids
    BY <1>1 DEF Sound, OfSession
  <1>3. t \in Request /\ Sound(t, users, opened, issued, stale)
    BY <1>1 DEF Request, Pcs, Sound, OfUser, OfSession, Granting, Saving
  <1>4. /\ Become(r, t) /\ sessions' = [sessions EXCEPT ![req[r].session] = Null]
        /\ UNCHANGED <<now, accounts, opened, handed, revoked>>
    BY DEF LogoutDelete, Goto
  <1> HIDE DEF t
  <1> QED
    BY <1>2, <1>3, <1>4, DeleteStep

LEMMA RevokeDeleteStep ==
  ASSUME SessionsInv, NEW r \in Requests, RevokeDelete(r)
  PROVE  SessionsInv'
  <1>1. req[r].session \in Sids
    BY DEF RevokeDelete, At, SessionsInv, AllSound, Sound, OfSession
  <1>2. Idle \in Request /\ Sound(Idle, users, opened, issued, stale)
    BY IdleSound
  <1>3. /\ Become(r, Idle) /\ sessions' = [sessions EXCEPT ![req[r].session] = Null]
        /\ UNCHANGED <<now, accounts, opened, handed, revoked>>
    BY DEF RevokeDelete, Done
  <1> QED
    BY <1>1, <1>2, <1>3, DeleteStep
LEMMA DeleteUserSessionStep ==
  ASSUME SessionsInv, NEW s \in Sids, DeleteUserSession(s)
  PROVE  SessionsInv'
  <1> USE DEF DeleteUserSession, accounts, handed, revoked
  <1>1. SessionTypes' /\ AllSound'
    BY DEF SessionsInv, SessionTypes, AllSound
  <1>2. TokensKnown' /\ RowsOpened' /\ Outlasts'
    BY DEF SessionsInv, SessionTypes, TokensKnown, RowsOpened, Outlasts, End
  <1>3. AccountsKept'
    BY DEF SessionsInv, AccountsKept, Undetermined, AsDecided, CanLogInUnlessStale, CanLogIn
  <1> QED
    BY <1>1, <1>2, <1>3 DEF SessionsInv

\* Another pair of tokens changes nothing for those there are.
LEMMA HandOutKeeps ==
  ASSUME SessionsInv, NEW r \in Requests, NEW s \in Sids, HandOut(r, s),
         req[r].user \in Users, users[req[r].user] # Null,
         opened' \in 0..MaxSessions, opened <= opened', s <= opened',
         UNCHANGED <<now, accounts, revoked>>
  PROVE  /\ tokens' \in [Pairs -> TokenPair \cup {Null}] /\ issued' \in 0..MaxTokens
         /\ Grown /\ TokensKnown' /\ Outlasts'
  <1>0. /\ SessionTypes /\ TokensKnown /\ Outlasts
        /\ users' = users /\ stale' = stale /\ now' = now
        /\ blacklist' = blacklist /\ loggedOut' = loggedOut
    BY DEF SessionsInv, accounts, revoked
  <1> DEFINE new == Pair(r, s)
  <1>1. new \in TokenPair /\ new.user = req[r].user /\ new.session = s
    BY <1>0 DEF SessionTypes, Request, Pair, TokenPair
  <1>2. /\ issued' = issued + 1 /\ tokens' = [tokens EXCEPT ![issued + 1] = new]
        /\ issued \in Nat /\ issued + 1 \in Pairs /\ issued' \in 0..MaxTokens
    BY <1>0, SessionConstants DEF HandOut, SessionTypes, Pairs
  <1>3. tokens' \in [Pairs -> TokenPair \cup {Null}]
    BY <1>0, <1>1, <1>2 DEF SessionTypes
  <1>4. Grown
    BY <1>0, <1>2 DEF Grown
  <1>5. \A p \in 1..issued : tokens'[p] = tokens[p]
    BY <1>0, <1>2 DEF SessionTypes, Pairs
  <1>6. TokensKnown'
    <2>1. \A p \in 1..issued' : /\ tokens'[p] \in TokenPair /\ users'[tokens'[p].user] # Null
                                /\ tokens'[p].session <= opened'
      <3> SUFFICES ASSUME NEW p \in 1..issued'
                   PROVE  /\ tokens'[p] \in TokenPair /\ users'[tokens'[p].user] # Null
                          /\ tokens'[p].session <= opened'
        OBVIOUS
      <3>1. CASE p = issued + 1
        BY <1>0, <1>1, <1>2, <3>1 DEF SessionTypes
      <3>2. CASE p \in 1..issued
        <4>1. /\ tokens'[p] = tokens[p] /\ tokens[p] \in TokenPair
              /\ users[tokens[p].user] # Null /\ tokens[p].session <= opened
          BY <1>0, <1>5, <3>2 DEF TokensKnown
        <4>2. tokens[p].session \in Nat /\ opened \in Nat /\ opened' \in Nat
          BY <1>0, <4>1 DEF TokenPair, Sids, SessionTypes
        <4> QED
          BY <1>0, <4>1, <4>2
      <3> QED
        BY <1>2, <3>1, <3>2
    <2>2. \A p \in Pairs : p > issued' => tokens'[p] = Null
      BY <1>0, <1>2 DEF TokensKnown, SessionTypes, Pairs
    <2> QED
      BY <2>1, <2>2 DEF TokensKnown
  <1>7. Outlasts'
    <2> SUFFICES ASSUME NEW p \in loggedOut
                 PROVE  p <= issued' /\ (End(p)' <= blacklist[p] \/ End(p)' <= now)
      BY <1>0 DEF Outlasts
    <2>1. p \in 1..issued /\ (End(p) <= blacklist[p] \/ End(p) <= now)
      BY <1>0 DEF Outlasts, SessionTypes, Pairs
    <2>2. End(p)' = End(p)
      BY <1>5, <2>1 DEF End
    <2> QED
      BY <1>2, <2>1, <2>2
  <1> QED
    BY <1>2, <1>3, <1>4, <1>6, <1>7

LEMMA CreateSessionStep ==
  ASSUME SessionsInv, NEW r \in Requests, CreateSession(r)
  PROVE  SessionsInv'
  <1> DEFINE s == opened + 1
             row == [user |-> req[r].user, hash |-> Hash(Pair(r, s)),
                     expiresAt |-> now + 2 * RefreshTTL]
  <1>0. /\ SessionTypes /\ RowsOpened /\ req[r] \in Request
        /\ req[r].user \in Users /\ users[req[r].user] # Null
    BY DEF CreateSession, At, SessionsInv, SessionTypes, AllSound, Sound, OfUser
  <1>1. /\ s \in Sids /\ opened \in Nat /\ opened' = s
        /\ s \in 0..MaxSessions /\ opened <= s /\ s <= s
    BY <1>0, SessionConstants DEF SessionTypes, CreateSession, Sids
  <1>2. /\ HandOut(r, s) /\ sessions' = [sessions EXCEPT ![s] = row] /\ Done(r)
        /\ UNCHANGED <<now, accounts, revoked>>
    BY DEF CreateSession
  <1>3. row \in SessionRow
    <2>1. now + 2 * RefreshTTL \in Nat
      BY <1>0, SessionConstants DEF SessionTypes
    <2>2. Hash(Pair(r, s)) = req[r].user
      BY DEF Hash, Pair
    <2> QED
      BY <1>0, <2>1, <2>2 DEF SessionRow
  <1> HIDE DEF s, row
  <1>4. /\ tokens' \in [Pairs -> TokenPair \cup {Null}] /\ issued' \in 0..MaxTokens
        /\ Grown /\ TokensKnown' /\ Outlasts'
    BY <1>0, <1>1, <1>2, HandOutKeeps
  <1>5. Idle \in Request /\ Sound(Idle, users, opened, issued, stale)
    BY IdleSound
  <1>6. Become(r, Idle)
    BY <1>2 DEF Done
  <1>7. SessionTypes'
    <2>1. /\ req' \in [Requests -> Request]
          /\ sessions' \in [Sids -> SessionRow \cup {Null}]
      BY <1>0, <1>2, <1>3, <1>5, <1>6 DEF SessionTypes, Become
    <2> QED
      BY <1>0, <1>1, <1>2, <1>4, <2>1 DEF SessionTypes, accounts, revoked
  <1>8. RowsOpened'
    BY <1>0, <1>1, <1>2 DEF RowsOpened, SessionTypes, Sids, s
  <1> QED
    BY <1>2, <1>4, <1>5, <1>6, <1>7, <1>8, SessionStep
LEMMA StoreRefreshStep ==
  ASSUME SessionsInv, NEW r \in Requests, StoreRefresh(r)
  PROVE  SessionsInv'
  <1> DEFINE s == req[r].session
             row == [sessions[s] EXCEPT !.hash = Hash(Pair(r, s))]
  <1>0. /\ SessionTypes /\ RowsOpened /\ req[r] \in Request
        /\ req[r].user \in Users /\ users[req[r].user] # Null
    BY DEF StoreRefresh, At, SessionsInv, SessionTypes, AllSound, Sound, OfUser
  <1>1. /\ s \in Sids /\ s <= opened /\ opened \in 0..MaxSessions /\ opened <= opened
        /\ opened' = opened
    <2>1. req[r].pc = "storeRefresh" /\ Sound(req[r], users, opened, issued, stale)
      BY DEF StoreRefresh, At, SessionsInv, AllSound
    <2>2. s \in Sids /\ (s # Null => s <= opened)
      BY <2>1 DEF Sound, OfSession
    <2>3. s # Null
      BY <2>2, SessionConstants DEF Sids
    <2> QED
      BY <1>0, <2>2, <2>3, SessionConstants DEF SessionTypes, StoreRefresh
  <1>2. /\ HandOut(r, s) /\ Done(r) /\ UNCHANGED <<now, accounts, revoked>>
        /\ \/ sessions' = sessions
           \/ sessions[s] # Null /\ sessions' = [sessions EXCEPT ![s] = row]
    BY DEF StoreRefresh
  <1>3. sessions[s] # Null => row \in SessionRow
    <2>1. Hash(Pair(r, s)) = req[r].user
      BY DEF Hash, Pair
    <2> QED
      BY <1>0, <1>1, <2>1 DEF SessionTypes, SessionRow
  <1> HIDE DEF s, row
  <1>4. /\ tokens' \in [Pairs -> TokenPair \cup {Null}] /\ issued' \in 0..MaxTokens
        /\ Grown /\ TokensKnown' /\ Outlasts'
    BY <1>0, <1>1, <1>2, HandOutKeeps
  <1>5. Idle \in Request /\ Sound(Idle, users, opened, issued, stale)
    BY IdleSound
  <1>6. Become(r, Idle)
    BY <1>2 DEF Done
  <1>7. SessionTypes'
    <2>1. /\ req' \in [Requests -> Request]
          /\ sessions' \in [Sids -> SessionRow \cup {Null}]
      BY <1>0, <1>2, <1>3, <1>5, <1>6 DEF SessionTypes, Become
    <2> QED
      BY <1>0, <1>1, <1>2, <1>4, <2>1 DEF SessionTypes, accounts, revoked
  <1>8. RowsOpened'
    BY <1>0, <1>1, <1>2 DEF RowsOpened, SessionTypes, Sids
  <1> QED
    BY <1>2, <1>4, <1>5, <1>6, <1>7, <1>8, SessionStep

\* Half-seconds and seconds.
LEMMA WholeSeconds ==
  ASSUME NEW t \in Nat
  PROVE  /\ Seconds(t) \in Nat
         /\ 2 * Seconds(t) <= t /\ t <= 2 * Seconds(t) + 1
  BY DEF Seconds

LEMMA BlacklistAccessTokenStep ==
  ASSUME SessionsInv, NEW r \in Requests, BlacklistAccessToken(r)
  PROVE  SessionsInv'
  <1> DEFINE p == req[r].pair
             exp == Expiry(tokens[p].iat, AccessTTL)
             ttl == exp - Seconds(now)
  <1>0. SessionTypes /\ TokensKnown /\ RowsOpened /\ Outlasts
    BY DEF SessionsInv
  <1>1. p \in 1..issued
    BY DEF BlacklistAccessToken, At, SessionsInv, AllSound, Sound
  <1>2. /\ p \in Pairs /\ p <= issued /\ tokens[p] \in TokenPair
    BY <1>0, <1>1, SessionConstants DEF SessionTypes, TokensKnown, Pairs
  <1>3. exp \in Nat /\ End(p) = 2 * exp
    BY <1>2, SessionConstants DEF TokenPair, Expiry, End
  <1>4. /\ blacklist' = IF ttl > 0 THEN [blacklist EXCEPT ![p] = now + 2 * ttl] ELSE blacklist
        /\ loggedOut' = loggedOut \cup {p} /\ Done(r)
        /\ UNCHANGED <<now, accounts, rows, handed>>
    BY DEF BlacklistAccessToken
  <1> HIDE DEF p, exp
  <1>5. now \in Nat /\ Seconds(now) \in Nat /\ 2 * Seconds(now) <= now
    BY <1>0, WholeSeconds DEF SessionTypes
  <1>6. ttl \in Int /\ (ttl > 0 => now + 2 * ttl \in Nat /\ 2 * exp <= now + 2 * ttl)
        /\ (~(ttl > 0) => 2 * exp <= now)
    BY <1>3, <1>5
  <1> HIDE DEF ttl
  <1>7. SessionTypes'
    <2>1. blacklist' \in [Pairs -> Nat]
      BY <1>0, <1>2, <1>4, <1>6 DEF SessionTypes
    <2>2. req' \in [Requests -> Request]
      BY <1>0, <1>4, IdleSound DEF SessionTypes, Done, Become
    <2> QED
      BY <1>0, <1>2, <1>4, <2>1, <2>2 DEF SessionTypes, accounts, rows, handed
  <1>8. Grown
    BY <1>0, <1>4 DEF Grown, SessionTypes, accounts, rows, handed
  <1>9. TokensKnown' /\ RowsOpened'
    BY <1>0, <1>4 DEF TokensKnown, RowsOpened, accounts, rows, handed
  <1>10. Outlasts'
    <2> SUFFICES ASSUME NEW k \in loggedOut \cup {p}
                 PROVE  k <= issued /\ (End(k) <= blacklist'[k] \/ End(k) <= now)
      BY <1>4 DEF Outlasts, End, handed
    <2>1. CASE k = p
      BY <1>0, <1>2, <1>3, <1>4, <1>6, <2>1 DEF SessionTypes
    <2>2. CASE k # p
      BY <1>0, <1>4, <2>2 DEF Outlasts, SessionTypes
    <2> QED
      BY <2>1, <2>2
  <1>11. Idle \in Request /\ Sound(Idle, users, opened, issued, stale) /\ Become(r, Idle)
    BY <1>4, IdleSound DEF Done
  <1> QED
    BY <1>4, <1>7, <1>8, <1>9, <1>10, <1>11, SessionStep

LEMMA TickStep ==
  ASSUME SessionsInv, Tick
  PROVE  SessionsInv'
  <1>0. SessionTypes /\ Outlasts /\ UNCHANGED <<accounts, rows, handed, loggedOut, req>>
    BY DEF SessionsInv, Tick
  <1>1. now' \in Nat /\ now < now'
    BY SessionConstants DEF Tick
  <1>2. blacklist' = [p \in Pairs |-> IF now' < blacklist[p] THEN blacklist[p] ELSE 0]
    BY DEF Tick
  <1>3. SessionTypes'
    BY <1>0, <1>1, <1>2 DEF SessionTypes, accounts, rows, handed
  <1>4. AllSound' /\ TokensKnown' /\ RowsOpened'
    BY <1>0 DEF SessionsInv, AllSound, TokensKnown, RowsOpened, accounts, rows, handed
  <1>5. AccountsKept'
    BY <1>0 DEF SessionsInv, AccountsKept, Undetermined, AsDecided, CanLogInUnlessStale,
                CanLogIn, accounts
  <1>6. Outlasts'
    <2> SUFFICES ASSUME NEW p \in loggedOut
                 PROVE  p <= issued /\ (End(p) <= blacklist'[p] \/ End(p) <= now')
      BY <1>0 DEF Outlasts, End, handed
    <2>1. /\ p \in Pairs /\ p <= issued /\ blacklist[p] \in Nat /\ now \in Nat
          /\ End(p) <= blacklist[p] \/ End(p) <= now
      BY <1>0 DEF Outlasts, SessionTypes
    <2>2. End(p) \in Nat
      <3>1. tokens[p] \in TokenPair
        BY <1>0, <2>1 DEF SessionsInv, TokensKnown, Pairs, SessionTypes
      <3> QED
        BY <3>1, SessionConstants DEF End, Expiry, TokenPair
    <2> QED
      BY <1>1, <1>2, <2>1, <2>2
  <1> QED
    BY <1>3, <1>4, <1>5, <1>6 DEF SessionsInv
-----------------------------------------------------------------------------
(* The inductive invariant                                                  *)

LEMMA LoginStep ==
  ASSUME SessionsInv, NEW r \in Requests, Login(r)
  PROVE  SessionsInv'
  BY LoginByEmailStep, RegisterByEmailStep, AuthByDiscordCodeStep, SaveDiscordStep,
     InsertDiscordStep, ReadRolesStep, CreateSessionStep DEF Login

LEMMA SessionRequestStep ==
  ASSUME SessionsInv, NEW r \in Requests, Session(r)
  PROVE  SessionsInv'
  BY RefreshStep, RefreshFindSessionStep, StoreRefreshStep, LogoutStep, LogoutDeleteStep,
     BlacklistAccessTokenStep, RevokeSessionStep, RevokeDeleteStep DEF Session

LEMMA ProfileStep ==
  ASSUME SessionsInv, NEW r \in Requests, Profile(r)
  PROVE  SessionsInv'
  BY UpdateProfileStep, UnlinkDiscordStep, LinkDiscordStep, SaveProfileStep, LinkUpdateStep,
     UnlinkUpdateStep DEF Profile

LEMMA AdminStep ==
  ASSUME SessionsInv, Admin
  PROVE  SessionsInv'
  BY UpdateUserStatusStep, UpdateUserRolesStep, SaveRolesStep, DeleteUserSessionStep DEF Admin

LEMMA SessionsNext == SessionsInv /\ [Next]_vars => SessionsInv'
  <1> SUFFICES ASSUME SessionsInv, [Next]_vars PROVE SessionsInv'
    OBVIOUS
  <1>1. CASE \E r \in Requests : Login(r) \/ Session(r) \/ Profile(r)
    BY <1>1, LoginStep, SessionRequestStep, ProfileStep
  <1>2. CASE Admin
    BY <1>2, AdminStep
  <1>3. CASE Tick
    BY <1>3, TickStep
  <1>4. CASE Crash
    BY <1>4, IdleStep DEF Crash
  <1>5. CASE UNCHANGED vars
    BY <1>5 DEF vars, SessionsInv, SessionTypes, AllSound, TokensKnown, RowsOpened, Outlasts,
                End, AccountsKept, Undetermined, AsDecided, CanLogInUnlessStale, CanLogIn
  <1> QED
    BY <1>1, <1>2, <1>3, <1>4, <1>5 DEF Next

LEMMA SessionsInvHolds == Spec => []SessionsInv
  BY SessionsInit, SessionsNext, PTL DEF Spec

-----------------------------------------------------------------------------
(* The theorems                                                             *)

\* The types hold of every behaviour: whoever saves a row has loaded it, and a request's
\* session is one that was opened.
THEOREM SessionsTyped == Spec => []TypeOK
  <1>1. SessionsInv => TypeOK
    BY NullIsNoUser DEF SessionsInv, SessionTypes, AllSound, Sound, Saving, TypeOK, Decision
  <1> QED
    BY <1>1, SessionsInvHolds, PTL

\* JwtAccessStrategy refuses the access token of a logout that was answered: the entry,
\* whose seconds are counted from the whole second, ends at the half-second of the token's
\* expiry or after it.
THEOREM LogoutStands == Spec => []LogoutHolds
  <1>1. SessionsInv => LogoutHolds
    <2> SUFFICES ASSUME SessionsInv, NEW p \in loggedOut, Accepts(p)
                 PROVE  FALSE
      BY DEF LogoutHolds
    <2>1. /\ p \in 1..issued /\ now \in Nat /\ blacklist[p] \in Nat
          /\ End(p) <= blacklist[p] \/ End(p) <= now
      BY DEF SessionsInv, SessionTypes, Outlasts, Pairs
    <2>2. Expiry(tokens[p].iat, AccessTTL) \in Nat
      BY <2>1, SessionConstants DEF SessionsInv, TokensKnown, TokenPair, Expiry
    <2>3. Seconds(now) \in Nat /\ now <= 2 * Seconds(now) + 1
      BY <2>1, WholeSeconds
    <2>4. Seconds(now) < Expiry(tokens[p].iat, AccessTTL) /\ ~(now < blacklist[p])
      BY DEF Accepts, Unexpired
    <2>5. End(p) = 2 * Expiry(tokens[p].iat, AccessTTL)
      BY DEF End
    <2>6. End(p) <= now
      BY <2>1, <2>2, <2>4, <2>5
    <2> QED
      BY <2>1, <2>2, <2>3, <2>4, <2>5, <2>6
  <1> QED
    BY <1>1, SessionsInvHolds, PTL

\* A user has the status and the roles the administrator gave him last, through all the
\* saves of AuthService, MeService and UsersService, until one of them writes a stale row.
THEOREM DecisionsStand == Spec => []AsDecided
  <1>1. SessionsInv => AsDecided
    BY DEF SessionsInv, AccountsKept
  <1> QED
    BY <1>1, SessionsInvHolds, PTL

\* unlinkDiscord leaves a password, though it updates a row it read before: a password is
\* taken away by nothing but the save of a stale row.
THEOREM AccountsCanLogIn == Spec => []CanLogInUnlessStale
  <1>1. SessionsInv => CanLogInUnlessStale
    BY DEF SessionsInv, AccountsKept
  <1> QED
    BY <1>1, SessionsInvHolds, PTL
\* Which steps write rows of sessions, and which write users' rows.
LEMMA SessionWriters ==
  ASSUME Next
  PROVE  \/ sessions' = sessions
         \/ \E s \in Sids : sessions' = [sessions EXCEPT ![s] = Null]
         \/ \E r \in Requests : CreateSession(r) \/ StoreRefresh(r)
         \/ \E r \in Requests : sessions' = [sessions EXCEPT ![req[r].session] = Null]
  <1>1. ASSUME NEW r \in Requests, Login(r)
        PROVE  sessions' = sessions \/ CreateSession(r)
    BY <1>1 DEF Login, LoginByEmail, RegisterByEmail, AuthByDiscordCode, SaveDiscord,
                InsertDiscord, ReadRoles, rows
  <1>2. ASSUME NEW r \in Requests, Session(r)
        PROVE  \/ sessions' = sessions \/ StoreRefresh(r)
               \/ sessions' = [sessions EXCEPT ![req[r].session] = Null]
    BY <1>2 DEF Session, Refresh, RefreshFindSession, Logout, LogoutDelete,
                BlacklistAccessToken, RevokeSession, RevokeDelete, rows
  <1>3. ASSUME NEW r \in Requests, Profile(r)
        PROVE  sessions' = sessions
    BY <1>3 DEF Profile, UpdateProfile, UnlinkDiscord, LinkDiscord, SaveProfile, LinkUpdate,
                UnlinkUpdate, rows
  <1>4. CASE Admin
    BY <1>4 DEF Admin, UpdateUserStatus, UpdateUserRoles, SaveRoles, DeleteUserSession, rows
  <1>5. CASE Tick \/ Crash
    BY <1>5 DEF Tick, Crash, rows
  <1> QED
    BY <1>1, <1>2, <1>3, <1>4, <1>5 DEF Next

LEMMA UserWriters ==
  ASSUME Next
  PROVE  \/ users' = users
         \/ \E r \in Requests : \/ InsertDiscord(r) \/ \E m \in Mails : RegisterByEmail(r, m)
                                \/ SaveDiscord(r) \/ SaveProfile(r) \/ SaveRoles(r)
                                \/ LinkUpdate(r) \/ UnlinkUpdate(r)
         \/ \E u \in Users, status \in {"active", "blocked"} : UpdateUserStatus(u, status)
  <1>1. ASSUME NEW r \in Requests, Login(r)
        PROVE  \/ users' = users \/ InsertDiscord(r) \/ SaveDiscord(r)
               \/ \E m \in Mails : RegisterByEmail(r, m)
    BY <1>1 DEF Login, LoginByEmail, AuthByDiscordCode, ReadRoles, CreateSession, accounts
  <1>2. ASSUME NEW r \in Requests, Session(r)
        PROVE  users' = users
    BY <1>2 DEF Session, Refresh, RefreshFindSession, StoreRefresh, Logout, LogoutDelete,
                BlacklistAccessToken, RevokeSession, RevokeDelete, accounts
  <1>3. ASSUME NEW r \in Requests, Profile(r)
        PROVE  users' = users \/ SaveProfile(r) \/ LinkUpdate(r) \/ UnlinkUpdate(r)
    BY <1>3 DEF Profile, UpdateProfile, UnlinkDiscord, LinkDiscord, accounts
  <1>4. ASSUME Admin
        PROVE  \/ users' = users \/ \E r \in Requests : SaveRoles(r)
               \/ \E u \in Users, status \in {"active", "blocked"} : UpdateUserStatus(u, status)
    BY <1>4 DEF Admin, UpdateUserRoles, DeleteUserSession, accounts
  <1>5. CASE Tick \/ Crash
    BY <1>5 DEF Tick, Crash, accounts
  <1> QED
    BY <1>1, <1>2, <1>3, <1>4, <1>5 DEF Next

\* A session that has ended never comes back: createSession inserts a new row, and the
\* update of a refresh finds none.
THEOREM EndedSessionsStay == Spec => EndedStaysEnded
  <1>1. SessionsInv /\ [Next]_vars =>
          [\A s \in Sids : (\E p \in Pairs : tokens[p] # Null /\ tokens[p].session = s)
                           /\ sessions[s] = Null => sessions'[s] = Null]_vars
    <2> SUFFICES ASSUME SessionsInv, Next, NEW s \in Sids, sessions[s] = Null,
                        NEW p \in Pairs, tokens[p] # Null, tokens[p].session = s
                 PROVE  sessions'[s] = Null
      BY DEF vars
    <2>0. sessions \in [Sids -> SessionRow \cup {Null}] /\ opened \in Nat
      BY DEF SessionsInv, SessionTypes
    <2>1. s <= opened /\ s \in Nat
      BY PairKnown DEF Sids
    <2>2. ASSUME NEW x, sessions' = [sessions EXCEPT ![x] = Null]
          PROVE  sessions'[s] = Null
      BY <2>0, <2>2
    <2>3. ASSUME NEW r \in Requests, CreateSession(r)
          PROVE  sessions'[s] = Null
      BY <2>0, <2>1, <2>3 DEF CreateSession
    <2>4. ASSUME NEW r \in Requests, StoreRefresh(r)
          PROVE  sessions'[s] = Null
      BY <2>0, <2>4 DEF StoreRefresh
    <2> QED
      BY <2>2, <2>3, <2>4, SessionWriters
  <1> QED
    BY <1>1, SessionsInvHolds, PTL DEF Spec, EndedStaysEnded

\* Witnessed tells the requests apart as they were.
LEMMA WitnessedPc ==
  ASSUME NEW rq, NEW us, NEW r \in Requests
  PROVE  Witnessed(rq, us)[r].pc = rq[r].pc
  BY DEF Witnessed

\* A request that saves a row unblocks nobody, but who was active in its time.
LEMMA SaveUnblocks ==
  ASSUME SessionsInv, NEW r \in Requests, SaveDiscord(r) \/ SaveProfile(r) \/ SaveRoles(r),
         NEW u \in Users, users[u] # Null, users[u].status = "blocked",
         users'[u].status = "active"
  PROVE  req[r].user = u /\ req[r].active /\ req'[r] # req[r]
  <1>1. req[r].pc \in Saving
    BY DEF SaveDiscord, SaveProfile, SaveRoles, At, Saving
  <1>2. /\ req[r] \in Request /\ req[r].user \in Users /\ req[r].row \in UserRow
        /\ users[req[r].user] \in UserRow
        /\ req[r].row.status = "active" => req[r].active
    BY <1>1, SavingKnows
  <1>3. PICK row \in UserRow : /\ row.status = req[r].row.status
                               /\ users' \in {users, [users EXCEPT ![req[r].user] = row]}
    <2>1. CASE SaveDiscord(r)
      <3>1. req[r].account \in Accounts
        BY <2>1 DEF SaveDiscord, At, SessionsInv, AllSound, Sound
      <3> DEFINE row == [req[r].row EXCEPT !.discord = req[r].account]
      <3>2. row \in UserRow /\ row.status = req[r].row.status
        BY <1>2, <3>1 DEF UserRow
      <3>3. users' \in {users, [users EXCEPT ![req[r].user] = row]}
        BY <2>1 DEF SaveDiscord, Save
      <3> QED
        BY <3>2, <3>3
    <2>2. CASE SaveProfile(r)
      <3> DEFINE row == [[req[r].row EXCEPT !.roles = users[req[r].user].roles]
                           EXCEPT !.password = TRUE]
      <3>1. row \in UserRow /\ row.status = req[r].row.status
        BY <1>2 DEF UserRow
      <3>2. users' \in {users, [users EXCEPT ![req[r].user] = row]}
        BY <2>2 DEF SaveProfile, Save
      <3> QED
        BY <3>1, <3>2
    <2>3. CASE SaveRoles(r)
      <3> DEFINE row == [req[r].row EXCEPT !.roles = req[r].roles]
      <3>1. row \in UserRow /\ row.status = req[r].row.status
        BY <1>2 DEF UserRow, Request
      <3>2. users' \in {users, [users EXCEPT ![req[r].user] = row]}
        BY <2>3 DEF SaveRoles, Save
      <3> QED
        BY <3>1, <3>2
    <2> QED
      BY <2>1, <2>2, <2>3
  <1>4. req[r].user = u /\ req[r].active
    BY <1>2, <1>3 DEF SessionsInv, SessionTypes
  <1>5. req'[r].pc \in {"idle", "rolesOfLogin"}
    <2>1. PICK t : req' = Witnessed([req EXCEPT ![r] = t], users')
                   /\ t.pc \in {"idle", "rolesOfLogin"}
      <3>1. Idle.pc = "idle"
        BY DEF Idle
      <3>2. [req[r] EXCEPT !.pc = "rolesOfLogin", !.row = Null, !.account = Null].pc
              = "rolesOfLogin"
        BY <1>2 DEF Request
      <3> QED
        BY <3>1, <3>2 DEF SaveDiscord, SaveProfile, SaveRoles
    <2>2. [req EXCEPT ![r] = t][r] = t
      BY DEF SessionsInv, SessionTypes
    <2> DEFINE rq == [req EXCEPT ![r] = t]
    <2>3. rq[r].pc = t.pc
      BY <2>2
    <2>4. req' = Witnessed(rq, users')
      BY <2>1
    <2> HIDE DEF rq
    <2>5. req'[r].pc = rq[r].pc
      BY <2>4, WitnessedPc
    <2> QED
      BY <2>1, <2>3, <2>5
  <1> QED
    BY <1>1, <1>4, <1>5 DEF Saving

\* Who is blocked gets no tokens, by no login and by no refresh, and stays so.
THEOREM BlocksStand == Spec => BlockHolds
  <1>1. SessionsInv /\ [Next]_vars =>
          [/\ \A r \in Requests : HandsOut(r) => req[r].active
           /\ \A u \in Users :
                users[u] # Null /\ users[u].status = "blocked" /\ users'[u].status = "active"
                => \/ UpdateUserStatus(u, "active")
                   \/ \E r \in Requests : req[r].user = u /\ req[r].active
                                          /\ req'[r] # req[r]]_vars
    <2> SUFFICES ASSUME SessionsInv, Next
                 PROVE  /\ \A r \in Requests : HandsOut(r) => req[r].active
                        /\ \A u \in Users :
                             users[u] # Null /\ users[u].status = "blocked"
                             /\ users'[u].status = "active"
                             => \/ UpdateUserStatus(u, "active")
                                \/ \E r \in Requests : req[r].user = u /\ req[r].active
                                                       /\ req'[r] # req[r]
      BY DEF vars
    <2>1. \A r \in Requests : HandsOut(r) => req[r].active
      BY DEF HandsOut, SessionsInv, AllSound, Sound, Granting
    <2>2. ASSUME NEW u \in Users, users[u] # Null, users[u].status = "blocked",
                 users'[u].status = "active"
          PROVE  \/ UpdateUserStatus(u, "active")
                 \/ \E r \in Requests : req[r].user = u /\ req[r].active /\ req'[r] # req[r]
      <3>0. users \in [Users -> UserRow \cup {Null}] /\ users[u] \in UserRow
        BY <2>2 DEF SessionsInv, SessionTypes
      <3>1. ASSUME NEW r \in Requests, NEW v \in Users, users[v] = Null, NEW row,
                   users' = [users EXCEPT ![v] = row]
            PROVE  FALSE
        BY <2>2, <3>0, <3>1
      <3>2. ASSUME NEW r \in Requests, InsertDiscord(r) \/ \E m \in Mails : RegisterByEmail(r, m)
            PROVE  FALSE
        BY <2>2, <3>0, <3>1, <3>2 DEF InsertDiscord, RegisterByEmail
      <3>3. ASSUME NEW r \in Requests, LinkUpdate(r) \/ UnlinkUpdate(r)
            PROVE  FALSE
        <4>1. PICK v, a : users' \in {users, [users EXCEPT ![v].discord = a]}
          BY <3>3 DEF LinkUpdate, UnlinkUpdate
        <4>2. users'[u].status = users[u].status
          BY <3>0, <4>1 DEF UserRow
        <4> QED
          BY <2>2, <4>2
      <3>4. ASSUME NEW v \in Users, NEW status \in {"active", "blocked"},
                   UpdateUserStatus(v, status)
            PROVE  UpdateUserStatus(u, "active")
        <4>1. users' = [users EXCEPT ![v].status = status]
          BY <3>4 DEF UpdateUserStatus
        <4>2. v = u
          BY <2>2, <3>0, <4>1
        <4>3. users'[u].status = status
          BY <3>0, <4>1, <4>2 DEF UserRow
        <4> QED
          BY <2>2, <3>4, <4>2, <4>3
      <3>5. users' # users
        BY <2>2
      <3> QED
        BY <2>2, <3>2, <3>3, <3>4, <3>5, UserWriters, SaveUnblocks
    <2> QED
      BY <2>1, <2>2
  <1> QED
    BY <1>1, SessionsInvHolds, PTL DEF Spec, BlockHolds

===============================================================================
