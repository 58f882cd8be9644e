------------------------------ MODULE AppTokens ------------------------------
(***************************************************************************)
(* The access token of one Twitch app: TwitchAppTokenManager and             *)
(* TwitchAppAuthService, which share it among the requests of the api, the    *)
(* interceptor that asks for it before a request and again after a 401, the   *)
(* row it is written to, and the administrator's edits of that row.           *)
(*                                                                         *)
(* The manager keeps a token, when it expires, and the promise of a refresh   *)
(* in a map.  The promise is identified with the token it will bring.  What   *)
(* runs between two awaits is one step: a refresh that ends stores the token,  *)
(* runs its finally and resumes who waits for it.                            *)
(*                                                                         *)
(* The row keeps the token encrypted.  0 is the empty text, 1..MaxTokens are   *)
(* the tokens, and the numbers above are what encryption makes of these.       *)
(***************************************************************************)
EXTENDS Integers, FiniteSets

CONSTANTS
  Calls,      \* requests to Twitch in flight at once
  Editors,    \* edits of the app in flight at once
  Events,     \* what may go wrong
  MaxTokens,  \* bound on the tokens ever asked for
  MaxBlind,   \* bound on the calls that find the map empty after one start
  Null

ASSUME TokenConstants ==
  /\ IsFiniteSet(Calls)
  /\ MaxTokens \in Nat /\ MaxBlind \in Nat
  /\ Null \notin Calls \cup Nat

VARIABLES
  phase,      \* what became of each token that was asked for
  asked,      \* how many were
  row,        \* token and expiry in the app's row, Null without a row
  writes,     \* updates of the row nobody waits for
  state,      \* the manager's entry, Null if there is none
  blind,      \* calls that have found no entry since the api started
  call,       \* requests
  editor      \* edits

vars == <<phase, asked, row, writes, state, blind, call, editor>>
manager == <<state, blind>>

Tokens == 1..MaxTokens
Phases == {"unused", "flight", "failed", "good", "ending", "expired", "revoked"}

\* "own" is the token's own expiry, "zero" the epoch, and "far" what setToken makes of
\* the row's milliseconds, which it takes for seconds from now.
Expiries == {"own", "zero", "far"}
Stored == [token : 0..(2 * MaxTokens + 1), exp : Expiries]

\* TokenState, with the promise's token, or 0.
Entries == [token : 0..MaxTokens, exp : Expiries, refreshing : 0..MaxTokens]

ASSUME NullIsNoRecord == Null \notin Stored \cup Entries

Idle == [pc |-> "idle", token |-> 0, retried |-> FALSE, died |-> FALSE]

At(c, pc) == call[c].pc = pc

\* A token somebody has asked for and not got.
InFlight == {k \in Tokens : phase[k] = "flight"}
Accepted(k) == k \in Tokens /\ phase[k] \in {"good", "ending"}

-----------------------------------------------------------------------------
(* CryptoService and TwitchAppsRepository                                   *)

IsEncrypted(text) == text > MaxTokens

\* Neither is done twice: the prefix tells whether it was done.
Encrypt(text) == IF IsEncrypted(text) THEN text ELSE text + MaxTokens + 1
Decrypt(text) == IF IsEncrypted(text) THEN text - MaxTokens - 1 ELSE text

\* An empty field is left as it is.
EncryptFields(app) == IF app.token = 0 THEN app ELSE [app EXCEPT !.token = Encrypt(@)]
DecryptFields(app) == IF app.token = 0 THEN app ELSE [app EXCEPT !.token = Decrypt(@)]

\* findOne with shouldDecrypt
FindOne == IF row = Null THEN Null ELSE DecryptFields(row)

\* saveApp inserts the row if there is none.
StoreApp(app) == row' = EncryptFields(app)

-----------------------------------------------------------------------------
(* TwitchAppTokenManager                                                    *)

\* isExpired: a minute before the token's end.
IsExpired(s) ==
  \/ s.exp = "zero"
  \/ s.exp = "own" /\ s.token \in Tokens /\ phase[s.token] \in {"ending", "expired"}

Entry(token, exp, refreshing) == [token |-> token, exp |-> exp, refreshing |-> refreshing]

SetToken(k, exp) == state' = Entry(k, exp, 0)

Invalidate == IF state = Null THEN state ELSE [state EXCEPT !.exp = "zero"]

\* refreshFn is called and its promise put into entry s.
StartRefresh(c, s, next) ==
  /\ asked < MaxTokens
  /\ asked' = asked + 1
  /\ phase' = [phase EXCEPT ![asked + 1] = "flight"]
  /\ state' = [s EXCEPT !.refreshing = asked + 1]
  /\ call' = [call EXCEPT ![c] = [next EXCEPT !.pc = "wait", !.token = asked + 1]]

GetOrRefreshAlone(c, s, next) ==
  IF s = Null
  THEN /\ blind < MaxBlind
       /\ blind' = blind + 1
       /\ call' = [call EXCEPT ![c] = [next EXCEPT !.pc = "findRow"]]
       /\ UNCHANGED <<phase, asked, state>>
  ELSE /\ UNCHANGED blind
       /\ IF ~IsExpired(s)
          THEN /\ call' = [call EXCEPT ![c] = [next EXCEPT !.pc = "send", !.token = s.token]]
               /\ state' = s
               /\ UNCHANGED <<phase, asked>>
          ELSE StartRefresh(c, s, next)

\* getOrRefresh, with entry s in the map, up to its first await.
GetOrRefresh(c, s, next) ==
  IF s = Null
  THEN /\ blind < MaxBlind
       /\ blind' = blind + 1
       /\ call' = [call EXCEPT ![c] = [next EXCEPT !.pc = "findRow"]]
       /\ UNCHANGED <<phase, asked, state>>
  ELSE /\ UNCHANGED blind
       /\ \/ /\ ~IsExpired(s)
             /\ call' = [call EXCEPT ![c] = [next EXCEPT !.pc = "send", !.token = s.token]]
             /\ state' = s
             /\ UNCHANGED <<phase, asked>>
          \/ /\ IsExpired(s) /\ s.refreshing # 0
             /\ call' = [call EXCEPT ![c] = [next EXCEPT !.pc = "wait", !.token = s.refreshing]]
             /\ state' = s
             /\ UNCHANGED <<phase, asked>>
          \/ /\ IsExpired(s) /\ s.refreshing = 0
             /\ StartRefresh(c, s, next)

\* The row has a token that has not expired.
IsValid(app) ==
  /\ app # Null
  /\ app.token # 0
  /\ app.exp = "far" \/ (app.exp = "own" /\ phase[Decrypt(app.token)] # "expired")

\* The row was read.  What the map holds by now is overwritten: the call goes by the
\* entry it had not found.
FindRow(c) ==
  /\ At(c, "findRow")
  /\ \/ /\ IsValid(FindOne)
        /\ SetToken(FindOne.token, "far")
        /\ call' = [call EXCEPT ![c].pc = "send", ![c].token = FindOne.token]
        /\ UNCHANGED <<phase, asked>>
     \/ /\ ~IsValid(FindOne)
        /\ StartRefresh(c, Entry(0, "zero", 0), call[c])
  /\ UNCHANGED <<row, writes, blind, editor>>

\* What those who wait for a promise do when it ends: each fails, or sends its request.
Resumed(k, next) ==
  [c \in Calls |-> IF call[c].pc = "wait" /\ call[c].token = k
                   THEN IF next = "idle" THEN Idle ELSE [call[c] EXCEPT !.pc = next]
                   ELSE call[c]]

\* refreshFn resolves: setToken, and the finally finds the entry it has made.
Refreshed(k) ==
  /\ phase[k] = "flight"
  /\ phase' = [phase EXCEPT ![k] = "good"]
  /\ SetToken(k, "own")
  /\ writes' = writes \cup {[token |-> k, exp |-> "own"]}
  /\ call' = Resumed(k, "send")
  /\ UNCHANGED <<asked, row, blind, editor>>

RefreshFailsUnnoticed(k) ==
  /\ phase[k] = "flight"
  /\ "fetch_fails" \in Events \/ row = Null
  /\ phase' = [phase EXCEPT ![k] = "failed"]
  /\ call' = Resumed(k, "idle")
  /\ UNCHANGED <<asked, row, writes, state, blind, editor>>

\* refreshFn rejects; the finally writes whatever entry there is, a blank token too,
\* and takes whatever promise is in it away.
RefreshFails(k) ==
  /\ phase[k] = "flight"
  /\ "fetch_fails" \in Events \/ row = Null
  /\ phase' = [phase EXCEPT ![k] = "failed"]
  /\ call' = Resumed(k, "idle")
  /\ state' = [state EXCEPT !.refreshing = 0]
  /\ writes' = writes \cup {[token |-> state.token, exp |-> state.exp]}
  /\ UNCHANGED <<asked, row, blind, editor>>

\* updateToken
UpdateToken(w) ==
  /\ w \in writes
  /\ writes' = writes \ {w}
  /\ row' = IF row = Null THEN row ELSE [w EXCEPT !.token = Encrypt(@)]
  /\ UNCHANGED <<phase, asked, manager, call, editor>>

-----------------------------------------------------------------------------
(* A request of TwitchApiService and the interceptor                        *)

\* The request interceptor.
Request(c) ==
  /\ At(c, "idle")
  /\ GetOrRefresh(c, state, Idle)
  /\ UNCHANGED <<row, writes, editor>>

\* Twitch answers anything but a 401, or does not answer at all.
Answered(c) ==
  /\ At(c, "send")
  /\ Accepted(call[c].token)
  /\ call' = [call EXCEPT ![c] = Idle]
  /\ UNCHANGED <<phase, asked, row, writes, manager, editor>>

ForceRefreshCached(c) == GetOrRefresh(c, state, [call[c] EXCEPT !.retried = TRUE])

\* getTokenForApp with forceRefresh.
ForceRefresh(c) == GetOrRefresh(c, Invalidate, [call[c] EXCEPT !.retried = TRUE])

\* The first 401.  The interceptor that sets the header of the repeated request asks the
\* manager again, in the same breath, and finds the same token.
Unauthorised(c) ==
  /\ At(c, "send")
  /\ ~Accepted(call[c].token)
  /\ ~call[c].retried
  /\ ForceRefresh(c)
  /\ UNCHANGED <<row, writes, editor>>

\* The second one.
Refused(c) ==
  /\ At(c, "send")
  /\ ~Accepted(call[c].token)
  /\ call[c].retried
  /\ call' = [call EXCEPT ![c] = Idle]
  /\ UNCHANGED <<phase, asked, row, writes, manager, editor>>

-----------------------------------------------------------------------------
(* The administrator                                                        *)

\* addTwitchApp fetches a token with the secret it is given and saves the row.
AddTwitchApp ==
  /\ row = Null
  /\ asked < MaxTokens
  /\ asked' = asked + 1
  /\ phase' = [phase EXCEPT ![asked + 1] = "good"]
  /\ StoreApp([token |-> asked + 1, exp |-> "own"])
  /\ UNCHANGED <<writes, manager, call, editor>>

\* editTwitchApp reads the row, decrypted.
EditTwitchApp(e) ==
  /\ editor[e] = Null
  /\ row # Null
  /\ editor' = [editor EXCEPT ![e] = FindOne]
  /\ UNCHANGED <<phase, asked, row, writes, manager, call>>

\* It writes all of the row back.
SaveApp(e) ==
  /\ editor[e] # Null
  /\ StoreApp(editor[e])
  /\ editor' = [editor EXCEPT ![e] = Null]
  /\ UNCHANGED <<phase, asked, writes, manager, call>>

\* deleteTwitchApp.  The manager is not told.
DeleteTwitchApp ==
  /\ row # Null
  /\ row' = Null
  /\ UNCHANGED <<phase, asked, writes, manager, call, editor>>

-----------------------------------------------------------------------------
(* Twitch and the process                                                   *)

Dies(k, how) ==
  /\ phase' = [phase EXCEPT ![k] = how]
  /\ call' = [c \in Calls |-> IF At(c, "idle") THEN call[c] ELSE [call[c] EXCEPT !.died = TRUE]]

Expire(k) ==
  /\ \/ /\ phase[k] = "good"
        /\ phase' = [phase EXCEPT ![k] = "ending"]
        /\ UNCHANGED call
     \/ phase[k] = "ending" /\ Dies(k, "expired")
  /\ UNCHANGED <<asked, row, writes, manager, editor>>

Revoke(k) ==
  /\ "revoke" \in Events
  /\ Accepted(k)
  /\ Dies(k, "revoked")
  /\ UNCHANGED <<asked, row, writes, manager, editor>>

\* A restart, by itself or because one of the updates nobody waits for failed.
Crash ==
  /\ "crash" \in Events
  /\ state # Null \/ blind > 0
  /\ state' = Null
  /\ blind' = 0
  /\ writes' = {}
  /\ phase' = [k \in Tokens |-> IF k \in InFlight THEN "failed" ELSE phase[k]]
  /\ call' = [c \in Calls |-> Idle]
  /\ editor' = [e \in Editors |-> Null]
  /\ UNCHANGED <<asked, row>>

Init ==
  /\ phase = [k \in Tokens |-> "unused"]
  /\ asked = 0
  /\ row = Null
  /\ writes = {}
  /\ state = Null
  /\ blind = 0
  /\ call = [c \in Calls |-> Idle]
  /\ editor = [e \in Editors |-> Null]

Next ==
  \/ \E c \in Calls : Request(c) \/ FindRow(c) \/ Answered(c) \/ Unauthorised(c) \/ Refused(c)
  \/ \E k \in Tokens : Refreshed(k) \/ RefreshFails(k) \/ Expire(k) \/ Revoke(k)
  \/ \E w \in writes : UpdateToken(w)
  \/ AddTwitchApp
  \/ \E e \in Editors : EditTwitchApp(e) \/ SaveApp(e)
  \/ DeleteTwitchApp
  \/ Crash

Spec == Init /\ [][Next]_vars

-----------------------------------------------------------------------------
(* Properties                                                               *)

Call == [pc : {"idle", "findRow", "wait", "send"}, token : 0..MaxTokens,
         retried : BOOLEAN, died : BOOLEAN]

\* Types; a request that is sent carries a token Twitch has issued, and not the blank one
\* an entry is made with; who waits has something to wait for.
TypeOK ==
  /\ phase \in [Tokens -> Phases]
  /\ asked \in 0..MaxTokens
  /\ row \in Stored \cup {Null}
  /\ writes \subseteq Stored
  /\ state \in Entries \cup {Null}
  /\ blind \in 0..MaxBlind
  /\ call \in [Calls -> Call]
  /\ editor \in [Editors -> Stored \cup {Null}]
  /\ \A c \in Calls :
       /\ At(c, "send") => call[c].token # 0
       /\ At(c, "wait") => call[c].token \in InFlight

\* The promise in the manager's entry is of a refresh that is still going on: nobody is
\* given the failure of an earlier one.
NothingStuck == state # Null /\ state.refreshing # 0 => state.refreshing \in InFlight

\* Twitch is asked for no more tokens at a time than calls have found no entry since the
\* start, so for one if there was one such call: they go by what they saw before they read
\* the row, and all others share the promise of the entry.
RefreshesBounded == Cardinality(InFlight) <= blind

\* What Twitch refuses was once a token, read back from the row as it was given out.  And a
\* request that is refused a second time was so because a token died while it was under
\* way: the token of the second try is a new one, whatever others do to the entry.
RetrySuffices ==
  [][\A c \in Calls : /\ Unauthorised(c) => call[c].token \in Tokens
                      /\ Refused(c) => call[c].died]_vars
===============================================================================
