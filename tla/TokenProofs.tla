----------------------------- MODULE TokenProofs -----------------------------
(***************************************************************************)
(* Theorems about AppTokens and UserTokens, for any number of requests,       *)
(* edits, jobs and tokens.                                                   *)
(*                                                                         *)
(* A refresh of the app's token that the manager's entry does not name was    *)
(* begun by a call that had found no entry.  Every refresh of a user's token   *)
(* is for the token the row holds, or another job has crossed it.             *)
(***************************************************************************)
EXTENDS AppTokens, UserTokens, FiniteSetTheorems, TLAPS

-----------------------------------------------------------------------------
(* The app's token: the invariant                                            *)

\* What the row holds, decrypted.
Plain == [token : 0..MaxTokens, exp : Expiries]

\* The row keeps no token in clear.
AppTypes ==
  /\ phase \in [Tokens -> Phases]
  /\ asked \in 0..MaxTokens
  /\ row \in Stored \cup {Null}
  /\ row # Null => row.token = 0 \/ row.token > MaxTokens
  /\ writes \subseteq Plain
  /\ state \in Entries \cup {Null}
  /\ blind \in 0..MaxBlind
  /\ call \in [Calls -> Call]
  /\ editor \in [Editors -> Plain \cup {Null}]

AskedInOrder == \A k \in Tokens : phase[k] = "unused" <=> k > asked

\* A blank entry is expired, and the promise in an entry is of a refresh under way.
EntryOK ==
  state # Null =>
    /\ state.token = 0 => state.exp = "zero"
    /\ state.refreshing \in InFlight \cup {0}

CallOK(c) ==
  /\ At(c, "send") => call[c].token # 0
  /\ At(c, "wait") => call[c].token \in InFlight
  /\ At(c, "findRow") => ~call[c].retried
  /\ state = Null => At(c, "idle") \/ At(c, "findRow")
  /\ At(c, "send") /\ call[c].retried => call[c].died \/ Accepted(call[c].token)

\* Refreshes the entry does not name, and calls that are yet to make an entry.
Orphans == InFlight \ {state.refreshing}
Finding == {c \in Calls : At(c, "findRow")}

BlindPays ==
  /\ state = Null => InFlight = {} /\ Cardinality(Finding) <= blind
  /\ state # Null => Cardinality(Orphans) + Cardinality(Finding) + 1 <= blind

AppInv ==
  /\ AppTypes
  /\ AskedInOrder
  /\ EntryOK
  /\ \A c \in Calls : CallOK(c)
  /\ BlindPays

-----------------------------------------------------------------------------
(* Counting                                                                  *)

LEMMA SmallSets ==
  /\ \A S \in SUBSET Tokens : IsFiniteSet(S) /\ Cardinality(S) \in Nat
  /\ \A S \in SUBSET Calls : IsFiniteSet(S) /\ Cardinality(S) \in Nat
  <1>1. IsFiniteSet(Tokens)
    BY TokenConstants, FS_Interval DEF Tokens
  <1> QED
    BY <1>1, TokenConstants, FS_Subset, FS_CardinalityType

LEMMA OneLess ==
  ASSUME NEW S, IsFiniteSet(S), NEW k \in S
  PROVE  /\ IsFiniteSet(S \ {k})
         /\ Cardinality(S \ {k}) \in Nat
         /\ Cardinality(S) = Cardinality(S \ {k}) + 1
  <1>1. IsFiniteSet(S \ {k}) /\ Cardinality(S \ {k}) = Cardinality(S) - 1
    BY FS_RemoveElement
  <1>2. Cardinality(S) \in Nat /\ Cardinality(S \ {k}) \in Nat
    BY <1>1, FS_CardinalityType
  <1> QED
    BY <1>1, <1>2

\* It does not matter which one of a set is left out.
LEMMA LeftOut ==
  ASSUME NEW S, IsFiniteSet(S), NEW k \in S, NEW r
  PROVE  Cardinality(S \ {k}) <= Cardinality(S \ {r})
  <1>1. CASE r \in S
    BY <1>1, OneLess
  <1>2. CASE r \notin S
    BY <1>2, OneLess, FS_Subset, FS_CardinalityType, S \ {r} = S
  <1> QED
    BY <1>1, <1>2

LEMMA Typing ==
  /\ InFlight \subseteq Tokens /\ Orphans \subseteq Tokens /\ Finding \subseteq Calls
  /\ InFlight' \subseteq Tokens /\ Orphans' \subseteq Tokens /\ Finding' \subseteq Calls
  BY DEF InFlight, Orphans, Finding

\* A step at which nobody is asked, answered, or finds the map empty.
LEMMA EntryKept ==
  ASSUME EntryOK, BlindPays, state' = state, blind' = blind, InFlight' = InFlight,
         Finding' = Finding
  PROVE  EntryOK' /\ BlindPays'
  BY DEF EntryOK, BlindPays, Orphans

\* A step of the others that leaves the calls where they are, and what is in flight.
LEMMA CallsKept ==
  ASSUME \A c \in Calls : CallOK(c), call' = call, state' = state, InFlight' = InFlight,
         \A k \in Tokens : Accepted(k) => Accepted(k)'
  PROVE  \A c \in Calls : CallOK(c)'
  BY DEF CallOK, At, Accepted

\* One that found the map empty makes an entry: there is at most one more refresh that
\* the entry does not name, and one less that looks.
LEMMA FoundPays ==
  ASSUME BlindPays, blind \in Nat, blind' = blind, NEW c \in Calls, c \in Finding,
         Finding' = Finding \ {c}, state' # Null, Orphans' \subseteq InFlight
  PROVE  BlindPays'
  <1>1. Cardinality(Finding) = Cardinality(Finding') + 1 /\ Cardinality(Finding') \in Nat
    BY Typing, SmallSets, OneLess
  <1>2. Cardinality(Orphans') <= Cardinality(InFlight)
    BY Typing, SmallSets, FS_Subset
  <1>3. /\ Cardinality(Orphans') \in Nat /\ Cardinality(InFlight) \in Nat
        /\ Cardinality(Orphans) \in Nat
    BY Typing, SmallSets
  <1>4. CASE state = Null
    <2>1. InFlight = {} /\ Cardinality(InFlight) = 0
      BY <1>4, FS_EmptySet DEF BlindPays
    <2> QED
      BY <1>1, <1>2, <1>3, <1>4, <2>1 DEF BlindPays
  <1>5. CASE state # Null
    <2>1. Cardinality(InFlight) <= Cardinality(Orphans) + 1
      <3>1. CASE state.refreshing \in InFlight
        BY <3>1, OneLess, Typing, SmallSets DEF Orphans
      <3>2. CASE state.refreshing \notin InFlight
        BY <3>2, <1>3, Orphans = InFlight DEF Orphans
      <3> QED
        BY <3>1, <3>2
    <2> QED
      BY <1>1, <1>2, <1>3, <1>5, <2>1 DEF BlindPays
  <1> QED
    BY <1>4, <1>5

\* An answered refresh takes the entry's promise away, whether it was its own or not.
LEMMA EndPays ==
  ASSUME BlindPays, blind \in Nat, blind' = blind, Finding' = Finding, state # Null,
         state' # Null, NEW k \in InFlight, InFlight' = InFlight \ {k}
  PROVE  BlindPays'
  <1>1. Cardinality(InFlight \ {k}) <= Cardinality(Orphans)
    BY LeftOut, Typing, SmallSets DEF Orphans
  <1>2. Cardinality(Orphans') <= Cardinality(InFlight \ {k})
    BY Typing, SmallSets, FS_Subset DEF Orphans
  <1>3. /\ Cardinality(Orphans') \in Nat /\ Cardinality(InFlight \ {k}) \in Nat
        /\ Cardinality(Orphans) \in Nat /\ Cardinality(Finding) \in Nat
    BY Typing, SmallSets
  <1> QED
    BY <1>1, <1>2, <1>3 DEF BlindPays

-----------------------------------------------------------------------------
(* The app's token: the steps of a request                                   *)

LEMMA Starting ==
  ASSUME AppTypes, AskedInOrder, NEW c \in Calls, NEW s \in Entries, NEW next \in Call,
         StartRefresh(c, s, next)
  PROVE  /\ asked + 1 \in Tokens /\ asked' = asked + 1
         /\ phase' \in [Tokens -> Phases] /\ AskedInOrder'
         /\ InFlight' = InFlight \cup {asked + 1} /\ asked + 1 \notin InFlight
         /\ state' \in Entries /\ state' # Null
         /\ state' = [s EXCEPT !.refreshing = asked + 1]
         /\ call' = [call EXCEPT ![c] = [next EXCEPT !.pc = "wait", !.token = asked + 1]]
         /\ call' \in [Calls -> Call]
         /\ \A k \in Tokens : Accepted(k) => Accepted(k)'
  <1> USE TokenConstants, NullIsNoRecord DEF Tokens
  <1>1. asked + 1 \in Tokens /\ asked' = asked + 1 /\ asked + 1 \in 0..MaxTokens
    BY DEF StartRefresh, AppTypes
  <1>2. phase' = [phase EXCEPT ![asked + 1] = "flight"]
    BY DEF StartRefresh
  <1>3. phase[asked + 1] = "unused"
    BY <1>1 DEF AskedInOrder, AppTypes
  <1>4. phase' \in [Tokens -> Phases] /\ AskedInOrder'
    BY <1>1, <1>2, <1>3 DEF AskedInOrder, AppTypes, Phases
  <1>5. InFlight' = InFlight \cup {asked + 1} /\ asked + 1 \notin InFlight
    BY <1>1, <1>2, <1>3 DEF InFlight, AppTypes
  <1>6. state' \in Entries /\ state' # Null /\ state' = [s EXCEPT !.refreshing = asked + 1]
    BY <1>1 DEF StartRefresh, Entries
  <1>7. /\ call' = [call EXCEPT ![c] = [next EXCEPT !.pc = "wait", !.token = asked + 1]]
        /\ call' \in [Calls -> Call]
    BY <1>1 DEF StartRefresh, Call, AppTypes
  <1>8. \A k \in Tokens : Accepted(k) => Accepted(k)'
    BY <1>1, <1>2, <1>3 DEF Accepted, AppTypes
  <1> QED
    BY <1>1, <1>4, <1>5, <1>6, <1>7, <1>8

\* The manager asked with an entry that differs from its own in the expiry at most, and
\* is expired if the request was refused before.
LEMMA Asking ==
  ASSUME AppInv, NEW c \in Calls, NEW s \in Entries \cup {Null}, NEW next \in Call,
         ~At(c, "findRow"),
         s = Null <=> state = Null,
         s # Null => /\ s.token = state.token /\ s.refreshing = state.refreshing
                     /\ s.token = 0 => s.exp = "zero",
         next.retried => s # Null /\ s.exp = "zero",
         GetOrRefresh(c, s, next), UNCHANGED <<row, writes, editor>>
  PROVE  AppInv'
  <1> USE TokenConstants, NullIsNoRecord
  <1>0. AppTypes /\ blind \in Nat /\ EntryOK /\ BlindPays /\ \A d \in Calls : CallOK(d)
    BY DEF AppInv, AppTypes
  <1>1. CASE s = Null
    <2>1. /\ blind < MaxBlind /\ blind' = blind + 1
          /\ call' = [call EXCEPT ![c] = [next EXCEPT !.pc = "findRow"]]
          /\ UNCHANGED <<phase, asked, state>>
      BY <1>1 DEF GetOrRefresh
    <2>2. AppTypes'
      BY <2>1, <1>0 DEF AppTypes, Call
    <2>3. AskedInOrder' /\ EntryOK'
      BY <2>1 DEF AppInv, AskedInOrder, EntryOK, InFlight
    <2>4. \A d \in Calls : CallOK(d)'
      BY <2>1, <1>0, <1>1 DEF CallOK, At, Call, InFlight, Accepted, AppTypes
    <2>5. Finding' = Finding \cup {c} /\ c \notin Finding
      BY <2>1, <1>0 DEF Finding, At, Call, AppTypes
    <2>6. Cardinality(Finding') = Cardinality(Finding) + 1 /\ Cardinality(Finding) \in Nat
      BY <2>5, Typing, SmallSets, FS_AddElement
    <2>7. InFlight' = InFlight
      BY <2>1 DEF InFlight
    <2>8. BlindPays'
      BY <2>1, <2>6, <2>7, <1>0, <1>1 DEF BlindPays
    <2> QED
      BY <2>2, <2>3, <2>4, <2>8 DEF AppInv
  <1>2. CASE s # Null /\ ~IsExpired(s)
    <2>1. /\ call' = [call EXCEPT ![c] = [next EXCEPT !.pc = "send", !.token = s.token]]
          /\ state' = s
          /\ UNCHANGED <<phase, asked, blind>>
      BY <1>2 DEF GetOrRefresh
    <2>2. s \in Entries /\ s.exp # "zero" /\ s.token # 0 /\ ~next.retried
      BY <1>2 DEF IsExpired
    <2>3. AppTypes'
      BY <2>1, <2>2, <1>0 DEF AppTypes, Call, Entries
    <2>4. InFlight' = InFlight /\ \A k \in Tokens : Accepted(k)' = Accepted(k)
      BY <2>1 DEF InFlight, Accepted
    <2>5. AskedInOrder' /\ EntryOK'
      BY <2>1, <2>4, <1>0, <1>2 DEF AppInv, AskedInOrder, EntryOK
    <2>6. \A d \in Calls : CallOK(d)'
      BY <2>1, <2>2, <2>4, <1>0, <1>2 DEF CallOK, At, Call, AppTypes, Accepted
    <2>7. Finding' = Finding /\ Orphans' = Orphans
      BY <2>1, <2>4, <1>0, <1>2 DEF Finding, Orphans, At, Call, AppTypes
    <2>8. BlindPays'
      BY <2>1, <2>7, <1>0, <1>2 DEF BlindPays
    <2> QED
      BY <2>3, <2>5, <2>6, <2>8 DEF AppInv
  <1>3. CASE s # Null /\ IsExpired(s) /\ s.refreshing # 0
    <2>1. /\ call' = [call EXCEPT ![c] = [next EXCEPT !.pc = "wait", !.token = s.refreshing]]
          /\ state' = s
          /\ UNCHANGED <<phase, asked, blind>>
      BY <1>3 DEF GetOrRefresh
    <2>2. s \in Entries /\ s.refreshing \in InFlight
      BY <1>0, <1>3 DEF EntryOK
    <2>3. AppTypes'
      BY <2>1, <2>2, <1>0 DEF AppTypes, Call, Entries
    <2>4. InFlight' = InFlight /\ \A k \in Tokens : Accepted(k)' = Accepted(k)
      BY <2>1 DEF InFlight, Accepted
    <2>5. AskedInOrder' /\ EntryOK'
      BY <2>1, <2>4, <1>0, <1>3 DEF AppInv, AskedInOrder, EntryOK
    <2>6. \A d \in Calls : CallOK(d)'
      BY <2>1, <2>2, <2>4, <1>0, <1>3 DEF CallOK, At, Call, AppTypes, Accepted
    <2>7. Finding' = Finding /\ Orphans' = Orphans
      BY <2>1, <2>4, <1>0, <1>3 DEF Finding, Orphans, At, Call, AppTypes
    <2>8. BlindPays'
      BY <2>1, <2>7, <1>0, <1>3 DEF BlindPays
    <2> QED
      BY <2>3, <2>5, <2>6, <2>8 DEF AppInv
  <1>4. CASE s # Null /\ IsExpired(s) /\ s.refreshing = 0
    <2>1. StartRefresh(c, s, next) /\ s \in Entries /\ blind' = blind
      BY <1>4 DEF GetOrRefresh
    <2>2. /\ asked + 1 \in Tokens /\ asked' = asked + 1
          /\ phase' \in [Tokens -> Phases] /\ AskedInOrder'
          /\ InFlight' = InFlight \cup {asked + 1} /\ asked + 1 \notin InFlight
          /\ state' \in Entries /\ state' # Null
          /\ state' = [s EXCEPT !.refreshing = asked + 1]
          /\ call' = [call EXCEPT ![c] = [next EXCEPT !.pc = "wait", !.token = asked + 1]]
          /\ call' \in [Calls -> Call]
          /\ \A k \in Tokens : Accepted(k) => Accepted(k)'
      BY <2>1, Starting DEF AppInv
    <2>3. AppTypes'
      BY <2>1, <2>2, <1>0 DEF AppTypes, Tokens
    <2>4. EntryOK'
      BY <2>1, <2>2, <1>4 DEF EntryOK, Entries
    <2>5. \A d \in Calls : CallOK(d)'
      BY <2>1, <2>2, <1>0, <1>4 DEF CallOK, At, Call, AppTypes, Accepted
    <2>6. Finding' = Finding
      BY <2>2, <1>0 DEF Finding, At, Call, AppTypes
    <2>7. Orphans = InFlight /\ Orphans' = InFlight
      BY <2>1, <2>2, <1>4 DEF Orphans, InFlight, Tokens, Entries
    <2>8. BlindPays'
      BY <2>1, <2>2, <2>6, <2>7, <1>0, <1>4 DEF BlindPays
    <2> QED
      BY <2>2, <2>3, <2>4, <2>5, <2>8 DEF AppInv
  <1> QED
    BY <1>1, <1>2, <1>3, <1>4

\* Decrypting what the row holds gives a token, or the blank one.
LEMMA RowIsPlain ==
  ASSUME AppTypes, row # Null
  PROVE  FindOne \in Plain
  BY TokenConstants DEF AppTypes, FindOne, DecryptFields, Decrypt, IsEncrypted, Stored, Plain

\* And what is written there is encrypted.
LEMMA StoredIsSecret ==
  ASSUME NEW app \in Plain
  PROVE  /\ EncryptFields(app) \in Stored
         /\ EncryptFields(app).token = 0 \/ EncryptFields(app).token > MaxTokens
         /\ [app EXCEPT !.token = Encrypt(@)] \in Stored
         /\ [app EXCEPT !.token = Encrypt(@)].token > MaxTokens
  BY TokenConstants DEF EncryptFields, Encrypt, IsEncrypted, Stored, Plain

LEMMA FindRowStep ==
  ASSUME AppInv, NEW c \in Calls, FindRow(c)
  PROVE  AppInv'
  <1> USE TokenConstants, NullIsNoRecord
  <1>0. /\ AppTypes /\ blind \in Nat /\ EntryOK /\ BlindPays /\ \A d \in Calls : CallOK(d)
        /\ At(c, "findRow") /\ ~call[c].retried /\ blind' = blind
        /\ UNCHANGED <<row, writes, editor>>
    BY DEF AppInv, AppTypes, CallOK, FindRow
  <1>1. CASE /\ IsValid(FindOne)
             /\ SetToken(FindOne.token, "far")
             /\ call' = [call EXCEPT ![c].pc = "send", ![c].token = FindOne.token]
             /\ UNCHANGED <<phase, asked>>
    <2>1. row # Null /\ FindOne \in Plain /\ FindOne.token # 0
      <3>1. row # Null /\ FindOne.token # 0
        BY <1>1 DEF IsValid, FindOne
      <3> QED
        BY <3>1, <1>0, RowIsPlain
    <2>2. FindOne.token \in 0..MaxTokens /\ FindOne.token # 0
      BY <2>1 DEF Plain
    <2>3. state' \in Entries /\ state'.token # 0 /\ state'.refreshing = 0 /\ state' # Null
      BY <1>1, <2>2 DEF SetToken, Entry, Entries, Expiries
    <2>4. AppTypes'
      <3>1. [call[c] EXCEPT !.pc = "send", !.token = FindOne.token] \in Call
        BY <1>0, <2>2 DEF AppTypes, Call
      <3>2. call' \in [Calls -> Call]
        BY <1>0, <1>1, <3>1 DEF AppTypes
      <3> QED
        BY <1>0, <1>1, <2>3, <3>2 DEF AppTypes
    <2>5. InFlight' = InFlight /\ \A k \in Tokens : Accepted(k)' = Accepted(k)
      BY <1>1 DEF InFlight, Accepted
    <2>6. AskedInOrder' /\ EntryOK'
      BY <1>1, <2>3 DEF AppInv, AskedInOrder, EntryOK
    <2>7. \A d \in Calls : CallOK(d)'
      BY <1>0, <1>1, <2>2, <2>3, <2>5 DEF CallOK, At, Call, AppTypes, Accepted
    <2>8. Finding' = Finding \ {c} /\ c \in Finding
      BY <1>0, <1>1 DEF Finding, At, Call, AppTypes
    <2>9. Orphans' \subseteq InFlight
      BY <2>5 DEF Orphans
    <2>10. BlindPays'
      BY <1>0, <2>3, <2>8, <2>9, FoundPays
    <2> QED
      BY <2>4, <2>6, <2>7, <2>10 DEF AppInv
  <1>2. CASE StartRefresh(c, Entry(0, "zero", 0), call[c])
    <2>1. Entry(0, "zero", 0) \in Entries /\ call[c] \in Call
      BY <1>0 DEF Entry, Entries, Expiries, AppTypes
    <2>2. /\ asked + 1 \in Tokens /\ asked' = asked + 1
          /\ phase' \in [Tokens -> Phases] /\ AskedInOrder'
          /\ InFlight' = InFlight \cup {asked + 1} /\ asked + 1 \notin InFlight
          /\ state' \in Entries /\ state' # Null
          /\ state' = [Entry(0, "zero", 0) EXCEPT !.refreshing = asked + 1]
          /\ call' = [call EXCEPT ![c] = [call[c] EXCEPT !.pc = "wait", !.token = asked + 1]]
          /\ call' \in [Calls -> Call]
          /\ \A k \in Tokens : Accepted(k) => Accepted(k)'
      BY <1>2, <2>1, Starting DEF AppInv
    <2>3. AppTypes'
      BY <1>0, <2>2 DEF AppTypes, Tokens
    <2>4. state'.token = 0 /\ state'.exp = "zero" /\ state'.refreshing = asked + 1
      BY <2>2 DEF Entry
    <2>5. EntryOK'
      BY <2>2, <2>4 DEF EntryOK
    <2>6. \A d \in Calls : CallOK(d)'
      BY <1>0, <2>2 DEF CallOK, At, Call, AppTypes, Accepted
    <2>7. Finding' = Finding \ {c} /\ c \in Finding
      BY <1>0, <2>2 DEF Finding, At, Call, AppTypes
    <2>8. Orphans' \subseteq InFlight
      BY <2>2, <2>4 DEF Orphans
    <2>9. BlindPays'
      BY <1>0, <2>2, <2>7, <2>8, FoundPays
    <2> QED
      BY <2>2, <2>3, <2>5, <2>6, <2>9 DEF AppInv
  <1> QED
    BY <1>1, <1>2 DEF FindRow

LEMMA RequestStep ==
  ASSUME AppInv, NEW c \in Calls, Request(c)
  PROVE  AppInv'
  <1>1. /\ At(c, "idle") /\ GetOrRefresh(c, state, Idle)
        /\ UNCHANGED <<row, writes, editor>>
    BY DEF Request
  <1>2. state \in Entries \cup {Null} /\ EntryOK
    BY DEF AppInv, AppTypes
  <1>3. Idle \in Call /\ ~Idle.retried
    BY TokenConstants DEF Idle, Call
  <1> QED
    BY <1>1, <1>2, <1>3, Asking DEF At, EntryOK

LEMMA UnauthorisedStep ==
  ASSUME AppInv, NEW c \in Calls, Unauthorised(c)
  PROVE  AppInv'
  <1> USE TokenConstants, NullIsNoRecord
  <1> DEFINE next == [call[c] EXCEPT !.retried = TRUE]
  <1>1. /\ At(c, "send") /\ GetOrRefresh(c, Invalidate, next)
        /\ UNCHANGED <<row, writes, editor>>
    BY DEF Unauthorised, ForceRefresh
  <1>2. state \in Entries /\ state # Null /\ ~At(c, "findRow")
    BY <1>1 DEF AppInv, AppTypes, CallOK, At
  <1>3. Invalidate \in Entries /\ Invalidate = [state EXCEPT !.exp = "zero"]
    BY <1>2 DEF Invalidate, Entries, Expiries
  <1>4. /\ Invalidate # Null /\ Invalidate.exp = "zero" /\ Invalidate.token = state.token
        /\ Invalidate.refreshing = state.refreshing
    BY <1>2, <1>3 DEF Entries
  <1>5. next \in Call
    BY DEF AppInv, AppTypes, Call
  <1> HIDE DEF next
  <1> QED
    BY <1>1, <1>2, <1>3, <1>4, <1>5, Asking

-----------------------------------------------------------------------------
(* The app's token: the other steps                                          *)

LEMMA EndRequestStep ==
  ASSUME AppInv, NEW c \in Calls, Answered(c) \/ Refused(c)
  PROVE  AppInv'
  <1>1. /\ call' = [call EXCEPT ![c] = Idle] /\ At(c, "send")
        /\ UNCHANGED <<phase, asked, row, writes, manager, editor>>
    BY DEF Answered, Refused
  <1>2. Idle \in Call /\ Idle.pc = "idle"
    BY TokenConstants DEF Idle, Call
  <1>3. AppTypes'
    BY <1>1, <1>2 DEF AppInv, AppTypes, manager
  <1>4. InFlight' = InFlight /\ \A k \in Tokens : Accepted(k)' = Accepted(k)
    BY <1>1 DEF InFlight, Accepted
  <1>5. Finding' = Finding
    BY <1>1, <1>2 DEF Finding, At, AppInv, AppTypes
  <1>6. EntryOK' /\ BlindPays'
    BY <1>1, <1>4, <1>5, EntryKept DEF AppInv, manager
  <1>7. \A d \in Calls : CallOK(d)'
    BY <1>1, <1>2, <1>4 DEF AppInv, AppTypes, CallOK, At, Accepted, manager
  <1> QED
    BY <1>1, <1>3, <1>6, <1>7 DEF AppInv, AskedInOrder

\* A refresh ends: those who wait for it go on, and its promise is in no entry.
LEMMA RefreshEnds ==
  ASSUME AppInv, NEW k \in Tokens, Refreshed(k) \/ RefreshFails(k)
  PROVE  AppInv'
  <1> USE TokenConstants, NullIsNoRecord
  <1>0. /\ AppTypes /\ blind \in Nat /\ EntryOK /\ BlindPays /\ \A d \in Calls : CallOK(d)
        /\ k \in InFlight /\ UNCHANGED <<asked, row, blind, editor>>
    BY DEF AppInv, AppTypes, Refreshed, RefreshFails, InFlight
  <1>1. state # Null /\ state \in Entries
    BY <1>0 DEF BlindPays, AppTypes
  <1>2. PICK how \in {"good", "failed"} : phase' = [phase EXCEPT ![k] = how]
    BY DEF Refreshed, RefreshFails
  <1>3. /\ phase' \in [Tokens -> Phases] /\ InFlight' = InFlight \ {k}
        /\ \A j \in Tokens : Accepted(j) => Accepted(j)'
    BY <1>0, <1>2 DEF InFlight, Accepted, AppTypes, Phases
  <1>4. AskedInOrder'
    BY <1>0, <1>2 DEF AppInv, AskedInOrder, AppTypes, InFlight
  <1>5. /\ state' \in Entries /\ state' # Null /\ state'.refreshing = 0
        /\ state'.token = 0 => state'.exp = "zero"
        /\ writes' \subseteq Plain
    <2>1. CASE Refreshed(k)
      <3>1. state' = [token |-> k, exp |-> "own", refreshing |-> 0]
        BY <2>1 DEF Refreshed, SetToken, Entry
      <3>2. k \in 0..MaxTokens /\ k # 0
        BY DEF Tokens
      <3> QED
        BY <2>1, <3>1, <3>2, <1>0 DEF Refreshed, Entries, Plain, Expiries, AppTypes
    <2>2. CASE RefreshFails(k)
      <3>1. /\ state' = [state EXCEPT !.refreshing = 0]
            /\ writes' = writes \cup {[token |-> state.token, exp |-> state.exp]}
        BY <2>2 DEF RefreshFails
      <3>2. state' \in Entries /\ state'.refreshing = 0 /\ state'.token = state.token
            /\ state'.exp = state.exp
        BY <1>1, <3>1 DEF Entries
      <3>3. [token |-> state.token, exp |-> state.exp] \in Plain
        BY <1>1 DEF Entries, Plain
      <3> QED
        BY <1>0, <1>1, <3>1, <3>2, <3>3 DEF EntryOK, AppTypes
    <2> QED
      BY <2>1, <2>2
  <1>6. \A d \in Calls :
          \/ call'[d] = call[d] /\ ~(call[d].pc = "wait" /\ call[d].token = k)
          \/ call'[d] = Idle
          \/ /\ call[d].pc = "wait" /\ call[d].token = k /\ Refreshed(k)
             /\ call'[d] = [call[d] EXCEPT !.pc = "send"]
    BY DEF Refreshed, RefreshFails, Resumed
  <1>7. call' \in [Calls -> Call]
    <2>1. Idle \in Call
      BY DEF Idle, Call
    <2>2. \A d \in Calls : call[d] \in Call /\ [call[d] EXCEPT !.pc = "send"] \in Call
      BY <1>0 DEF AppTypes, Call
    <2>4. \A d \in Calls : call'[d] \in Call
      BY <1>6, <2>1, <2>2
    <2>3. call' = [d \in Calls |-> call'[d]]
      BY DEF Refreshed, RefreshFails, Resumed
    <2> QED
      BY <2>3, <2>4
  <1>8. AppTypes'
    BY <1>0, <1>3, <1>5, <1>7 DEF AppTypes
  <1>9. EntryOK'
    BY <1>5 DEF EntryOK
  <1>10. \A d \in Calls : CallOK(d)'
    <2> SUFFICES ASSUME NEW d \in Calls PROVE CallOK(d)'
      OBVIOUS
    <2>1. CASE call'[d] = call[d] /\ ~(call[d].pc = "wait" /\ call[d].token = k)
      BY <2>1, <1>0, <1>3, <1>5 DEF CallOK, At, Accepted
    <2>2. CASE call'[d] = Idle
      BY <2>2 DEF CallOK, At, Idle
    <2>3. CASE /\ call[d].pc = "wait" /\ call[d].token = k /\ Refreshed(k)
               /\ call'[d] = [call[d] EXCEPT !.pc = "send"]
      <3>1. phase'[k] = "good" /\ k # 0
        BY <2>3, <1>0 DEF Refreshed, AppTypes, Tokens
      <3>2. call'[d].pc = "send" /\ call'[d].token = k
        BY <2>3, <1>0 DEF AppTypes, Call
      <3> QED
        BY <3>1, <3>2, <1>5 DEF CallOK, At, Accepted
    <2> QED
      BY <1>6, <2>1, <2>2, <2>3
  <1>11. Finding' = Finding
    <2>1. \A d \in Calls : At(d, "findRow")' <=> At(d, "findRow")
      <3> SUFFICES ASSUME NEW d \in Calls PROVE call'[d].pc = "findRow" <=> call[d].pc = "findRow"
        BY DEF At
      <3>1. Idle.pc = "idle" /\ [call[d] EXCEPT !.pc = "send"].pc = "send"
        BY <1>0 DEF Idle, AppTypes, Call
      <3>2. CASE call[d].pc = "wait" /\ call[d].token = k
        BY <3>1, <3>2, <1>6
      <3>3. CASE ~(call[d].pc = "wait" /\ call[d].token = k)
        BY <3>3 DEF Refreshed, RefreshFails, Resumed
      <3> QED
        BY <3>2, <3>3
    <2> QED
      BY <2>1 DEF Finding
  <1>12. BlindPays'
    BY <1>0, <1>1, <1>3, <1>5, <1>11, EndPays
  <1> QED
    BY <1>4, <1>8, <1>9, <1>10, <1>12 DEF AppInv

\* Nobody asks the manager when the row is written, by the administrator or after a refresh.
LEMMA RowStep ==
  ASSUME AppInv,
         \/ \E w \in writes : UpdateToken(w)
         \/ \E e \in Editors : EditTwitchApp(e) \/ SaveApp(e)
         \/ DeleteTwitchApp
  PROVE  AppInv'
  <1> USE TokenConstants, NullIsNoRecord
  <1>0. AppTypes /\ UNCHANGED <<phase, asked, state, blind, call>>
    BY DEF AppInv, UpdateToken, EditTwitchApp, SaveApp, DeleteTwitchApp, manager
  <1>1. AppTypes'
    <2>1. ASSUME NEW w \in writes, UpdateToken(w) PROVE AppTypes'
      <3>1. w \in Plain
        BY <1>0 DEF AppTypes
      <3> QED
        BY <1>0, <2>1, <3>1, StoredIsSecret DEF AppTypes, UpdateToken
    <2>2. ASSUME NEW e \in Editors, EditTwitchApp(e) PROVE AppTypes'
      BY <1>0, <2>2, RowIsPlain DEF AppTypes, EditTwitchApp
    <2>3. ASSUME NEW e \in Editors, SaveApp(e) PROVE AppTypes'
      <3>1. editor[e] \in Plain
        BY <1>0, <2>3 DEF AppTypes, SaveApp
      <3> QED
        BY <1>0, <2>3, <3>1, StoredIsSecret DEF AppTypes, SaveApp, StoreApp
    <2>4. CASE DeleteTwitchApp
      BY <1>0, <2>4 DEF AppTypes, DeleteTwitchApp
    <2> QED
      BY <2>1, <2>2, <2>3, <2>4
  <1>2. InFlight' = InFlight /\ Finding' = Finding /\ \A k \in Tokens : Accepted(k)' = Accepted(k)
    BY <1>0 DEF InFlight, Finding, At, Accepted
  <1> QED
    BY <1>0, <1>1, <1>2, EntryKept, CallsKept DEF AppInv, AskedInOrder

LEMMA AddTwitchAppStep ==
  ASSUME AppInv, AddTwitchApp
  PROVE  AppInv'
  <1> USE TokenConstants, NullIsNoRecord
  <1> DEFINE k == asked + 1
             app == [token |-> k, exp |-> "own"]
  <1>0. /\ AppTypes /\ k \in Tokens /\ asked' = k /\ UNCHANGED <<writes, state, blind, call, editor>>
        /\ phase' = [phase EXCEPT ![k] = "good"] /\ row' = EncryptFields(app)
    BY DEF AppInv, AppTypes, AddTwitchApp, StoreApp, Tokens, manager
  <1>1. phase[k] = "unused"
    BY <1>0 DEF AppInv, AskedInOrder, AppTypes, Tokens
  <1>2. app \in Plain
    BY <1>0 DEF Plain, Expiries, Tokens
  <1>3. AppTypes'
    <2>1. row' \in Stored /\ (row'.token = 0 \/ row'.token > MaxTokens)
      BY <1>0, <1>2, StoredIsSecret
    <2>2. k \in 0..MaxTokens /\ phase' \in [Tokens -> Phases]
      BY <1>0 DEF AppTypes, Tokens, Phases
    <2> QED
      BY <1>0, <2>1, <2>2 DEF AppTypes
  <1>4. /\ InFlight' = InFlight /\ Finding' = Finding
        /\ \A j \in Tokens : Accepted(j) => Accepted(j)'
    BY <1>0, <1>1 DEF InFlight, Finding, At, Accepted, AppTypes
  <1>5. AskedInOrder'
    BY <1>0, <1>1 DEF AppInv, AskedInOrder, AppTypes, Tokens
  <1> QED
    BY <1>0, <1>3, <1>4, <1>5, EntryKept, CallsKept DEF AppInv

LEMMA TokenStep ==
  ASSUME AppInv, NEW k \in Tokens, Expire(k) \/ Revoke(k)
  PROVE  AppInv'
  <1> USE TokenConstants, NullIsNoRecord
  <1>0. /\ AppTypes /\ \A d \in Calls : CallOK(d)
        /\ UNCHANGED <<asked, row, writes, state, blind, editor>>
    BY DEF AppInv, Expire, Revoke, manager
  <1>1. PICK how \in {"ending", "expired", "revoked"} : phase' = [phase EXCEPT ![k] = how]
    BY DEF Expire, Revoke, Dies
  <1>2. phase[k] \in {"good", "ending"}
    BY DEF Expire, Revoke, Accepted
  <1>3. phase' \in [Tokens -> Phases] /\ InFlight' = InFlight
    BY <1>0, <1>1, <1>2 DEF AppTypes, InFlight, Phases
  <1>4. AskedInOrder'
    BY <1>0, <1>1, <1>2 DEF AppInv, AskedInOrder, AppTypes
  <1>5. \/ call' = call /\ phase'[k] = "ending"
        \/ call' = [c \in Calls |-> IF At(c, "idle") THEN call[c]
                                    ELSE [call[c] EXCEPT !.died = TRUE]]
    BY <1>0 DEF Expire, Revoke, Dies, AppTypes
  <1>6. call' \in [Calls -> Call]
    <2>1. \A c \in Calls : call[c] \in Call /\ [call[c] EXCEPT !.died = TRUE] \in Call
      BY <1>0 DEF AppTypes, Call
    <2> QED
      BY <1>0, <1>5, <2>1 DEF AppTypes
  <1>7. AppTypes'
    BY <1>0, <1>3, <1>6 DEF AppTypes
  <1>8. Finding' = Finding
    BY <1>0, <1>5 DEF Finding, At, AppTypes, Call
  <1>9. \A d \in Calls : CallOK(d)'
    <2>1. CASE call' = call /\ phase'[k] = "ending"
      BY <2>1, <1>0, <1>1, <1>3 DEF CallOK, At, Accepted, AppTypes
    <2>2. CASE call' = [c \in Calls |-> IF At(c, "idle") THEN call[c]
                                       ELSE [call[c] EXCEPT !.died = TRUE]]
      BY <2>2, <1>0, <1>3 DEF CallOK, At, AppTypes, Call
    <2> QED
      BY <1>5, <2>1, <2>2
  <1> QED
    BY <1>0, <1>3, <1>4, <1>7, <1>8, <1>9, EntryKept DEF AppInv

LEMMA CrashStep ==
  ASSUME AppInv, Crash
  PROVE  AppInv'
  <1> USE TokenConstants, NullIsNoRecord
  <1>1. Idle \in Call /\ Idle.pc = "idle"
    BY DEF Idle, Call
  <1>2. /\ state' = Null /\ blind' = 0 /\ writes' = {} /\ UNCHANGED <<asked, row>>
        /\ phase' = [k \in Tokens |-> IF k \in InFlight THEN "failed" ELSE phase[k]]
        /\ call' = [c \in Calls |-> Idle] /\ editor' = [e \in Editors |-> Null]
    BY DEF Crash
  <1>3. AppTypes'
    BY <1>1, <1>2 DEF AppInv, AppTypes, Phases
  <1>4. AskedInOrder'
    BY <1>2 DEF AppInv, AskedInOrder, InFlight
  <1>5. InFlight' = {} /\ Finding' = {}
    BY <1>1, <1>2 DEF InFlight, Finding, At
  <1>6. EntryOK' /\ BlindPays'
    BY <1>2, <1>5, FS_EmptySet DEF EntryOK, BlindPays
  <1>7. \A d \in Calls : CallOK(d)'
    BY <1>1, <1>2 DEF CallOK, At
  <1> QED
    BY <1>3, <1>4, <1>6, <1>7 DEF AppInv

LEMMA AppInvInit == Init => AppInv
  <1> SUFFICES ASSUME Init PROVE AppInv
    OBVIOUS
  <1>1. Idle \in Call /\ Idle.pc = "idle"
    BY TokenConstants DEF Idle, Call
  <1>2. InFlight = {} /\ Finding = {}
    BY <1>1 DEF Init, InFlight, Finding, At
  <1> QED
    BY <1>1, <1>2, TokenConstants, NullIsNoRecord, FS_EmptySet
    DEF Init, AppInv, AppTypes, AskedInOrder, EntryOK, CallOK, At, BlindPays, Tokens, Phases

LEMMA AppInvStep ==
  ASSUME AppInv, [Next]_vars
  PROVE  AppInv'
  <1>1. CASE UNCHANGED vars
    <2>1. UNCHANGED <<phase, asked, row, writes, state, blind, call, editor>>
      BY <1>1 DEF vars
    <2>2. /\ InFlight' = InFlight /\ Finding' = Finding
          /\ \A k \in Tokens : Accepted(k)' = Accepted(k)
      BY <2>1 DEF InFlight, Finding, At, Accepted
    <2> QED
      BY <2>1, <2>2, EntryKept, CallsKept DEF AppInv, AppTypes, AskedInOrder
  <1>2. CASE Next
    BY <1>2, FindRowStep, RequestStep, UnauthorisedStep, EndRequestStep, RefreshEnds, RowStep,
       AddTwitchAppStep, TokenStep, CrashStep DEF Next
  <1> QED
    BY <1>1, <1>2

LEMMA AppInvHolds == Spec => []AppInv
  <1>1. AppInv /\ [Next]_vars => AppInv'
    BY AppInvStep
  <1> QED
    BY AppInvInit, <1>1, PTL DEF Spec

-----------------------------------------------------------------------------
(* The app's token: the theorems                                             *)

\* The types hold of every behaviour: what is sent is a token, who waits has something to
\* wait for.
THEOREM AppTokensTyped == Spec => []TypeOK
  <1>1. AppInv => TypeOK
    <2> SUFFICES ASSUME AppInv PROVE TypeOK
      OBVIOUS
    <2>1. Plain \subseteq Stored
      BY TokenConstants DEF Plain, Stored
    <2>2. writes \subseteq Stored /\ editor \in [Editors -> Stored \cup {Null}]
      BY <2>1 DEF AppInv, AppTypes
    <2> QED
      BY <2>2 DEF AppInv, AppTypes, CallOK, TypeOK
  <1> QED
    BY <1>1, AppInvHolds, PTL

\* No call is given the promise of a refresh that has ended: the finally takes away the
\* promise of whatever entry there is, and setToken makes one without.
THEOREM PromisesAreAlive == Spec => []NothingStuck
  <1>1. AppInv => NothingStuck
    BY DEF AppInv, EntryOK, NothingStuck
  <1> QED
    BY <1>1, AppInvHolds, PTL

\* However many requests there are, the refreshes under way are no more than the calls
\* that found no entry since the start.
THEOREM RefreshesAreShared == Spec => []RefreshesBounded
  <1>1. AppInv => RefreshesBounded
    <2> SUFFICES ASSUME AppInv PROVE RefreshesBounded
      OBVIOUS
    <2>1. /\ Cardinality(Orphans) \in Nat /\ Cardinality(Finding) \in Nat
          /\ Cardinality(InFlight) \in Nat /\ IsFiniteSet(InFlight) /\ blind \in Nat
      BY Typing, SmallSets DEF AppInv, AppTypes
    <2>2. CASE state = Null
      BY <2>1, <2>2, FS_EmptySet DEF AppInv, BlindPays, RefreshesBounded
    <2>3. CASE state # Null
      <3>1. CASE state.refreshing \in InFlight
        BY <2>1, <2>3, <3>1, OneLess DEF AppInv, BlindPays, Orphans, RefreshesBounded
      <3>2. CASE state.refreshing \notin InFlight
        <4>1. Orphans = InFlight
          BY <3>2 DEF Orphans
        <4> QED
          BY <2>1, <2>3, <4>1 DEF AppInv, BlindPays, RefreshesBounded
      <3> QED
        BY <3>1, <3>2
    <2> QED
      BY <2>2, <2>3
  <1> QED
    BY <1>1, AppInvHolds, PTL

\* A request that Twitch refuses carried a token, and one that is refused twice lost it on
\* the way: what forceRefresh brings was good when it was given out.
THEOREM OneRetrySuffices == Spec => RetrySuffices
  <1>1. AppInv => \A c \in Calls : /\ Unauthorised(c) => call[c].token \in Tokens
                                   /\ Refused(c) => call[c].died
    <2> SUFFICES ASSUME AppInv, NEW c \in Calls
                 PROVE  /\ Unauthorised(c) => call[c].token \in Tokens
                        /\ Refused(c) => call[c].died
      OBVIOUS
    <2>1. CallOK(c) /\ call[c].token \in 0..MaxTokens
      BY DEF AppInv, AppTypes, Call
    <2>2. Unauthorised(c) => call[c].token \in Tokens
      BY <2>1, TokenConstants DEF Unauthorised, CallOK, Tokens
    <2>3. Refused(c) => call[c].died
      BY <2>1 DEF Refused, CallOK
    <2> QED
      BY <2>2, <2>3
  <1>2. AppInv => [\A c \in Calls : /\ Unauthorised(c) => call[c].token \in Tokens
                                    /\ Refused(c) => call[c].died]_vars
    BY <1>1
  <1> QED
    BY <1>2, AppInvHolds, PTL DEF RetrySuffices

-----------------------------------------------------------------------------
(* A user's tokens: the invariant                                            *)

Issued == Pairs \ Unissued

UserTypes ==
  /\ svc \in Services
  /\ replaces \in BOOLEAN
  /\ columns \in Columns
  /\ personal \in BOOLEAN
  /\ age \in [Pairs -> {"unused", "live", "hour", "last"}]
  /\ spent \subseteq Issued
  /\ dead \subseteq Issued
  /\ lost \subseteq Pairs
  /\ job \in [Jobs -> Job]
  /\ replaces \/ spent = {}
  /\ columns.access \in Issued \cup {0}
  /\ columns.refresh \in Issued \cup {0}

\* What a job holds has been issued.
JobOK(j) ==
  /\ j.copy.access \in Issued \cup {0}
  /\ j.copy.refresh \in Issued \cup {0}
  /\ j.pc \in {"send", "store", "link"} => j.access \in Issued
  /\ j.pc \in {"ask", "store"} => j.used \in Issued /\ j.refresh \in Issued
  /\ j.pc # "save" => j.copy.refresh = 0
  /\ j.pc = "ask" => j.refresh = j.used
  /\ j.pc = "store" => j.refresh = IF replaces THEN j.access ELSE j.used
  /\ j.failed => svc = "discord"

\* A job with a new refresh token that is yet to be stored.
Bears(c) == Stands(c, "link") \/ (Stands(c, "store") /\ replaces)

\* One with a token that the row had.
Uses(c) == Stands(c, "ask") \/ (Stands(c, "store") /\ ~replaces)

\* Nobody else has it, so nobody has used it.
Fresh(c) ==
  Bears(c) =>
    /\ job[c].access \notin spent
    /\ job[c].access # columns.refresh
    /\ \A d \in Jobs :
         /\ job[c].access # job[d].copy.refresh
         /\ Uses(d) => job[c].access # job[d].used
         /\ d # c /\ Bears(d) => job[c].access # job[d].access

\* A job that no other has crossed is alone, and acts upon the token the row holds.
Alone(c) ==
  ~Stands(c, "idle") /\ ~job[c].crossed =>
    /\ \A d \in Jobs \ {c} : Stands(d, "idle")
    /\ Stands(c, "ask") => job[c].used = columns.refresh
    /\ Stands(c, "clear") /\ ~job[c].failed => ~Usable(columns.refresh)

UserInv ==
  /\ UserTypes
  /\ \A c \in Jobs : JobOK(job[c]) /\ Fresh(c) /\ Alone(c)
  /\ SpentOnlyIfLost

-----------------------------------------------------------------------------
(* A user's tokens: what becomes of the jobs                                 *)

\* The same but for being crossed.
Alike(d) ==
  /\ job'[d].pc = job[d].pc /\ job'[d].access = job[d].access
  /\ job'[d].refresh = job[d].refresh /\ job'[d].used = job[d].used
  /\ job'[d].copy = job[d].copy /\ job'[d].failed = job[d].failed
  /\ job[d].crossed => job'[d].crossed

LEMMA BeginShape ==
  ASSUME job \in [Jobs -> Job], NEW c \in Jobs, NEW next \in Job, Begin(c, next)
  PROVE  /\ job' \in [Jobs -> Job]
         /\ \A d \in Jobs \ {c} : Alike(d) /\ (Stands(d, "idle") \/ job'[d].crossed)
         /\ job'[c] = [next EXCEPT !.crossed = \E d \in Jobs \ {c} : ~Stands(d, "idle")]
  <1> DEFINE others == \E d \in Jobs \ {c} : ~Stands(d, "idle")
  <1>1. /\ \A d \in Jobs : job[d] \in Job /\ [job[d] EXCEPT !.crossed = TRUE] \in Job
        /\ [next EXCEPT !.crossed = others] \in Job
    BY DEF Job
  <1>2. job' = [d \in Jobs |-> IF d = c THEN [next EXCEPT !.crossed = others]
                              ELSE IF ~Stands(d, "idle") THEN [job[d] EXCEPT !.crossed = TRUE]
                              ELSE job[d]]
    BY DEF Begin, Crossed
  <1> HIDE DEF others
  <1>3. \A d \in Jobs \ {c} : Alike(d) /\ (Stands(d, "idle") \/ job'[d].crossed)
    BY <1>1, <1>2 DEF Alike, Job
  <1> QED
    BY <1>1, <1>2, <1>3 DEF others

LEMMA CrossedShape ==
  ASSUME job \in [Jobs -> Job], job' = Crossed(Jobs)
  PROVE  /\ job' \in [Jobs -> Job]
         /\ \A d \in Jobs : Alike(d) /\ (Stands(d, "idle") \/ job'[d].crossed)
  <1>1. \A d \in Jobs : job[d] \in Job /\ [job[d] EXCEPT !.crossed = TRUE] \in Job
    BY DEF Job
  <1>2. job' = [d \in Jobs |-> IF ~Stands(d, "idle") THEN [job[d] EXCEPT !.crossed = TRUE]
                              ELSE job[d]]
    BY DEF Crossed
  <1> QED
    BY <1>1, <1>2 DEF Alike, Job

LEMMA MoveShape ==
  ASSUME job \in [Jobs -> Job], NEW c \in Jobs, NEW next \in Job, Move(c, next)
  PROVE  /\ job' \in [Jobs -> Job]
         /\ \A d \in Jobs \ {c} : job'[d] = job[d] /\ Alike(d)
         /\ job'[c] = next
  BY DEF Move, Alike

\* What a job holds stays issued.
LEMMA JobKeeps ==
  ASSUME NEW d \in Jobs, Alike(d), JobOK(job[d]), Issued \subseteq Issued',
         svc' = svc, replaces' = replaces
  PROVE  JobOK(job[d])'
  BY DEF JobOK, Alike

LEMMA NoJobTyped ==
  /\ NoJob \in Job /\ NoJob.pc = "idle" /\ NoJob.copy.refresh = 0 /\ NoJob.copy.access = 0
  /\ ~NoJob.failed /\ NoColumns \in Columns
  BY UserTokenConstants DEF NoJob, Job, NoColumns, Columns

LEMMA Issuing ==
  ASSUME UserTypes, NEW k \in Pairs, Issue(k)
  PROVE  /\ age' \in [Pairs -> {"unused", "live", "hour", "last"}]
         /\ Issued' = Issued \cup {k} /\ k \notin Issued /\ k # 0
  <1>1. age[k] = "unused" /\ age' = [age EXCEPT ![k] = "live"]
    BY DEF Issue, Unissued
  <1> QED
    BY <1>1 DEF UserTypes, Issued, Unissued, Pairs

LEMMA IssuedKept ==
  ASSUME age' = age
  PROVE  Issued' = Issued
  BY DEF Issued, Unissued

\* A step of one job keeps the tokens of all others fresh, if it takes none of them up.
LEMMA FreshAfter ==
  ASSUME \A d \in Jobs : Fresh(d), NEW c \in Jobs, \A d \in Jobs \ {c} : Alike(d),
         replaces' = replaces,
         \A d \in Jobs \ {c} : Bears(d) =>
           /\ job[d].access \notin spent'
           /\ job[d].access # columns'.refresh
           /\ job[d].access # job'[c].copy.refresh
           /\ Uses(c)' => job[d].access # job'[c].used
           /\ Bears(c)' => job[d].access # job'[c].access,
         Bears(c)' =>
           /\ job'[c].access \notin spent'
           /\ job'[c].access # columns'.refresh
           /\ job'[c].access # job'[c].copy.refresh
           /\ \A d \in Jobs \ {c} : /\ job'[c].access # job[d].copy.refresh
                                    /\ Uses(d) => job'[c].access # job[d].used
  PROVE  \A d \in Jobs : Fresh(d)'
  <1>1. \A d \in Jobs \ {c} : Bears(d)' = Bears(d) /\ Uses(d)' = Uses(d)
    BY DEF Alike, Bears, Uses, Stands
  <1>2. Uses(c)' => ~Bears(c)'
    BY DEF Bears, Uses, Stands
  <1>3. Fresh(c)'
    <2>1. \A d \in Jobs \ {c} : /\ job'[d].copy = job[d].copy /\ job'[d].used = job[d].used
                                /\ job'[d].access = job[d].access
      BY DEF Alike
    <2> SUFFICES ASSUME Bears(c)'
                 PROVE  /\ job'[c].access \notin spent'
                        /\ job'[c].access # columns'.refresh
                        /\ \A d \in Jobs :
                             /\ job'[c].access # job'[d].copy.refresh
                             /\ Uses(d)' => job'[c].access # job'[d].used
                             /\ d # c /\ Bears(d)' => job'[c].access # job'[d].access
      BY DEF Fresh
    <2>2. ASSUME NEW d \in Jobs
          PROVE  /\ job'[c].access # job'[d].copy.refresh
                 /\ Uses(d)' => job'[c].access # job'[d].used
                 /\ d # c /\ Bears(d)' => job'[c].access # job'[d].access
      <3>1. CASE d = c
        BY <1>2, <3>1
      <3>2. CASE d # c
        <4>1. d \in Jobs \ {c}
          BY <3>2
        <4>2. /\ job'[c].access # job[d].copy.refresh
              /\ Uses(d) => job'[c].access # job[d].used
          BY <4>1
        <4>3. Bears(d) => job'[c].access # job[d].access
          BY <4>1
        <4>4. /\ Bears(d)' = Bears(d) /\ Uses(d)' = Uses(d)
              /\ job'[d].copy = job[d].copy /\ job'[d].used = job[d].used
              /\ job'[d].access = job[d].access
          BY <1>1, <2>1, <4>1
        <4> QED
          BY <4>2, <4>3, <4>4
      <3> QED
        BY <3>1, <3>2
    <2> QED
      BY <2>2
  <1>4. ASSUME NEW d \in Jobs \ {c} PROVE Fresh(d)'
    <2>1. \A e \in Jobs \ {c} : /\ job'[e].copy = job[e].copy /\ job'[e].used = job[e].used
                                /\ job'[e].access = job[e].access
      BY DEF Alike
    <2>2. Fresh(d)
      OBVIOUS
    <2> QED
      BY <1>1, <2>1, <2>2 DEF Fresh
  <1> QED
    BY <1>3, <1>4

\* And every job that is not alone has been crossed.
LEMMA AloneAfter ==
  ASSUME \A d \in Jobs : Alone(d), NEW c \in Jobs, \A d \in Jobs \ {c} : Alike(d),
         Stands(c, "idle") => \A d \in Jobs \ {c} : Stands(d, "idle") \/ job'[d].crossed,
         job'[c].pc # "idle" /\ ~job'[c].crossed =>
           /\ \A d \in Jobs \ {c} : Stands(d, "idle")
           /\ job'[c].pc = "ask" => job'[c].used = columns'.refresh
           /\ job'[c].pc = "clear" /\ ~job'[c].failed => ~Usable(columns.refresh)'
  PROVE  \A d \in Jobs : Alone(d)'
  <1>1. \A d \in Jobs \ {c} : \A pc : Stands(d, pc)' = Stands(d, pc)
    BY DEF Alike, Stands
  <1>2. Alone(c)'
    BY <1>1 DEF Alone, Stands
  <1>3. ASSUME NEW d \in Jobs \ {c} PROVE Alone(d)'
    <2> SUFFICES ASSUME ~Stands(d, "idle"), ~job'[d].crossed PROVE FALSE
      BY <1>1 DEF Alone
    <2>1. ~job[d].crossed
      BY DEF Alike
    <2>2. Stands(c, "idle")
      BY <2>1 DEF Alone
    <2> QED
      BY <2>2
  <1> QED
    BY <1>2, <1>3

-----------------------------------------------------------------------------
(* A user's tokens: kinds of steps                                           *)

\* A job begins with what the row holds.
LEMMA BeginsWithTheRow ==
  ASSUME UserInv, NEW c \in Jobs, NEW next \in Job, Stands(c, "idle"), Begin(c, next),
         next.pc \in {"ask", "send", "save", "unlink"}, JobOK(next),
         next.pc = "ask" => next.used = columns.refresh,
         next.copy.refresh \in {0, columns.refresh},
         columns' \in Columns, columns'.access = columns.access,
         columns'.refresh = columns.refresh,
         UNCHANGED <<svc, personal, replaces, age, spent, dead, lost>>
  PROVE  UserInv'
  <1>0. /\ UserTypes /\ Issued' = Issued
        /\ \A d \in Jobs : JobOK(job[d]) /\ Fresh(d) /\ Alone(d)
    BY IssuedKept DEF UserInv
  <1>1. /\ job' \in [Jobs -> Job]
        /\ \A d \in Jobs \ {c} : Alike(d) /\ (Stands(d, "idle") \/ job'[d].crossed)
        /\ job'[c] = [next EXCEPT !.crossed = \E d \in Jobs \ {c} : ~Stands(d, "idle")]
    BY <1>0, BeginShape DEF UserTypes
  <1>2. /\ job'[c].pc = next.pc /\ job'[c].access = next.access /\ job'[c].copy = next.copy
        /\ job'[c].refresh = next.refresh /\ job'[c].used = next.used
        /\ job'[c].failed = next.failed
        /\ job'[c].crossed = \E d \in Jobs \ {c} : ~Stands(d, "idle")
    BY <1>1 DEF Job
  <1>3. UserTypes'
    BY <1>0, <1>1 DEF UserTypes
  <1>4. \A d \in Jobs : JobOK(job[d])'
    <2>1. JobOK(job[c])'
      BY <1>0, <1>2 DEF JobOK
    <2> QED
      BY <1>0, <1>1, <2>1, JobKeeps
  <1>5. \A d \in Jobs : Fresh(d)'
    <2>1. ~Bears(c)'
      BY <1>2 DEF Bears, Uses, Stands
    <2>2. \A d \in Jobs : Bears(d) => /\ job[d].access \notin spent
                                      /\ job[d].access # columns.refresh
                                      /\ job[d].access # 0
      BY <1>0, UserTokenConstants DEF Fresh, Bears, Uses, Stands, JobOK, Issued, Pairs
    <2>3. ASSUME NEW d \in Jobs \ {c}, Bears(d)
          PROVE  /\ job[d].access # job'[c].copy.refresh
                 /\ Uses(c)' => job[d].access # job'[c].used
      BY <1>2, <2>2, <2>3 DEF Stands, Uses
    <2> QED
      BY <1>0, <1>1, <2>1, <2>2, <2>3, FreshAfter
  <1>6. \A d \in Jobs : Alone(d)'
    <2>1. job'[c].pc # "clear" /\ (job'[c].pc = "ask" => job'[c].used = columns'.refresh)
      BY <1>2
    <2>2. ~job'[c].crossed => \A d \in Jobs \ {c} : Stands(d, "idle")
      BY <1>2
    <2> QED
      BY <1>0, <1>1, <2>1, <2>2, AloneAfter
  <1>7. SpentOnlyIfLost'
    BY <1>1 DEF UserInv, SpentOnlyIfLost, Stands, Alike
  <1> QED
    BY <1>3, <1>4, <1>5, <1>6, <1>7 DEF UserInv

\* A job begins with a new pair.
LEMMA BeginsWithNew ==
  ASSUME UserInv, NEW c \in Jobs, NEW k \in Pairs, NEW next \in Job, Stands(c, "idle"),
         Issue(k), Begin(c, next),
         \/ next.pc = "link" /\ next.access = k /\ next.copy = NoColumns
         \/ next.pc = "save" /\ next.copy.access = k /\ next.copy.refresh = k,
         ~next.failed,
         columns' \in Columns, columns'.access = columns.access,
         columns'.refresh = columns.refresh, personal' \in BOOLEAN,
         UNCHANGED <<svc, replaces, spent, dead, lost>>
  PROVE  UserInv'
  <1>0. /\ UserTypes /\ Issued' = Issued \cup {k} /\ k \notin Issued /\ k # 0
        /\ age' \in [Pairs -> {"unused", "live", "hour", "last"}]
        /\ \A d \in Jobs : JobOK(job[d]) /\ Fresh(d) /\ Alone(d)
    BY Issuing DEF UserInv
  <1>1. /\ job' \in [Jobs -> Job]
        /\ \A d \in Jobs \ {c} : Alike(d) /\ (Stands(d, "idle") \/ job'[d].crossed)
        /\ job'[c] = [next EXCEPT !.crossed = \E d \in Jobs \ {c} : ~Stands(d, "idle")]
    BY <1>0, BeginShape DEF UserTypes
  <1>2. /\ job'[c].pc = next.pc /\ job'[c].access = next.access /\ job'[c].copy = next.copy
        /\ job'[c].failed = next.failed
        /\ job'[c].crossed = \E d \in Jobs \ {c} : ~Stands(d, "idle")
    BY <1>1 DEF Job
  <1>3. UserTypes'
    BY <1>0, <1>1 DEF UserTypes
  <1>4. \A d \in Jobs : JobOK(job[d])'
    <2>1. JobOK(job[c])'
      BY <1>0, <1>2 DEF JobOK, NoColumns
    <2> QED
      BY <1>0, <1>1, <2>1, JobKeeps
  <1>5. \A d \in Jobs : Fresh(d)'
    <2>1. /\ k \notin spent /\ k # columns.refresh
          /\ \A d \in Jobs : /\ k # job[d].copy.refresh
                             /\ Uses(d) => k # job[d].used
                             /\ Bears(d) => k # job[d].access
      BY <1>0 DEF UserTypes, JobOK, Bears, Stands, Uses
    <2>2. \A d \in Jobs : Bears(d) => job[d].access \notin spent /\ job[d].access # columns.refresh
      BY <1>0 DEF Fresh
    <2>3. CASE next.pc = "link" /\ next.access = k /\ next.copy = NoColumns
      <3>1. \A d \in Jobs : Bears(d) => job[d].access # 0
        BY <1>0, UserTokenConstants DEF Bears, Stands, JobOK, Issued, Pairs
      <3>2. job'[c].pc = "link" /\ job'[c].access = k /\ job'[c].copy.refresh = 0
        BY <1>2, <2>3 DEF NoColumns
      <3>3. ASSUME NEW d \in Jobs \ {c}, Bears(d)
            PROVE  /\ job[d].access # job'[c].copy.refresh
                   /\ ~Uses(c)' /\ job[d].access # job'[c].access
        BY <2>1, <3>1, <3>2, <3>3 DEF Stands, Uses
      <3>4. /\ job'[c].access \notin spent' /\ job'[c].access # columns'.refresh
            /\ job'[c].access # job'[c].copy.refresh
            /\ \A d \in Jobs \ {c} : /\ job'[c].access # job[d].copy.refresh
                                     /\ Uses(d) => job'[c].access # job[d].used
        BY <1>0, <2>1, <3>2
      <3>5. \A d \in Jobs : Fresh(d)
        BY <1>0
      <3>6. \A d \in Jobs \ {c} : Alike(d)
        BY <1>1
      <3>7. \A d \in Jobs \ {c} : Bears(d) =>
              /\ job[d].access \notin spent'
              /\ job[d].access # columns'.refresh
              /\ job[d].access # job'[c].copy.refresh
              /\ Uses(c)' => job[d].access # job'[c].used
              /\ Bears(c)' => job[d].access # job'[c].access
        BY <2>2, <3>3
      <3> QED
        BY <3>4, <3>5, <3>6, <3>7, FreshAfter
    <2>4. CASE next.pc = "save" /\ next.copy.access = k /\ next.copy.refresh = k
      <3>1. job'[c].pc = "save" /\ job'[c].copy.refresh = k /\ ~Bears(c)'
        BY <1>2, <2>4 DEF Bears, Uses, Stands
      <3>2. ASSUME NEW d \in Jobs \ {c}, Bears(d)
            PROVE  job[d].access # job'[c].copy.refresh /\ ~Uses(c)'
        BY <2>1, <3>1, <3>2 DEF Stands, Uses
      <3> QED
        BY <1>0, <1>1, <2>2, <3>1, <3>2, FreshAfter
    <2> QED
      BY <2>3, <2>4
  <1>6. \A d \in Jobs : Alone(d)'
    <2>1. job'[c].pc \notin {"clear", "ask"}
      BY <1>2
    <2>2. ~job'[c].crossed => \A d \in Jobs \ {c} : Stands(d, "idle")
      BY <1>2
    <2> QED
      BY <1>0, <1>1, <2>1, <2>2, AloneAfter
  <1>7. SpentOnlyIfLost'
    BY <1>1 DEF UserInv, SpentOnlyIfLost, Stands, Alike
  <1> QED
    BY <1>3, <1>4, <1>5, <1>6, <1>7 DEF UserInv

\* A job goes on, or ends, and the row stays as it is.
LEMMA GoesOn ==
  ASSUME UserInv, NEW c \in Jobs, NEW next \in Job, ~Stands(c, "idle"), Move(c, next),
         next.pc \in {"idle", "ask", "clear", "send", "flag"}, JobOK(next),
         next.pc = "ask" => next.used = columns.refresh,
         next.pc = "clear" /\ ~next.failed /\ ~next.crossed => ~Usable(columns.refresh)',
         next.copy.refresh = 0,
         next.pc = "idle" \/ next.crossed = job[c].crossed,
         Stands(c, "store") => (job[c].used \in spent' => job[c].used \in lost'),
         UNCHANGED <<svc, columns, replaces, dead>>, personal' \in BOOLEAN,
         Issued \subseteq Issued', age' \in [Pairs -> {"unused", "live", "hour", "last"}],
         lost \subseteq lost', lost' \subseteq Pairs,
         \/ spent' = spent
         \/ Stands(c, "ask") /\ replaces /\ spent' = spent \cup {job[c].used} /\ job[c].used \in lost'
  PROVE  UserInv'
  <1>0. /\ UserTypes /\ \A d \in Jobs : JobOK(job[d]) /\ Fresh(d) /\ Alone(d)
        /\ job[c] \in Job /\ SpentOnlyIfLost
    BY DEF UserInv, UserTypes
  <1>1. /\ job' \in [Jobs -> Job] /\ job'[c] = next
        /\ \A d \in Jobs \ {c} : job'[d] = job[d] /\ Alike(d)
    BY <1>0, MoveShape DEF UserTypes
  <1>2. UserTypes'
    <2>1. spent' \subseteq Issued'
      BY <1>0 DEF UserTypes, JobOK, Stands
    <2> QED
      BY <1>0, <1>1, <2>1 DEF UserTypes
  <1>3. \A d \in Jobs : JobOK(job[d])'
    <2>1. JobOK(job[c])'
      BY <1>1 DEF JobOK
    <2> QED
      BY <1>0, <1>1, <2>1, JobKeeps
  <1>4. \A d \in Jobs : Fresh(d)'
    <2>1. ASSUME NEW d \in Jobs \ {c}, Bears(d)
          PROVE  /\ job[d].access \notin spent'
                 /\ job[d].access # columns'.refresh
                 /\ job[d].access # job'[c].copy.refresh
                 /\ Uses(c)' => job[d].access # job'[c].used
      <3>1. /\ job[d].access \notin spent /\ job[d].access # columns.refresh
            /\ Uses(c) => job[d].access # job[c].used
            /\ job[d].access # 0
        BY <1>0, <2>1, UserTokenConstants DEF Fresh, Bears, Uses, Stands, JobOK, Issued, Pairs
      <3> QED
        BY <1>1, <3>1 DEF Stands, Uses
    <2>2. ~Bears(c)'
      BY <1>1 DEF Bears, Uses, Stands
    <2> QED
      BY <1>0, <1>1, <2>1, <2>2, FreshAfter
  <1>5. \A d \in Jobs : Alone(d)'
    <2>1. job'[c].pc # "idle" /\ ~job'[c].crossed => \A d \in Jobs \ {c} : Stands(d, "idle")
      BY <1>0, <1>1 DEF Alone
    <2>2. /\ job'[c].pc = "ask" => job'[c].used = columns'.refresh
          /\ job'[c].pc = "clear" /\ ~job'[c].failed /\ ~job'[c].crossed
               => ~Usable(columns.refresh)'
      BY <1>1
    <2> QED
      BY <1>0, <1>1, <2>1, <2>2, AloneAfter
  <1>6. SpentOnlyIfLost'
    <2> SUFFICES ASSUME columns.refresh \in spent', columns.refresh \notin lost'
                 PROVE  \E d \in Jobs : Stands(d, "store")' /\ job'[d].used = columns.refresh
      BY DEF SpentOnlyIfLost
    <2>1. columns.refresh \in spent /\ columns.refresh \notin lost
      OBVIOUS
    <2>2. PICK d \in Jobs : Stands(d, "store") /\ job[d].used = columns.refresh
      BY <1>0, <2>1 DEF SpentOnlyIfLost
    <2>3. d # c
      BY <2>2
    <2> QED
      BY <1>1, <2>2, <2>3 DEF Stands
  <1> QED
    BY <1>2, <1>3, <1>4, <1>5, <1>6 DEF UserInv

\* A job writes the row and goes on, or ends.
LEMMA WritesTheRow ==
  ASSUME UserInv, NEW c \in Jobs, NEW next \in Job, ~Stands(c, "idle"), Move(c, next),
         next.pc \in {"idle", "send", "flag"}, JobOK(next), next.copy.refresh = 0,
         next.pc = "idle" \/ next.crossed = job[c].crossed,
         columns' \in Columns,
         columns'.access \in Issued \cup {0}, columns'.refresh \in Issued \cup {0},
         \A d \in Jobs \ {c} : Bears(d) => job[d].access # columns'.refresh,
         \/ columns'.refresh \notin spent
         \/ columns'.refresh \in lost'
         \/ columns'.refresh = columns.refresh /\ ~Stands(c, "store"),
         lost \subseteq lost', lost' \subseteq Pairs,
         UNCHANGED <<svc, personal, replaces, age, spent, dead>>
  PROVE  UserInv'
  <1>0. /\ UserTypes /\ \A d \in Jobs : JobOK(job[d]) /\ Fresh(d) /\ Alone(d)
        /\ job[c] \in Job /\ SpentOnlyIfLost /\ Issued' = Issued
    BY IssuedKept DEF UserInv, UserTypes
  <1>1. /\ job' \in [Jobs -> Job] /\ job'[c] = next
        /\ \A d \in Jobs \ {c} : job'[d] = job[d] /\ Alike(d)
    BY <1>0, MoveShape DEF UserTypes
  <1>2. UserTypes'
    BY <1>0, <1>1 DEF UserTypes
  <1>3. \A d \in Jobs : JobOK(job[d])'
    <2>1. JobOK(job[c])'
      BY <1>0, <1>1 DEF JobOK
    <2> QED
      BY <1>0, <1>1, <2>1, JobKeeps
  <1>4. \A d \in Jobs : Fresh(d)'
    <2>1. ASSUME NEW d \in Jobs \ {c}, Bears(d)
          PROVE  /\ job[d].access \notin spent'
                 /\ job[d].access # job'[c].copy.refresh
                 /\ ~Uses(c)'
      <3>1. job[d].access \notin spent /\ job[d].access # 0
        BY <1>0, <2>1, UserTokenConstants DEF Fresh, Bears, Uses, Stands, JobOK, Issued, Pairs
      <3> QED
        BY <1>1, <3>1 DEF Stands, Uses
    <2>2. ~Bears(c)'
      BY <1>1 DEF Bears, Uses, Stands
    <2> QED
      BY <1>0, <1>1, <2>1, <2>2, FreshAfter
  <1>5. \A d \in Jobs : Alone(d)'
    <2>1. job'[c].pc # "idle" /\ ~job'[c].crossed => \A d \in Jobs \ {c} : Stands(d, "idle")
      BY <1>0, <1>1 DEF Alone
    <2>2. job'[c].pc \notin {"ask", "clear"}
      BY <1>1
    <2> QED
      BY <1>0, <1>1, <2>1, <2>2, AloneAfter
  <1>6. SpentOnlyIfLost'
    <2> SUFFICES ASSUME columns'.refresh \in spent, columns'.refresh \notin lost'
                 PROVE  \E d \in Jobs : Stands(d, "store")' /\ job'[d].used = columns'.refresh
      BY DEF SpentOnlyIfLost
    <2>1. columns'.refresh = columns.refresh /\ ~Stands(c, "store") /\ columns.refresh \notin lost
      OBVIOUS
    <2>2. PICK d \in Jobs : Stands(d, "store") /\ job[d].used = columns.refresh
      BY <1>0, <2>1 DEF SpentOnlyIfLost
    <2>3. d # c
      BY <2>1, <2>2
    <2> QED
      BY <1>1, <2>1, <2>2, <2>3 DEF Stands
  <1> QED
    BY <1>2, <1>3, <1>4, <1>5, <1>6 DEF UserInv

\* No job moves, and the row keeps its tokens.
LEMMA JobsRest ==
  ASSUME UserInv,
         \/ job' = job /\ UNCHANGED columns /\ dead \subseteq dead'
         \/ job' = Crossed(Jobs) /\ dead' = dead,
         columns' \in Columns, columns'.access \in Issued' \cup {0},
         columns'.refresh \in {0, columns.refresh}, personal' \in BOOLEAN,
         Issued \subseteq Issued', age' \in [Pairs -> {"unused", "live", "hour", "last"}],
         dead' \subseteq Issued', UNCHANGED <<svc, replaces, spent, lost>>
  PROVE  UserInv'
  <1>0. /\ UserTypes /\ \A d \in Jobs : JobOK(job[d]) /\ Fresh(d) /\ Alone(d)
        /\ SpentOnlyIfLost
    BY DEF UserInv
  <1>1. job' \in [Jobs -> Job] /\ \A d \in Jobs : Alike(d)
    BY <1>0, CrossedShape DEF UserTypes, Alike
  <1>2. UserTypes'
    BY <1>0, <1>1 DEF UserTypes
  <1>3. \A d \in Jobs : JobOK(job[d])'
    BY <1>0, <1>1, JobKeeps
  <1>4. \A d \in Jobs : Fresh(d)'
    <2> SUFFICES ASSUME NEW c \in Jobs PROVE Fresh(c)'
      OBVIOUS
    <2>1. ASSUME NEW d \in Jobs \ {c}, Bears(d)
          PROVE  /\ job[d].access \notin spent'
                 /\ job[d].access # columns'.refresh
                 /\ job[d].access # job'[c].copy.refresh
                 /\ Uses(c)' => job[d].access # job'[c].used
                 /\ Bears(c)' => job[d].access # job'[c].access
      <3>1. job[d].access # 0
        BY <1>0, <2>1, UserTokenConstants DEF Bears, Stands, JobOK, Issued, Pairs
      <3> QED
        BY <1>0, <1>1, <2>1, <3>1 DEF Fresh, Bears, Uses, Stands, Alike
    <2>2. ASSUME Bears(c)'
          PROVE  /\ job'[c].access \notin spent'
                 /\ job'[c].access # columns'.refresh
                 /\ job'[c].access # job'[c].copy.refresh
                 /\ \A d \in Jobs \ {c} :
                      /\ job'[c].access # job[d].copy.refresh
                      /\ Uses(d) => job'[c].access # job[d].used
      <3>1. Bears(c) /\ job'[c].access = job[c].access /\ job'[c].copy = job[c].copy
        BY <1>1, <2>2 DEF Bears, Stands, Alike
      <3>2. job[c].access # 0
        BY <1>0, <3>1, UserTokenConstants DEF Bears, Stands, JobOK, Issued, Pairs
      <3> QED
        BY <1>0, <3>1, <3>2 DEF Fresh
    <2> QED
      BY <1>0, <1>1, <2>1, <2>2, FreshAfter
  <1>5. \A d \in Jobs : Alone(d)'
    <2>1. CASE job' = job /\ UNCHANGED columns /\ dead \subseteq dead'
      BY <1>0, <2>1 DEF Alone, Stands, Usable
    <2>2. CASE job' = Crossed(Jobs)
      <3>1. \A d \in Jobs : Alike(d) /\ (Stands(d, "idle") \/ job'[d].crossed)
        BY <1>0, <2>2, CrossedShape DEF UserTypes
      <3> QED
        BY <3>1 DEF Alone, Stands, Alike
    <2> QED
      BY <2>1, <2>2
  <1>6. SpentOnlyIfLost'
    <2> SUFFICES ASSUME columns'.refresh \in spent, columns'.refresh \notin lost
                 PROVE  \E d \in Jobs : Stands(d, "store")' /\ job'[d].used = columns'.refresh
      BY DEF SpentOnlyIfLost
    <2>1. columns'.refresh = columns.refresh
      BY <1>0, UserTokenConstants DEF UserTypes, Issued, Pairs
    <2>2. PICK d \in Jobs : Stands(d, "store") /\ job[d].used = columns.refresh
      BY <1>0, <2>1 DEF SpentOnlyIfLost
    <2> QED
      BY <1>1, <2>1, <2>2 DEF Stands, Alike
  <1> QED
    BY <1>2, <1>3, <1>4, <1>5, <1>6 DEF UserInv

-----------------------------------------------------------------------------
(* A user's tokens: the steps                                                *)

LEMMA JobFields ==
  ASSUME UserInv, NEW c \in Jobs
  PROVE  /\ job[c] \in Job /\ JobOK(job[c]) /\ columns \in Columns
         /\ columns.access \in Issued \cup {0} /\ columns.refresh \in Issued \cup {0}
         /\ Issued \subseteq Pairs /\ 0 \notin Pairs /\ Pairs \subseteq 0..MaxPairs
  BY UserTokenConstants DEF UserInv, UserTypes, Issued, Pairs

LEMMA RefreshingOK ==
  ASSUME UserInv, columns.refresh # 0, NEW op \in {"use", "validate", "cron"},
         NEW retried \in BOOLEAN
  PROVE  /\ Refreshing(op, retried) \in Job /\ JobOK(Refreshing(op, retried))
         /\ Refreshing(op, retried).pc = "ask"
         /\ Refreshing(op, retried).used = columns.refresh
         /\ Refreshing(op, retried).copy.refresh = 0
  <1>1. /\ columns \in Columns /\ columns.refresh \in Issued /\ Issued \subseteq Pairs
        /\ Pairs \subseteq 0..MaxPairs
    BY UserTokenConstants DEF UserInv, UserTypes, Issued, Pairs
  <1> DEFINE r == Refreshing(op, retried)
  <1>2. r \in Job
    BY <1>1, NoJobTyped DEF Refreshing, NoJob, Job
  <1>3. /\ r.pc = "ask" /\ r.used = columns.refresh /\ r.refresh = columns.refresh
        /\ r.copy = NoColumns /\ ~r.failed
    BY DEF Refreshing, NoJob
  <1> HIDE DEF r
  <1>4. JobOK(r)
    BY <1>1, <1>3 DEF JobOK, NoColumns
  <1> QED
    BY <1>2, <1>3, <1>4, NoJobTyped DEF r, NoColumns

LEMMA BeginningSteps ==
  ASSUME UserInv, NEW c \in Jobs,
         \/ GetValidToken(c) \/ ValidateConnection(c) \/ RefreshExpiringTokens(c)
         \/ UpdateProfile(c) \/ UnlinkTwitch(c)
  PROVE  UserInv'
  <1>0. Stands(c, "idle") /\ UNCHANGED <<svc, personal, replaces, age, spent, dead, lost>>
    BY DEF GetValidToken, ValidateConnection, RefreshExpiringTokens, UpdateProfile,
           UnlinkTwitch, service
  <1>1. ASSUME NEW op \in {"use", "validate", "cron"}, columns.refresh # 0,
               Begin(c, Refreshing(op, FALSE)), UNCHANGED columns
        PROVE  UserInv'
    BY <1>0, <1>1, JobFields, RefreshingOK, BeginsWithTheRow
  <1>2. CASE GetValidToken(c)
    <2>1. Connected /\ UNCHANGED columns /\ columns.refresh # 0 /\ columns.access # 0
      BY <1>2 DEF GetValidToken, Connected, HasTokens
    <2>2. CASE Begin(c, Refreshing("use", FALSE))
      BY <1>1, <2>1, <2>2
    <2>3. CASE Begin(c, [NoJob EXCEPT !.pc = "send", !.access = columns.access])
      <3> DEFINE next == [NoJob EXCEPT !.pc = "send", !.access = columns.access]
      <3>1. columns.access \in Issued /\ columns.access \in 0..MaxPairs
        BY <2>1, JobFields
      <3>2. /\ next \in Job /\ next.pc = "send" /\ next.copy.refresh = 0 /\ next.access = columns.access
            /\ next.copy.access = 0 /\ ~next.failed
        BY <3>1, NoJobTyped DEF Job, NoJob
      <3>3. JobOK(next)
        BY <3>1, <3>2 DEF JobOK
      <3> HIDE DEF next
      <3> QED
        BY <1>0, <2>1, <2>3, <3>2, <3>3, JobFields, BeginsWithTheRow DEF next
    <2> QED
      BY <1>2, <2>2, <2>3 DEF GetValidToken
  <1>3. CASE ValidateConnection(c)
    BY <1>1, <1>3 DEF ValidateConnection, Connected, HasTokens
  <1>4. CASE RefreshExpiringTokens(c)
    BY <1>1, <1>4 DEF RefreshExpiringTokens
  <1>5. CASE UpdateProfile(c)
    <2> DEFINE next == [NoJob EXCEPT !.pc = "save", !.copy = columns]
    <2>1. next \in Job /\ next.pc = "save" /\ next.copy = columns /\ ~next.failed
      BY JobFields, NoJobTyped DEF Job, NoJob
    <2>2. JobOK(next)
      BY <2>1, JobFields DEF JobOK
    <2>3. Begin(c, next) /\ UNCHANGED columns
      BY <1>5 DEF UpdateProfile
    <2> HIDE DEF next
    <2> QED
      BY <1>0, <2>1, <2>2, <2>3, JobFields, BeginsWithTheRow
  <1>6. CASE UnlinkTwitch(c)
    <2> DEFINE next == [NoJob EXCEPT !.pc = "unlink"]
    <2>1. /\ next \in Job /\ next.pc = "unlink" /\ next.copy.refresh = 0 /\ next.copy.access = 0
          /\ ~next.failed
      BY NoJobTyped DEF Job, NoJob
    <2>2. JobOK(next)
      BY <2>1 DEF JobOK
    <2>3. Begin(c, next) /\ columns' = [columns EXCEPT !.linked = FALSE]
      BY <1>6 DEF UnlinkTwitch
    <2>4. columns' \in Columns /\ columns'.access = columns.access /\ columns'.refresh = columns.refresh
      BY <2>3, JobFields DEF Columns
    <2> HIDE DEF next
    <2> QED
      BY <1>0, <2>1, <2>2, <2>3, <2>4, BeginsWithTheRow
  <1> QED
    BY <1>2, <1>3, <1>4, <1>5, <1>6

LEMMA GrantSteps ==
  ASSUME UserInv, NEW c \in Jobs, NEW k \in Pairs, LinkTwitch(c, k) \/ AuthByDiscordCode(c, k)
  PROVE  UserInv'
  <1>0. /\ Stands(c, "idle") /\ Issue(k) /\ UNCHANGED <<svc, replaces, spent, dead, lost>>
        /\ k \in 0..MaxPairs
    BY JobFields DEF LinkTwitch, AuthByDiscordCode, ExchangeCodeForTokens
  <1>1. CASE LinkTwitch(c, k)
    <2> DEFINE next == [NoJob EXCEPT !.pc = "link", !.access = k]
    <2>1. /\ next \in Job /\ next.pc = "link" /\ next.access = k /\ next.copy = NoColumns
          /\ ~next.failed
      BY <1>0, NoJobTyped DEF Job, NoJob
    <2>2. /\ Begin(c, next) /\ columns' = [columns EXCEPT !.linked = TRUE]
          /\ personal' \in BOOLEAN
      BY <1>1 DEF LinkTwitch
    <2>3. columns' \in Columns /\ columns'.access = columns.access /\ columns'.refresh = columns.refresh
      BY <2>2, JobFields DEF Columns
    <2> HIDE DEF next
    <2> QED
      BY <1>0, <2>1, <2>2, <2>3, BeginsWithNew
  <1>2. CASE AuthByDiscordCode(c, k)
    <2> DEFINE copy == [linked |-> TRUE, access |-> k, refresh |-> k, exp |-> k]
               next == [NoJob EXCEPT !.pc = "save", !.copy = copy]
    <2>1. copy \in Columns /\ copy.access = k /\ copy.refresh = k
      BY <1>0 DEF Columns
    <2>2. next \in Job /\ next.pc = "save" /\ next.copy = copy /\ ~next.failed
      BY <2>1, NoJobTyped DEF Job, NoJob
    <2>3. Begin(c, next) /\ UNCHANGED <<columns, personal>>
      BY <1>2 DEF AuthByDiscordCode
    <2>4. columns \in Columns /\ personal \in BOOLEAN
      BY DEF UserInv, UserTypes
    <2> HIDE DEF next, copy
    <2> QED
      BY <1>0, <2>1, <2>2, <2>3, <2>4, BeginsWithNew
  <1> QED
    BY <1>1, <1>2

\* The old token is spent, the new one on its way.
LEMMA RefreshSucceedsStep ==
  ASSUME UserInv, NEW c \in Jobs, NEW k \in Pairs, RefreshSucceeds(c, k)
  PROVE  UserInv'
  <1> DEFINE next == [job[c] EXCEPT !.pc = "store", !.access = k,
                                     !.refresh = IF replaces THEN k ELSE @]
  <1>0. /\ UserTypes /\ \A d \in Jobs : JobOK(job[d]) /\ Fresh(d) /\ Alone(d)
        /\ SpentOnlyIfLost /\ Stands(c, "ask") /\ Issue(k) /\ Move(c, next)
        /\ UNCHANGED <<svc, replaces, columns, personal, dead, lost>>
        /\ spent' = IF replaces THEN spent \cup {job[c].used} ELSE spent
    BY DEF UserInv, RefreshSucceeds, Renews
  <1>1. /\ Issued' = Issued \cup {k} /\ k \notin Issued /\ k # 0
        /\ age' \in [Pairs -> {"unused", "live", "hour", "last"}]
    BY <1>0, Issuing
  <1>2. job[c] \in Job /\ JobOK(job[c]) /\ job[c].used \in Issued /\ job[c].refresh \in Issued
    BY <1>0, JobFields DEF JobOK, Stands
  <1>3. /\ next \in Job /\ next.pc = "store" /\ next.access = k /\ next.used = job[c].used
        /\ next.refresh = IF replaces THEN k ELSE job[c].refresh
        /\ next.copy = job[c].copy /\ next.failed = job[c].failed
        /\ next.crossed = job[c].crossed
    BY <1>2, JobFields DEF Job
  <1> HIDE DEF next
  <1>4. /\ job' \in [Jobs -> Job] /\ job'[c] = next
        /\ \A d \in Jobs \ {c} : job'[d] = job[d] /\ Alike(d)
    BY <1>0, <1>3, MoveShape DEF UserTypes
  <1>5. UserTypes'
    BY <1>0, <1>1, <1>2, <1>4 DEF UserTypes
  <1>6. \A d \in Jobs : JobOK(job[d])'
    <2>1. JobOK(job[c])'
      BY <1>0, <1>1, <1>2, <1>3, <1>4 DEF JobOK, Stands
    <2> QED
      BY <1>0, <1>1, <1>4, <2>1, JobKeeps
  <1>7. \A d \in Jobs : Fresh(d)'
    <2>1. ASSUME NEW d \in Jobs \ {c}, Bears(d)
          PROVE  /\ job[d].access \notin spent'
                 /\ job[d].access # columns'.refresh
                 /\ job[d].access # job'[c].copy.refresh
                 /\ job[d].access # job'[c].used
                 /\ job[d].access # job'[c].access
      <3>1. /\ job[d].access \notin spent /\ job[d].access # columns.refresh
            /\ job[d].access # job[c].copy.refresh /\ job[d].access # job[c].used
        BY <1>0, <2>1 DEF Fresh, Uses
      <3>2. job[d].access \in Issued
        BY <1>0, <2>1 DEF JobOK, Bears, Stands
      <3> QED
        BY <1>0, <1>1, <1>3, <1>4, <3>1, <3>2 DEF Stands
    <2>2. /\ k \notin spent' /\ k # columns'.refresh /\ k # job'[c].copy.refresh
          /\ \A d \in Jobs \ {c} :
               /\ k # job[d].copy.refresh
               /\ Uses(d) => k # job[d].used
      <3>1. /\ spent \subseteq Issued /\ columns.refresh \in Issued \cup {0}
            /\ \A d \in Jobs : job[d].copy.refresh \in Issued \cup {0}
            /\ \A d \in Jobs : Uses(d) => job[d].used \in Issued
        BY <1>0 DEF UserTypes, JobOK, Stands, Uses
      <3> QED
        BY <1>0, <1>1, <1>2, <1>3, <1>4, <3>1
    <2>3. job'[c].access = k
      BY <1>3, <1>4
    <2> QED
      BY <1>0, <1>4, <2>1, <2>2, <2>3, FreshAfter
  <1>8. \A d \in Jobs : Alone(d)'
    <2>1. ~job'[c].crossed => \A d \in Jobs \ {c} : Stands(d, "idle")
      BY <1>0, <1>3, <1>4 DEF Alone, Stands
    <2>2. job'[c].pc \notin {"ask", "clear"} /\ ~Stands(c, "idle")
      BY <1>0, <1>3, <1>4 DEF Stands
    <2> QED
      BY <1>0, <1>4, <2>1, <2>2, AloneAfter
  <1>9. SpentOnlyIfLost'
    <2>1. Stands(c, "store")' /\ job'[c].used = job[c].used
      BY <1>3, <1>4 DEF Stands
    <2> SUFFICES ASSUME columns.refresh \in spent', columns.refresh \notin lost
                 PROVE  \E d \in Jobs : Stands(d, "store")' /\ job'[d].used = columns.refresh
      BY <1>0 DEF SpentOnlyIfLost
    <2>2. CASE columns.refresh = job[c].used
      BY <2>1, <2>2
    <2>3. CASE columns.refresh \in spent
      <3>1. PICK d \in Jobs : Stands(d, "store") /\ job[d].used = columns.refresh
        BY <1>0, <2>3 DEF SpentOnlyIfLost
      <3>2. d # c
        BY <1>0, <3>1 DEF Stands
      <3> QED
        BY <1>4, <3>1, <3>2 DEF Stands
    <2> QED
      BY <1>0, <2>2, <2>3
  <1> QED
    BY <1>5, <1>6, <1>7, <1>8, <1>9 DEF UserInv

LEMMA JobEnds ==
  ASSUME UserInv, NEW c \in Jobs, ~Stands(c, "idle"), Move(c, NoJob),
         UNCHANGED <<svc, columns, replaces, age, spent, dead>>, personal' \in BOOLEAN,
         lost \subseteq lost', lost' \subseteq Pairs,
         Stands(c, "store") => (job[c].used \in spent => job[c].used \in lost')
  PROVE  UserInv'
  <1>1. JobOK(NoJob) /\ NoJob \in Job /\ NoJob.pc = "idle" /\ NoJob.copy.refresh = 0
    BY NoJobTyped DEF JobOK
  <1>2. Issued' = Issued /\ age \in [Pairs -> {"unused", "live", "hour", "last"}]
    BY IssuedKept DEF UserInv, UserTypes
  <1> QED
    BY <1>1, <1>2, GoesOn

\* What a failed refresh does, with either service.
LEMMA FailedOK ==
  ASSUME UserInv, NEW c \in Jobs, job[c].pc \in {"ask", "store"}
  PROVE  /\ Failed(c) \in Job /\ JobOK(Failed(c)) /\ Failed(c).copy.refresh = 0
         /\ Failed(c).pc = "idle" \/ (Failed(c).pc = "clear" /\ Failed(c).failed
                                      /\ Failed(c).crossed = job[c].crossed)
  <1>1. CASE svc = "discord"
    <2> DEFINE next == [job[c] EXCEPT !.pc = "clear", !.failed = TRUE]
    <2>1. /\ next \in Job /\ next.pc = "clear" /\ next.failed /\ next.crossed = job[c].crossed
          /\ next.copy = job[c].copy
      BY JobFields DEF Job
    <2>2. JobOK(job[c])
      BY JobFields
    <2> HIDE DEF next
    <2>3. JobOK(next) /\ next.copy.refresh = 0
      BY <1>1, <2>1, <2>2 DEF JobOK
    <2>4. Failed(c) = next
      BY <1>1 DEF Failed, next
    <2> QED
      BY <2>1, <2>3, <2>4
  <1>2. CASE svc # "discord"
    BY <1>2, NoJobTyped DEF Failed, JobOK
  <1> QED
    BY <1>1, <1>2

LEMMA MovingSteps ==
  ASSUME UserInv, NEW c \in Jobs,
         \/ ServiceFails(c) \/ RefreshRefused(c) \/ StoreFails(c)
         \/ ClearFails(c) \/ ClearFlag(c) \/ RequestAnswered(c) \/ RequestUnauthorised(c)
         \/ \E k \in Pairs : AnswerLost(c, k)
  PROVE  UserInv'
  <1>0. /\ UserTypes /\ job[c] \in Job /\ JobOK(job[c]) /\ spent \subseteq Pairs /\ lost \subseteq Pairs
    BY JobFields DEF UserInv, UserTypes
  <1>1. CASE ServiceFails(c)
    <2>1. /\ Stands(c, "ask") /\ Move(c, Failed(c))
          /\ UNCHANGED <<svc, columns, personal, replaces, age, spent, dead, lost>>
      BY <1>1 DEF ServiceFails, service
    <2>2. Issued' = Issued
      BY <2>1, IssuedKept
    <2> QED
      BY <1>0, <2>1, <2>2, FailedOK, GoesOn DEF UserTypes, Stands
  <1>2. CASE StoreFails(c)
    <2>1. /\ Stands(c, "store") /\ Move(c, Failed(c))
          /\ lost' = lost \cup ({job[c].used} \cap spent)
          /\ UNCHANGED <<svc, columns, personal, replaces, age, spent, dead>>
      BY <1>2 DEF StoreFails, service
    <2>2. Issued' = Issued
      BY <2>1, IssuedKept
    <2> QED
      BY <1>0, <2>1, <2>2, FailedOK, GoesOn DEF UserTypes, Stands
  <1>3. ASSUME NEW k \in Pairs, AnswerLost(c, k) PROVE UserInv'
    <2>1. /\ Stands(c, "ask") /\ Move(c, Failed(c)) /\ Usable(job[c].used) /\ Issue(k)
          /\ spent' = IF replaces THEN spent \cup {job[c].used} ELSE spent
          /\ lost' = lost \cup (spent' \ spent)
          /\ UNCHANGED <<svc, replaces, columns, personal, dead>>
      BY <1>3 DEF AnswerLost, Renews
    <2>2. Issued' = Issued \cup {k} /\ age' \in [Pairs -> {"unused", "live", "hour", "last"}]
      BY <1>0, <2>1, Issuing
    <2>3. job[c].used \in Pairs /\ job[c].used \notin spent
      BY <1>0, <2>1, JobFields DEF JobOK, Stands, Usable
    <2>4. lost' \subseteq Pairs /\ lost \subseteq lost'
      BY <1>0, <2>1, <2>3
    <2>5. \/ spent' = spent
          \/ /\ Stands(c, "ask") /\ replaces /\ spent' = spent \cup {job[c].used}
             /\ job[c].used \in lost'
      BY <2>1, <2>3
    <2>6. Stands(c, "store") => (job[c].used \in spent' => job[c].used \in lost')
      BY <2>1 DEF Stands
    <2> QED
      BY <1>0, <2>1, <2>2, <2>4, <2>5, <2>6, FailedOK, GoesOn DEF UserTypes, Stands
  <1>4. CASE RefreshRefused(c)
    <2> DEFINE next == [job[c] EXCEPT !.pc = "clear"]
    <2>1. /\ Stands(c, "ask") /\ ~Usable(job[c].used) /\ Move(c, next)
          /\ UNCHANGED <<svc, columns, personal, replaces, age, spent, dead, lost>>
      BY <1>4 DEF RefreshRefused, service
    <2>2. /\ next \in Job /\ next.pc = "clear" /\ next.failed = job[c].failed
          /\ next.crossed = job[c].crossed /\ next.copy = job[c].copy
      BY <1>0 DEF Job
    <2> HIDE DEF next
    <2>3. JobOK(next) /\ next.copy.refresh = 0
      BY <1>0, <2>1, <2>2 DEF JobOK, Stands
    <2>4. ~job[c].crossed => ~Usable(columns.refresh)'
      BY <2>1 DEF UserInv, Alone, Stands, Usable
    <2>5. Issued' = Issued
      BY <2>1, IssuedKept
    <2> QED
      BY <1>0, <2>1, <2>2, <2>3, <2>4, <2>5, GoesOn DEF UserTypes, Stands
  <1>5. CASE ClearFails(c) \/ ClearFlag(c) \/ RequestAnswered(c)
    <2>1. /\ job[c].pc \in {"clear", "flag", "send"} /\ Move(c, NoJob) /\ personal' \in BOOLEAN
          /\ UNCHANGED <<svc, columns, replaces, age, spent, dead, lost>>
      BY <1>0, <1>5 DEF ClearFails, ClearFlag, RequestAnswered, Stands, service, UserTypes, Columns
    <2> QED
      BY <1>0, <2>1, JobEnds DEF Stands
  <1>6. CASE RequestUnauthorised(c)
    <2>1. /\ Stands(c, "send")
          /\ UNCHANGED <<svc, columns, personal, replaces, age, spent, dead, lost>>
          /\ personal \in BOOLEAN /\ Issued' = Issued
      BY <1>0, <1>6, IssuedKept DEF RequestUnauthorised, service, UserTypes
    <2>2. CASE Move(c, NoJob)
      BY <1>0, <2>1, <2>2, JobEnds DEF Stands
    <2>3. CASE Connected /\ Move(c, [Refreshing("use", TRUE) EXCEPT !.crossed = job[c].crossed])
      <3> DEFINE next == [Refreshing("use", TRUE) EXCEPT !.crossed = job[c].crossed]
      <3>1. columns.refresh # 0
        BY <2>3 DEF Connected, HasTokens
      <3>2. /\ Refreshing("use", TRUE) \in Job /\ JobOK(Refreshing("use", TRUE))
            /\ Refreshing("use", TRUE).pc = "ask"
            /\ Refreshing("use", TRUE).used = columns.refresh
            /\ Refreshing("use", TRUE).copy.refresh = 0
        BY <3>1, RefreshingOK
      <3>3. /\ next \in Job /\ next.pc = "ask" /\ next.used = columns.refresh
            /\ next.refresh = Refreshing("use", TRUE).refresh
            /\ next.copy = Refreshing("use", TRUE).copy
            /\ next.failed = Refreshing("use", TRUE).failed
            /\ next.crossed = job[c].crossed
        BY <1>0, <3>2 DEF Job
      <3> HIDE DEF next
      <3>4. JobOK(next)
        BY <3>2, <3>3 DEF JobOK
      <3>5. Move(c, next)
        BY <2>3 DEF next
      <3> QED
        BY <1>0, <2>1, <3>2, <3>3, <3>4, <3>5, GoesOn DEF UserTypes, Stands
    <2> QED
      BY <1>6, <2>2, <2>3 DEF RequestUnauthorised
  <1> QED
    BY <1>1, <1>2, <1>3, <1>4, <1>5, <1>6

\* After its tokens are stored a request is sent, a job is done.
LEMMA AfterStoreOK ==
  ASSUME UserInv, NEW c \in Jobs, Stands(c, "store")
  PROVE  /\ AfterStore(c) \in Job /\ JobOK(AfterStore(c)) /\ AfterStore(c).copy.refresh = 0
         /\ \/ AfterStore(c).pc = "idle"
            \/ AfterStore(c).pc = "send" /\ AfterStore(c).crossed = job[c].crossed
  <1>1. CASE job[c].op = "use"
    <2> DEFINE next == [job[c] EXCEPT !.pc = "send"]
    <2>1. /\ next \in Job /\ next.pc = "send" /\ next.crossed = job[c].crossed
          /\ next.copy = job[c].copy /\ next.access = job[c].access
          /\ next.failed = job[c].failed
      BY JobFields DEF Job
    <2>2. JobOK(job[c])
      BY JobFields
    <2> HIDE DEF next
    <2>3. JobOK(next) /\ next.copy.refresh = 0
      BY <2>1, <2>2 DEF JobOK, Stands
    <2>4. AfterStore(c) = next
      BY <1>1 DEF AfterStore, next
    <2> QED
      BY <2>1, <2>3, <2>4
  <1>2. CASE job[c].op # "use"
    BY <1>2, NoJobTyped DEF AfterStore, JobOK
  <1> QED
    BY <1>1, <1>2

LEMMA WritingSteps ==
  ASSUME UserInv, NEW c \in Jobs,
         Store(c) \/ ClearTokens(c) \/ LinkStore(c) \/ UnlinkTokens(c) \/ SaveUser(c)
  PROVE  UserInv'
  <1>0. /\ UserTypes /\ job[c] \in Job /\ JobOK(job[c]) /\ columns \in Columns
        /\ spent \subseteq Pairs /\ lost \subseteq Pairs /\ Issued \subseteq Pairs
        /\ 0 \notin Pairs /\ Pairs \subseteq 0..MaxPairs
        /\ \A d \in Jobs : JobOK(job[d]) /\ Fresh(d)
        /\ columns.access \in Issued \cup {0} /\ columns.refresh \in Issued \cup {0}
    BY JobFields DEF UserInv, UserTypes
  <1>1. JobOK(NoJob) /\ NoJob \in Job /\ NoJob.pc = "idle" /\ NoJob.copy.refresh = 0
    BY NoJobTyped DEF JobOK
  <1>2. \A d \in Jobs : Bears(d) => job[d].access # 0
    BY <1>0 DEF Bears, Stands, JobOK
  <1>3. CASE Store(c)
    <2>1. /\ Stands(c, "store") /\ Move(c, AfterStore(c))
          /\ UNCHANGED <<svc, personal, replaces, age, spent, dead, lost>>
          /\ columns' = [columns EXCEPT !.access = job[c].access, !.refresh = job[c].refresh,
                                        !.exp = job[c].access]
      BY <1>3 DEF Store, service
    <2>2. job[c].access \in Issued /\ job[c].refresh \in Issued
      BY <1>0, <2>1 DEF JobOK, Stands
    <2>3. columns' \in Columns /\ columns'.access = job[c].access /\ columns'.refresh = job[c].refresh
      BY <1>0, <2>1, <2>2 DEF Columns
    <2>4. /\ job[c].refresh \notin spent
          /\ \A d \in Jobs \ {c} : Bears(d) => job[d].access # job[c].refresh
      <3>1. CASE replaces
        <4>1. Bears(c) /\ job[c].refresh = job[c].access /\ Fresh(c)
          BY <1>0, <2>1, <3>1 DEF Bears, Stands, JobOK
        <4> QED
          BY <4>1 DEF Fresh
      <3>2. CASE ~replaces
        <4>1. spent = {}
          BY <1>0, <3>2 DEF UserTypes
        <4>2. Uses(c) /\ job[c].refresh = job[c].used
          BY <1>0, <2>1, <3>2 DEF Uses, Stands, JobOK
        <4> QED
          BY <1>0, <4>1, <4>2 DEF Fresh
      <3> QED
        BY <3>1, <3>2
    <2> QED
      BY <1>0, <2>1, <2>2, <2>3, <2>4, AfterStoreOK, WritesTheRow DEF Stands
  <1>4. CASE ClearTokens(c) \/ UnlinkTokens(c)
    <2>1. /\ job[c].pc \in {"clear", "unlink"}
          /\ UNCHANGED <<svc, personal, replaces, age, spent, dead, lost>>
          /\ columns' = [columns EXCEPT !.access = 0, !.refresh = 0, !.exp = 0]
      BY <1>4 DEF ClearTokens, UnlinkTokens, service, Stands
    <2>2. columns' \in Columns /\ columns'.access = 0 /\ columns'.refresh = 0
      <3>1. 0 \in 0..MaxPairs
        BY UserTokenConstants
      <3> QED
        BY <2>1, <1>0, <3>1 DEF Columns
    <2>3. CASE Move(c, NoJob)
      BY <1>0, <1>1, <1>2, <2>1, <2>2, <2>3, WritesTheRow DEF Stands
    <2>4. CASE Move(c, [job[c] EXCEPT !.pc = "flag"])
      <3> DEFINE next == [job[c] EXCEPT !.pc = "flag"]
      <3>1. /\ next \in Job /\ next.pc = "flag" /\ next.crossed = job[c].crossed
            /\ next.copy = job[c].copy /\ next.failed = job[c].failed
        BY <1>0 DEF Job
      <3>2. Move(c, next)
        BY <2>4
      <3> HIDE DEF next
      <3>3. JobOK(next) /\ next.copy.refresh = 0
        BY <1>0, <2>1, <3>1 DEF JobOK
      <3> QED
        BY <1>0, <1>2, <2>1, <2>2, <3>1, <3>2, <3>3, WritesTheRow DEF Stands
    <2> QED
      BY <1>4, <2>3, <2>4 DEF ClearTokens, UnlinkTokens
  <1>5. CASE LinkStore(c)
    <2>1. /\ Stands(c, "link") /\ Move(c, NoJob)
          /\ UNCHANGED <<svc, personal, replaces, age, spent, dead, lost>>
          /\ columns' = [columns EXCEPT !.access = job[c].access, !.refresh = job[c].access,
                                        !.exp = job[c].access]
      BY <1>5 DEF LinkStore, service
    <2>2. job[c].access \in Issued /\ Bears(c) /\ Fresh(c)
      BY <1>0, <2>1 DEF JobOK, Stands, Bears
    <2>3. columns' \in Columns /\ columns'.access = job[c].access /\ columns'.refresh = job[c].access
      BY <1>0, <2>1, <2>2 DEF Columns
    <2>4. /\ job[c].access \notin spent
          /\ \A d \in Jobs \ {c} : Bears(d) => job[d].access # job[c].access
      BY <2>2 DEF Fresh
    <2> QED
      BY <1>0, <1>1, <2>1, <2>2, <2>3, <2>4, WritesTheRow DEF Stands
  <1>6. CASE SaveUser(c)
    <2> DEFINE copy == job[c].copy
    <2>1. /\ Stands(c, "save") /\ Move(c, NoJob)
          /\ UNCHANGED <<svc, personal, replaces, age, spent, dead>>
          /\ columns' = copy \/ columns' = [copy EXCEPT !.linked = columns.linked]
          /\ lost' = IF copy.refresh = columns.refresh THEN lost
                     ELSE lost \cup ({copy.refresh} \cap spent)
      BY <1>6 DEF SaveUser, service
    <2>2. /\ copy \in Columns /\ copy.access \in Issued \cup {0}
          /\ copy.refresh \in Issued \cup {0}
      BY <1>0 DEF Job, JobOK
    <2>3. columns' \in Columns /\ columns'.access = copy.access /\ columns'.refresh = copy.refresh
      BY <1>0, <2>1, <2>2 DEF Columns
    <2>4. \A d \in Jobs \ {c} : Bears(d) => job[d].access # copy.refresh
      BY <1>0 DEF Fresh
    <2>5. /\ lost \subseteq lost' /\ lost' \subseteq Pairs
          /\ copy.refresh \in spent => copy.refresh \in lost' \/ copy.refresh = columns.refresh
      BY <1>0, <2>1
    <2> HIDE DEF copy
    <2> QED
      BY <1>0, <1>1, <2>1, <2>2, <2>3, <2>4, <2>5, WritesTheRow DEF Stands
  <1> QED
    BY <1>3, <1>4, <1>5, <1>6

LEMMA RestingSteps ==
  ASSUME UserInv,
         \/ SetTwitchPersonalAuth \/ Withdraw \/ UnlinkDiscord
         \/ \E k \in Pairs : Age(k) \/ LinkDiscord(k)
  PROVE  UserInv'
  <1>0. /\ UserTypes /\ columns \in Columns /\ Issued \subseteq Pairs /\ personal \in BOOLEAN
        /\ 0 \notin Pairs /\ Pairs \subseteq 0..MaxPairs /\ dead \subseteq Issued
        /\ columns.access \in Issued \cup {0} /\ columns.refresh \in Issued \cup {0}
        /\ age \in [Pairs -> {"unused", "live", "hour", "last"}]
    BY UserTokenConstants DEF UserInv, UserTypes, Issued, Pairs
  <1>1. CASE SetTwitchPersonalAuth
    <2>1. /\ UNCHANGED <<svc, columns, replaces, age, spent, dead, lost, job>>
          /\ personal' \in BOOLEAN
      BY <1>0, <1>1 DEF SetTwitchPersonalAuth, service
    <2> QED
      BY <1>0, <2>1, IssuedKept, JobsRest
  <1>2. CASE Withdraw
    <2>1. /\ UNCHANGED <<svc, replaces, columns, personal, age, spent, lost, job>>
          /\ dead' = Issued
      BY <1>2 DEF Withdraw, Issued
    <2>2. dead \subseteq dead'
      <3>1. dead \subseteq Issued
        BY DEF UserInv, UserTypes
      <3> QED
        BY <2>1, <3>1
    <2> QED
      BY <1>0, <2>1, <2>2, IssuedKept, JobsRest
  <1>3. CASE UnlinkDiscord
    <2>1. /\ UNCHANGED <<svc, personal, replaces, age, spent, dead, lost>>
          /\ columns' = [columns EXCEPT !.linked = FALSE, !.access = 0, !.refresh = 0]
          /\ job' = Crossed(Jobs)
      BY <1>3 DEF UnlinkDiscord, service
    <2>2. columns' \in Columns /\ columns'.access = 0 /\ columns'.refresh = 0
      <3>1. 0 \in 0..MaxPairs
        BY UserTokenConstants
      <3> QED
        BY <2>1, <1>0, <3>1 DEF Columns
    <2> QED
      BY <1>0, <2>1, <2>2, IssuedKept, JobsRest
  <1>4. ASSUME NEW k \in Pairs, Age(k) PROVE UserInv'
    <2>1. /\ UNCHANGED <<svc, replaces, columns, personal, spent, dead, lost, job>>
          /\ age[k] # "unused"
          /\ \/ age' = [age EXCEPT ![k] = "hour"]
             \/ age' = [age EXCEPT ![k] = "last"]
      BY <1>4 DEF Age
    <2>2. /\ age' \in [Pairs -> {"unused", "live", "hour", "last"}]
          /\ Issued' = Issued
      BY <1>0, <2>1 DEF Issued, Unissued
    <2> QED
      BY <1>0, <2>1, <2>2, JobsRest
  <1>5. ASSUME NEW k \in Pairs, LinkDiscord(k) PROVE UserInv'
    <2>1. /\ UNCHANGED <<svc, replaces, personal, spent, dead, lost>> /\ Issue(k)
          /\ columns' = [columns EXCEPT !.linked = TRUE, !.access = k]
          /\ job' = Crossed(Jobs)
      BY <1>5 DEF LinkDiscord, ExchangeCodeForTokens
    <2>2. Issued' = Issued \cup {k} /\ age' \in [Pairs -> {"unused", "live", "hour", "last"}]
      BY <1>0, <2>1, Issuing
    <2>3. columns' \in Columns /\ columns'.access = k /\ columns'.refresh = columns.refresh
      BY <1>0, <2>1 DEF Columns
    <2> QED
      BY <1>0, <2>1, <2>2, <2>3, JobsRest
  <1> QED
    BY <1>1, <1>2, <1>3, <1>4, <1>5

\* What a restart finds stored is all there is; the jobs it ends have lost what they held.
LEMMA RestartStep ==
  ASSUME UserInv, Restart
  PROVE  UserInv'
  <1>0. /\ UserTypes /\ SpentOnlyIfLost /\ spent \subseteq Pairs /\ Issued' = Issued
        /\ lost' = lost \cup ({job[c].used : c \in {d \in Jobs : Stands(d, "store")}} \cap spent)
        /\ job' = [c \in Jobs |-> NoJob]
        /\ UNCHANGED <<svc, columns, personal, replaces, age, spent, dead>>
    BY JobFields, IssuedKept DEF UserInv, UserTypes, Restart, service, Issued
  <1>1. job' \in [Jobs -> Job] /\ \A c \in Jobs : job'[c] = NoJob
    BY <1>0, NoJobTyped
  <1>2. UserTypes'
    BY <1>0, <1>1 DEF UserTypes
  <1>3. \A c \in Jobs : JobOK(job[c])' /\ Fresh(c)' /\ Alone(c)'
    BY <1>1, NoJobTyped DEF JobOK, Fresh, Alone, Bears, Stands
  <1>4. SpentOnlyIfLost'
    BY <1>0 DEF SpentOnlyIfLost
  <1> QED
    BY <1>2, <1>3, <1>4 DEF UserInv

LEMMA UserInvInit == InitUserTokens => UserInv
  <1> SUFFICES ASSUME InitUserTokens PROVE UserInv
    OBVIOUS
  <1>1. job \in [Jobs -> Job] /\ \A c \in Jobs : job[c] = NoJob
    BY NoJobTyped DEF InitUserTokens
  <1>2. columns \in Columns /\ columns.access = 0 /\ columns.refresh = 0
    BY NoJobTyped DEF InitUserTokens, NoColumns
  <1>3. UserTypes
    BY <1>1, <1>2 DEF InitUserTokens, UserTypes
  <1>4. \A c \in Jobs : JobOK(job[c]) /\ Fresh(c) /\ Alone(c)
    BY <1>1, NoJobTyped DEF JobOK, Fresh, Alone, Bears, Stands
  <1>5. SpentOnlyIfLost
    BY DEF InitUserTokens, SpentOnlyIfLost
  <1> QED
    BY <1>3, <1>4, <1>5 DEF UserInv

LEMMA UserInvStep ==
  ASSUME UserInv, [UserTokensStep]_userTokensVars
  PROVE  UserInv'
  <1>1. CASE UNCHANGED userTokensVars
    <2>1. UNCHANGED <<svc, replaces, columns, personal, age, spent, dead, lost, job>>
      BY <1>1 DEF userTokensVars
    <2> QED
      BY <2>1 DEF UserInv, UserTypes, JobOK, Fresh, Alone, Bears, Uses, Stands, Usable, Issued,
                  Unissued, SpentOnlyIfLost
  <1>2. CASE UserTokensStep
    BY <1>2, BeginningSteps, GrantSteps, RefreshSucceedsStep, MovingSteps, WritingSteps,
       RestingSteps, RestartStep DEF UserTokensStep
  <1> QED
    BY <1>1, <1>2

LEMMA UserInvHolds == UserTokensSpec => []UserInv
  <1>1. UserInv /\ [UserTokensStep]_userTokensVars => UserInv'
    BY UserInvStep
  <1> QED
    BY UserInvInit, <1>1, PTL DEF UserTokensSpec

-----------------------------------------------------------------------------
(* A user's tokens: the theorems                                             *)

\* The types hold of every behaviour: what is sent, stored or asked with was issued.
THEOREM UserTokensTyped == UserTokensSpec => []UserTokensTypeOK
  <1>1. UserInv => UserTokensTypeOK
    <2> SUFFICES ASSUME UserInv PROVE UserTokensTypeOK
      OBVIOUS
    <2>1. spent \subseteq Pairs /\ dead \subseteq Pairs
      BY DEF UserInv, UserTypes, Issued
    <2>2. \A c \in Jobs :
            /\ job[c].pc \in {"send", "store", "link"} => job[c].access \in Pairs \ Unissued
            /\ job[c].pc \in {"ask", "store"} => job[c].used \in Pairs \ Unissued
      BY DEF UserInv, JobOK, Issued
    <2> QED
      BY <2>1, <2>2 DEF UserInv, UserTypes, UserTokensTypeOK
  <1> QED
    BY <1>1, UserInvHolds, PTL

\* No refresh forgets what it was given: the row keeps a token that was used up only while
\* the new one is on its way, or if that was lost or an old row saved.
THEOREM NoTokenForgotten == UserTokensSpec => []SpentOnlyIfLost
  <1>1. UserInv => SpentOnlyIfLost
    BY DEF UserInv
  <1> QED
    BY <1>1, UserInvHolds, PTL

\* A refresh that nobody crossed clears only tokens that the service has refused, unless it
\* is Discord's and failed.
THEOREM TokensKept == UserTokensSpec => KeptUnlessCrossed
  <1>1. UserInv =>
          \A c \in Jobs : ClearTokens(c) /\ Usable(columns.refresh)
                          => job[c].crossed \/ (svc = "discord" /\ job[c].failed)
    <2> SUFFICES ASSUME UserInv, NEW c \in Jobs, ClearTokens(c), Usable(columns.refresh),
                        ~job[c].crossed
                 PROVE  svc = "discord" /\ job[c].failed
      OBVIOUS
    <2>1. Stands(c, "clear") /\ Alone(c) /\ JobOK(job[c])
      BY DEF UserInv, ClearTokens
    <2> QED
      BY <2>1 DEF Alone, Stands, JobOK
  <1>2. UserInv =>
          [\A c \in Jobs : ClearTokens(c) /\ Usable(columns.refresh)
                           => job[c].crossed \/ (svc = "discord" /\ job[c].failed)]_userTokensVars
    BY <1>1
  <1> QED
    BY <1>2, UserInvHolds, PTL DEF KeptUnlessCrossed
===============================================================================
