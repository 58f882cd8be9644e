--------------------------- MODULE DiscordBotProofs ---------------------------
(* What holds of DiscordBot for every value of its constants.                 *)
EXTENDS DiscordBot, TLAPS

Accepted(p) == press[p].pc \in {"defer", "call", "done"}

\* An accepted press that is over leaves no entry behind; two accepted presses
\* of one draft were in flight together.
OnceInv ==
  /\ \A p \in Presses : press[p].pc = "done" => ~Live(press[p].token)
  /\ \A p, q \in Presses :
       p # q /\ Accepted(p) /\ Accepted(q) /\ press[p].token = press[q].token =>
         p \in press[q].beside \/ q \in press[p].beside
  /\ \A p \in Presses : press[p].created => Accepted(p)
  /\ \A p \in Presses : press[p].sent # Null => Accepted(p)

\* Up to the acknowledgement, the draft is the one that was on the screen.
ShownInv ==
  /\ AcceptedAsShown
  /\ \A p \in Presses :
       press[p].pc = "defer" =>
         dialog[press[p].token].draft = press[p].seen \/ press[p].edited

\* While nothing was missed, at most one event is at work, and what it will write
\* are the guilds; before and after that, the list is.
SteadyInv ==
  up /\ steady =>
    /\ \A h, i \in Working : h = i
    /\ \A h \in Working :
         IF handler[h].pc = "join"
         THEN member = handler[h].seen \cup {handler[h].guild}
         ELSE member = handler[h].seen \ {handler[h].guild}
    /\ Working = {} => list = NoKey \/ list = member

\* A guild that was left with its list is excused; while the bot is up, the list of
\* a guild it is in is not old, unless it is excused.
ChannelInv ==
  /\ ChannelsOK
  /\ \A g \in Listed \ member : g \in excused
  /\ up => \A g \in (Watched \cap member) \ excused : channels[g] # "old"

\* The types but for the lists of channels, and the steps of the list of guilds.
ProcessOK ==
  /\ DialogsOK
  /\ GuildsOK
  /\ \A k \in Tokens : Live(k) => listening
  /\ \A p \in Presses : press[p].pc \in {"defer", "call"} => listening

AnyGuildStep == GuildStep \/ (\E g \in Guilds : Leave(g)) \/ StartBot \/ LoseKey

-----------------------------------------------------------------------------
(* The types                                                                *)

LEMMA ListGuildStep == ListStep => AnyGuildStep \/ UNCHANGED guildVars
  BY DEF ListStep, AnyGuildStep, ChangeChannels, AskChannels, ExpireChannels

LEMMA InitTypes == Init => ProcessOK
  <1> SUFFICES ASSUME Init PROVE ProcessOK
    OBVIOUS
  <1>1. DialogsOK
    <2>1. NoPress \in Press
      BY DEF NoPress, Press
    <2> QED
      BY <2>1 DEF DialogsOK, Init, InitDialogs, NoPress
  <1>2. GuildsOK
    BY DEF GuildsOK, Init, InitGuilds, Idle, Working
  <1>3. /\ \A k \in Tokens : ~Live(k)
        /\ \A p \in Presses : press[p].pc = "none"
    BY DEF Init, InitDialogs, Live, Begun, NoPress
  <1> QED
    BY <1>1, <1>2, <1>3 DEF ProcessOK

\* A step that changes one dialog and the presses keeps their types when the new
\* values are as they should be.
LEMMA DialogTypes ==
  ASSUME ProcessOK, listening, UNCHANGED guildVars,
         NEW k \in Tokens, NEW d \in Dialog, dialog' = [dialog EXCEPT ![k] = d],
         press' \in [Presses -> Press],
         \A p \in Presses : press'[p].pc # "none" =>
            press'[p].token = press[p].token /\ press[p].pc # "none"
  PROVE  ProcessOK'
  <1>1. DialogsOK'
    BY NullOK DEF ProcessOK, DialogsOK, Begun
  <1>2. GuildsOK'
    BY DEF ProcessOK, GuildsOK, guildVars, Working
  <1>3. listening'
    BY DEF guildVars
  <1> QED
    BY <1>1, <1>2, <1>3 DEF ProcessOK

\* So does one that changes one press.
LEMMA PressTypes ==
  ASSUME ProcessOK, UNCHANGED guildVars, UNCHANGED dialog,
         NEW p \in Presses, NEW x \in Press, press' = [press EXCEPT ![p] = x],
         x.pc # "none" => x.token \in Tokens /\ Begun(x.token),
         listening \/ x.pc = press[p].pc
  PROVE  ProcessOK'
  <1>1. DialogsOK'
    BY DEF ProcessOK, DialogsOK, Begun
  <1>2. GuildsOK' /\ listening' = listening
    BY DEF ProcessOK, GuildsOK, guildVars, Working
  <1>3. \A q \in Presses : press'[q].pc \in {"defer", "call"} => listening'
    BY <1>2 DEF ProcessOK, DialogsOK
  <1>4. \A k \in Tokens : Live(k)' => listening'
    BY <1>2 DEF ProcessOK, Live, Begun
  <1> QED
    BY <1>1, <1>2, <1>3, <1>4 DEF ProcessOK

LEMMA NoPressOK == NoPress \in Press
  BY DEF NoPress, Press

LEMMA LiveDialog ==
  ASSUME ProcessOK, NEW k \in Tokens, Begun(k)
  PROVE  dialog[k] \in Dialog
  BY DEF ProcessOK, DialogsOK, Begun

LEMMA InteractionTypes ==
  ASSUME ProcessOK, listening, Command \/ Interaction, UNCHANGED guildVars
  PROVE  ProcessOK'
  <1>0. press \in [Presses -> Press]
    BY DEF ProcessOK, DialogsOK
  <1>1. ASSUME NEW k \in Tokens, AddDestination(k) PROVE ProcessOK'
    <2> DEFINE d == [Created(Default) EXCEPT !.modal = TRUE]
    <2>1. d \in Dialog
      BY DraftConstants DEF Created, Dialog
    <2>2. dialog' = [dialog EXCEPT ![k] = d] /\ press' = press
      BY <1>1 DEF AddDestination, ShowModal
    <2> HIDE DEF d
    <2> QED
      BY <1>0, <2>1, <2>2, DialogTypes
  <1>2. ASSUME NEW k \in Tokens, NEW c \in Contents, SubmitModal(k, c) PROVE ProcessOK'
    <2> DEFINE d == [Updated(k, c) EXCEPT !.modal = FALSE, !.shown = @ \/ Live(k)]
    <2>0. dialog[k] \in Dialog
      BY <1>2, LiveDialog DEF SubmitModal
    <2>4. Updated(k, c) \in Dialog
      BY <2>0 DEF Updated, Dialog
    <2>5. (Updated(k, c).shown \/ Live(k)) \in BOOLEAN
      OBVIOUS
    <2>1. d \in Dialog
      BY <2>4, <2>5 DEF Dialog
    <2>2. dialog' = [dialog EXCEPT ![k] = d]
      BY <1>2 DEF SubmitModal
    <2>3. /\ press' \in [Presses -> Press]
          /\ \A p \in Presses : press'[p].pc = press[p].pc /\ press'[p].token = press[p].token
      <3>1. CASE Live(k)
        <4>1. ASSUME NEW x \in Press
              PROVE  /\ [x EXCEPT !.edited = TRUE] \in Press
                     /\ [x EXCEPT !.edited = TRUE].pc = x.pc
                     /\ [x EXCEPT !.edited = TRUE].token = x.token
          BY DEF Press
        <4>2. \A p \in Presses : press[p] \in Press
          BY <1>0
        <4>3. press' = [p \in Presses |->
                          IF press[p].token = k /\ press[p].pc = "defer"
                          THEN [press[p] EXCEPT !.edited = TRUE] ELSE press[p]]
          BY <1>2, <3>1 DEF SubmitModal
        <4> QED
          BY <1>0, <4>1, <4>2, <4>3
      <3>2. CASE ~Live(k)
        BY <1>0, <1>2, <3>2 DEF SubmitModal
      <3> QED
        BY <3>1, <3>2
    <2> HIDE DEF d
    <2> QED
      BY <2>1, <2>2, <2>3, DialogTypes
  <1>3. ASSUME NEW k \in Tokens, HandleEdit(k) PROVE ProcessOK'
    <2> DEFINE d == [dialog[k] EXCEPT !.modal = TRUE]
    <2>0. dialog[k] \in Dialog
      BY <1>3, LiveDialog DEF HandleEdit, Live
    <2>1. d \in Dialog
      BY <2>0 DEF Dialog
    <2>2. dialog' = [dialog EXCEPT ![k] = d] /\ press' = press
      BY <1>3 DEF HandleEdit, ShowModal
    <2> HIDE DEF d
    <2> QED
      BY <1>0, <2>1, <2>2, DialogTypes
  <1>4. ASSUME NEW k \in Tokens, NEW p \in Presses, HandleAccept(p, k) PROVE ProcessOK'
    <2>0. dialog[k] \in Dialog /\ Begun(k)
      BY <1>4, LiveDialog DEF HandleAccept
    <2> DEFINE x == IF Live(k) THEN [NoPress EXCEPT !.pc = "defer", !.token = k,
                                       !.seen = dialog[k].draft, !.beside = InFlight(k)]
                    ELSE [NoPress EXCEPT !.pc = "expired", !.token = k]
    <2>1. InFlight(k) \subseteq Presses /\ dialog[k].draft \in Contents
      BY <2>0 DEF InFlight, Dialog
    <2>2. x \in Press /\ x.token = k
      BY <2>1 DEF NoPress, Press
    <2>3. press' = [press EXCEPT ![p] = x] /\ dialog' = dialog
      BY <1>4 DEF HandleAccept
    <2> HIDE DEF x
    <2> QED
      BY <2>0, <2>2, <2>3, PressTypes
  <1>5. ASSUME NEW p \in Presses, Deferred(p) PROVE ProcessOK'
    <2> DEFINE k == press[p].token
               x == [press[p] EXCEPT !.pc = "call", !.sent = dialog[k].draft]
    <2>1. k \in Tokens /\ Begun(k)
      BY <1>5 DEF Deferred, ProcessOK, DialogsOK
    <2>2. dialog[k].draft \in Contents
      BY <2>1, LiveDialog DEF Dialog
    <2>3. press[p] \in Press
      BY <1>0
    <2>4. x \in Press
      BY <2>2, <2>3 DEF Press
    <2>5. x.token = k
      BY <2>3 DEF Press
    <2>6. press' = [press EXCEPT ![p] = x] /\ dialog' = dialog
      BY <1>0, <1>5 DEF Deferred
    <2> HIDE DEF x, k
    <2> QED
      BY <2>1, <2>4, <2>5, <2>6, PressTypes
  <1>6. ASSUME NEW p \in Presses, Answer(p) PROVE ProcessOK'
    <2> DEFINE k == press[p].token
               d == [dialog[k] EXCEPT !.live = FALSE]
               x == [press[p] EXCEPT !.pc = "done"]
    <2>1. k \in Tokens /\ Begun(k)
      BY <1>6 DEF Answer, Returned, ProcessOK, DialogsOK
    <2>2. d \in Dialog
      BY <2>1, LiveDialog DEF Dialog
    <2>3. press[p] \in Press
      BY <1>0
    <2>4. x \in Press /\ x.token = k /\ press[p].pc # "none"
      BY <1>6, <2>3 DEF Press, Answer, Returned
    <2>5. dialog' = [dialog EXCEPT ![k] = d] /\ press' = [press EXCEPT ![p] = x]
      BY <1>6, <2>1 DEF Answer, Delete, ProcessOK, DialogsOK
    <2>6. k = press[p].token
      OBVIOUS
    <2> HIDE DEF x, k, d
    <2>7. press' \in [Presses -> Press]
      BY <1>0, <2>4, <2>5
    <2>8. \A q \in Presses : press'[q].pc # "none" =>
            press'[q].token = press[q].token /\ press[q].pc # "none"
      BY <1>0, <2>4, <2>5, <2>6
    <2> QED
      BY <2>1, <2>2, <2>5, <2>7, <2>8, DialogTypes
  <1>7. ASSUME NEW k \in Tokens, Expire(k) PROVE ProcessOK'
    <2> DEFINE d == [dialog[k] EXCEPT !.live = FALSE]
    <2>1. d \in Dialog
      BY <1>7, LiveDialog DEF Expire, Live, Dialog
    <2>2. dialog' = [dialog EXCEPT ![k] = d] /\ press' = press
      BY <1>7 DEF Expire, Delete, ProcessOK, DialogsOK
    <2> HIDE DEF d
    <2> QED
      BY <1>0, <2>1, <2>2, DialogTypes
  <1> QED
    BY <1>1, <1>2, <1>3, <1>4, <1>5, <1>6, <1>7 DEF Command, Interaction

LEMMA CreateTypes ==
  ASSUME ProcessOK, NEW p \in Presses, CreateDestination(p), UNCHANGED guildVars
  PROVE  ProcessOK'
  <1> DEFINE x == [press[p] EXCEPT !.created = TRUE]
  <1>1. press[p] \in Press
    BY DEF ProcessOK, DialogsOK
  <1>2. x \in Press /\ x.pc = press[p].pc /\ x.token = press[p].token
    BY <1>1 DEF Press
  <1>3. press' = [press EXCEPT ![p] = x] /\ dialog' = dialog
    BY DEF CreateDestination
  <1>4. x.pc # "none" => x.token \in Tokens /\ Begun(x.token)
    BY <1>2 DEF ProcessOK, DialogsOK
  <1> HIDE DEF x
  <1> QED
    BY <1>2, <1>3, <1>4, PressTypes

Handler == [pc: {"idle", "join", "leave"}, guild: Guilds \cup {NoKey}, seen: SUBSET Guilds]

LEMMA MoveTypes ==
  ASSUME GuildsOK, NEW pc \in {"join", "leave"}, NEW g \in Guilds, Move(pc, g),
         member' \subseteq Guilds
  PROVE  GuildsOK'
  <1>1. /\ list' = list /\ up' = up /\ listening' = listening
        /\ moves' \in Nat
    BY DEF Move, GuildsOK
  <1>2. steady' \in BOOLEAN
    BY DEF Move, Heard, Missed
  <1>3. handler' \in [Handlers -> Handler]
    <2>1. Read \subseteq Guilds
      BY DEF Read, GuildsOK
    <2>2. [pc |-> pc, guild |-> g, seen |-> Read] \in Handler
      BY <2>1 DEF Handler
    <2>3. handler \in [Handlers -> Handler]
      BY DEF GuildsOK, Handler
    <2> QED
      BY <2>2, <2>3 DEF Move
  <1>4. \A h \in Working' : listening' /\ handler'[h].guild \in Guilds
    BY DEF Move, GuildsOK, Working
  <1> QED
    BY <1>1, <1>2, <1>3, <1>4 DEF GuildsOK, Handler

LEMMA GuildTypes ==
  ASSUME GuildsOK, AnyGuildStep
  PROVE  GuildsOK' /\ (listening => listening')
  <1>1. CASE \E g \in Guilds : Join(g) \/ Leave(g)
    <2>1. PICK g \in Guilds : Join(g) \/ Leave(g)
      BY <1>1
    <2>2. CASE Join(g)
      BY <2>2, MoveTypes DEF Join, GuildsOK, Move
    <2>3. CASE Leave(g)
      BY <2>3, MoveTypes DEF Leave, GuildsOK, Move
    <2> QED
      BY <2>1, <2>2, <2>3
  <1>2. CASE \E h \in Handlers : Write(h)
    <2>1. PICK h \in Handlers : Write(h)
      BY <1>2
    <2>2. handler[h] \in Handler /\ handler[h].pc # "idle"
      BY <2>1 DEF Write, GuildsOK, Handler
    <2>3. handler[h].guild \in Guilds
      BY <2>1, <2>2 DEF Write, GuildsOK, Working
    <2>4. list' \subseteq Guilds
      BY <2>1, <2>2, <2>3 DEF Write, Handler
    <2>5. Idle \in Handler /\ Idle.pc = "idle"
      BY DEF Idle, Handler
    <2>6. handler \in [Handlers -> Handler] /\ handler' = [handler EXCEPT ![h] = Idle]
      BY <2>1 DEF Write, GuildsOK, Handler
    <2>7. handler' \in [Handlers -> Handler]
      BY <2>5, <2>6
    <2>8. \A i \in Working' : listening' /\ handler'[i].guild \in Guilds
      BY <2>1, <2>5, <2>6 DEF GuildsOK, Working, Write
    <2>9. UNCHANGED <<member, up, listening, moves, steady>>
      BY <2>1 DEF Write
    <2> QED
      BY <2>4, <2>7, <2>8, <2>9 DEF GuildsOK, Handler
  <1>3. CASE StartBot \/ RegisterListeners \/ AskGuildIds \/ LoseKey
    <2>1. /\ member' = member /\ handler' = handler /\ moves' = moves
          /\ list' \in {member, list, NoKey}
      BY <1>3 DEF StartBot, RegisterListeners, AskGuildIds, LoseKey, WriteAll
    <2>2. steady' \in BOOLEAN
      BY <1>3 DEF StartBot, RegisterListeners, AskGuildIds, LoseKey, GuildsOK
    <2>3. up' \in BOOLEAN /\ (up => up')
      BY <1>3 DEF StartBot, RegisterListeners, AskGuildIds, LoseKey, GuildsOK
    <2>4. listening' = listening \/ (listening' = TRUE /\ up)
      BY <1>3 DEF StartBot, RegisterListeners, AskGuildIds, LoseKey
    <2>6. listening' \in BOOLEAN /\ (listening => listening')
      BY <2>4 DEF GuildsOK
    <2>5. listening' => up'
      BY <2>3, <2>4 DEF GuildsOK
    <2> QED
      BY <2>1, <2>2, <2>3, <2>5, <2>6 DEF GuildsOK, Working
  <1> QED
    BY <1>1, <1>2, <1>3 DEF GuildStep, AnyGuildStep

LEMMA CrashTypes ==
  ASSUME ProcessOK, Crash
  PROVE  ProcessOK' /\ (\A k \in Tokens : ~Live(k)')
                 /\ (\A p \in Presses : press'[p].pc \notin {"defer", "call"})
  <1>1. \A k \in Tokens : dialog'[k] \in Dialog \cup {Null} /\ ~Live(k)'
                          /\ (Begun(k) => Begun(k)')
    <2> TAKE k \in Tokens
    <2>1. dialog'[k] = IF Begun(k) THEN [dialog[k] EXCEPT !.live = FALSE] ELSE Null
      BY DEF Crash, LoseDrafts
    <2>2. CASE Begun(k)
      <3>1. dialog[k] \in Dialog
        BY <2>2, LiveDialog
      <3>2. [dialog[k] EXCEPT !.live = FALSE] \in Dialog
        BY <3>1 DEF Dialog
      <3>3. [dialog[k] EXCEPT !.live = FALSE].live = FALSE
        BY <3>1 DEF Dialog
      <3> QED
        BY <2>1, <2>2, <3>2, <3>3, NullOK DEF Begun, Live
    <2>3. CASE ~Begun(k)
      BY <2>1, <2>3 DEF Begun, Live
    <2> QED
      BY <2>2, <2>3
  <1>2. \A p \in Presses : /\ press'[p] \in Press
                           /\ press'[p].pc \notin {"defer", "call"}
                           /\ press'[p].token = press[p].token
                           /\ press'[p].pc # "none" => press[p].pc # "none"
    <2> TAKE p \in Presses
    <2>1. press'[p] = IF press[p].pc \in {"defer", "call"}
                      THEN [press[p] EXCEPT !.pc = "done"] ELSE press[p]
      BY DEF Crash, LoseDrafts
    <2>2. press[p] \in Press
      BY DEF ProcessOK, DialogsOK
    <2> QED
      BY <2>1, <2>2 DEF Press
  <1>3. DialogsOK'
    <2>1. dialog' \in [Tokens -> Dialog \cup {Null}]
      BY <1>1 DEF Crash, LoseDrafts
    <2>2. press' \in [Presses -> Press]
      BY <1>2 DEF Crash, LoseDrafts
    <2>3. \A p \in Presses : press'[p].pc # "none" =>
            press'[p].token \in Tokens /\ dialog'[press'[p].token] # Null
      BY <1>1, <1>2 DEF ProcessOK, DialogsOK, Begun
    <2> QED
      BY <2>1, <2>2, <2>3 DEF DialogsOK, Begun
  <1>4. GuildsOK'
    <2>1. Idle \in Handler /\ Idle.pc = "idle"
      BY DEF Idle, Handler
    <2> QED
      BY <2>1 DEF Crash, StopBot, ProcessOK, GuildsOK, Handler, Working
  <1> QED
    BY <1>1, <1>2, <1>3, <1>4 DEF ProcessOK

LEMMA StepTypes == ProcessOK /\ [Next]_vars => ProcessOK'
  <1> SUFFICES ASSUME ProcessOK, [Next]_vars PROVE ProcessOK'
    OBVIOUS
  <1>1. CASE listening /\ (Command \/ Interaction) /\ UNCHANGED guildVars
    BY <1>1, InteractionTypes
  <1>2. CASE (\E p \in Presses : CreateDestination(p)) /\ UNCHANGED guildVars
    BY <1>2, CreateTypes
  <1>3. CASE AnyGuildStep /\ UNCHANGED dialogVars
    <2>1. GuildsOK' /\ (listening => listening')
      BY <1>3, GuildTypes DEF ProcessOK
    <2>2. dialog' = dialog /\ press' = press
      BY <1>3 DEF dialogVars
    <2> QED
      BY <2>1, <2>2 DEF ProcessOK, DialogsOK, Begun, Live
  <1>4. CASE Crash
    BY <1>4, CrashTypes
  <1>5. CASE UNCHANGED <<dialogVars, guildVars>>
    <2>1. dialog' = dialog /\ press' = press /\ UNCHANGED guildVars
      BY <1>5 DEF dialogVars
    <2> QED
      BY <2>1 DEF ProcessOK, DialogsOK, GuildsOK, guildVars, Begun, Live, Working
  <1> QED
    BY <1>1, <1>2, <1>3, <1>4, <1>5, ListGuildStep DEF Next, vars, listVars

-----------------------------------------------------------------------------
(* The lists of channels                                                    *)

LEMMA InitChannelInv == Init => ChannelInv
  BY DEF Init, InitChannels, InitGuilds, ChannelInv, ChannelsOK, Listed

\* A list is written, of guilds that are written as the bot has them.
LEMMA SyncKeeps ==
  ASSUME ChannelInv, NEW G, SyncGuild(G), member' = member, up' = up \/ Watched \subseteq G
  PROVE  ChannelInv'
  <1>1. channels' = [g \in Watched |-> IF g \in G \cap member THEN "same" ELSE channels[g]]
        /\ excused' = excused \ (G \cap member)
    BY DEF SyncGuild
  <1> QED
    BY <1>1 DEF ChannelInv, ChannelsOK, Listed

LEMMA ChangeKeeps ==
  ASSUME ChannelInv, GuildsOK, NEW g \in Watched, ChangeChannels(g)
  PROVE  ChannelInv'
  <1>1. UNCHANGED <<member, up, listening>>
    BY DEF ChangeChannels, guildVars
  <1>2. CASE listening /\ g \in member
    BY <1>1, <1>2, SyncKeeps DEF ChangeChannels
  <1>3. CASE ~(listening /\ g \in member)
    BY <1>1, <1>3 DEF ChangeChannels, GetsOld, ChannelInv, ChannelsOK, Listed
  <1> QED
    BY <1>2, <1>3

LEMMA NextChannelInv == ProcessOK /\ ChannelInv /\ [Next]_vars => ChannelInv'
  <1> SUFFICES ASSUME ProcessOK, ChannelInv, [Next]_vars PROVE ChannelInv'
    OBVIOUS
  <1>1. CASE UNCHANGED listVars
    BY <1>1 DEF listVars, guildVars, channelVars, ChannelInv, ChannelsOK, Listed
  <1>2. CASE GuildStep /\ UNCHANGED channelVars
    <2>1. /\ up' = up /\ (member' = member \/ \E g \in Guilds : member' = member \cup {g} /\ g \notin member)
          /\ UNCHANGED <<channels, excused>>
      BY <1>2 DEF GuildStep, Join, Move, Write, RegisterListeners, AskGuildIds, channelVars
    <2> QED
      BY <2>1 DEF ChannelInv, ChannelsOK, Listed
  <1>3. CASE \E g \in Guilds : Leave(g) /\ LeaveChannels(g)
    <2>1. PICK g \in Guilds : Leave(g) /\ LeaveChannels(g)
      BY <1>3
    <2>2. /\ up' = up /\ member' = member \ {g} /\ channels' = channels
          /\ excused' = excused \cup ({g} \cap Listed)
      BY <2>1 DEF Leave, Move, LeaveChannels
    <2> QED
      BY <2>2 DEF ChannelInv, ChannelsOK, Listed
  <1>4. CASE StartBot /\ SyncAll
    BY <1>4, SyncKeeps DEF StartBot, SyncAll
  <1>5. CASE LoseKey /\ LoseChannels
    BY <1>5 DEF LoseKey, LoseChannels, ChannelInv, ChannelsOK, Listed
  <1>6. CASE \E g \in Watched : ChangeChannels(g) \/ AskChannels(g) \/ ExpireChannels(g)
    <2>1. PICK g \in Watched : ChangeChannels(g) \/ AskChannels(g) \/ ExpireChannels(g)
      BY <1>6
    <2>2. CASE ChangeChannels(g)
      BY <2>2, ChangeKeeps DEF ProcessOK
    <2>3. CASE AskChannels(g)
      BY <2>3, SyncKeeps DEF AskChannels, guildVars
    <2>4. CASE ExpireChannels(g)
      BY <2>4 DEF ExpireChannels, guildVars, ChannelInv, ChannelsOK, Listed
    <2> QED
      BY <2>1, <2>2, <2>3, <2>4
  <1>7. CASE Crash
    BY <1>7 DEF Crash, StopBot, channelVars, ChannelInv, ChannelsOK, Listed
  <1> QED
    BY <1>1, <1>2, <1>3, <1>4, <1>5, <1>6, <1>7 DEF Next, ListStep, vars

\* However channels change, lists expire, the key is lost, guilds are left and
\* joined and the bot restarts, the channels the api is given are the bot's, but for
\* what the excuse of ChannelsInStep says.
THEOREM ChannelsStayInStep == Spec => []ChannelsInStep
  <1>1. ProcessOK /\ ChannelInv => ChannelsInStep
    BY DEF ProcessOK, GuildsOK, ChannelInv, ChannelsInStep
  <1> QED
    BY <1>1, InitTypes, StepTypes, InitChannelInv, NextChannelInv, PTL DEF Spec

\* Whatever the interleaving of interactions, joins, restarts and late answers,
\* what a handler goes on with is what it left, and only a bot that listens has
\* dialogs.
THEOREM TypeCorrect == Spec => []TypeOK
  <1>1. ProcessOK /\ ChannelInv => TypeOK
    BY DEF ProcessOK, ChannelInv, TypeOK
  <1> QED
    BY <1>1, InitTypes, StepTypes, InitChannelInv, NextChannelInv, PTL DEF Spec
-----------------------------------------------------------------------------
(* The list of guilds                                                       *)

LEMMA SteadyMove ==
  ASSUME GuildsOK, SteadyInv, NEW pc \in {"join", "leave"}, NEW g \in Guilds, Move(pc, g),
         IF pc = "join" THEN member' = member \cup {g} ELSE member' = member \ {g}
  PROVE  SteadyInv'
  <1> SUFFICES ASSUME up', steady'
               PROVE  /\ \A h, i \in Working' : h = i
                      /\ \A h \in Working' :
                           IF handler'[h].pc = "join"
                           THEN member' = handler'[h].seen \cup {handler'[h].guild}
                           ELSE member' = handler'[h].seen \ {handler'[h].guild}
                      /\ Working' = {} => list' = NoKey \/ list' = member'
    BY DEF SteadyInv
  <1>1. listening /\ Heard
    BY DEF Move, Missed
  <1>2. up /\ steady /\ Working = {} /\ list # NoKey
    BY <1>1 DEF Heard, Move, GuildsOK
  <1>3. list = member
    BY <1>2 DEF SteadyInv
  <1>4. PICK h \in Handlers : handler' = [handler EXCEPT ![h] =
                                            [pc |-> pc, guild |-> g, seen |-> Read]]
    BY <1>1 DEF Move
  <1>5. Read = member
    BY <1>2, <1>3 DEF Read
  <1>6. Working' = {h}
    <2>1. \A i \in Handlers : handler[i].pc = "idle"
      BY <1>2 DEF Working
    <2> QED
      BY <1>4, <2>1 DEF Working, GuildsOK
  <1>7. handler'[h] = [pc |-> pc, guild |-> g, seen |-> member]
    BY <1>4, <1>5 DEF GuildsOK
  <1> QED
    BY <1>6, <1>7

LEMMA SteadyStep ==
  ASSUME GuildsOK, SteadyInv, AnyGuildStep
  PROVE  SteadyInv'
  <1>1. CASE \E g \in Guilds : Join(g) \/ Leave(g)
    <2>1. PICK g \in Guilds : Join(g) \/ Leave(g)
      BY <1>1
    <2>2. CASE Join(g)
      BY <2>2, SteadyMove DEF Join
    <2>3. CASE Leave(g)
      BY <2>3, SteadyMove DEF Leave
    <2> QED
      BY <2>1, <2>2, <2>3
  <1>2. CASE \E h \in Handlers : Write(h)
    <2>1. PICK h \in Handlers : Write(h)
      BY <1>2
    <2>2. h \in Working /\ UNCHANGED <<member, up, steady>>
      BY <2>1 DEF Write, Working
    <2>3. Working' = Working \ {h}
      BY <2>1 DEF Write, Working, GuildsOK, Idle
    <2>4. ASSUME up, steady PROVE Working' = {} /\ list' = member
      <3>1. Working = {h}
        BY <2>2, <2>4 DEF SteadyInv
      <3>2. IF handler[h].pc = "join"
            THEN member = handler[h].seen \cup {handler[h].guild}
            ELSE member = handler[h].seen \ {handler[h].guild}
        BY <2>2, <2>4 DEF SteadyInv
      <3> QED
        BY <2>1, <2>3, <3>1, <3>2 DEF Write
    <2> QED
      BY <2>2, <2>4 DEF SteadyInv
  <1>3. CASE StartBot
    <2>1. Working = {}
      BY <1>3 DEF StartBot, GuildsOK
    <2> QED
      BY <1>3, <2>1 DEF StartBot, WriteAll, SteadyInv, Working
  <1>4. CASE RegisterListeners
    BY <1>4 DEF RegisterListeners, SteadyInv, Working
  <1>5. CASE AskGuildIds
    <2>1. UNCHANGED <<member, handler, up>> /\ list' = member /\ Working' = Working
      BY <1>5 DEF AskGuildIds, WriteAll, Working
    <2>2. steady' => steady \/ Working = {}
      BY <1>5 DEF AskGuildIds
    <2> QED
      BY <2>1, <2>2 DEF SteadyInv
  <1>6. CASE LoseKey
    BY <1>6 DEF LoseKey, SteadyInv, Working
  <1> QED
    BY <1>1, <1>2, <1>3, <1>4, <1>5, <1>6 DEF GuildStep, AnyGuildStep

LEMMA NextSteady == ProcessOK /\ SteadyInv /\ [Next]_vars => SteadyInv'
  <1> SUFFICES ASSUME ProcessOK, SteadyInv, [Next]_vars PROVE SteadyInv'
    OBVIOUS
  <1>1. CASE UNCHANGED guildVars
    BY <1>1 DEF guildVars, SteadyInv, Working
  <1>2. CASE AnyGuildStep
    BY <1>2, SteadyStep DEF ProcessOK
  <1>3. CASE Crash
    BY <1>3 DEF Crash, StopBot, SteadyInv
  <1> QED
    BY <1>1, <1>2, <1>3, ListGuildStep DEF Next, vars, listVars

\* Whatever the order of joins, leaves, writes, restarts and losses of the key,
\* the api sees the bot's guilds while no event was missed or crossed.
THEOREM ListStaysInStep == Spec => []ListInStep
  <1>1. Init => SteadyInv
    BY DEF Init, InitGuilds, SteadyInv
  <1>2. SteadyInv => ListInStep
    BY DEF SteadyInv, ListInStep
  <1>3. Init => ProcessOK
    BY InitTypes
  <1> QED
    BY <1>1, <1>2, <1>3, StepTypes, NextSteady, PTL DEF Spec

-----------------------------------------------------------------------------
(* What is created                                                          *)

\* What a step may do to a press that is not about to be made.
Kept(p) ==
  /\ press'[p].token = press[p].token /\ press'[p].seen = press[p].seen
  /\ press'[p].beside = press[p].beside

LEMMA FreshOK ==
  /\ NoPress.created = FALSE /\ NoPress.sent = Null /\ NoPress.pc = "none"
  /\ NoPress.edited = FALSE
  BY DEF NoPress

\* A step that makes no press: nothing is accepted anew, no draft comes back to
\* life, and a press is done when its draft is gone.
LEMMA OnceKept ==
  ASSUME ProcessOK, OnceInv,
         \A p \in Presses :
           /\ Kept(p)
           /\ Accepted(p)' <=> Accepted(p)
           /\ press'[p].created => press[p].created \/ press[p].sent # Null
           /\ press'[p].sent # Null => Accepted(p),
         \A p \in Presses, k \in Tokens :
           press'[p].pc = "done" /\ press[p].pc # "done" /\ press[p].token = k => ~Live(k)',
         \A k \in Tokens : Begun(k) /\ ~Live(k) => ~Live(k)'
  PROVE  OnceInv'
  <1>1. (\A p \in Presses : press[p].pc = "done" => ~Live(press[p].token))'
    <2> SUFFICES ASSUME NEW p \in Presses, press'[p].pc = "done"
                 PROVE  (~Live(press[p].token))'
      OBVIOUS
    <2>1. press[p].token \in Tokens /\ Begun(press[p].token)
      <3>1. Accepted(p)
        BY DEF Accepted
      <3> QED
        BY <3>1 DEF Accepted, ProcessOK, DialogsOK
    <2>2. PICK k \in Tokens : k = press[p].token
      BY <2>1
    <2>3. ~Live(k)'
      <3>1. CASE press[p].pc = "done"
        <4>1. ~Live(k)
          BY <2>2, <3>1 DEF OnceInv
        <4> QED
          BY <2>1, <2>2, <4>1
      <3>2. CASE press[p].pc # "done"
        BY <2>2, <3>2
      <3> QED
        BY <3>1, <3>2
    <2>4. press'[p].token = k
      BY <2>2 DEF Kept
    <2> QED
      BY <2>3, <2>4 DEF Live, Begun
  <1>2. ASSUME NEW p \in Presses, NEW q \in Presses, p # q, Accepted(p)', Accepted(q)',
               press'[p].token = press'[q].token
        PROVE  p \in press'[q].beside \/ q \in press'[p].beside
    <2>1. Accepted(p) /\ Accepted(q) /\ press[p].token = press[q].token
      BY <1>2 DEF Kept
    <2>2. p \in press[q].beside \/ q \in press[p].beside
      BY <1>2, <2>1 DEF OnceInv
    <2> QED
      BY <2>2 DEF Kept
  <1>3. \A p \in Presses : press'[p].created => Accepted(p)'
    BY DEF OnceInv
  <1>4. \A p \in Presses : press'[p].sent # Null => Accepted(p)'
    OBVIOUS
  <1> QED
    BY <1>1, <1>2, <1>3, <1>4 DEF OnceInv

\* The same for the draft: it is what was on the screen, or the press was edited.
LEMMA ShownKept ==
  ASSUME ProcessOK, ShownInv,
         \A p \in Presses :
           /\ Kept(p)
           /\ press'[p].sent = press[p].sent
           /\ press[p].edited => press'[p].edited
           /\ press'[p].pc = "defer" => press[p].pc = "defer",
         \A p \in Presses, k \in Tokens :
           press'[p].pc = "defer" /\ press[p].token = k =>
             dialog'[k].draft = dialog[k].draft \/ press'[p].edited
  PROVE  ShownInv'
  <1>1. AcceptedAsShown'
    BY DEF Kept, ShownInv, AcceptedAsShown
  <1>2. (\A p \in Presses : press[p].pc = "defer" =>
           dialog[press[p].token].draft = press[p].seen \/ press[p].edited)'
    <2> SUFFICES ASSUME NEW p \in Presses, press'[p].pc = "defer"
                 PROVE  (dialog[press[p].token].draft = press[p].seen \/ press[p].edited)'
      OBVIOUS
    <2>1. press[p].token \in Tokens
      BY DEF ProcessOK, DialogsOK
    <2>2. PICK k \in Tokens : k = press[p].token
      BY <2>1
    <2>3. dialog[k].draft = press[p].seen \/ press[p].edited
      BY <2>2 DEF ShownInv
    <2>4. dialog'[k].draft = dialog[k].draft \/ press'[p].edited
      BY <2>2
    <2> QED
      BY <2>2, <2>3, <2>4 DEF Kept
  <1> QED
    BY <1>1, <1>2 DEF ShownInv

\* A step that leaves the presses alone, and whose dialog keeps its draft.
LEMMA DialogStep ==
  ASSUME ProcessOK, OnceInv, ShownInv, press' = press,
         NEW k \in Tokens, NEW d \in Dialog, dialog' = [dialog EXCEPT ![k] = d],
         Begun(k) => d.draft = dialog[k].draft /\ (d.live => Live(k))
  PROVE  OnceInv' /\ ShownInv'
  <1>1. \A j \in Tokens : Begun(j) => dialog'[j].draft = dialog[j].draft
    BY DEF ProcessOK, DialogsOK
  <1>2. \A j \in Tokens : Begun(j) /\ ~Live(j) => ~Live(j)'
    BY DEF ProcessOK, DialogsOK, Live, Begun
  <1>3. \A p \in Presses : Kept(p) /\ (Accepted(p)' <=> Accepted(p))
    BY DEF Kept, Accepted
  <1>4. OnceInv'
    BY <1>2, <1>3, OnceKept DEF OnceInv
  <1>5. \A p \in Presses : press[p].pc = "defer" => Begun(press[p].token)
    BY DEF ProcessOK, DialogsOK
  <1>6. ShownInv'
    BY <1>1, <1>3, <1>5, ShownKept
  <1> QED
    BY <1>4, <1>6

LEMMA AddDestinationSafe ==
  ASSUME ProcessOK, OnceInv, ShownInv, NEW k \in Tokens, AddDestination(k)
  PROVE  OnceInv' /\ ShownInv'
  <1> DEFINE d == [Created(Default) EXCEPT !.modal = TRUE]
  <1>1. d \in Dialog
    BY DraftConstants DEF Created, Dialog
  <1>2. dialog' = [dialog EXCEPT ![k] = d] /\ press' = press /\ ~Begun(k)
    BY DEF AddDestination, ShowModal
  <1> HIDE DEF d
  <1> QED
    BY <1>1, <1>2, DialogStep

LEMMA HandleEditSafe ==
  ASSUME ProcessOK, OnceInv, ShownInv, NEW k \in Tokens, HandleEdit(k)
  PROVE  OnceInv' /\ ShownInv'
  <1> DEFINE d == [dialog[k] EXCEPT !.modal = TRUE]
  <1>1. dialog[k] \in Dialog
    BY LiveDialog DEF HandleEdit, Live
  <1>2. d \in Dialog /\ d.draft = dialog[k].draft
    BY <1>1 DEF Dialog
  <1>3. dialog' = [dialog EXCEPT ![k] = d] /\ press' = press /\ Live(k)
    BY DEF HandleEdit, ShowModal
  <1> HIDE DEF d
  <1> QED
    BY <1>2, <1>3, DialogStep

LEMMA ExpireSafe ==
  ASSUME ProcessOK, OnceInv, ShownInv, NEW k \in Tokens, Expire(k)
  PROVE  OnceInv' /\ ShownInv'
  <1> DEFINE d == [dialog[k] EXCEPT !.live = FALSE]
  <1>1. dialog[k] \in Dialog
    BY LiveDialog DEF Expire, Live
  <1>2. d \in Dialog /\ d.draft = dialog[k].draft
    BY <1>1 DEF Dialog
  <1>3. dialog' = [dialog EXCEPT ![k] = d] /\ press' = press /\ Live(k)
    BY DEF Expire, Delete, ProcessOK, DialogsOK
  <1> HIDE DEF d
  <1> QED
    BY <1>2, <1>3, DialogStep

\* A press is edited with the draft it will send.
LEMMA SubmitModalSafe ==
  ASSUME ProcessOK, OnceInv, ShownInv, NEW k \in Tokens, NEW c \in Contents, SubmitModal(k, c)
  PROVE  OnceInv' /\ ShownInv'
  <1> DEFINE d == [Updated(k, c) EXCEPT !.modal = FALSE, !.shown = @ \/ Live(k)]
  <1>0. dialog[k] \in Dialog
    BY LiveDialog DEF SubmitModal
  <1>1. Updated(k, c) \in Dialog
    BY <1>0 DEF Updated, Dialog
  <1>2. Updated(k, c).live = dialog[k].live /\ (~Live(k) => Updated(k, c).draft = dialog[k].draft)
    BY <1>0 DEF Updated, Dialog
  <1>3. (Updated(k, c).shown \/ Live(k)) \in BOOLEAN
    OBVIOUS
  <1>4. d \in Dialog
    BY <1>1, <1>3 DEF Dialog
  <1>5. d.live = Updated(k, c).live
    BY <1>1, <1>3 DEF Dialog
  <1>6. d.draft = Updated(k, c).draft
    BY <1>1, <1>3 DEF Dialog
  <1>7. dialog' = [dialog EXCEPT ![k] = d]
    BY DEF SubmitModal
  <1>8. d.live => Live(k)
    BY <1>2, <1>5 DEF Live, SubmitModal
  <1> HIDE DEF d
  <1>9. CASE ~Live(k)
    <2>1. press' = press
      BY <1>9 DEF SubmitModal
    <2> QED
      BY <1>2, <1>4, <1>6, <1>7, <1>8, <1>9, <2>1, DialogStep
  <1>10. CASE Live(k)
    <2>1. \A p \in Presses : press[p] \in Press
      BY DEF ProcessOK, DialogsOK
    <2>2. \A p \in Presses : /\ Kept(p) /\ press'[p].sent = press[p].sent
                             /\ press'[p].pc = press[p].pc
                             /\ press'[p].created = press[p].created
                             /\ press'[p].edited = (press[p].edited
                                  \/ (press[p].token = k /\ press[p].pc = "defer"))
      <3> TAKE p \in Presses
      <3>1. press'[p] = IF press[p].token = k /\ press[p].pc = "defer"
                        THEN [press[p] EXCEPT !.edited = TRUE] ELSE press[p]
        BY <1>10 DEF SubmitModal
      <3>2. press[p] \in Press
        BY <2>1
      <3>3. CASE press[p].token = k /\ press[p].pc = "defer"
        <4> DEFINE x == [press[p] EXCEPT !.edited = TRUE]
        <4>1. /\ x.token = press[p].token /\ x.seen = press[p].seen
              /\ x.beside = press[p].beside /\ x.sent = press[p].sent
              /\ x.pc = press[p].pc /\ x.created = press[p].created /\ x.edited = TRUE
          BY <3>2 DEF Press
        <4>2. press'[p] = x
          BY <3>1, <3>3
        <4> HIDE DEF x
        <4> QED
          BY <3>3, <4>1, <4>2 DEF Kept
      <3>4. CASE ~(press[p].token = k /\ press[p].pc = "defer")
        <4>1. press'[p] = press[p]
          BY <3>1, <3>4
        <4>2. press[p].edited \in BOOLEAN
          BY <3>2 DEF Press
        <4> QED
          BY <3>4, <4>1, <4>2 DEF Kept
      <3> QED
        BY <3>3, <3>4
    <2>3. \A p \in Presses : Accepted(p)' <=> Accepted(p)
      BY <2>2 DEF Accepted
    <2>4. \A j \in Tokens : Begun(j) /\ ~Live(j) => ~Live(j)'
      BY <1>7, <1>8 DEF ProcessOK, DialogsOK, Live, Begun
    <2>5. OnceInv'
      BY <2>2, <2>3, <2>4, OnceKept DEF OnceInv
    <2>6. \A p \in Presses, j \in Tokens :
            press'[p].pc = "defer" /\ press[p].token = j =>
              dialog'[j].draft = dialog[j].draft \/ press'[p].edited
      BY <1>7, <2>2 DEF ProcessOK, DialogsOK
    <2>7. ShownInv'
      BY <2>2, <2>6, ShownKept
    <2> QED
      BY <2>5, <2>7
  <1> QED
    BY <1>9, <1>10

\* A press of a draft that lives finds the accepted presses of it in flight: had
\* one been answered, the draft would be gone.
LEMMA HandleAcceptSafe ==
  ASSUME ProcessOK, OnceInv, ShownInv, NEW p \in Presses, NEW k \in Tokens, HandleAccept(p, k)
  PROVE  OnceInv' /\ ShownInv'
  <1> DEFINE x == IF Live(k) THEN [NoPress EXCEPT !.pc = "defer", !.token = k,
                                     !.seen = dialog[k].draft, !.beside = InFlight(k)]
                  ELSE [NoPress EXCEPT !.pc = "expired", !.token = k]
  <1>1. /\ x.token = k /\ x.sent = Null /\ x.created = FALSE
        /\ x.pc = IF Live(k) THEN "defer" ELSE "expired"
        /\ Live(k) => x.seen = dialog[k].draft /\ x.beside = InFlight(k)
    BY DEF NoPress
  <1>2. press' = [press EXCEPT ![p] = x] /\ dialog' = dialog /\ press[p].pc = "none"
    BY DEF HandleAccept
  <1> HIDE DEF x
  <1>3. press'[p] = x /\ \A q \in Presses \ {p} : press'[q] = press[q]
    BY <1>2 DEF ProcessOK, DialogsOK
  <1>4. ~Accepted(p)
    BY <1>2 DEF Accepted
  <1>5. \A q \in Presses \ {p} : Accepted(q)' <=> Accepted(q)
    BY <1>3 DEF Accepted
  <1>6. Accepted(p)' => Live(k) /\ x.pc = "defer"
    BY <1>1, <1>3 DEF Accepted
  <1>7. (\A q \in Presses : press[q].pc = "done" => ~Live(press[q].token))'
    <2> SUFFICES ASSUME NEW q \in Presses, press'[q].pc = "done"
                 PROVE  (~Live(press[q].token))'
      OBVIOUS
    <2>1. q # p
      BY <1>1, <1>3
    <2> QED
      BY <1>2, <1>3, <2>1 DEF OnceInv, Live, Begun
  <1>8. ASSUME NEW q \in Presses \ {p}, Accepted(p)', Accepted(q)', press[q].token = k
        PROVE  q \in press'[p].beside
    <2>1. Live(k) /\ Accepted(q)
      BY <1>5, <1>6, <1>8
    <2>2. press[q].pc # "done"
      BY <1>8, <2>1 DEF OnceInv
    <2>3. q \in InFlight(k)
      BY <1>8, <2>1, <2>2 DEF InFlight, Accepted
    <2> QED
      BY <1>1, <1>3, <2>1, <2>3
  <1>9. (\A q, r \in Presses :
           q # r /\ Accepted(q) /\ Accepted(r) /\ press[q].token = press[r].token =>
             q \in press[r].beside \/ r \in press[q].beside)'
    <2> SUFFICES ASSUME NEW q \in Presses, NEW r \in Presses, q # r,
                        Accepted(q)', Accepted(r)', press'[q].token = press'[r].token
                 PROVE  q \in press'[r].beside \/ r \in press'[q].beside
      OBVIOUS
    <2>1. CASE q = p
      BY <1>1, <1>3, <1>8, <2>1
    <2>2. CASE r = p
      BY <1>1, <1>3, <1>8, <2>2
    <2>3. CASE q # p /\ r # p
      BY <1>3, <1>5, <2>3 DEF OnceInv
    <2> QED
      BY <2>1, <2>2, <2>3
  <1>10. (\A q \in Presses : /\ press[q].created => Accepted(q)
                             /\ press[q].sent # Null => Accepted(q))'
    BY <1>1, <1>3, <1>5 DEF OnceInv
  <1>11. OnceInv'
    BY <1>7, <1>9, <1>10 DEF OnceInv
  <1>12. AcceptedAsShown'
    BY <1>1, <1>3 DEF ShownInv, AcceptedAsShown
  <1>13. (\A q \in Presses : press[q].pc = "defer" =>
            dialog[press[q].token].draft = press[q].seen \/ press[q].edited)'
    BY <1>1, <1>2, <1>3 DEF ShownInv
  <1> QED
    BY <1>11, <1>12, <1>13 DEF ShownInv

\* A step that changes one press that has been accepted, and no dialog's draft.
LEMMA PressStep ==
  ASSUME ProcessOK, OnceInv, NEW p \in Presses, Accepted(p), NEW x \in Press,
         press' = [press EXCEPT ![p] = x],
         x.pc \in {"defer", "call", "done"},
         x.token = press[p].token, x.seen = press[p].seen, x.beside = press[p].beside,
         \A k \in Tokens : x.pc = "done" /\ press[p].pc # "done" /\ press[p].token = k => ~Live(k)',
         \A k \in Tokens : Begun(k) /\ ~Live(k) => ~Live(k)'
  PROVE  OnceInv' /\ (\A q \in Presses : Kept(q)) /\ press'[p] = x
                  /\ (\A q \in Presses \ {p} : press'[q] = press[q])
  <1>1. press'[p] = x /\ \A q \in Presses \ {p} : press'[q] = press[q]
    BY DEF ProcessOK, DialogsOK
  <1>2. \A q \in Presses : Kept(q) /\ (Accepted(q)' <=> Accepted(q))
    BY <1>1 DEF Kept, Accepted
  <1>3. \A q \in Presses : /\ press'[q].created => press[q].created \/ Accepted(q)
                           /\ press'[q].sent # Null => Accepted(q)
    BY <1>1 DEF OnceInv
  <1>4. OnceInv'
    <2>1. (\A q \in Presses : press[q].pc = "done" => ~Live(press[q].token))'
      <3> SUFFICES ASSUME NEW q \in Presses, press'[q].pc = "done"
                   PROVE  (~Live(press[q].token))'
        OBVIOUS
      <3>1. press[q].token \in Tokens /\ Begun(press[q].token)
        <4>1. Accepted(q)
          BY <1>2 DEF Accepted
        <4> QED
          BY <4>1 DEF Accepted, ProcessOK, DialogsOK
      <3>2. PICK k \in Tokens : k = press[q].token
        BY <3>1
      <3>3. ~Live(k)'
        <4>1. CASE press[q].pc = "done"
          BY <3>1, <3>2, <4>1 DEF OnceInv
        <4>2. CASE press[q].pc # "done"
          BY <1>1, <3>2, <4>2
        <4> QED
          BY <4>1, <4>2
      <3>4. press'[q].token = k
        BY <1>2, <3>2 DEF Kept
      <3> QED
        BY <3>3, <3>4 DEF Live, Begun
    <2>2. (\A q, r \in Presses :
             q # r /\ Accepted(q) /\ Accepted(r) /\ press[q].token = press[r].token =>
               q \in press[r].beside \/ r \in press[q].beside)'
      BY <1>2 DEF OnceInv, Kept
    <2>3. (\A q \in Presses : press[q].created => Accepted(q))'
      BY <1>2, <1>3 DEF OnceInv
    <2>4. (\A q \in Presses : press[q].sent # Null => Accepted(q))'
      BY <1>2, <1>3
    <2> QED
      BY <2>1, <2>2, <2>3, <2>4 DEF OnceInv
  <1> QED
    BY <1>1, <1>2, <1>4

LEMMA DeferredSafe ==
  ASSUME ProcessOK, OnceInv, ShownInv, NEW p \in Presses, Deferred(p)
  PROVE  OnceInv' /\ ShownInv'
  <1> DEFINE s == dialog[press[p].token].draft
             x == [press[p] EXCEPT !.pc = "call", !.sent = s]
  <1>0. press[p] \in Press /\ press[p].pc = "defer" /\ dialog' = dialog
    BY DEF Deferred, ProcessOK, DialogsOK
  <1>1. s \in Contents
    BY <1>0, LiveDialog DEF ProcessOK, DialogsOK, Dialog
  <1>2. s = press[p].seen \/ press[p].edited
    BY <1>0 DEF ShownInv
  <1>3. press' = [press EXCEPT ![p] = x]
    BY DEF Deferred, ProcessOK, DialogsOK
  <1> HIDE DEF s
  <1>4. x \in Press
    BY <1>0, <1>1 DEF Press
  <1>5. /\ x.pc = "call" /\ x.token = press[p].token /\ x.seen = press[p].seen
        /\ x.beside = press[p].beside /\ x.edited = press[p].edited /\ x.sent = s
    BY <1>0, <1>1 DEF Press
  <1> HIDE DEF x
  <1>6. Accepted(p)
    BY <1>0 DEF Accepted
  <1>7. \A k \in Tokens : Live(k)' <=> Live(k)
    BY <1>0 DEF Live, Begun
  <1>8. /\ OnceInv' /\ (\A q \in Presses : Kept(q)) /\ press'[p] = x
        /\ \A q \in Presses \ {p} : press'[q] = press[q]
    BY <1>3, <1>4, <1>5, <1>6, <1>7, PressStep
  <1>9. AcceptedAsShown'
    BY <1>2, <1>5, <1>8 DEF ShownInv, AcceptedAsShown
  <1>10. (\A q \in Presses : press[q].pc = "defer" =>
            dialog[press[q].token].draft = press[q].seen \/ press[q].edited)'
    BY <1>0, <1>5, <1>8 DEF ShownInv
  <1> QED
    BY <1>8, <1>9, <1>10 DEF ShownInv

LEMMA AnswerSafe ==
  ASSUME ProcessOK, OnceInv, ShownInv, NEW p \in Presses, Answer(p)
  PROVE  OnceInv' /\ ShownInv'
  <1> DEFINE k == press[p].token
             d == [dialog[k] EXCEPT !.live = FALSE]
             x == [press[p] EXCEPT !.pc = "done"]
  <1>0. press[p] \in Press /\ press[p].pc = "call"
    BY DEF Answer, Returned, ProcessOK, DialogsOK
  <1>1. k \in Tokens /\ dialog[k] \in Dialog
    BY <1>0, LiveDialog DEF ProcessOK, DialogsOK
  <1>2. d.live = FALSE /\ d.draft = dialog[k].draft
    BY <1>1 DEF Dialog
  <1>3. x \in Press
    BY <1>0 DEF Press
  <1>4. /\ x.pc = "done" /\ x.token = k /\ x.seen = press[p].seen
        /\ x.beside = press[p].beside /\ x.edited = press[p].edited /\ x.sent = press[p].sent
    BY <1>0 DEF Press
  <1>5. press' = [press EXCEPT ![p] = x]
    BY DEF Answer
  <1>6. dialog' = [dialog EXCEPT ![k] = d]
    BY <1>1 DEF Answer, Delete, ProcessOK, DialogsOK
  <1>7. k = press[p].token
    OBVIOUS
  <1> HIDE DEF x, d, k
  <1>8. dialog'[k] = d /\ \A j \in Tokens \ {k} : dialog'[j] = dialog[j]
    BY <1>1, <1>6 DEF ProcessOK, DialogsOK
  <1>9. \A j \in Tokens : /\ j = k \/ ~Live(j) => ~Live(j)'
                          /\ dialog'[j].draft = dialog[j].draft
    BY <1>2, <1>8 DEF Live, Begun
  <1>10. Accepted(p)
    BY <1>0 DEF Accepted
  <1>11. /\ OnceInv' /\ (\A q \in Presses : Kept(q)) /\ press'[p] = x
         /\ \A q \in Presses \ {p} : press'[q] = press[q]
    BY <1>3, <1>4, <1>5, <1>7, <1>9, <1>10, PressStep
  <1>12. ShownInv'
    BY <1>4, <1>9, <1>11, ShownKept
  <1> QED
    BY <1>11, <1>12

LEMMA CreateSafe ==
  ASSUME ProcessOK, OnceInv, ShownInv, NEW p \in Presses, CreateDestination(p)
  PROVE  OnceInv' /\ ShownInv'
  <1> DEFINE x == [press[p] EXCEPT !.created = TRUE]
  <1>0. press[p] \in Press /\ dialog' = dialog
    BY DEF CreateDestination, ProcessOK, DialogsOK
  <1>1. Accepted(p)
    BY DEF CreateDestination, OnceInv
  <1>2. x \in Press
    BY <1>0 DEF Press
  <1>3. /\ x.pc = press[p].pc /\ x.token = press[p].token /\ x.seen = press[p].seen
        /\ x.beside = press[p].beside /\ x.edited = press[p].edited /\ x.sent = press[p].sent
    BY <1>0 DEF Press
  <1>4. press' = [press EXCEPT ![p] = x]
    BY DEF CreateDestination
  <1> HIDE DEF x
  <1>5. \A k \in Tokens : Live(k)' <=> Live(k)
    BY <1>0 DEF Live, Begun
  <1>6. /\ OnceInv' /\ (\A q \in Presses : Kept(q)) /\ press'[p] = x
        /\ \A q \in Presses \ {p} : press'[q] = press[q]
    BY <1>1, <1>2, <1>3, <1>4, <1>5, PressStep DEF Accepted
  <1>7. ShownInv'
    BY <1>0, <1>3, <1>6, ShownKept
  <1> QED
    BY <1>6, <1>7

LEMMA CrashSafe ==
  ASSUME ProcessOK, OnceInv, ShownInv, Crash
  PROVE  OnceInv' /\ ShownInv'
  <1>1. \A p \in Presses : /\ Kept(p) /\ press'[p].sent = press[p].sent
                           /\ press'[p].created = press[p].created
                           /\ press'[p].edited = press[p].edited
                           /\ Accepted(p)' <=> Accepted(p)
    <2> TAKE p \in Presses
    <2> DEFINE x == [press[p] EXCEPT !.pc = "done"]
    <2>1. press'[p] = IF press[p].pc \in {"defer", "call"} THEN x ELSE press[p]
      BY DEF Crash, LoseDrafts
    <2>2. /\ x.pc = "done" /\ x.token = press[p].token /\ x.seen = press[p].seen
          /\ x.beside = press[p].beside /\ x.edited = press[p].edited
          /\ x.sent = press[p].sent /\ x.created = press[p].created
      BY DEF ProcessOK, DialogsOK, Press
    <2> HIDE DEF x
    <2> QED
      BY <2>1, <2>2 DEF Kept, Accepted
  <1>2. /\ \A k \in Tokens : ~Live(k)'
        /\ \A p \in Presses : press'[p].pc # "defer"
    BY CrashTypes
  <1>3. OnceInv'
    BY <1>1, <1>2, OnceKept DEF OnceInv
  <1>4. ShownInv'
    BY <1>1, <1>2, ShownKept
  <1> QED
    BY <1>3, <1>4

LEMMA NextSafe == ProcessOK /\ OnceInv /\ ShownInv /\ [Next]_vars => OnceInv' /\ ShownInv'
  <1> SUFFICES ASSUME ProcessOK, OnceInv, ShownInv, [Next]_vars PROVE OnceInv' /\ ShownInv'
    OBVIOUS
  <1>1. CASE Command
    BY <1>1, AddDestinationSafe DEF Command
  <1>2. CASE Interaction
    BY <1>2, HandleEditSafe, SubmitModalSafe, HandleAcceptSafe, DeferredSafe, AnswerSafe,
       ExpireSafe DEF Interaction
  <1>3. CASE \E p \in Presses : CreateDestination(p)
    BY <1>3, CreateSafe
  <1>4. CASE Crash
    BY <1>4, CrashSafe
  <1>5. CASE UNCHANGED dialogVars
    <2>1. dialog' = dialog /\ press' = press
      BY <1>5 DEF dialogVars
    <2>2. \A k \in Tokens : Live(k)' <=> Live(k)
      BY <2>1 DEF Live, Begun
    <2>3. \A p \in Presses : Kept(p) /\ (Accepted(p)' <=> Accepted(p))
      BY <2>1 DEF Kept, Accepted
    <2>4. OnceInv'
      BY <2>1, <2>2, <2>3, OnceKept DEF OnceInv
    <2>5. ShownInv'
      BY <2>1, <2>3, ShownKept
    <2> QED
      BY <2>4, <2>5
  <1> QED
    BY <1>1, <1>2, <1>3, <1>4, <1>5 DEF Next, vars

LEMMA InitSafe == Init => OnceInv /\ ShownInv
  BY FreshOK DEF Init, InitDialogs, OnceInv, ShownInv, AcceptedAsShown, Accepted

\* However late the api comes and whatever is edited, expires or restarts
\* meanwhile, a draft creates and charges twice only if Accept was pressed again
\* before the first press was answered.
THEOREM DestinationsCreatedOnce == Spec => []CreatedOnce
  <1>1. OnceInv => CreatedOnce
    BY DEF OnceInv, CreatedOnce
  <1> QED
    BY <1>1, InitTypes, InitSafe, StepTypes, NextSafe, PTL DEF Spec

\* The api is given what was on the screen when Accept was pressed, unless it was
\* edited before Discord acknowledged the press.
THEOREM SentAsShown == Spec => []AcceptedAsShown
  <1>1. ShownInv => AcceptedAsShown
    BY DEF ShownInv
  <1> QED
    BY <1>1, InitTypes, InitSafe, StepTypes, NextSafe, PTL DEF Spec
=============================================================================
