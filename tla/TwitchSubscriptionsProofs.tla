----------------------- MODULE TwitchSubscriptionsProofs -----------------------
(* What holds of TwitchSubscriptions for every value of its constants.        *)
EXTENDS TwitchSubscriptions, TLAPS, FiniteSetTheorems

(* The inductive invariant                                                    *)

\* The subscription, if there is one, was created at Twitch.
Known(s) == s # 0 => remote[s] \in Remote

\* The points at which an operation holds a subscription it has just created
\* for the row it works on.
NewSubPcs == {"recordUser", "recordApp", "migrateRecord", "downgradeDelete",
              "downgradeRecord"}

\* The points of downgradeUserAuthorizedSubscriptions, which no registration calls.
DowngradePcs == {"downgrade", "downgradeNext", "downgradeRegister", "downgradeDelete",
                 "downgradeRecord", "downgradeConsume", "dropRemote", "deactivate",
                 "suspend"}

\* What an operation in flight holds on to refers to what exists.
Holds(t) ==
  /\ Loaded(t)
  /\ t.seen # Null => Known(t.seen.sub)
  /\ \A e \in t.todo : Known(e.row.sub)
  /\ t.pc \in NewSubPcs => remote[t.sub].row = t.row
  /\ t.pc \in DowngradePcs => t.ret # "attach"

\* What is there for as long as the program runs.
Stored ==
  /\ rows \in [RowIds -> Row \cup {Null}]
  /\ nextRow \in Nat \ {0}
  /\ note \in [Notes -> [row: RowIds \cup {0}, active: BOOLEAN]]
  /\ currentCost \in [Apps -> Int]
  /\ account \in [Streamers -> Account]
  /\ remote \in [SubIds -> Remote \cup {Null}]
  /\ nextSub \in Nat \ {0}
  /\ acks \subseteq Ack
  /\ \A s \in SubIds : remote[s] # Null <=> s < nextSub
  /\ \A r \in Existing : Known(rows[r].sub)
  /\ OwnSubscription

\* The synchronisation never selects a subscription to revoke: an entity it
\* loaded has no createdAt.
CronOK ==
  /\ cron \in [pc: {"idle", "query", "enable", "revoke"}, stale: SUBSET Entity,
               toEnable: SUBSET Entity, toDelete: SUBSET Entity]
  /\ cron.toDelete = {}

InFlight == task \in [Tasks -> Task] /\ \A p \in Tasks : Holds(task[p])

IInv == Stored /\ CronOK /\ InFlight

\* What every step but a creation leaves of the subscriptions, and more.
KeepsRemote ==
  /\ remote' \in [SubIds -> Remote \cup {Null}]
  /\ \A s \in SubIds : remote[s] \in Remote =>
       remote'[s] \in Remote /\ remote'[s].row = remote[s].row

LEMMA NullFacts == 0 \notin SubIds /\ 0 \notin RowIds /\ Null \notin Row /\ Null \notin Remote
  BY NullOK DEF SubIds, RowIds

\* An operation in flight is not disturbed by the subscriptions of the others.
LEMMA HoldsKept ==
  ASSUME KeepsRemote, NEW t \in Task, Holds(t)
  PROVE  Holds(t)'
<1>1. ASSUME NEW s \in SubIds \cup {0}, Known(s) PROVE Known(s)'
  BY <1>1 DEF Known, KeepsRemote
<1>2. t.seen # Null => Known(t.seen.sub)'
  BY <1>1 DEF Holds, Task, Row
<1>3. \A e \in t.todo : Known(e.row.sub)'
  BY <1>1 DEF Holds, Task, Entity, Row
<1>4. Loaded(t)'
  BY DEF Holds, Loaded, KeepsRemote
<1>5. t.pc \in NewSubPcs => remote'[t.sub].row = t.row
  BY DEF Holds, Loaded, KeepsRemote, NewSubPcs, SubPcs
<1> QED BY <1>2, <1>3, <1>4, <1>5 DEF Holds

LEMMA TaskStep ==
  ASSUME InFlight, KeepsRemote, NEW p \in Tasks, NEW u \in Task,
         task' = [task EXCEPT ![p] = u], Holds(u)'
  PROVE  InFlight'
  BY HoldsKept DEF InFlight

LEMMA IdleTask == Idle \in Task /\ Holds(Idle) /\ Holds(Idle)'
  BY NullOK DEF Idle, Task, Holds, Loaded, Pcs, SlotPcs, AppPcs, RowPcs, SeenPcs,
     SubPcs, WhoPcs, NewSubPcs, DowngradePcs

\* A step of one operation to a state it may be in leaves all of them so.
LEMMA BecomeStep ==
  ASSUME InFlight, KeepsRemote, NEW p \in Tasks, NEW STATE t, t \in Task, Holds(t), Become(p, t)
  PROVE  InFlight'
<1>1. PICK u \in Task : u = t OBVIOUS
<1>2. Holds(u)' BY <1>1, HoldsKept
<1> QED BY <1>1, <1>2, TaskStep DEF Become

LEMMA DoneStep ==
  ASSUME InFlight, KeepsRemote, NEW p \in Tasks, Done(p) PROVE InFlight'
  BY BecomeStep, IdleTask DEF Done

\* Moving on to a point that needs nothing but what the operation holds.
LEMMA GotoStep ==
  ASSUME InFlight, KeepsRemote, NEW p \in Tasks, NEW l \in Pcs, Goto(p, l),
         l \in SlotPcs => task[p].slot \in Slots,
         l \in AppPcs => task[p].app \in Apps,
         l \in RowPcs => task[p].row \in RowIds,
         l \in SeenPcs => task[p].seen \in Row,
         l \in SubPcs => task[p].sub \in SubIds /\ remote[task[p].sub] \in Remote,
         l \in WhoPcs => task[p].who \in Streamers,
         l \in NewSubPcs => remote[task[p].sub].row = task[p].row,
         l \in DowngradePcs => task[p].ret # "attach"
  PROVE  InFlight'
<1>1. [task[p] EXCEPT !.pc = l] \in Task BY DEF InFlight, Task
<1>2. Holds([task[p] EXCEPT !.pc = l])
  BY DEF Holds, Loaded, InFlight, Task
<1> QED BY <1>1, <1>2, BecomeStep DEF Goto

LEMMA ReturnStep ==
  ASSUME InFlight, KeepsRemote, NEW p \in Tasks, Return(p),
         task[p].ret = "attach" => task[p].row \in RowIds
  PROVE  InFlight'
<1>1. CASE Done(p) BY <1>1, DoneStep
<1>2. CASE task[p].ret # "idle" /\ Goto(p, task[p].ret)
  <2>1. task[p].ret \in {"attach", "unlink"} BY <1>2 DEF InFlight, Task
  <2>2. task[p].ret = "unlink" => task[p].who \in Streamers
    BY DEF InFlight, Holds, Loaded
  <2> QED
    BY <1>2, <2>1, <2>2, GotoStep DEF Pcs, SlotPcs, AppPcs, RowPcs, SeenPcs, SubPcs, WhoPcs,
       NewSubPcs, DowngradePcs
<1> QED BY <1>1, <1>2 DEF Return

LEMMA StoredKept ==
  ASSUME IInv, UNCHANGED shared PROVE Stored' /\ CronOK' /\ KeepsRemote
  BY DEF IInv, Stored, CronOK, shared, Existing, OwnSubscription, Known, KeepsRemote

LEMMA CreateNotificationStep ==
  ASSUME IInv, NEW p \in Tasks, NEW s \in Slots, NEW n \in Notes, CreateNotification(p, s, n)
  PROVE IInv'
<1>1. Stored' /\ CronOK' /\ KeepsRemote BY StoredKept DEF CreateNotification
<1>2. ASSUME NEW r \in RowsOf(s), Become(p, [Idle EXCEPT !.pc = "attach", !.row = r, !.note = n])
      PROVE  InFlight'
  <2>1. r \in RowIds BY DEF RowsOf, Existing
  <2>2. [Idle EXCEPT !.pc = "attach", !.row = r, !.note = n] \in Task
    <3>1. "attach" \in Pcs BY DEF Pcs, RowPcs
    <3> QED BY <2>1, <3>1, IdleTask DEF Task
  <2>3. Holds([Idle EXCEPT !.pc = "attach", !.row = r, !.note = n])
    BY <2>1, IdleTask DEF Idle, Holds, Loaded, Pcs, SlotPcs, AppPcs, RowPcs, SeenPcs,
     SubPcs, WhoPcs, NewSubPcs, DowngradePcs
  <2> QED BY <1>1, <1>2, <2>2, <2>3, BecomeStep DEF IInv
<1>3. ASSUME Become(p, [Idle EXCEPT !.pc = "register", !.ret = "attach", !.slot = s, !.note = n])
      PROVE  InFlight'
  <2>1. [Idle EXCEPT !.pc = "register", !.ret = "attach", !.slot = s, !.note = n] \in Task
    <3>1. "register" \in Pcs BY DEF Pcs, SlotPcs
    <3> QED BY <3>1, IdleTask DEF Task
  <2>2. Holds([Idle EXCEPT !.pc = "register", !.ret = "attach", !.slot = s, !.note = n])
    BY IdleTask DEF Idle, Holds, Loaded, Pcs, SlotPcs, AppPcs, RowPcs, SeenPcs,
     SubPcs, WhoPcs, NewSubPcs, DowngradePcs
  <2> QED BY <1>1, <1>3, <2>1, <2>2, BecomeStep DEF IInv
<1> QED BY <1>1, <1>2, <1>3 DEF CreateNotification, IInv

LEMMA AdminRegisterStep ==
  ASSUME IInv, NEW p \in Tasks, NEW s \in Slots, AdminRegister(p, s) PROVE IInv'
<1>1. Stored' /\ CronOK' /\ KeepsRemote BY StoredKept DEF AdminRegister
<1>2. [Idle EXCEPT !.pc = "register", !.slot = s] \in Task
  <2>1. "register" \in Pcs BY DEF Pcs, SlotPcs
  <2> QED BY <2>1, IdleTask DEF Task
<1>3. Holds([Idle EXCEPT !.pc = "register", !.slot = s])
  BY IdleTask DEF Idle, Holds, Loaded, Pcs, SlotPcs, AppPcs, RowPcs, SeenPcs,
     SubPcs, WhoPcs, NewSubPcs, DowngradePcs
<1> QED BY <1>1, <1>2, <1>3, BecomeStep DEF AdminRegister, IInv

LEMMA ClearTokensType ==
  ASSUME Stored, NEW st \in Streamers, ClearTokens(st)
  PROVE  account' \in [Streamers -> Account]
  BY DEF Stored, ClearTokens, Account

LEMMA GetOrCreateStreamerStep ==
  ASSUME IInv, NEW p \in Tasks, GetOrCreateStreamer(p) PROVE IInv'
<1>1. task[p].pc = "register" /\ task[p].slot \in Slots
  BY DEF GetOrCreateStreamer, At, IInv, InFlight, Holds, Loaded, SlotPcs
<1>2. Stored' /\ CronOK' /\ KeepsRemote BY StoredKept DEF GetOrCreateStreamer
<1>3. ASSUME NEW pc \in {"userToken", "pickApp"}, Goto(p, pc) PROVE IInv'
  BY <1>1, <1>2, <1>3, GotoStep DEF IInv, Pcs, SlotPcs, AppPcs, RowPcs, SeenPcs,
     SubPcs, WhoPcs, NewSubPcs, DowngradePcs
<1>4. CASE Done(p) BY <1>2, <1>4, DoneStep DEF IInv
<1> QED BY <1>3, <1>4 DEF GetOrCreateStreamer

LEMMA TryRegisterWithUserTokenStep == ASSUME IInv, NEW p \in Tasks, TryRegisterWithUserToken(p) PROVE IInv'
<1>1. task[p].pc = "userToken" /\ task[p].slot \in Slots /\ StreamerOf[task[p].slot] \in Streamers
  BY ConstantsOK DEF TryRegisterWithUserToken, At, IInv, InFlight, Holds, Loaded, SlotPcs
<1>2. account' \in [Streamers -> Account]
  BY <1>1, ClearTokensType DEF TryRegisterWithUserToken, IInv, Stored
<1>3. Stored' /\ CronOK' /\ KeepsRemote
  BY <1>2 DEF TryRegisterWithUserToken, IInv, Stored, CronOK, Existing, OwnSubscription, Known, KeepsRemote
<1>4. CASE Goto(p, "pickApp")
  BY <1>1, <1>3, <1>4, GotoStep DEF IInv, Pcs, SlotPcs, AppPcs, RowPcs, SeenPcs,
     SubPcs, WhoPcs, NewSubPcs, DowngradePcs
<1>5. ASSUME NEW a \in Internal, Become(p, [task[p] EXCEPT !.pc = "insertUser", !.app = a])
      PROVE  InFlight'
  <2>1. [task[p] EXCEPT !.pc = "insertUser", !.app = a] \in Task
    <3>1. task[p] \in Task /\ a \in Apps
      BY DEF IInv, InFlight, Internal
    <3>2. "insertUser" \in Pcs
      BY DEF Pcs, SlotPcs
    <3> QED BY <3>1, <3>2 DEF Task
  <2>2. Holds([task[p] EXCEPT !.pc = "insertUser", !.app = a])
    BY <1>1 DEF IInv, InFlight, Task, Internal, Holds, Loaded, Pcs, SlotPcs, AppPcs, RowPcs, SeenPcs,
     SubPcs, WhoPcs, NewSubPcs, DowngradePcs
  <2> QED BY <1>3, <1>5, <2>1, <2>2, BecomeStep DEF IInv
<1> QED BY <1>3, <1>4, <1>5 DEF TryRegisterWithUserToken, IInv

LEMMA ChosenApp ==
  ASSUME Stored, NEW st \in Streamers, NEW a \in AppsForBroadcaster(st) PROVE a \in Apps \cup {Null}
  BY DEF AppsForBroadcaster, FindLeastLoaded, LeastLoaded, SiblingApps, Existing, Stored, Row

LEMMA PickAppStep == ASSUME IInv, NEW p \in Tasks, PickApp(p) PROVE IInv'
<1>1. task[p].pc = "pickApp" /\ task[p].slot \in Slots /\ StreamerOf[task[p].slot] \in Streamers
  BY ConstantsOK DEF PickApp, At, IInv, InFlight, Holds, Loaded, SlotPcs
<1>2. PICK a \in AppsForBroadcaster(StreamerOf[task[p].slot]) :
        IF a = Null THEN Done(p)
        ELSE Become(p, [task[p] EXCEPT !.pc = "insertApp", !.app = a])
  BY DEF PickApp
<1>3. a \in Apps \cup {Null} BY <1>1, ChosenApp DEF IInv
<1>4. Stored' /\ CronOK' /\ KeepsRemote BY StoredKept DEF PickApp
<1>5. CASE a = Null BY <1>2, <1>4, <1>5, DoneStep DEF IInv
<1>6. CASE a # Null
  <2>1. [task[p] EXCEPT !.pc = "insertApp", !.app = a] \in Task
    <3>1. task[p] \in Task /\ a \in Apps
      BY <1>3, <1>6 DEF IInv, InFlight
    <3>2. "insertApp" \in Pcs
      BY DEF Pcs, SlotPcs
    <3> QED BY <3>1, <3>2 DEF Task
  <2>2. Holds([task[p] EXCEPT !.pc = "insertApp", !.app = a])
    BY <1>1, <1>3, <1>6 DEF IInv, InFlight, Task, Holds, Loaded, Pcs, SlotPcs, AppPcs, RowPcs, SeenPcs,
     SubPcs, WhoPcs, NewSubPcs, DowngradePcs
  <2> QED BY <1>2, <1>4, <1>6, <2>1, <2>2, BecomeStep DEF IInv
<1> QED BY <1>5, <1>6

\* A row that appears or changes refers to a subscription of its own.
LEMMA RowsStep ==
  ASSUME IInv, UNCHANGED <<remote, nextSub>>, CronOK', KeepsRemote,
         rows' \in [RowIds -> Row \cup {Null}], nextRow' \in Nat \ {0},
         note' \in [Notes -> [row: RowIds \cup {0}, active: BOOLEAN]],
         currentCost' \in [Apps -> Int], account' \in [Streamers -> Account],
         acks' \subseteq Ack,
         \A r \in RowIds : rows'[r] # Null /\ rows'[r].sub # 0 =>
           \/ rows[r] # Null /\ rows'[r].sub = rows[r].sub
           \/ remote[rows'[r].sub] \in Remote /\ remote[rows'[r].sub].row = r
  PROVE  Stored'
  BY NullOK DEF IInv, Stored, Existing, OwnSubscription, Known

LEMMA InsertRowStep == ASSUME IInv, NEW p \in Tasks, InsertRow(p) PROVE IInv'
<1> DEFINE user == At(p, "insertUser")
           new == [slot |-> task[p].slot, app |-> task[p].app, sub |-> 0,
                   cost |-> IF user THEN 0 ELSE DefaultCost,
                   status |-> "pending", aged |-> FALSE]
<1>1. task[p].pc \in {"insertUser", "insertApp"} /\ task[p].slot \in Slots /\ task[p].app \in Apps
  BY DEF InsertRow, IInv, InFlight, Holds, Loaded, SlotPcs, AppPcs
<1>2. CronOK' /\ KeepsRemote BY DEF InsertRow, IInv, Stored, CronOK, KeepsRemote
<1>3. CASE RowsOf(task[p].slot) # {}
  <2>1. Done(p) /\ UNCHANGED shared BY <1>3 DEF InsertRow, shared
  <2> QED BY <1>2, <2>1, DoneStep, StoredKept DEF IInv
<1>4. CASE RowsOf(task[p].slot) = {}
  <2> DEFINE u == [task[p] EXCEPT !.row = nextRow,
                                  !.pc = IF user THEN "twitchUser" ELSE "twitchApp"]
  <2>1. /\ nextRow \in RowIds
        /\ rows' = [rows EXCEPT ![nextRow] = new]
        /\ nextRow' = nextRow + 1
        /\ Become(p, u)
    BY <1>4 DEF InsertRow
  <2>2. new \in Row BY <1>1 DEF Row, DefaultCost, Statuses
  <2>3. Stored'
    <3>1. rows' \in [RowIds -> Row \cup {Null}] BY <2>1, <2>2 DEF IInv, Stored
    <3>2. \A r \in RowIds : rows'[r] # Null /\ rows'[r].sub # 0 =>
            rows[r] # Null /\ rows'[r].sub = rows[r].sub
      BY <2>1 DEF IInv, Stored
    <3> QED BY <1>2, <2>1, <3>1, <3>2, RowsStep DEF InsertRow, IInv, Stored
  <2>4. u \in Task
    <3>1. (IF user THEN "twitchUser" ELSE "twitchApp") \in Pcs BY DEF Pcs, AppPcs
    <3> QED BY <2>1, <3>1 DEF IInv, InFlight, Task
  <2>5. Holds(u)
    BY <1>1, <2>1 DEF IInv, InFlight, Task, Holds, Loaded, Pcs, SlotPcs, AppPcs, RowPcs, SeenPcs,
     SubPcs, WhoPcs, NewSubPcs, DowngradePcs
  <2> QED BY <1>2, <2>1, <2>3, <2>4, <2>5, BecomeStep DEF IInv
<1> QED BY <1>3, <1>4

LEMMA KnownKept ==
  ASSUME KeepsRemote, NEW s \in SubIds \cup {0}, Known(s) PROVE Known(s)'
  BY DEF Known, KeepsRemote

\* registerEvent: Twitch has one more subscription, under a fresh id.
LEMMA CreateRemoteStep ==
  ASSUME Stored, NEW STATE r, NEW STATE a, NEW STATE c, r \in RowIds, a \in Apps,
         c \in 0..CostBound, CreateRemote(r, a, c), account' \in [Streamers -> Account],
         UNCHANGED <<rows, nextRow, note, currentCost, acks>>
  PROVE  /\ Stored'
         /\ KeepsRemote
         /\ nextSub \in SubIds /\ remote'[nextSub] \in Remote /\ remote'[nextSub].row = r
<1> DEFINE new == [row |-> r, app |-> a, cost |-> c, state |-> "pending"]
<1>1. nextSub \in SubIds /\ remote' = [remote EXCEPT ![nextSub] = new] /\ nextSub' = nextSub + 1
  BY DEF CreateRemote
<1>2. new \in Remote BY DEF Remote, RemoteStates
<1>3. remote[nextSub] = Null BY <1>1 DEF Stored
<1>4. KeepsRemote BY <1>1, <1>2, <1>3, NullOK DEF KeepsRemote, Stored
<1>5. remote'[nextSub] = new BY <1>1 DEF Stored
<1>6. \A s \in SubIds : remote'[s] # Null <=> s < nextSub'
  BY <1>1, <1>2, NullOK DEF Stored, SubIds
<1>7. \A x \in Existing : Known(rows[x].sub)'
  BY <1>4, KnownKept DEF Stored, Existing, Row
<1>8. OwnSubscription'
  BY <1>4, NullOK DEF Stored, OwnSubscription, Existing, KeepsRemote, Known, Row
<1> QED BY <1>1, <1>2, <1>4, <1>5, <1>6, <1>7, <1>8 DEF Stored, KeepsRemote, Existing

\* The operation that has just created a subscription holds it.
LEMMA NewSubStep ==
  ASSUME InFlight, KeepsRemote, NEW p \in Tasks, NEW STATE t, t \in Task, Become(p, t),
         t.pc \in {"recordApp", "recordUser", "migrateRecord", "downgradeDelete"},
         t.row \in RowIds, t.app \in Apps, t.sub \in SubIds,
         remote'[t.sub] \in Remote, remote'[t.sub].row = t.row,
         t.pc = "migrateRecord" \/ t.ret = "unlink" => t.who \in Streamers,
         t.pc \in {"migrateRecord", "downgradeDelete"} => t.seen \in Row,
         t.pc = "downgradeDelete" => t.ret # "attach",
         t.seen # Null => Known(t.seen.sub), \A e \in t.todo : Known(e.row.sub)
  PROVE  InFlight'
<1>1. PICK u \in Task : u = t OBVIOUS
<1>2. u.seen # Null => Known(u.seen.sub)' BY <1>1, KnownKept DEF Task, Row
<1>3. \A e \in u.todo : Known(e.row.sub)' BY <1>1, KnownKept DEF Task, Entity, Row
<1>4. Holds(u)'
  BY <1>1, <1>2, <1>3 DEF Holds, Loaded, Pcs, SlotPcs, AppPcs, RowPcs, SeenPcs,
     SubPcs, WhoPcs, NewSubPcs, DowngradePcs
<1> QED BY <1>1, <1>4, TaskStep DEF Become

LEMMA CostsBounded == ASSUME NEW c \in Costs PROVE c \in 0..CostBound
  BY ConstantsOK

LEMMA RegisterWithAppStep == ASSUME IInv, NEW p \in Tasks, RegisterWithApp(p) PROVE IInv'
<1> DEFINE u == [task[p] EXCEPT !.pc = "recordApp", !.sub = nextSub]
<1>1. task[p] \in Task /\ task[p].pc = "twitchApp" /\ task[p].row \in RowIds /\ task[p].app \in Apps
  BY DEF RegisterWithApp, At, IInv, InFlight, Holds, Loaded, RowPcs, AppPcs
<1>2. CronOK' BY DEF RegisterWithApp, IInv, CronOK
<1>3. ASSUME NEW c \in Costs, CreateRemote(task[p].row, task[p].app, c), Become(p, u)
      PROVE  IInv'
  <2>1. Stored' /\ KeepsRemote /\ nextSub \in SubIds /\ remote'[nextSub] \in Remote
          /\ remote'[nextSub].row = task[p].row
    BY <1>1, <1>3, CostsBounded, CreateRemoteStep DEF RegisterWithApp, IInv, Stored
  <2>2. u \in Task BY <1>1, <2>1 DEF Task, Pcs, AppPcs
  <2>3. InFlight'
    BY <1>1, <1>3, <2>1, <2>2, NewSubStep DEF IInv, InFlight, Holds, Loaded, Task
  <2> QED BY <1>2, <2>1, <2>3 DEF IInv
<1>4. CASE Done(p) /\ UNCHANGED <<remote, nextSub>>
  BY <1>4, StoredKept, DoneStep DEF RegisterWithApp, IInv, shared
<1> QED BY <1>3, <1>4 DEF RegisterWithApp

LEMMA RegisterWithUserStep == ASSUME IInv, NEW p \in Tasks, RegisterWithUser(p) PROVE IInv'
<1> DEFINE u == [task[p] EXCEPT !.pc = "recordUser", !.sub = nextSub]
           st == StreamerOf[task[p].slot]
<1>1. /\ task[p] \in Task /\ task[p].pc = "twitchUser" /\ task[p].row \in RowIds
      /\ task[p].app \in Apps /\ task[p].slot \in Slots /\ st \in Streamers
  BY ConstantsOK DEF RegisterWithUser, At, IInv, InFlight, Holds, Loaded, SlotPcs, RowPcs, AppPcs
<1>2. CronOK' BY DEF RegisterWithUser, IInv, CronOK
<1>3. ASSUME CreateRemote(task[p].row, task[p].app, 0), Become(p, u), UNCHANGED account
      PROVE  IInv'
  <2>1. 0 \in 0..CostBound BY ConstantsOK
  <2>2. Stored' /\ KeepsRemote /\ nextSub \in SubIds /\ remote'[nextSub] \in Remote
          /\ remote'[nextSub].row = task[p].row
    BY <1>1, <1>3, <2>1, CreateRemoteStep DEF RegisterWithUser, IInv, Stored
  <2>3. u \in Task /\ u.pc = "recordUser" /\ u.row = task[p].row /\ u.app = task[p].app
          /\ u.sub = nextSub /\ u.seen = task[p].seen /\ u.todo = task[p].todo
          /\ u.ret = task[p].ret /\ u.who = task[p].who
    <3>1. "recordUser" \in Pcs BY DEF Pcs, AppPcs
    <3> QED BY <1>1, <2>2, <3>1 DEF Task
  <2> HIDE DEF u
  <2>4. Holds(task[p]) /\ (task[p].ret = "unlink" => task[p].who \in Streamers)
    BY DEF IInv, InFlight, Holds, Loaded
  <2>5. InFlight'
    BY <1>1, <1>3, <2>2, <2>3, <2>4, NewSubStep DEF IInv, Holds
  <2> QED BY <1>2, <2>2, <2>5 DEF IInv
<1>4. ASSUME account' = account \/ ClearTokens(st), Goto(p, "undo"), UNCHANGED <<remote, nextSub>>
      PROVE  IInv'
  <2>1. account' \in [Streamers -> Account] BY <1>1, <1>4, ClearTokensType DEF IInv, Stored
  <2>2. KeepsRemote BY <1>4 DEF IInv, Stored, KeepsRemote
  <2>3. Stored' BY <1>4, <2>1 DEF RegisterWithUser, IInv, Stored, Existing, OwnSubscription, Known
  <2>4. InFlight'
    BY <1>1, <1>4, <2>2, GotoStep DEF IInv, Pcs, SlotPcs, AppPcs, RowPcs, SeenPcs,
       SubPcs, WhoPcs, NewSubPcs, DowngradePcs
  <2> QED BY <1>2, <2>3, <2>4 DEF IInv
<1> QED BY <1>3, <1>4 DEF RegisterWithUser

LEMMA RemoveRowStep ==
  ASSUME IInv, NEW STATE r, r \in RowIds, RemoveRow(r),
         UNCHANGED <<nextRow, currentCost, account, remote, nextSub, acks, cron>>
  PROVE  Stored' /\ CronOK' /\ KeepsRemote
<1>1. CronOK' /\ KeepsRemote BY DEF IInv, Stored, CronOK, KeepsRemote
<1>2. rows' \in [RowIds -> Row \cup {Null}] BY DEF RemoveRow, IInv, Stored
<1>3. note' \in [Notes -> [row: RowIds \cup {0}, active: BOOLEAN]] BY DEF RemoveRow, IInv, Stored
<1>4. \A x \in RowIds : rows'[x] # Null => rows'[x] = rows[x] BY DEF RemoveRow, IInv, Stored
<1> QED BY <1>1, <1>2, <1>3, <1>4, RowsStep DEF IInv, Stored

LEMMA UndoRowStep == ASSUME IInv, NEW p \in Tasks, UndoRow(p) PROVE IInv'
<1>1. task[p].pc = "undo" /\ task[p].row \in RowIds /\ task[p].slot \in Slots
  BY DEF UndoRow, At, IInv, InFlight, Holds, Loaded, SlotPcs, RowPcs
<1>2. Stored' /\ CronOK' /\ KeepsRemote BY <1>1, RemoveRowStep DEF UndoRow
<1>3. InFlight'
  BY <1>1, <1>2, GotoStep DEF UndoRow, IInv, Pcs, SlotPcs, AppPcs, RowPcs, SeenPcs,
     SubPcs, WhoPcs, NewSubPcs, DowngradePcs
<1> QED BY <1>2, <1>3 DEF IInv

LEMMA DeleteLocalRowStep == ASSUME IInv, NEW p \in Tasks, DeleteLocalRow(p) PROVE IInv'
<1>1. task[p].pc = "removeRow" /\ task[p].row \in RowIds
  BY DEF DeleteLocalRow, At, IInv, InFlight, Holds, Loaded, RowPcs
<1>2. Stored' /\ CronOK' /\ KeepsRemote BY <1>1, RemoveRowStep DEF DeleteLocalRow
<1> QED BY <1>2, DoneStep DEF DeleteLocalRow, IInv

\* An update by id of a row that is still there.
LEMMA UpdateRowStep ==
  ASSUME IInv, NEW STATE r, NEW STATE new, r \in RowIds, UpdateRow(r, new),
         rows[r] # Null => new \in Row,
         rows[r] # Null /\ new.sub # 0 =>
           \/ new.sub = rows[r].sub
           \/ remote[new.sub] \in Remote /\ remote[new.sub].row = r,
         UNCHANGED <<nextRow, note, currentCost, account, remote, nextSub, acks, cron>>
  PROVE  Stored' /\ CronOK' /\ KeepsRemote
<1>1. CronOK' /\ KeepsRemote BY DEF IInv, Stored, CronOK, KeepsRemote
<1>2. rows' \in [RowIds -> Row \cup {Null}] BY DEF UpdateRow, IInv, Stored
<1>3. \A x \in RowIds : rows'[x] # Null /\ rows'[x].sub # 0 =>
        \/ rows[x] # Null /\ rows'[x].sub = rows[x].sub
        \/ remote[rows'[x].sub] \in Remote /\ remote[rows'[x].sub].row = x
  BY DEF UpdateRow, IInv, Stored
<1> QED BY <1>1, <1>2, <1>3, RowsStep DEF IInv, Stored

LEMMA RecordSubscriptionStep == ASSUME IInv, NEW p \in Tasks, RecordSubscription(p) PROVE IInv'
<1> DEFINE tk == task[p]
           c == remote[tk.sub].cost
           user == tk.pc = "recordUser"
           new == IF user THEN [rows[tk.row] EXCEPT !.sub = tk.sub]
                  ELSE [rows[tk.row] EXCEPT !.sub = tk.sub, !.cost = c]
<1>1. /\ tk.pc \in {"recordUser", "recordApp"} /\ tk \in Task /\ tk.row \in RowIds
      /\ tk.sub \in SubIds /\ remote[tk.sub] \in Remote /\ remote[tk.sub].row = tk.row
      /\ tk.app \in Apps
  BY DEF RecordSubscription, IInv, InFlight, Holds, Loaded, RowPcs, SubPcs, AppPcs, NewSubPcs
<1>2. c \in Nat BY <1>1 DEF Remote
<1>3. rows[tk.row] # Null => new \in Row /\ new.sub = tk.sub
  BY <1>1, <1>2 DEF IInv, Stored, Row
<1>4. Stored' /\ CronOK' /\ KeepsRemote
  BY <1>1, <1>3, UpdateRowStep DEF RecordSubscription
<1>5. CASE Return(p) BY <1>1, <1>4, <1>5, ReturnStep DEF IInv
<1>6. CASE Goto(p, "consume")
  BY <1>1, <1>4, <1>6, GotoStep DEF IInv, Pcs, SlotPcs, AppPcs, RowPcs, SeenPcs,
     SubPcs, WhoPcs, NewSubPcs, DowngradePcs
<1> QED BY <1>4, <1>5, <1>6 DEF RecordSubscription, IInv

\* A step that changes only the counters, besides its operation.
LEMMA CountersStep ==
  ASSUME IInv, currentCost' \in [Apps -> Int],
         UNCHANGED <<rows, nextRow, note, account, remote, nextSub, acks, cron>>
  PROVE  Stored' /\ CronOK' /\ KeepsRemote
  BY DEF IInv, Stored, CronOK, KeepsRemote, Existing, OwnSubscription, Known

LEMMA ConsumeCostStep == ASSUME IInv, NEW p \in Tasks, ConsumeCost(p) PROVE IInv'
<1>1. /\ task[p].pc \in {"consume", "downgradeConsume"} /\ task[p].app \in Apps
      /\ task[p].row \in RowIds /\ remote[task[p].sub] \in Remote
      /\ task[p].pc = "downgradeConsume" => task[p].ret # "attach"
  BY DEF ConsumeCost, IInv, InFlight, Holds, Loaded, RowPcs, SubPcs, AppPcs, DowngradePcs
<1>2. currentCost' \in [Apps -> Int]
  BY <1>1 DEF ConsumeCost, AddCost, IInv, Stored, Remote
<1>3. Stored' /\ CronOK' /\ KeepsRemote BY <1>2, CountersStep DEF ConsumeCost
<1>4. CASE Return(p) BY <1>1, <1>3, <1>4, ReturnStep DEF IInv
<1>5. CASE task[p].pc = "downgradeConsume" /\ Goto(p, "downgradeNext")
  BY <1>1, <1>3, <1>5, GotoStep DEF IInv, Pcs, SlotPcs, AppPcs, RowPcs, SeenPcs,
     SubPcs, WhoPcs, NewSubPcs, DowngradePcs
<1> QED BY <1>1, <1>3, <1>4, <1>5 DEF ConsumeCost, At, IInv

LEMMA ReleaseCostStep == ASSUME IInv, NEW p \in Tasks, ReleaseCost(p) PROVE IInv'
<1>1. /\ task[p].pc \in {"release", "migrateRelease"} /\ task[p].seen \in Row
      /\ task[p].row \in RowIds
      /\ task[p].pc = "migrateRelease" => task[p].who \in Streamers
  BY DEF ReleaseCost, IInv, InFlight, Holds, Loaded, RowPcs, SeenPcs, WhoPcs
<1>2. currentCost' \in [Apps -> Int]
  BY <1>1 DEF ReleaseCost, AddCost, IInv, Stored, Row
<1>3. Stored' /\ CronOK' /\ KeepsRemote BY <1>2, CountersStep DEF ReleaseCost
<1>4. CASE Goto(p, "removeRow")
  BY <1>1, <1>3, <1>4, GotoStep DEF IInv, Pcs, SlotPcs, AppPcs, RowPcs, SeenPcs,
     SubPcs, WhoPcs, NewSubPcs, DowngradePcs
<1>5. CASE task[p].pc = "migrateRelease" /\ Goto(p, "migrateNext")
  BY <1>1, <1>3, <1>5, GotoStep DEF IInv, Pcs, SlotPcs, AppPcs, RowPcs, SeenPcs,
     SubPcs, WhoPcs, NewSubPcs, DowngradePcs
<1> QED BY <1>1, <1>3, <1>4, <1>5 DEF ReleaseCost, At, IInv

\* A step that changes only the notifications, besides its operation.
LEMMA NotesStep ==
  ASSUME IInv, note' \in [Notes -> [row: RowIds \cup {0}, active: BOOLEAN]],
         UNCHANGED <<rows, nextRow, currentCost, account, remote, nextSub, acks, cron>>
  PROVE  Stored' /\ CronOK' /\ KeepsRemote
  BY DEF IInv, Stored, CronOK, KeepsRemote, Existing, OwnSubscription, Known

LEMMA AttachStep == ASSUME IInv, NEW p \in Tasks, Attach(p) PROVE IInv'
<1>1. task[p].row \in RowIds
  BY DEF Attach, At, IInv, InFlight, Holds, Loaded, RowPcs
<1>2. note' \in [Notes -> [row: RowIds \cup {0}, active: BOOLEAN]]
  BY <1>1 DEF Attach, IInv, Stored
<1> QED BY <1>2, NotesStep, DoneStep DEF Attach, IInv

LEMMA DeleteNotificationStep ==
  ASSUME IInv, NEW p \in Tasks, NEW n \in Notes, DeleteNotification(p, n) PROVE IInv'
<1> DEFINE u == [Idle EXCEPT !.pc = "cleanup", !.row = note[n].row]
<1>1. note[n].row \in RowIds /\ note' \in [Notes -> [row: RowIds \cup {0}, active: BOOLEAN]]
  BY DEF DeleteNotification, IInv, Stored
<1>2. Stored' /\ CronOK' /\ KeepsRemote BY <1>1, NotesStep DEF DeleteNotification
<1>3. u \in Task
  <2>1. "cleanup" \in Pcs BY DEF Pcs, RowPcs
  <2>2. note[n].row \in RowIds \cup {0} BY <1>1
  <2> QED BY <2>1, <2>2, IdleTask DEF Task
<1>4. Holds(u)
  BY <1>1, IdleTask DEF Idle, Holds, Loaded, Pcs, SlotPcs, AppPcs, RowPcs, SeenPcs,
     SubPcs, WhoPcs, NewSubPcs, DowngradePcs
<1> QED BY <1>2, <1>3, <1>4, BecomeStep DEF DeleteNotification, IInv

LEMMA CleanupIfUnusedStep == ASSUME IInv, NEW p \in Tasks, CleanupIfUnused(p) PROVE IInv'
<1>1. Stored' /\ CronOK' /\ KeepsRemote BY StoredKept DEF CleanupIfUnused
<1>2. task[p].row \in RowIds
  BY DEF CleanupIfUnused, At, IInv, InFlight, Holds, Loaded, RowPcs
<1>3. CASE Done(p) BY <1>1, <1>3, DoneStep DEF IInv
<1>4. CASE Goto(p, "deleteLocal")
  BY <1>1, <1>2, <1>4, GotoStep DEF IInv, Pcs, SlotPcs, AppPcs, RowPcs, SeenPcs,
     SubPcs, WhoPcs, NewSubPcs, DowngradePcs
<1> QED BY <1>1, <1>3, <1>4 DEF CleanupIfUnused, IInv

LEMMA AdminDeleteStep ==
  ASSUME IInv, NEW p \in Tasks, NEW r \in RowIds, AdminDelete(p, r) PROVE IInv'
<1> DEFINE u == [Idle EXCEPT !.pc = "deleteLocal", !.row = r]
<1>1. Stored' /\ CronOK' /\ KeepsRemote BY StoredKept DEF AdminDelete
<1>2. u \in Task
  <2>1. "deleteLocal" \in Pcs BY DEF Pcs, RowPcs
  <2> QED BY <2>1, IdleTask DEF Task
<1>3. Holds(u)
  BY IdleTask DEF Idle, Holds, Loaded, Pcs, SlotPcs, AppPcs, RowPcs, SeenPcs,
     SubPcs, WhoPcs, NewSubPcs, DowngradePcs
<1> QED BY <1>1, <1>2, <1>3, BecomeStep DEF AdminDelete, IInv

LEMMA DeleteLocalStep == ASSUME IInv, NEW p \in Tasks, DeleteLocal(p) PROVE IInv'
<1> DEFINE u == [task[p] EXCEPT !.pc = "deleteRemote", !.seen = rows[task[p].row]]
<1>1. Stored' /\ CronOK' /\ KeepsRemote BY StoredKept DEF DeleteLocal
<1>2. task[p] \in Task /\ task[p].row \in RowIds
  BY DEF DeleteLocal, At, IInv, InFlight, Holds, Loaded, RowPcs
<1>3. CASE rows[task[p].row] = Null
  BY <1>1, <1>3, DoneStep DEF DeleteLocal, IInv
<1>4. CASE rows[task[p].row] # Null
  <2>1. rows[task[p].row] \in Row /\ Known(rows[task[p].row].sub)
    BY <1>2, <1>4 DEF IInv, Stored, Existing
  <2>2. u \in Task BY <1>2, <2>1 DEF Task, Pcs, RowPcs
  <2>3. Holds(u)
    BY <1>2, <2>1 DEF IInv, InFlight, Task, Holds, Loaded, Pcs, SlotPcs, AppPcs, RowPcs, SeenPcs,
     SubPcs, WhoPcs, NewSubPcs, DowngradePcs
  <2> QED BY <1>1, <1>4, <2>2, <2>3, BecomeStep DEF DeleteLocal, IInv
<1> QED BY <1>3, <1>4

\* The state of a subscription changes, and nothing else of it.
LEMMA RemoteStateStep ==
  ASSUME IInv, NEW STATE s, NEW STATE x, Known(s), s \in SubIds \cup {0}, x \in RemoteStates,
         remote' = (IF s = 0 THEN remote ELSE [remote EXCEPT ![s].state = x]),
         acks' \subseteq Ack, UNCHANGED <<rows, nextRow, note, currentCost, account, nextSub, cron>>
  PROVE  Stored' /\ CronOK' /\ KeepsRemote
<1>1. KeepsRemote BY DEF IInv, Stored, KeepsRemote, Known, Remote
<1>2. \A y \in SubIds : remote'[y] # Null <=> remote[y] # Null
  BY NullOK DEF IInv, Stored, Known, Remote
<1>3. \A y \in Existing : Known(rows[y].sub)'
  BY <1>1, KnownKept DEF IInv, Stored, Existing, Row
<1>4. OwnSubscription'
  BY <1>1, NullOK DEF IInv, Stored, OwnSubscription, Existing, KeepsRemote, Known, Row
<1> QED BY <1>1, <1>2, <1>3, <1>4 DEF IInv, Stored, CronOK, KeepsRemote, Existing

LEMMA DeleteRemoteStep == ASSUME IInv, NEW p \in Tasks, DeleteRemote(p) PROVE IInv'
<1> DEFINE orphan == At(p, "deleteOrphan")
           s == IF orphan THEN task[p].sub ELSE task[p].seen.sub
<1>1. task[p] \in Task /\ Holds(task[p]) /\ (orphan \/ task[p].pc \in DOMAIN AfterDelete)
  BY DEF DeleteRemote, IInv, InFlight
<1>2. s \in SubIds \cup {0} /\ Known(s)
  <2>1. CASE orphan BY <1>1, <2>1 DEF At, Holds, Loaded, SubPcs, Known
  <2>2. CASE ~orphan
    <3>1. task[p].seen \in Row BY <1>1, <2>2 DEF AfterDelete, Holds, Loaded, SeenPcs
    <3> QED BY <1>1, <2>2, <3>1, NullOK DEF Holds, Row
  <2> QED BY <2>1, <2>2
<1>3. Stored' /\ CronOK' /\ KeepsRemote
  <2>1. CASE remote' = (IF s = 0 THEN remote ELSE [remote EXCEPT ![s].state = "deleted"])
    BY <1>2, <2>1, RemoteStateStep DEF DeleteRemote, IInv, Stored, RemoteStates
  <2>2. CASE UNCHANGED remote
    BY <2>2, StoredKept DEF DeleteRemote, shared
  <2> QED BY <2>1, <2>2 DEF DeleteRemote
<1>4. CASE orphan
  BY <1>3, <1>4, DoneStep DEF DeleteRemote, IInv
<1>5. CASE ~orphan
  <2>1. Goto(p, AfterDelete[task[p].pc]) BY <1>5 DEF DeleteRemote
  <2>2. CASE task[p].pc = "deleteRemote"
    <3>1. task[p].row \in RowIds /\ task[p].seen \in Row
      BY <1>1, <2>2 DEF Holds, Loaded, RowPcs, SeenPcs, AppPcs, SubPcs, WhoPcs, NewSubPcs,
         DowngradePcs
    <3>2. Goto(p, "release") BY <2>1, <2>2 DEF AfterDelete
    <3> QED
      BY <1>3, <3>1, <3>2, GotoStep DEF IInv, Pcs, SlotPcs, AppPcs, RowPcs, SeenPcs, SubPcs, WhoPcs,
         NewSubPcs, DowngradePcs
  <2>3. CASE task[p].pc = "migrateDelete"
    <3>1. task[p].row \in RowIds /\ task[p].seen \in Row /\ task[p].who \in Streamers
      BY <1>1, <2>3 DEF Holds, Loaded, RowPcs, SeenPcs, AppPcs, SubPcs, WhoPcs, NewSubPcs,
         DowngradePcs
    <3>2. Goto(p, "migrateRelease") BY <2>1, <2>3 DEF AfterDelete
    <3> QED
      BY <1>3, <3>1, <3>2, GotoStep DEF IInv, Pcs, SlotPcs, AppPcs, RowPcs, SeenPcs, SubPcs, WhoPcs,
         NewSubPcs, DowngradePcs
  <2>4. CASE task[p].pc = "downgradeDelete"
    <3>1. /\ task[p].row \in RowIds /\ task[p].app \in Apps /\ task[p].sub \in SubIds
          /\ remote[task[p].sub] \in Remote /\ remote[task[p].sub].row = task[p].row
          /\ task[p].ret # "attach"
      BY <1>1, <2>4 DEF Holds, Loaded, RowPcs, SeenPcs, AppPcs, SubPcs, WhoPcs, NewSubPcs,
         DowngradePcs
    <3>2. Goto(p, "downgradeRecord") BY <2>1, <2>4 DEF AfterDelete
    <3> QED
      BY <1>3, <3>1, <3>2, GotoStep DEF IInv, Pcs, SlotPcs, AppPcs, RowPcs, SeenPcs, SubPcs, WhoPcs,
         NewSubPcs, DowngradePcs
  <2>5. CASE task[p].pc = "dropRemote"
    <3>1. task[p].row \in RowIds /\ task[p].ret # "attach"
      BY <1>1, <2>5 DEF Holds, Loaded, RowPcs, SeenPcs, AppPcs, SubPcs, WhoPcs, NewSubPcs,
         DowngradePcs
    <3>2. Goto(p, "deactivate") BY <2>1, <2>5 DEF AfterDelete
    <3> QED
      BY <1>3, <3>1, <3>2, GotoStep DEF IInv, Pcs, SlotPcs, AppPcs, RowPcs, SeenPcs, SubPcs, WhoPcs,
         NewSubPcs, DowngradePcs
  <2>6. task[p].pc \in {"deleteRemote", "migrateDelete", "downgradeDelete", "dropRemote"}
    BY <1>1, <1>5 DEF AfterDelete
  <2> QED BY <1>3, <2>2, <2>3, <2>4, <2>5, <2>6 DEF IInv
<1> QED BY <1>4, <1>5

LEMMA DeleteTwitchOnlyStep ==
  ASSUME IInv, NEW p \in Tasks, NEW s \in SubIds, DeleteTwitchOnly(p, s) PROVE IInv'
<1> DEFINE u == [Idle EXCEPT !.pc = "deleteOrphan", !.sub = s]
<1>1. Stored' /\ CronOK' /\ KeepsRemote BY StoredKept DEF DeleteTwitchOnly
<1>2. remote[s] \in Remote BY DEF DeleteTwitchOnly, IInv, Stored
<1>3. u \in Task
  <2>1. "deleteOrphan" \in Pcs BY DEF Pcs, SubPcs
  <2> QED BY <2>1, IdleTask DEF Task
<1>4. Holds(u)
  BY <1>2, IdleTask DEF Idle, Holds, Loaded, Pcs, SlotPcs, AppPcs, RowPcs, SeenPcs,
     SubPcs, WhoPcs, NewSubPcs, DowngradePcs
<1> QED BY <1>1, <1>3, <1>4, BecomeStep DEF DeleteTwitchOnly, IInv

\* A step that changes only the accounts, besides its operation.
LEMMA AccountStep ==
  ASSUME IInv, account' \in [Streamers -> Account],
         UNCHANGED <<rows, nextRow, note, currentCost, remote, nextSub, acks, cron>>
  PROVE  Stored' /\ CronOK' /\ KeepsRemote
  BY DEF IInv, Stored, CronOK, KeepsRemote, Existing, OwnSubscription, Known

\* The rows an operation over a streamer loads.
LEMMA LoadedEntities ==
  ASSUME Stored, NEW STATE R, R \subseteq Existing
  PROVE  Entities(R) \subseteq Entity /\ \A e \in Entities(R) : Known(e.row.sub)
  BY DEF Stored, Entities, Entity, Existing

\* An operation that starts at migrate or downgrade for a streamer.
LEMMA ForStreamer ==
  ASSUME NEW st \in Streamers, NEW l \in {"storeTokens", "migrate", "downgrade"}
  PROVE  /\ [Idle EXCEPT !.who = st, !.pc = l] \in Task
         /\ Holds([Idle EXCEPT !.who = st, !.pc = l])
<1>1. [Idle EXCEPT !.who = st, !.pc = l] \in Task
  <2>1. l \in Pcs
    BY DEF Pcs, WhoPcs
  <2> QED BY <2>1, IdleTask DEF Task
<1>2. Holds([Idle EXCEPT !.who = st, !.pc = l])
  BY IdleTask DEF Idle, Holds, Loaded, Pcs, SlotPcs, AppPcs, RowPcs, SeenPcs,
     SubPcs, WhoPcs, NewSubPcs, DowngradePcs
<1> QED BY <1>1, <1>2

LEMMA LinkTwitchStep ==
  ASSUME IInv, NEW p \in Tasks, NEW st \in Streamers, LinkTwitch(p, st) PROVE IInv'
<1>1. account' \in [Streamers -> Account] BY DEF LinkTwitch, IInv, Stored, Account
<1>2. Stored' /\ CronOK' /\ KeepsRemote BY <1>1, AccountStep DEF LinkTwitch
<1> QED BY <1>2, ForStreamer, BecomeStep DEF LinkTwitch, IInv

LEMMA SetTwitchPersonalAuthStep ==
  ASSUME IInv, NEW p \in Tasks, NEW st \in Streamers, NEW b \in BOOLEAN,
         SetTwitchPersonalAuth(p, st, b)
  PROVE  IInv'
<1> DEFINE l == IF b THEN "migrate" ELSE "downgrade"
<1>1. account' \in [Streamers -> Account] BY DEF SetTwitchPersonalAuth, IInv, Stored, Account
<1>2. Stored' /\ CronOK' /\ KeepsRemote BY <1>1, AccountStep DEF SetTwitchPersonalAuth
<1>4. l \in {"migrate", "downgrade"} OBVIOUS
<1> QED BY <1>2, <1>4, ForStreamer, BecomeStep DEF SetTwitchPersonalAuth, IInv

LEMMA UnlinkTwitchStep ==
  ASSUME IInv, NEW p \in Tasks, NEW st \in Streamers, UnlinkTwitch(p, st) PROVE IInv'
<1> DEFINE u == [Idle EXCEPT !.pc = "downgrade", !.who = st, !.ret = "unlink"]
<1>1. Stored' /\ CronOK' /\ KeepsRemote BY StoredKept DEF UnlinkTwitch
<1>2. u \in Task
  <2>1. "downgrade" \in Pcs BY DEF Pcs, WhoPcs
  <2> QED BY <2>1, IdleTask DEF Task
<1>3. Holds(u)
  BY IdleTask DEF Idle, Holds, Loaded, Pcs, SlotPcs, AppPcs, RowPcs, SeenPcs,
     SubPcs, WhoPcs, NewSubPcs, DowngradePcs
<1> QED BY <1>1, <1>2, <1>3, BecomeStep DEF UnlinkTwitch, IInv

LEMMA RefreshExpiringTokensStep ==
  ASSUME IInv, NEW p \in Tasks, NEW st \in Streamers, RefreshExpiringTokens(p, st) PROVE IInv'
<1>1. account' \in [Streamers -> Account]
  BY ClearTokensType DEF RefreshExpiringTokens, IInv
<1>2. Stored' /\ CronOK' /\ KeepsRemote BY <1>1, AccountStep DEF RefreshExpiringTokens
<1> QED BY <1>2, ForStreamer, BecomeStep, DoneStep DEF RefreshExpiringTokens, IInv

LEMMA StoreTokensStep == ASSUME IInv, NEW p \in Tasks, StoreTokens(p) PROVE IInv'
<1>1. task[p].pc = "storeTokens" /\ task[p].who \in Streamers
  BY DEF StoreTokens, At, IInv, InFlight, Holds, Loaded, WhoPcs
<1>2. account' \in [Streamers -> Account] BY <1>1 DEF StoreTokens, IInv, Stored, Account
<1>3. Stored' /\ CronOK' /\ KeepsRemote BY <1>2, AccountStep DEF StoreTokens
<1>4. InFlight'
  BY <1>1, <1>3, GotoStep DEF StoreTokens, IInv, Pcs, SlotPcs, AppPcs, RowPcs, SeenPcs,
     SubPcs, WhoPcs, NewSubPcs, DowngradePcs
<1> QED BY <1>3, <1>4 DEF IInv

LEMMA UnlinkAccountStep == ASSUME IInv, NEW p \in Tasks, UnlinkAccount(p) PROVE IInv'
<1>1. task[p].pc = "unlink" /\ task[p].who \in Streamers
  BY DEF UnlinkAccount, At, IInv, InFlight, Holds, Loaded, WhoPcs
<1>2. account' \in [Streamers -> Account] BY <1>1 DEF UnlinkAccount, IInv, Stored, Account
<1>3. Stored' /\ CronOK' /\ KeepsRemote BY <1>2, AccountStep DEF UnlinkAccount
<1>4. InFlight'
  BY <1>1, <1>3, GotoStep DEF UnlinkAccount, IInv, Pcs, SlotPcs, AppPcs, RowPcs, SeenPcs,
     SubPcs, WhoPcs, NewSubPcs, DowngradePcs
<1> QED BY <1>3, <1>4 DEF IInv

LEMMA ForgetTokensStep == ASSUME IInv, NEW p \in Tasks, ForgetTokens(p) PROVE IInv'
<1>1. account' \in [Streamers -> Account] BY DEF ForgetTokens, IInv, Stored, Account
<1> QED BY <1>1, AccountStep, DoneStep DEF ForgetTokens, IInv

LEMMA MigrateStep == ASSUME IInv, NEW p \in Tasks, Migrate(p) PROVE IInv'
<1> DEFINE st == task[p].who
           mine == {r \in Existing : StreamerOf[rows[r].slot] = st /\ rows[r].app \notin Internal}
           u == [task[p] EXCEPT !.pc = "migrateNext", !.todo = Entities(mine)]
<1>1. task[p] \in Task /\ st \in Streamers
  BY DEF Migrate, At, IInv, InFlight, Holds, Loaded, WhoPcs
<1>2. account' \in [Streamers -> Account]
  BY <1>1, ClearTokensType DEF Migrate, IInv, Stored
<1>3. Stored' /\ CronOK' /\ KeepsRemote BY <1>2, AccountStep DEF Migrate
<1>4. CASE Done(p) BY <1>3, <1>4, DoneStep DEF IInv
<1>5. CASE Become(p, u)
  <2>1. Entities(mine) \subseteq Entity /\ \A e \in Entities(mine) : Known(e.row.sub)
    BY LoadedEntities DEF IInv
  <2>2. u \in Task BY <1>1, <2>1 DEF Task, Pcs, WhoPcs
  <2>3. Holds(u)
    BY <1>1, <2>1 DEF IInv, InFlight, Task, Holds, Loaded, Pcs, SlotPcs, AppPcs, RowPcs, SeenPcs,
     SubPcs, WhoPcs, NewSubPcs, DowngradePcs
  <2> QED BY <1>3, <1>5, <2>2, <2>3, BecomeStep DEF IInv
<1> QED BY <1>4, <1>5 DEF Migrate

LEMMA MigrateNextStep == ASSUME IInv, NEW p \in Tasks, MigrateNext(p) PROVE IInv'
<1> DEFINE st == task[p].who
<1>1. task[p] \in Task /\ Holds(task[p]) /\ st \in Streamers
  BY DEF MigrateNext, At, IInv, InFlight, Holds, Loaded, WhoPcs
<1>2. CronOK' BY DEF MigrateNext, IInv, CronOK
<1>3. CASE Done(p) /\ UNCHANGED <<account, remote, nextSub>>
  BY <1>3, StoredKept, DoneStep DEF MigrateNext, IInv, shared
<1>4. ASSUME NEW e \in task[p].todo, NEW a \in Internal, UNCHANGED account,
             CreateRemote(e.id, a, 0),
             Become(p, [task[p] EXCEPT !.pc = "migrateRecord", !.row = e.id, !.seen = e.row,
                            !.sub = nextSub, !.app = a, !.todo = @ \ {e}])
      PROVE  IInv'
  <2> DEFINE u == [task[p] EXCEPT !.pc = "migrateRecord", !.row = e.id, !.seen = e.row,
                            !.sub = nextSub, !.app = a, !.todo = @ \ {e}]
  <2>1. /\ e.id \in RowIds /\ e.row \in Row /\ a \in Apps /\ Known(e.row.sub)
        /\ 0 \in 0..CostBound
    BY <1>1, ConstantsOK DEF Task, Entity, Holds, Internal
  <2>2. Stored' /\ KeepsRemote /\ nextSub \in SubIds /\ remote'[nextSub] \in Remote
          /\ remote'[nextSub].row = e.id
    BY <1>4, <2>1, CreateRemoteStep DEF MigrateNext, IInv, Stored
  <2>3. u \in Task BY <1>1, <2>1, <2>2 DEF Task, Pcs, AppPcs
  <2>4. /\ u.pc = "migrateRecord" /\ u.row = e.id /\ u.app = a /\ u.sub = nextSub
        /\ u.who = st /\ u.seen = e.row /\ u.todo = task[p].todo \ {e}
    BY <1>1 DEF Task
  <2>5. \A f \in u.todo : Known(f.row.sub) BY <1>1, <2>4 DEF Holds
  <2>6. InFlight'
    BY <1>1, <1>4, <2>1, <2>2, <2>3, <2>4, <2>5, NewSubStep DEF IInv
  <2> QED BY <1>2, <2>2, <2>6 DEF IInv
<1>5. ASSUME NEW e \in task[p].todo, account' = account \/ ClearTokens(st),
             Become(p, [task[p] EXCEPT !.todo = @ \ {e}]), UNCHANGED <<remote, nextSub>>
      PROVE  IInv'
  <2>1. account' \in [Streamers -> Account] BY <1>1, <1>5, ClearTokensType DEF IInv, Stored
  <2>2. Stored' /\ CronOK' /\ KeepsRemote BY <1>5, <2>1, AccountStep DEF MigrateNext
  <2>3. [task[p] EXCEPT !.todo = @ \ {e}] \in Task BY <1>1 DEF Task
  <2>4. Holds([task[p] EXCEPT !.todo = @ \ {e}]) BY <1>1 DEF Holds, Loaded, Task
  <2> QED BY <1>5, <2>2, <2>3, <2>4, BecomeStep DEF IInv
<1> QED BY <1>3, <1>4, <1>5 DEF MigrateNext

LEMMA MigrateRecordStep == ASSUME IInv, NEW p \in Tasks, MigrateRecord(p) PROVE IInv'
<1> DEFINE tk == task[p]
           new == [rows[tk.row] EXCEPT !.sub = tk.sub, !.app = tk.app, !.cost = 0,
                                       !.status = "pending"]
<1>1. /\ tk.pc = "migrateRecord" /\ tk \in Task /\ tk.row \in RowIds /\ tk.who \in Streamers
      /\ tk.sub \in SubIds /\ remote[tk.sub] \in Remote /\ remote[tk.sub].row = tk.row
      /\ tk.app \in Apps
  BY DEF MigrateRecord, At, IInv, InFlight, Holds, Loaded, RowPcs, SubPcs, AppPcs, WhoPcs, NewSubPcs
<1>2. rows[tk.row] # Null => new \in Row /\ new.sub = tk.sub
  BY <1>1 DEF IInv, Stored, Row, Statuses
<1>3. Stored' /\ CronOK' /\ KeepsRemote BY <1>1, <1>2, UpdateRowStep DEF MigrateRecord
<1>4. tk.seen \in Row BY <1>1 DEF IInv, InFlight, Holds, Loaded, SeenPcs
<1>5. InFlight'
  BY <1>1, <1>3, <1>4, GotoStep DEF MigrateRecord, IInv, Pcs, SlotPcs, AppPcs, RowPcs, SeenPcs,
     SubPcs, WhoPcs, NewSubPcs, DowngradePcs
<1> QED BY <1>3, <1>5 DEF IInv

LEMMA DowngradeStep == ASSUME IInv, NEW p \in Tasks, Downgrade(p) PROVE IInv'
<1> DEFINE mine == {r \in Existing : /\ StreamerOf[rows[r].slot] = task[p].who
                                     /\ rows[r].app \in Internal}
           u == [task[p] EXCEPT !.pc = "downgradeNext", !.todo = Entities(mine)]
<1>1. task[p] \in Task /\ task[p].ret # "attach"
  BY DEF Downgrade, At, IInv, InFlight, Holds, DowngradePcs
<1>2. Stored' /\ CronOK' /\ KeepsRemote BY StoredKept DEF Downgrade
<1>3. CASE Return(p) BY <1>1, <1>2, <1>3, ReturnStep DEF IInv
<1>4. CASE Become(p, u)
  <2>1. Entities(mine) \subseteq Entity /\ \A e \in Entities(mine) : Known(e.row.sub)
    BY LoadedEntities DEF IInv
  <2>2. u \in Task BY <1>1, <2>1 DEF Task, Pcs
  <2>3. Holds(u)
    BY <1>1, <2>1 DEF IInv, InFlight, Task, Holds, Loaded, Pcs, SlotPcs, AppPcs, RowPcs, SeenPcs,
     SubPcs, WhoPcs, NewSubPcs, DowngradePcs
  <2> QED BY <1>2, <1>4, <2>2, <2>3, BecomeStep DEF IInv
<1> QED BY <1>2, <1>3, <1>4 DEF Downgrade, IInv

LEMMA DowngradeNextStep == ASSUME IInv, NEW p \in Tasks, DowngradeNext(p) PROVE IInv'
<1>1. task[p] \in Task /\ Holds(task[p]) /\ task[p].pc = "downgradeNext"
  BY DEF DowngradeNext, At, IInv, InFlight
<1>2. task[p].ret # "attach" BY <1>1 DEF Holds, DowngradePcs
<1>3. Stored' /\ CronOK' /\ KeepsRemote BY StoredKept DEF DowngradeNext
<1>4. CASE Return(p) BY <1>2, <1>3, <1>4, ReturnStep DEF IInv
<1>5. ASSUME NEW e \in task[p].todo,
             LET next == [task[p] EXCEPT !.row = e.id, !.seen = e.row, !.todo = @ \ {e}]
             IN  \/ Become(p, next)
                 \/ \E a \in Apps :
                      Become(p, [next EXCEPT !.pc = "downgradeRegister", !.app = a])
                 \/ Become(p, [next EXCEPT !.pc = "dropRemote"])
      PROVE  InFlight'
  <2> DEFINE next == [task[p] EXCEPT !.row = e.id, !.seen = e.row, !.todo = @ \ {e}]
  <2>1. e.id \in RowIds /\ e.row \in Row /\ Known(e.row.sub)
    BY <1>1 DEF Task, Entity, Holds
  <2>2. next \in Task BY <1>1, <2>1 DEF Task
  <2>3. /\ next.pc = "downgradeNext" /\ next.row = e.id /\ next.seen = e.row
        /\ next.ret = task[p].ret /\ next.who = task[p].who
        /\ next.todo = task[p].todo \ {e}
    BY <1>1 DEF Task
  <2>4. Holds(next)
    BY <1>1, <1>2, <2>1, <2>3 DEF Holds, Loaded, Pcs, SlotPcs, AppPcs, RowPcs, SeenPcs,
     SubPcs, WhoPcs, NewSubPcs, DowngradePcs
  <2> HIDE DEF next
  <2>5. CASE Become(p, next) BY <1>3, <2>2, <2>4, <2>5, BecomeStep DEF IInv
  <2>6. ASSUME NEW a \in Apps, Become(p, [next EXCEPT !.pc = "downgradeRegister", !.app = a])
        PROVE  InFlight'
    <3>1. [next EXCEPT !.pc = "downgradeRegister", !.app = a] \in Task
      BY <2>2 DEF Task, Pcs, AppPcs
    <3>2. Holds([next EXCEPT !.pc = "downgradeRegister", !.app = a])
      BY <1>2, <2>1, <2>2, <2>3, <2>4 DEF Task, Holds, Loaded, Pcs, SlotPcs, AppPcs, RowPcs, SeenPcs,
     SubPcs, WhoPcs, NewSubPcs, DowngradePcs
    <3> QED BY <1>3, <2>6, <3>1, <3>2, BecomeStep DEF IInv
  <2>7. CASE Become(p, [next EXCEPT !.pc = "dropRemote"])
    <3>1. [next EXCEPT !.pc = "dropRemote"] \in Task BY <2>2 DEF Task, Pcs, RowPcs
    <3>2. Holds([next EXCEPT !.pc = "dropRemote"])
      BY <1>2, <2>1, <2>2, <2>3, <2>4 DEF Task, Holds, Loaded, Pcs, SlotPcs, AppPcs, RowPcs, SeenPcs,
     SubPcs, WhoPcs, NewSubPcs, DowngradePcs
    <3> QED BY <1>3, <2>7, <3>1, <3>2, BecomeStep DEF IInv
  <2> QED BY <1>5, <2>5, <2>6, <2>7 DEF next
<1>6. FindLeastLoaded \subseteq Apps \cup {Null} BY DEF FindLeastLoaded, LeastLoaded
<1> QED BY <1>3, <1>4, <1>5, <1>6 DEF DowngradeNext, IInv

LEMMA DowngradeRegisterStep == ASSUME IInv, NEW p \in Tasks, DowngradeRegister(p) PROVE IInv'
<1> DEFINE u == [task[p] EXCEPT !.pc = "downgradeDelete", !.sub = nextSub]
<1>1. /\ task[p] \in Task /\ Holds(task[p]) /\ task[p].pc = "downgradeRegister"
      /\ task[p].row \in RowIds /\ task[p].app \in Apps /\ task[p].seen \in Row
      /\ task[p].ret # "attach"
  BY DEF DowngradeRegister, At, IInv, InFlight, Holds, Loaded, RowPcs, AppPcs, SeenPcs,
     DowngradePcs
<1>2. CronOK' BY DEF DowngradeRegister, IInv, CronOK
<1>3. ASSUME NEW c \in Costs, CreateRemote(task[p].row, task[p].app, c), Become(p, u)
      PROVE  IInv'
  <2>1. Stored' /\ KeepsRemote /\ nextSub \in SubIds /\ remote'[nextSub] \in Remote
          /\ remote'[nextSub].row = task[p].row
    BY <1>1, <1>3, CostsBounded, CreateRemoteStep DEF DowngradeRegister, IInv, Stored
  <2>2. u \in Task BY <1>1, <2>1 DEF Task, Pcs, AppPcs
  <2>3. InFlight'
    BY <1>1, <1>3, <2>1, <2>2, NewSubStep DEF IInv, Holds, Loaded, Task
  <2> QED BY <1>2, <2>1, <2>3 DEF IInv
<1>4. CASE Goto(p, "downgradeNext") /\ UNCHANGED <<remote, nextSub>>
  <2>1. Stored' /\ CronOK' /\ KeepsRemote BY <1>4, StoredKept DEF DowngradeRegister, shared
  <2> QED BY <1>1, <1>4, <2>1, GotoStep DEF IInv, Pcs, SlotPcs, AppPcs, RowPcs, SeenPcs,
     SubPcs, WhoPcs, NewSubPcs, DowngradePcs
<1> QED BY <1>3, <1>4 DEF DowngradeRegister

LEMMA DowngradeRecordStep == ASSUME IInv, NEW p \in Tasks, DowngradeRecord(p) PROVE IInv'
<1> DEFINE tk == task[p]
           new == [rows[tk.row] EXCEPT !.sub = tk.sub, !.app = tk.app,
                              !.cost = remote[tk.sub].cost, !.status = "pending"]
<1>1. /\ tk.pc = "downgradeRecord" /\ tk \in Task /\ tk.row \in RowIds
      /\ tk.sub \in SubIds /\ remote[tk.sub] \in Remote /\ remote[tk.sub].row = tk.row
      /\ tk.app \in Apps /\ tk.ret # "attach"
  BY DEF DowngradeRecord, At, IInv, InFlight, Holds, Loaded, RowPcs, SubPcs, AppPcs, NewSubPcs,
     DowngradePcs
<1>2. remote[tk.sub].cost \in Nat BY <1>1 DEF Remote
<1>3. rows[tk.row] # Null => new \in Row /\ new.sub = tk.sub
  <2>1. rows[tk.row] # Null => rows[tk.row] \in Row BY <1>1 DEF IInv, Stored
  <2> QED BY <1>1, <1>2, <2>1 DEF Row, Statuses
<1>4. Stored' /\ CronOK' /\ KeepsRemote BY <1>1, <1>3, UpdateRowStep DEF DowngradeRecord
<1>5. InFlight'
  BY <1>1, <1>4, GotoStep DEF DowngradeRecord, IInv, Pcs, SlotPcs, AppPcs, RowPcs, SeenPcs,
     SubPcs, WhoPcs, NewSubPcs, DowngradePcs
<1> QED BY <1>4, <1>5 DEF IInv

LEMMA DeactivateStep == ASSUME IInv, NEW p \in Tasks, Deactivate(p) PROVE IInv'
<1> DEFINE r == task[p].row
           new == [rows[r] EXCEPT !.status = "deactivated"]
<1>1. task[p].pc = "deactivate" /\ r \in RowIds /\ task[p].ret # "attach"
  BY DEF Deactivate, At, IInv, InFlight, Holds, Loaded, RowPcs, DowngradePcs
<1>2. rows[r] # Null => new \in Row /\ new.sub = rows[r].sub
  BY <1>1 DEF IInv, Stored, Row, Statuses
<1>3. Stored' /\ CronOK' /\ KeepsRemote BY <1>1, <1>2, UpdateRowStep DEF Deactivate
<1>4. InFlight'
  BY <1>1, <1>3, GotoStep DEF Deactivate, IInv, Pcs, SlotPcs, AppPcs, RowPcs, SeenPcs,
     SubPcs, WhoPcs, NewSubPcs, DowngradePcs
<1> QED BY <1>3, <1>4 DEF IInv

LEMMA SuspendNotificationsStep ==
  ASSUME IInv, NEW p \in Tasks, SuspendNotifications(p) PROVE IInv'
<1>1. task[p].ret # "attach"
  BY DEF SuspendNotifications, At, IInv, InFlight, Holds, DowngradePcs
<1>2. note' \in [Notes -> [row: RowIds \cup {0}, active: BOOLEAN]]
  BY DEF SuspendNotifications, IInv, Stored
<1>3. Stored' /\ CronOK' /\ KeepsRemote BY <1>2, NotesStep DEF SuspendNotifications
<1>4. InFlight'
  BY <1>1, <1>3, GotoStep DEF SuspendNotifications, IInv, Pcs, SlotPcs, AppPcs, RowPcs, SeenPcs,
     SubPcs, WhoPcs, NewSubPcs, DowngradePcs
<1> QED BY <1>3, <1>4 DEF IInv

LEMMA RequestStep == ASSUME IInv, NEW p \in Tasks, Request(p) PROVE IInv'
  BY CreateNotificationStep, AdminRegisterStep, DeleteNotificationStep, AdminDeleteStep,
     DeleteTwitchOnlyStep, LinkTwitchStep, UnlinkTwitchStep, SetTwitchPersonalAuthStep
  DEF Request

LEMMA ProceedStep == ASSUME IInv, NEW p \in Tasks, Proceed(p) PROVE IInv'
  BY GetOrCreateStreamerStep, TryRegisterWithUserTokenStep, PickAppStep, InsertRowStep,
     RegisterWithAppStep, RegisterWithUserStep,
     UndoRowStep, RecordSubscriptionStep, ConsumeCostStep, AttachStep, CleanupIfUnusedStep,
     DeleteLocalStep, DeleteRemoteStep, ReleaseCostStep, DeleteLocalRowStep, MigrateStep,
     MigrateNextStep, MigrateRecordStep, StoreTokensStep, UnlinkAccountStep,
     ForgetTokensStep, DowngradeStep, DowngradeNextStep,
     DowngradeRegisterStep, DowngradeRecordStep, DeactivateStep, SuspendNotificationsStep
  DEF Proceed

-----------------------------------------------------------------------------
(* The other processes                                                      *)

\* Statuses change, and no row changes otherwise.
LEMMA SetStatusStep ==
  ASSUME IInv, NEW STATE R, NEW STATE s, s \in Statuses, SetStatus(R, s),
         CronOK', acks' \subseteq Ack,
         UNCHANGED <<nextRow, note, currentCost, account, remote, nextSub, task>>
  PROVE  IInv'
<1>1. KeepsRemote BY DEF IInv, Stored, KeepsRemote
<1>2. rows' \in [RowIds -> Row \cup {Null}] BY DEF SetStatus, IInv, Stored, Row
<1>3. \A x \in RowIds : rows'[x] # Null => rows[x] # Null /\ rows'[x].sub = rows[x].sub
  BY DEF SetStatus, IInv, Stored, Row
<1>4. Stored' BY <1>1, <1>2, <1>3, RowsStep DEF IInv, Stored
<1>5. InFlight' BY <1>1, HoldsKept DEF IInv, InFlight
<1> QED BY <1>4, <1>5 DEF IInv

\* A step that leaves the database, Twitch and the operations alone.
LEMMA CronStep ==
  ASSUME IInv, CronOK',
         UNCHANGED <<rows, nextRow, note, currentCost, account, remote, nextSub, acks, task>>
  PROVE  IInv'
<1>1. KeepsRemote BY DEF IInv, Stored, KeepsRemote
<1>2. Stored' BY DEF IInv, Stored, Existing, OwnSubscription, Known
<1>3. InFlight' BY <1>1, HoldsKept DEF IInv, InFlight
<1> QED BY <1>2, <1>3 DEF IInv

LEMMA SyncStep == ASSUME IInv, Sync PROVE IInv'
<1>1. CASE SyncRead
  <2> DEFINE stale == {r \in Existing : rows[r].status = "pending" /\ rows[r].aged}
  <2>1. Entities(stale) \subseteq Entity BY LoadedEntities DEF IInv
  <2>2. CronOK' BY <1>1, <2>1 DEF SyncRead, CronOK, CronIdle
  <2> QED BY <1>1, <2>2, CronStep DEF SyncRead
<1>2. CASE SyncQuery
  <2>1. {e \in cron.stale : IsFailed(e) /\ OlderThanAnHour(e)} = {}
    BY DEF OlderThanAnHour, Selected
  <2>2. cron.stale \subseteq Entity BY DEF IInv, CronOK
  <2>3. ASSUME cron' = [cron EXCEPT !.pc = "enable",
                    !.toEnable = {e \in cron.stale : ~IsFailed(e)},
                    !.toDelete = {e \in cron.stale : IsFailed(e) /\ OlderThanAnHour(e)}]
        PROVE  CronOK'
    <3>1. cron' = [cron EXCEPT !.pc = "enable",
                    !.toEnable = {e \in cron.stale : ~IsFailed(e)}, !.toDelete = {}]
      BY <2>1, <2>3
    <3>2. {e \in cron.stale : ~IsFailed(e)} \in SUBSET Entity BY <2>2
    <3> QED BY <3>1, <3>2 DEF IInv, CronOK
  <2>4. ASSUME cron' = CronIdle PROVE CronOK' BY <2>4 DEF CronOK, CronIdle
  <2>5. CronOK' BY <1>2, <2>3, <2>4 DEF SyncQuery
  <2> QED BY <1>2, <2>5, CronStep DEF SyncQuery
<1>3. CASE SyncEnable
  <2>1. CronOK' BY <1>3 DEF SyncEnable, IInv, CronOK, CronIdle
  <2>2. CASE cron.toEnable = {} BY <1>3, <2>1, <2>2, CronStep DEF SyncEnable
  <2>3. CASE cron.toEnable # {}
    BY <1>3, <2>1, <2>3, SetStatusStep DEF SyncEnable, Statuses, IInv, Stored
  <2> QED BY <2>2, <2>3
<1>4. CASE SyncRevoke
  <2>1. cron.toDelete = {} BY DEF IInv, CronOK
  <2>2. UNCHANGED <<rows, currentCost>> BY <1>4, <2>1 DEF SyncRevoke
  <2>3. CronOK' BY <1>4 DEF SyncRevoke, CronOK, CronIdle
  <2> QED BY <1>4, <2>2, <2>3, CronStep DEF SyncRevoke
<1> QED BY <1>1, <1>2, <1>3, <1>4 DEF Sync

LEMMA QueueStep == ASSUME IInv, Queue PROVE IInv'
<1>1. PICK m \in acks : ApplyStatus(m) BY DEF Queue
<1>2. m.status \in Statuses BY DEF IInv, Stored, Ack, Statuses
<1>3. CronOK' /\ acks' \subseteq Ack BY <1>1 DEF ApplyStatus, IInv, Stored, CronOK
<1>4. CASE SetStatus({m.row}, m.status)
  BY <1>1, <1>2, <1>3, <1>4, SetStatusStep DEF ApplyStatus
<1>5. CASE UNCHANGED rows
  <2>1. KeepsRemote BY <1>1 DEF ApplyStatus, IInv, Stored, KeepsRemote
  <2>2. Stored' BY <1>1, <1>3, <1>5 DEF ApplyStatus, IInv, Stored, Existing, OwnSubscription, Known
  <2>3. InFlight' BY <1>1, <2>1, HoldsKept DEF ApplyStatus, IInv, InFlight
  <2> QED BY <1>3, <2>2, <2>3 DEF IInv
<1> QED BY <1>1, <1>4, <1>5 DEF ApplyStatus

\* Twitch changes the state of a subscription, and may report it.
LEMMA TwitchStep ==
  ASSUME IInv, NEW s \in SubIds, NEW f \in RemoteStates, NEW x \in RemoteStates,
         SetRemote(s, f, x), remote[s] \in Remote => acks' \subseteq Ack,
         UNCHANGED <<rows, nextRow, note, currentCost, account, nextSub, task, cron>>
  PROVE  IInv'
<1>1. remote[s] \in Remote BY DEF SetRemote, IInv, Stored
<1>2. Stored' /\ CronOK' /\ KeepsRemote
  BY <1>1, NullFacts, RemoteStateStep DEF SetRemote, Known
<1>3. InFlight' BY <1>2, HoldsKept DEF IInv, InFlight
<1> QED BY <1>2, <1>3 DEF IInv

LEMMA EnvironmentStep == ASSUME IInv, Environment PROVE IInv'
<1>1. ASSUME NEW s \in SubIds, Challenge(s) PROVE IInv'
  <2>1. remote[s] \in Remote => acks' \subseteq Ack
    BY <1>1 DEF Challenge, IInv, Stored, Ack, Remote
  <2> QED BY <1>1, <2>1, TwitchStep DEF Challenge, RemoteStates
<1>2. ASSUME NEW s \in SubIds, ChallengeFails(s) PROVE IInv'
  BY <1>2, TwitchStep DEF ChallengeFails, RemoteStates, IInv, Stored
<1>3. ASSUME NEW s \in SubIds, Revoke(s) PROVE IInv'
  <2>1. remote[s] \in Remote => acks' \subseteq Ack
    BY <1>3 DEF Revoke, IInv, Stored, Ack, Remote
  <2> QED BY <1>3, <2>1, TwitchStep DEF Revoke, RemoteStates
<1>4. ASSUME NEW st \in Streamers, WithdrawGrant(st) PROVE IInv'
  <2>1. account' \in [Streamers -> Account] BY <1>4 DEF WithdrawGrant, IInv, Stored, Account
  <2>2. Stored' /\ CronOK' /\ KeepsRemote BY <1>4, <2>1, AccountStep DEF WithdrawGrant
  <2>3. InFlight' BY <1>4, <2>2, HoldsKept DEF WithdrawGrant, IInv, InFlight
  <2> QED BY <2>2, <2>3 DEF IInv
<1>5. ASSUME NEW r \in RowIds, Age(r) PROVE IInv'
  <2> DEFINE new == [rows[r] EXCEPT !.aged = TRUE]
  <2>1. rows[r] # Null /\ new \in Row /\ new.sub = rows[r].sub
    BY <1>5 DEF Age, IInv, Stored, Row
  <2>2. UpdateRow(r, new) BY <1>5, <2>1 DEF Age, UpdateRow
  <2>3. Stored' /\ CronOK' /\ KeepsRemote BY <1>5, <2>1, <2>2, UpdateRowStep DEF Age
  <2>4. InFlight' BY <1>5, <2>3, HoldsKept DEF Age, IInv, InFlight
  <2> QED BY <2>3, <2>4 DEF IInv
<1>6. ASSUME Crash PROVE IInv'
  <2>1. Stored' /\ KeepsRemote
    BY <1>6 DEF Crash, IInv, Stored, Existing, OwnSubscription, Known, KeepsRemote
  <2>2. CronOK' BY <1>6 DEF Crash, CronOK, CronIdle
  <2>3. InFlight' BY <1>6, IdleTask DEF Crash, InFlight
  <2> QED BY <2>1, <2>2, <2>3 DEF IInv
<1> QED BY <1>1, <1>2, <1>3, <1>4, <1>5, <1>6 DEF Environment

-----------------------------------------------------------------------------
(* The theorems                                                             *)

LEMMA InitIInv == Init => IInv
<1> SUFFICES ASSUME Init PROVE IInv OBVIOUS
<1>1. Stored
  BY ConstantsOK, NullOK DEF Init, Stored, SubIds, RowIds, Existing, OwnSubscription, Account
<1>2. CronOK BY DEF Init, CronOK, CronIdle
<1>3. InFlight BY IdleTask DEF Init, InFlight
<1> QED BY <1>1, <1>2, <1>3 DEF IInv

LEMMA NextIInv == IInv /\ [Next]_vars => IInv'
<1> SUFFICES ASSUME IInv, [Next]_vars PROVE IInv' OBVIOUS
<1>1. ASSUME NEW p \in Tasks, TokenCron(p) PROVE IInv'
  BY <1>1, RefreshExpiringTokensStep DEF TokenCron
<1>2. CASE UNCHANGED vars
  <2>1. CronOK' BY <1>2 DEF vars, IInv, CronOK
  <2> QED BY <1>2, <2>1, CronStep DEF vars
<1> QED BY <1>1, <1>2, RequestStep, ProceedStep, SyncStep, QueueStep, EnvironmentStep DEF Next

\* Whatever operations interleave, fail or are forgotten by a restart, every
\* operation finds at each await what the code after it reads: the rows, the
\* ids and the loaded entities have the types the code gives them.
THEOREM TypeCorrect == Spec => []TypeOK
<1>1. IInv => TypeOK BY DEF IInv, Stored, CronOK, InFlight, Holds, TypeOK
<1> QED BY <1>1, InitIInv, NextIInv, PTL DEF Spec

\* The subscription a row refers to calls back to that row, in every instance
\* of the service: the update by id after registerEvent never records a
\* subscription on a row it was not created for.
THEOREM SubscriptionIsOwn == Spec => []OwnSubscription
<1>1. IInv => OwnSubscription BY DEF IInv, Stored
<1> QED BY <1>1, InitIInv, NextIInv, PTL DEF Spec

-----------------------------------------------------------------------------
(* The capacity of an app                                                   *)

\* Every operation that passed an app's capacity check counts in advance for
\* the largest cost, on top of a counter that was below max_cost at the check.
CapacityInv ==
  \A a \in Apps : currentCost[a] + CostBound * Cardinality(Consuming(a))
                    <= MaxCost[a] - 1 + CostBound * Cardinality(Tasks)

\* No counter grows and no operation passes a capacity check.
Calm ==
  /\ \A a \in Apps : currentCost'[a] <= currentCost[a]
  /\ \A q \in Tasks : task'[q].pc \in ConsumingPcs =>
       task[q].pc \in ConsumingPcs /\ task'[q].app = task[q].app

LEMMA ProductMonotone ==
  ASSUME NEW c \in Nat, NEW m \in Nat, NEW n \in Nat, m <= n PROVE c * m <= c * n
<1>1. PICK k \in Nat : n = m + k
  <2>1. n - m \in Nat /\ n = m + (n - m) OBVIOUS
  <2> QED BY <2>1
<1>2. c * n = c * m + c * k BY <1>1
<1>3. c * k >= 0 OBVIOUS
<1> QED BY <1>2, <1>3

LEMMA ConsumingCardinality ==
  ASSUME NEW a \in Apps
  PROVE  /\ IsFiniteSet(Consuming(a))
         /\ Cardinality(Consuming(a)) \in Nat /\ Cardinality(Tasks) \in Nat
         /\ CostBound * Cardinality(Consuming(a)) <= CostBound * Cardinality(Tasks)
<1>1. Consuming(a) \subseteq Tasks BY DEF Consuming
<1>2. /\ IsFiniteSet(Consuming(a)) /\ Cardinality(Consuming(a)) \in Nat
      /\ Cardinality(Tasks) \in Nat /\ Cardinality(Consuming(a)) <= Cardinality(Tasks)
  BY <1>1, ConstantsOK, FS_Subset, FS_CardinalityType
<1> QED BY <1>2, ConstantsOK, ProductMonotone

LEMMA CalmStep == ASSUME IInv, IInv', CapacityInv, Calm PROVE CapacityInv'
<1> SUFFICES ASSUME NEW a \in Apps
             PROVE  currentCost'[a] + CostBound * Cardinality(Consuming(a)')
                      <= MaxCost[a] - 1 + CostBound * Cardinality(Tasks)
  BY DEF CapacityInv
<1>1. Consuming(a)' \subseteq Consuming(a) BY DEF Calm, Consuming
<1>2. /\ IsFiniteSet(Consuming(a)) /\ Cardinality(Consuming(a)) \in Nat
      /\ Cardinality(Tasks) \in Nat
  BY ConsumingCardinality
<1>3. /\ Cardinality(Consuming(a)') \in Nat
      /\ Cardinality(Consuming(a)') <= Cardinality(Consuming(a))
  BY <1>1, <1>2, FS_Subset, FS_CardinalityType
<1>4. CostBound * Cardinality(Consuming(a)') <= CostBound * Cardinality(Consuming(a))
  BY <1>2, <1>3, ConstantsOK, ProductMonotone
<1>5. /\ currentCost[a] \in Int /\ currentCost'[a] \in Int /\ MaxCost[a] \in Nat
      /\ currentCost'[a] <= currentCost[a]
  BY ConstantsOK DEF IInv, Stored, Calm
<1>6. /\ CostBound * Cardinality(Consuming(a)') \in Int
      /\ CostBound * Cardinality(Consuming(a)) \in Int
      /\ CostBound * Cardinality(Tasks) \in Int
  BY <1>2, <1>3, ConstantsOK
<1>7. currentCost[a] + CostBound * Cardinality(Consuming(a))
        <= MaxCost[a] - 1 + CostBound * Cardinality(Tasks)
  BY DEF CapacityInv
<1> QED BY <1>4, <1>5, <1>6, <1>7

\* An app passes the check of an operation below its max_cost, and the other
\* operations count as before.
LEMMA CheckedStep ==
  ASSUME IInv, IInv', CapacityInv, NEW p \in Tasks, NEW b \in Apps, HasRoom(b),
         UNCHANGED currentCost, task'[p].app = b,
         \A q \in Tasks \ {p} : task'[q] = task[q]
  PROVE  CapacityInv'
<1> SUFFICES ASSUME NEW a \in Apps
             PROVE  currentCost[a] + CostBound * Cardinality(Consuming(a)')
                      <= MaxCost[a] - 1 + CostBound * Cardinality(Tasks)
  BY DEF CapacityInv
<1>1. /\ currentCost[a] \in Int /\ MaxCost[a] \in Nat /\ CostBound \in Nat
  BY ConstantsOK DEF IInv, Stored
<1>2. /\ Consuming(a)' \subseteq Tasks /\ IsFiniteSet(Consuming(a))
      /\ Cardinality(Consuming(a)) \in Nat /\ Cardinality(Tasks) \in Nat
  BY ConsumingCardinality DEF Consuming
<1>3. Cardinality(Consuming(a)') \in Nat /\ Cardinality(Consuming(a)') <= Cardinality(Tasks)
  BY <1>2, ConstantsOK, FS_Subset, FS_CardinalityType
<1>4. CASE a = b
  <2>1. currentCost[a] <= MaxCost[a] - 1 BY <1>1, <1>4 DEF HasRoom
  <2>2. CostBound * Cardinality(Consuming(a)') <= CostBound * Cardinality(Tasks)
    BY <1>1, <1>2, <1>3, ProductMonotone
  <2>3. /\ CostBound * Cardinality(Consuming(a)') \in Int
        /\ CostBound * Cardinality(Tasks) \in Int
    BY <1>1, <1>2, <1>3
  <2> QED BY <1>1, <2>1, <2>2, <2>3
<1>5. CASE a # b
  <2>1. Consuming(a)' \subseteq Consuming(a) BY <1>5 DEF Consuming
  <2>2. Cardinality(Consuming(a)') <= Cardinality(Consuming(a))
    BY <1>2, <2>1, FS_Subset
  <2>3. CostBound * Cardinality(Consuming(a)') <= CostBound * Cardinality(Consuming(a))
    BY <1>1, <1>2, <1>3, <2>2, ProductMonotone
  <2>4. currentCost[a] + CostBound * Cardinality(Consuming(a))
          <= MaxCost[a] - 1 + CostBound * Cardinality(Tasks)
    BY DEF CapacityInv
  <2>5. /\ CostBound * Cardinality(Consuming(a)') \in Int
        /\ CostBound * Cardinality(Consuming(a)) \in Int
        /\ CostBound * Cardinality(Tasks) \in Int
    BY <1>1, <1>2, <1>3
  <2> QED BY <1>1, <2>3, <2>4, <2>5
<1> QED BY <1>4, <1>5

LEMMA ConsumeCapacity == ASSUME IInv, IInv', CapacityInv, NEW p \in Tasks, ConsumeCost(p) PROVE CapacityInv'
<1> DEFINE b == task[p].app
           c == remote[task[p].sub].cost
<1>1. /\ task[p] \in Task /\ Holds(task[p]) /\ task[p].pc \in {"consume", "downgradeConsume"}
      /\ b \in Apps /\ c \in 0..CostBound
      /\ task[p].ret = "attach" => task[p].pc = "consume"
  BY DEF ConsumeCost, IInv, InFlight, Holds, Loaded, AppPcs, SubPcs, Remote, DowngradePcs
<1>2. currentCost' = [currentCost EXCEPT ![b] = @ + c] BY DEF ConsumeCost, AddCost
<1>3. \A q \in Tasks \ {p} : task'[q] = task[q]
  BY DEF ConsumeCost, Return, Done, Goto, Become, IInv, InFlight
<1>4. task'[p].pc \notin ConsumingPcs
  BY <1>1 DEF ConsumeCost, Return, Done, Goto, Become, Idle, IInv, InFlight, Task, ConsumingPcs
<1>5. b \in Apps /\ p \in Consuming(b) BY <1>1 DEF Consuming, ConsumingPcs
<1> SUFFICES ASSUME NEW a \in Apps
             PROVE  currentCost'[a] + CostBound * Cardinality(Consuming(a)')
                      <= MaxCost[a] - 1 + CostBound * Cardinality(Tasks)
  BY DEF CapacityInv
<1>6. /\ currentCost[a] \in Int /\ MaxCost[a] \in Nat /\ CostBound \in Nat
      /\ IsFiniteSet(Consuming(a)) /\ Cardinality(Consuming(a)) \in Nat
      /\ Cardinality(Tasks) \in Nat
      /\ currentCost[a] + CostBound * Cardinality(Consuming(a))
           <= MaxCost[a] - 1 + CostBound * Cardinality(Tasks)
  BY ConstantsOK, ConsumingCardinality DEF IInv, Stored, CapacityInv
<1>7. CASE a = b
  <2>1. Consuming(a)' = Consuming(a) \ {p}
    BY <1>3, <1>4 DEF Consuming
  <2>2. Cardinality(Consuming(a)') = Cardinality(Consuming(a)) - 1
    BY <1>5, <1>6, <1>7, <2>1, FS_RemoveElement
  <2>3. CostBound * Cardinality(Consuming(a)') = CostBound * Cardinality(Consuming(a)) - CostBound
    BY <1>6, <2>2
  <2>4. currentCost'[a] = currentCost[a] + c BY <1>2, <1>7 DEF IInv, Stored
  <2>5. /\ CostBound * Cardinality(Consuming(a)) \in Int
        /\ CostBound * Cardinality(Tasks) \in Int
    BY <1>6
  <2> QED BY <1>1, <1>6, <2>3, <2>4, <2>5
<1>8. CASE a # b
  <2>1. Consuming(a)' = Consuming(a)
    BY <1>3, <1>4, <1>8 DEF Consuming
  <2>2. currentCost'[a] = currentCost[a] BY <1>2, <1>8 DEF IInv, Stored
  <2> QED BY <1>6, <2>1, <2>2
<1> QED BY <1>7, <1>8

\* An operation moves on to a point outside the registration on an app, or
\* from one to another with the same app.
LEMMA CalmBecome ==
  ASSUME IInv, UNCHANGED currentCost, NEW p \in Tasks, NEW STATE t, Become(p, t),
         t.pc \in ConsumingPcs => task[p].pc \in ConsumingPcs /\ t.app = task[p].app
  PROVE  Calm
  BY DEF Become, Calm, IInv, InFlight, Stored

LEMMA RequestCapacity ==
  ASSUME IInv, NEW p \in Tasks, Request(p) \/ TokenCron(p) PROVE Calm
<1>1. ASSUME NEW s \in Slots, NEW n \in Notes, CreateNotification(p, s, n) PROVE Calm
  BY <1>1, CalmBecome DEF CreateNotification, shared, Idle, ConsumingPcs
<1>2. ASSUME NEW s \in Slots, AdminRegister(p, s) PROVE Calm
  BY <1>2, CalmBecome DEF AdminRegister, shared, Idle, ConsumingPcs
<1>3. ASSUME NEW n \in Notes, DeleteNotification(p, n) PROVE Calm
  BY <1>3, CalmBecome DEF DeleteNotification, Idle, ConsumingPcs
<1>4. ASSUME NEW r \in RowIds, AdminDelete(p, r) PROVE Calm
  BY <1>4, CalmBecome DEF AdminDelete, shared, Idle, ConsumingPcs
<1>5. ASSUME NEW s \in SubIds, DeleteTwitchOnly(p, s) PROVE Calm
  BY <1>5, CalmBecome DEF DeleteTwitchOnly, shared, Idle, ConsumingPcs
<1>6. ASSUME NEW st \in Streamers, LinkTwitch(p, st) PROVE Calm
  BY <1>6, CalmBecome DEF LinkTwitch, Idle, ConsumingPcs
<1>7. ASSUME NEW st \in Streamers, UnlinkTwitch(p, st) PROVE Calm
  BY <1>7, CalmBecome DEF UnlinkTwitch, shared, Idle, ConsumingPcs
<1>8. ASSUME NEW st \in Streamers, NEW e \in BOOLEAN, SetTwitchPersonalAuth(p, st, e) PROVE Calm
  BY <1>8, CalmBecome DEF SetTwitchPersonalAuth, Idle, ConsumingPcs
<1>9. ASSUME NEW st \in Streamers, RefreshExpiringTokens(p, st) PROVE Calm
  BY <1>9, CalmBecome DEF RefreshExpiringTokens, Done, Idle, ConsumingPcs
<1> QED
  BY <1>1, <1>2, <1>3, <1>4, <1>5, <1>6, <1>7, <1>8, <1>9 DEF Request, TokenCron

LEMMA ProceedCapacity ==
  ASSUME IInv, IInv', CapacityInv, NEW p \in Tasks, Proceed(p) PROVE CapacityInv'
<1>1. task[p] \in Task /\ Holds(task[p]) BY DEF IInv, InFlight
<1>2. ASSUME GetOrCreateStreamer(p) \/ TryRegisterWithUserToken(p) PROVE Calm
  <2>1. CASE GetOrCreateStreamer(p)
    BY <1>1, <2>1, CalmBecome DEF GetOrCreateStreamer, shared, Done, Idle, Goto, ConsumingPcs, Task
  <2>2. CASE TryRegisterWithUserToken(p)
    BY <1>1, <2>2, CalmBecome DEF TryRegisterWithUserToken, Goto, ConsumingPcs, Task
  <2> QED BY <1>2, <2>1, <2>2
<1>3. ASSUME PickApp(p) PROVE CapacityInv'
  <2>1. PICK a \in AppsForBroadcaster(StreamerOf[task[p].slot]) :
          IF a = Null THEN Done(p)
          ELSE Become(p, [task[p] EXCEPT !.pc = "insertApp", !.app = a])
    BY <1>3 DEF PickApp
  <2>2. CASE a = Null
    <3>1. Calm BY <1>3, <2>1, <2>2, CalmBecome DEF PickApp, shared, Done, Idle, ConsumingPcs
    <3> QED BY <3>1, CalmStep
  <2>3. CASE a # Null
    <3>1. StreamerOf[task[p].slot] \in Streamers
      BY <1>1, <1>3, ConstantsOK DEF PickApp, At, Holds, Loaded, SlotPcs
    <3>2. a \in Apps BY <2>3, <3>1, ChosenApp DEF IInv
    <3>3. HasRoom(a)
      BY <2>3 DEF AppsForBroadcaster, FindLeastLoaded, LeastLoaded
    <3>5. task \in [Tasks -> Task] BY DEF IInv, InFlight
    <3>6. task' = [task EXCEPT ![p] = [task[p] EXCEPT !.pc = "insertApp", !.app = a]]
      BY <2>1, <2>3 DEF Become
    <3>7. [task[p] EXCEPT !.pc = "insertApp", !.app = a].app = a BY <1>1 DEF Task
    <3>4. task'[p].app = a /\ \A q \in Tasks \ {p} : task'[q] = task[q]
      BY <3>5, <3>6, <3>7
    <3> QED BY <1>3, <3>2, <3>3, <3>4, CheckedStep DEF PickApp, shared
  <2> QED BY <2>2, <2>3
<1>4. ASSUME InsertRow(p) PROVE Calm
  BY <1>1, <1>4, CalmBecome DEF InsertRow, At, Done, Idle, ConsumingPcs, Task
<1>5. ASSUME RegisterWithApp(p) PROVE Calm
  BY <1>1, <1>5, CalmBecome DEF RegisterWithApp, At, Done, Idle, ConsumingPcs, Task
<1>6. ASSUME RegisterWithUser(p) PROVE Calm
  BY <1>1, <1>6, CalmBecome DEF RegisterWithUser, Goto, ConsumingPcs, Task
<1>7. ASSUME UndoRow(p) PROVE Calm
  BY <1>1, <1>7, CalmBecome DEF UndoRow, Goto, ConsumingPcs, Task
<1>8. ASSUME NEW l \in Pcs, Goto(p, l), l \notin ConsumingPcs \/ task[p].pc \in ConsumingPcs,
             UNCHANGED currentCost
      PROVE  Calm
  BY <1>1, <1>8, CalmBecome DEF Goto, Task
<1>9. ASSUME Return(p), UNCHANGED currentCost PROVE Calm
  <2>1. task[p].ret \in {"idle", "attach", "unlink"} BY <1>1 DEF Task
  <2> QED BY <1>1, <1>9, <2>1, CalmBecome DEF Return, Done, Goto, Idle, ConsumingPcs, Task
<1>10. ASSUME Done(p), UNCHANGED currentCost PROVE Calm
  BY <1>10, CalmBecome DEF Done, Idle, ConsumingPcs
<1>11. ASSUME RecordSubscription(p) PROVE Calm
  <2>1. task[p].pc = "recordUser" => ~Goto(p, "consume") \/ Return(p)
    BY <1>11 DEF RecordSubscription
  <2>2. "consume" \in Pcs BY DEF Pcs, AppPcs
  <2>3. task[p].pc = "recordApp" => task[p].pc \in ConsumingPcs BY DEF ConsumingPcs
  <2> QED BY <1>8, <1>9, <1>11, <2>1, <2>2, <2>3 DEF RecordSubscription
<1>12. ASSUME Attach(p) PROVE Calm BY <1>10, <1>12 DEF Attach
<1>13. ASSUME CleanupIfUnused(p) PROVE Calm
  BY <1>8, <1>10, <1>13 DEF CleanupIfUnused, shared, Pcs, RowPcs, ConsumingPcs
<1>14. ASSUME DeleteLocal(p) PROVE Calm
  BY <1>1, <1>14, CalmBecome DEF DeleteLocal, shared, Done, Idle, ConsumingPcs, Task
<1>15. ASSUME DeleteRemote(p) PROVE Calm
  <2>1. CASE At(p, "deleteOrphan") BY <1>10, <1>15, <2>1 DEF DeleteRemote
  <2>2. CASE ~At(p, "deleteOrphan")
    <3>1. /\ task[p].pc \in {"deleteRemote", "migrateDelete", "downgradeDelete", "dropRemote"}
          /\ Goto(p, AfterDelete[task[p].pc])
      BY <1>15, <2>2 DEF DeleteRemote, AfterDelete
    <3>2. /\ AfterDelete[task[p].pc] \in Pcs
          /\ AfterDelete[task[p].pc] \notin ConsumingPcs \/ task[p].pc \in ConsumingPcs
      BY <3>1 DEF AfterDelete, Pcs, RowPcs, ConsumingPcs
    <3> QED BY <1>8, <1>15, <3>1, <3>2 DEF DeleteRemote
  <2> QED BY <2>1, <2>2
<1>16. ASSUME ReleaseCost(p) PROVE Calm
  <2>1. task[p].seen \in Row BY <1>1, <1>16 DEF ReleaseCost, Holds, Loaded, SeenPcs
  <2>2. \A a \in Apps : currentCost'[a] <= currentCost[a]
    BY <1>16, <2>1 DEF ReleaseCost, AddCost, IInv, Stored, Row
  <2>3. \A q \in Tasks : task'[q].pc \in ConsumingPcs => task'[q] = task[q]
    BY <1>1, <1>16 DEF ReleaseCost, Goto, Become, ConsumingPcs, IInv, InFlight, Task
  <2> QED BY <2>2, <2>3 DEF Calm
<1>17. ASSUME DeleteLocalRow(p) PROVE Calm BY <1>10, <1>17 DEF DeleteLocalRow
<1>18. ASSUME Migrate(p) PROVE Calm
  BY <1>1, <1>18, CalmBecome DEF Migrate, Done, Idle, ConsumingPcs, Task
<1>19. ASSUME MigrateNext(p) PROVE Calm
  BY <1>1, <1>19, CalmBecome DEF MigrateNext, At, Done, Idle, ConsumingPcs, Task
<1>20. ASSUME MigrateRecord(p) PROVE Calm
  BY <1>8, <1>20 DEF MigrateRecord, Pcs, RowPcs, ConsumingPcs
<1>21. ASSUME UnlinkAccount(p) \/ StoreTokens(p) PROVE Calm
  BY <1>8, <1>21 DEF UnlinkAccount, StoreTokens, Pcs, WhoPcs, ConsumingPcs
<1>28. ASSUME ForgetTokens(p) PROVE Calm BY <1>10, <1>28 DEF ForgetTokens
<1>22. ASSUME Downgrade(p) PROVE Calm
  BY <1>1, <1>9, <1>22, CalmBecome DEF Downgrade, shared, ConsumingPcs, Task
<1>23. ASSUME DowngradeNext(p) PROVE CapacityInv'
  <2>1. UNCHANGED currentCost /\ task[p].pc = "downgradeNext"
    BY <1>23 DEF DowngradeNext, shared, At
  <2>2. CASE Return(p) BY <1>9, <2>1, <2>2, CalmStep
  <2>3. ASSUME NEW e \in task[p].todo,
          LET next == [task[p] EXCEPT !.row = e.id, !.seen = e.row, !.todo = @ \ {e}]
          IN  Become(p, next) \/ Become(p, [next EXCEPT !.pc = "dropRemote"])
        PROVE CapacityInv'
    <3>1. Calm BY <1>1, <2>1, <2>3, CalmBecome DEF ConsumingPcs, Task
    <3> QED BY <3>1, CalmStep
  <2>4. ASSUME NEW e \in task[p].todo, NEW a \in LeastLoaded,
          LET next == [task[p] EXCEPT !.row = e.id, !.seen = e.row, !.todo = @ \ {e}]
          IN  Become(p, [next EXCEPT !.pc = "downgradeRegister", !.app = a])
        PROVE CapacityInv'
    <3>1. a \in Apps /\ HasRoom(a) BY DEF LeastLoaded
    <3>2. task'[p].app = a /\ \A q \in Tasks \ {p} : task'[q] = task[q]
      BY <1>1, <2>4 DEF Become, IInv, InFlight, Task
    <3> QED BY <2>1, <3>1, <3>2, CheckedStep
  <2>5. FindLeastLoaded \subseteq LeastLoaded \cup {Null} BY DEF FindLeastLoaded
  <2> QED BY <1>23, <2>2, <2>3, <2>4, <2>5 DEF DowngradeNext
<1>24. ASSUME DowngradeRegister(p) PROVE Calm
  BY <1>1, <1>24, CalmBecome DEF DowngradeRegister, At, Goto, ConsumingPcs, Task
<1>25. ASSUME DowngradeRecord(p) PROVE Calm
  BY <1>8, <1>25 DEF DowngradeRecord, At, Pcs, AppPcs, ConsumingPcs
<1>26. ASSUME Deactivate(p) PROVE Calm
  BY <1>8, <1>26 DEF Deactivate, Pcs, RowPcs, ConsumingPcs
<1>27. ASSUME SuspendNotifications(p) PROVE Calm
  BY <1>8, <1>27 DEF SuspendNotifications, Pcs, ConsumingPcs
<1> QED
  BY <1>2, <1>3, <1>4, <1>5, <1>6, <1>7, <1>11, <1>12, <1>13, <1>14, <1>15, <1>16, <1>17,
     <1>18, <1>19, <1>20, <1>21, <1>22, <1>23, <1>24, <1>25, <1>26, <1>27, <1>28, ConsumeCapacity,
     CalmStep
  DEF Proceed

LEMMA OthersCapacity ==
  ASSUME IInv, Sync \/ Queue \/ Environment \/ UNCHANGED vars PROVE Calm
<1>1. UNCHANGED task \/ Crash
  BY DEF Sync, SyncRead, SyncQuery, SyncEnable, SyncRevoke, Queue, ApplyStatus, Environment,
     Challenge, ChallengeFails, Revoke, WithdrawGrant, Age, vars
<1>2. UNCHANGED currentCost
  BY DEF Sync, SyncRead, SyncQuery, SyncEnable, SyncRevoke, Queue, ApplyStatus, Environment,
     Challenge, ChallengeFails, Revoke, WithdrawGrant, Age, Crash, vars, IInv, CronOK
<1>3. \A q \in Tasks : task'[q].pc \in ConsumingPcs => task'[q] = task[q]
  BY <1>1 DEF Crash, Idle, ConsumingPcs
<1> QED BY <1>2, <1>3 DEF Calm, IInv, Stored

\* An app's counter never exceeds max_cost by as much as one subscription per
\* operation in flight, although the check of findLeastLoaded and the
\* increment of consumeAppCost are three awaits apart: for any number of
\* operations, apps and costs.
THEOREM CapacityIsBounded == Spec => []CapacityBounded
<1>1. Init => CapacityInv
  <2> SUFFICES ASSUME Init, NEW a \in Apps
               PROVE  currentCost[a] + CostBound * Cardinality(Consuming(a))
                        <= MaxCost[a] - 1 + CostBound * Cardinality(Tasks)
    BY DEF CapacityInv
  <2>1. currentCost[a] = 0 BY DEF Init
  <2>2. MaxCost[a] \in Nat \ {0} BY ConstantsOK
  <2>3. CostBound * Cardinality(Consuming(a)) <= CostBound * Cardinality(Tasks)
    BY ConsumingCardinality
  <2>4. CostBound * Cardinality(Consuming(a)) \in Int /\ CostBound * Cardinality(Tasks) \in Int
    BY ConstantsOK, ConsumingCardinality
  <2> QED BY <2>1, <2>2, <2>3, <2>4
<1>2. IInv /\ IInv' /\ CapacityInv /\ [Next]_vars => CapacityInv'
  BY RequestCapacity, ProceedCapacity, OthersCapacity, CalmStep DEF Next
<1>3. IInv /\ CapacityInv => CapacityBounded
  <2> SUFFICES ASSUME IInv, CapacityInv, NEW a \in Apps
               PROVE  currentCost[a] < MaxCost[a] + CostBound * Cardinality(Tasks)
    BY DEF CapacityBounded
  <2>1. /\ currentCost[a] \in Int /\ MaxCost[a] \in Nat /\ CostBound \in Nat
        /\ Cardinality(Consuming(a)) \in Nat /\ Cardinality(Tasks) \in Nat
    BY ConstantsOK, ConsumingCardinality DEF IInv, Stored
  <2>2. CostBound * Cardinality(Consuming(a)) >= 0 /\ CostBound * Cardinality(Tasks) \in Int
    BY <2>1
  <2>3. currentCost[a] + CostBound * Cardinality(Consuming(a))
          <= MaxCost[a] - 1 + CostBound * Cardinality(Tasks)
    BY DEF CapacityInv
  <2> QED BY <2>1, <2>2, <2>3
<1> QED BY <1>1, <1>2, <1>3, InitIInv, NextIInv, PTL DEF Spec

-----------------------------------------------------------------------------
(* One operation at a time: what the rows say of Twitch                       *)

\* Operations do not overlap at their awaits.
Sequential == \A p, q \in Tasks : p = q

\* No deletion at Twitch fails and no restart forgets an operation.
Reliable == {"delete_fails", "crash"} \cap Events = {}

\* The points at which an operation works on the row it has just inserted,
InsertedPcs == {"twitchUser", "twitchApp", "undo", "recordUser", "recordApp"}
\* on a row that still is what it loaded,
AsSeenPcs == {"deleteRemote", "migrateRecord", "downgradeRegister", "downgradeDelete",
              "dropRemote"}
\* on a row whose subscription it has deleted at Twitch,
OutdatedPcs == {"release", "removeRow", "downgradeRecord"}
\* in a loop over the rows of a streamer, and on the one it took out of it.
LoopPcs == {"migrateNext", "migrateRecord", "migrateDelete", "migrateRelease",
            "downgradeNext", "downgradeRegister", "downgradeDelete", "downgradeRecord",
            "downgradeConsume", "dropRemote", "deactivate", "suspend"}
MovingPcs == {"migrateRecord", "downgradeRegister", "downgradeDelete", "downgradeRecord"}

PlainPcs == Pcs \ (InsertedPcs \cup NewSubPcs \cup AsSeenPcs \cup OutdatedPcs)

Dead(s) == s = 0 \/ remote[s].state = "deleted"

Inserted(t) ==
  t.pc \in InsertedPcs => rows[t.row] # Null /\ rows[t.row].sub = 0 /\ rows[t.row].app = t.app
NewOnApp(t) == t.pc \in NewSubPcs => remote[t.sub].app = t.app
AsSeen(t) == t.pc \in AsSeenPcs => rows[t.row] # Null /\ rows[t.row].sub = t.seen.sub
Outdated(t) ==
  t.pc \in OutdatedPcs => rows[t.row] # Null /\ (Reliable => Dead(rows[t.row].sub))

\* The rows the loop has not reached are what the query loaded.
Ahead(t) ==
  /\ t.pc \notin LoopPcs => t.todo = {}
  /\ \A e \in t.todo : rows[e.id] # Null /\ rows[e.id].sub = e.row.sub
  /\ \A e, f \in t.todo : e.id = f.id => e = f
  /\ t.pc \in MovingPcs => \A e \in t.todo : e.id # t.row

Steady(t) == Inserted(t) /\ NewOnApp(t) /\ AsSeen(t) /\ Outdated(t) /\ Ahead(t)

\* A live subscription that no row refers to is in the hands of an operation
\* that will record it, or delete it.
Holding(t, s) ==
  \/ t.pc \in NewSubPcs /\ t.sub = s
  \/ t.pc = "migrateDelete" /\ t.seen.sub = s

Accounted ==
  \A s \in SubIds : Live(s) =>
    (\E p \in Tasks : Holding(task[p], s)) \/ (\E r \in Existing : rows[r].sub = s)

OnApps == \A r \in Existing : rows[r].sub # 0 => remote[rows[r].sub].app = rows[r].app

Unused == \A r \in RowIds : r >= nextRow => rows[r] = Null

SoleInv ==
  /\ \A p \in Tasks : Steady(task[p])
  /\ OnApps
  /\ Unused
  /\ Reliable => Accounted

\* A step that gives or takes no row and no subscription, and moves none.
SameRows ==
  \A r \in RowIds : /\ rows'[r] = Null <=> rows[r] = Null
                    /\ rows'[r].sub = rows[r].sub
                    /\ rows'[r].app = rows[r].app

SameSubs ==
  \A s \in SubIds : /\ remote'[s] = Null <=> remote[s] = Null
                    /\ remote'[s].app = remote[s].app
                    /\ remote[s].state = "deleted" => remote'[s].state = "deleted"
                    /\ Live(s)' => Live(s)

LEMMA SteadyKept ==
  ASSUME IInv, SameRows, SameSubs, NEW t \in Task, Loaded(t)', Steady(t) PROVE Steady(t)'
<1>1. /\ t.pc \in RowPcs => t.row \in RowIds
      /\ t.pc \in SubPcs => t.sub \in SubIds
  BY DEF Loaded
<1>2. Inserted(t)' BY <1>1 DEF Steady, Inserted, SameRows, InsertedPcs, RowPcs
<1>3. NewOnApp(t)' BY <1>1 DEF Steady, NewOnApp, SameSubs, NewSubPcs, SubPcs
<1>4. AsSeen(t)' BY <1>1 DEF Steady, AsSeen, SameRows, AsSeenPcs, RowPcs
<1>5. Outdated(t)'
  <2> SUFFICES ASSUME t.pc \in OutdatedPcs
               PROVE  (rows[t.row] # Null /\ (Reliable => Dead(rows[t.row].sub)))'
    BY DEF Outdated
  <2>1. t.row \in RowIds BY <1>1 DEF OutdatedPcs, RowPcs
  <2>2. rows[t.row] # Null /\ (Reliable => Dead(rows[t.row].sub)) BY DEF Steady, Outdated
  <2>3. rows[t.row].sub \in SubIds \cup {0} BY <2>1, <2>2 DEF IInv, Stored, Row
  <2> QED BY <2>1, <2>2, <2>3 DEF SameRows, SameSubs, Dead
<1>6. Ahead(t)' BY DEF Steady, Ahead, SameRows, Task, Entity
<1> QED BY <1>2, <1>3, <1>4, <1>5, <1>6 DEF Steady

LEMMA DatabaseKept ==
  ASSUME IInv, OnApps, Unused, SameRows, SameSubs, nextRow' = nextRow
  PROVE  OnApps' /\ Unused'
<1>1. \A r \in Existing : rows[r].sub \in SubIds \cup {0} BY DEF IInv, Stored, Existing, Row
<1>2. Existing' = Existing BY DEF SameRows, Existing
<1>3. OnApps' BY <1>1, <1>2 DEF OnApps, Existing, SameRows, SameSubs
<1>4. Unused' BY DEF Unused, SameRows
<1> QED BY <1>3, <1>4

\* The only operation in flight goes on.
LEMMA SoleStep ==
  ASSUME IInv, IInv', Sequential, NEW p \in Tasks, NEW u \in Task, task'[p] = u,
         Steady(u)', OnApps', Unused',
         Reliable => \A s \in SubIds : Live(s)' =>
                       Holding(u, s) \/ \E r \in Existing' : rows'[r].sub = s
  PROVE  SoleInv'
<1>1. \A q \in Tasks : task'[q] = u BY DEF Sequential
<1>2. \A q \in Tasks : Steady(task[q])' BY <1>1
<1>3. Reliable => Accounted' BY DEF Accounted
<1> QED BY <1>2, <1>3 DEF SoleInv

LEMMA QuietStep ==
  ASSUME IInv, IInv', SoleInv, Sequential, SameRows, SameSubs, nextRow' = nextRow,
         NEW p \in Tasks, NEW STATE t, Become(p, t), Steady(t),
         \A s \in SubIds : Live(s)' /\ Holding(task[p], s) => Holding(t, s)
  PROVE  SoleInv'
<1>1. task'[p] = t BY DEF Become, IInv, InFlight
<1>2. PICK u \in Task : u = t BY <1>1 DEF IInv, InFlight
<1>3. Loaded(u)' BY <1>1, <1>2 DEF IInv, InFlight, Holds
<1>4. Steady(u)' BY <1>2, <1>3, SteadyKept
<1>5. OnApps' /\ Unused' BY DatabaseKept DEF SoleInv
<1>6. ASSUME Reliable, NEW s \in SubIds, Live(s)'
      PROVE  Holding(u, s) \/ \E r \in Existing' : rows'[r].sub = s
  <2>1. Live(s) BY <1>6 DEF SameSubs
  <2>2. CASE \E q \in Tasks : Holding(task[q], s) BY <1>2, <1>6, <2>2 DEF Sequential
  <2>3. CASE \E r \in Existing : rows[r].sub = s BY <2>3 DEF SameRows, Existing
  <2> QED BY <1>6, <2>1, <2>2, <2>3 DEF SoleInv, Accounted
<1> QED BY <1>1, <1>2, <1>4, <1>5, <1>6, SoleStep

LEMMA NothingMoved ==
  ASSUME UNCHANGED <<rows, remote>> PROVE SameRows /\ SameSubs
  BY DEF SameRows, SameSubs, Live

\* A step to a point that needs nothing of the row or the subscription.
LEMMA PlainStep ==
  ASSUME IInv, IInv', SoleInv, Sequential, UNCHANGED <<rows, nextRow, remote>>,
         NEW p \in Tasks, NEW STATE t, Become(p, t), t.pc \in PlainPcs, Ahead(t),
         task[p].pc \notin NewSubPcs \cup {"migrateDelete"}
  PROVE  SoleInv'
<1>1. Steady(t) BY DEF Steady, Inserted, NewOnApp, AsSeen, Outdated, PlainPcs
<1>2. \A s \in SubIds : ~Holding(task[p], s) BY DEF Holding
<1>3. SameRows /\ SameSubs BY NothingMoved
<1> QED BY <1>1, <1>2, <1>3, QuietStep

LEMMA NothingAhead == ASSUME NEW STATE t, t.todo = {} PROVE Ahead(t)
  BY DEF Ahead

LEMMA StillAhead ==
  ASSUME NEW STATE t, NEW STATE u, Ahead(t), u.todo \subseteq t.todo, u.pc \in LoopPcs \ MovingPcs
  PROVE  Ahead(u)
  BY DEF Ahead

LEMMA IdleSole ==
  ASSUME IInv, IInv', SoleInv, Sequential, UNCHANGED <<rows, nextRow, remote>>,
         NEW p \in Tasks, NEW STATE t, Become(p, t), t.pc \in PlainPcs, t.todo = {},
         task[p].pc \notin NewSubPcs \cup {"migrateDelete"}
  PROVE  SoleInv'
  BY NothingAhead, PlainStep

LEMMA DoneSole ==
  ASSUME IInv, IInv', SoleInv, Sequential, UNCHANGED <<rows, nextRow, remote>>,
         NEW p \in Tasks, Done(p), task[p].pc \notin NewSubPcs \cup {"migrateDelete"}
  PROVE  SoleInv'
<1>1. Idle.pc \in PlainPcs /\ Idle.todo = {}
  BY DEF Idle, PlainPcs, Pcs, InsertedPcs, NewSubPcs, AsSeenPcs, OutdatedPcs
<1> QED BY <1>1, IdleSole DEF Done

LEMMA GotoSole ==
  ASSUME IInv, IInv', SoleInv, Sequential, UNCHANGED <<rows, nextRow, remote>>,
         NEW p \in Tasks, NEW l \in PlainPcs, Goto(p, l),
         l \in LoopPcs \/ task[p].pc \notin LoopPcs \/ task[p].todo = {},
         task[p].pc \notin NewSubPcs \cup {"migrateDelete"}
  PROVE  SoleInv'
<1> DEFINE t == [task[p] EXCEPT !.pc = l]
<1>1. t.pc = l /\ t.todo = task[p].todo BY DEF IInv, InFlight, Task
<1>2. Ahead(task[p]) BY DEF SoleInv, Steady
<1>3. PlainPcs \cap MovingPcs = {} BY DEF PlainPcs, MovingPcs, NewSubPcs, AsSeenPcs
<1> HIDE DEF t
<1>4. ASSUME l \in LoopPcs PROVE Ahead(t) BY <1>1, <1>2, <1>3, <1>4, StillAhead
<1>5. ASSUME l \notin LoopPcs PROVE Ahead(t)
  <2>1. t.todo = {} BY <1>1, <1>2, <1>5 DEF Ahead
  <2> QED BY <2>1, NothingAhead
<1>6. Become(p, t) BY DEF Goto, t
<1> QED BY <1>1, <1>4, <1>5, <1>6, PlainStep

LEMMA ReturnSole ==
  ASSUME IInv, IInv', SoleInv, Sequential, UNCHANGED <<rows, nextRow, remote>>,
         NEW p \in Tasks, Return(p), task[p].pc \notin LoopPcs \/ task[p].todo = {},
         task[p].pc \notin NewSubPcs \cup {"migrateDelete"}
  PROVE  SoleInv'
<1>1. CASE Done(p) BY <1>1, DoneSole
<1>2. CASE task[p].ret # "idle" /\ Goto(p, task[p].ret)
  <2>1. task[p].ret \in {"attach", "unlink"} BY <1>2 DEF IInv, InFlight, Task
  <2>2. {"attach", "unlink"} \subseteq PlainPcs
    BY DEF PlainPcs, Pcs, RowPcs, WhoPcs, InsertedPcs, NewSubPcs, AsSeenPcs, OutdatedPcs
  <2> QED BY <1>2, <2>1, <2>2, GotoSole
<1> QED BY <1>1, <1>2 DEF Return

\* The points an operation may go on to without a claim on the row.
LEMMA Plain ==
  {"idle", "attach", "register", "userToken", "pickApp", "insertUser", "insertApp",
   "consume", "cleanup", "deleteLocal", "deleteOrphan", "storeTokens", "migrate", "migrateNext",
   "migrateDelete", "migrateRelease", "unlink", "forgetTokens", "downgrade",
   "downgradeNext", "downgradeConsume", "deactivate", "suspend"} \subseteq PlainPcs
  BY DEF PlainPcs, Pcs, SlotPcs, AppPcs, RowPcs, SeenPcs, SubPcs, WhoPcs, InsertedPcs,
     NewSubPcs, AsSeenPcs, OutdatedPcs

\* The rows a loop has just loaded.
LEMMA JustLoaded ==
  ASSUME IInv, NEW STATE t, NEW STATE R, R \subseteq Existing, t.todo = Entities(R),
         t.pc \in {"migrateNext", "downgradeNext"}
  PROVE  Ahead(t)
<1>1. \A e \in t.todo : e.id \in Existing /\ e.row = rows[e.id] BY DEF Entities
<1>2. \A e, f \in t.todo : e.id = f.id => e = f BY DEF Entities
<1> QED BY <1>1, <1>2 DEF Ahead, Existing, LoopPcs, MovingPcs

\* A request or a run of the token cron begins at one of these points.
BeginPcs == {"attach", "register", "cleanup", "deleteLocal", "deleteOrphan", "storeTokens",
             "migrate", "downgrade", "idle"}

LEMMA RequestBegins ==
  ASSUME IInv, IInv', NEW p \in Tasks, Request(p) \/ TokenCron(p)
  PROVE  \E u \in Task : /\ Become(p, u) /\ u.todo = {} /\ u.pc \in BeginPcs
                         /\ u.pc = "deleteOrphan" => "orphan" \in Ops
<1>1. task'[p] \in Task /\ Become(p, task'[p])
  BY DEF Request, TokenCron, CreateNotification, AdminRegister, DeleteNotification, AdminDelete,
     DeleteTwitchOnly, LinkTwitch, UnlinkTwitch, SetTwitchPersonalAuth,
     RefreshExpiringTokens, Done, Become, IInv, InFlight
<1> DEFINE Fresh == /\ task'[p].todo = {}
                    /\ task'[p].pc \in BeginPcs
                    /\ task'[p].pc = "deleteOrphan" => "orphan" \in Ops
<1>0. \A t : Become(p, t) => task'[p] = t BY DEF Become, IInv, InFlight
<1>2. ASSUME NEW s \in Slots, NEW n \in Notes, CreateNotification(p, s, n) PROVE Fresh
  <2>1. ASSUME NEW r \in RowsOf(s),
               Become(p, [Idle EXCEPT !.pc = "attach", !.row = r, !.note = n])
        PROVE  Fresh
    BY <1>0, <2>1 DEF Idle, BeginPcs
  <2>2. ASSUME Become(p, [Idle EXCEPT !.pc = "register", !.ret = "attach", !.slot = s, !.note = n])
        PROVE  Fresh
    BY <1>0, <2>2 DEF Idle, BeginPcs
  <2> QED BY <1>2, <2>1, <2>2 DEF CreateNotification
<1>3. ASSUME NEW st \in Streamers, NEW b \in BOOLEAN, SetTwitchPersonalAuth(p, st, b) PROVE Fresh
  BY <1>3 DEF SetTwitchPersonalAuth, Become, IInv, InFlight, Idle, BeginPcs
<1>4. ASSUME NEW st \in Streamers, RefreshExpiringTokens(p, st) PROVE Fresh
  <2>1. Become(p, [Idle EXCEPT !.who = st, !.pc = "downgrade"]) \/ Become(p, Idle)
    BY <1>4 DEF RefreshExpiringTokens, Done
  <2>2. CASE Become(p, Idle) BY <1>0, <2>2 DEF Idle, BeginPcs
  <2>3. CASE Become(p, [Idle EXCEPT !.who = st, !.pc = "downgrade"]) BY <1>0, <2>3 DEF Idle, BeginPcs
  <2> QED BY <2>1, <2>2, <2>3
<1>5. ASSUME NEW st \in Streamers, LinkTwitch(p, st) \/ UnlinkTwitch(p, st) PROVE Fresh
  <2>1. \/ Become(p, [Idle EXCEPT !.who = st, !.pc = "storeTokens"])
        \/ Become(p, [Idle EXCEPT !.pc = "downgrade", !.who = st, !.ret = "unlink"])
    BY <1>5 DEF LinkTwitch, UnlinkTwitch
  <2> QED BY <1>0, <2>1 DEF Idle, BeginPcs
<1>6. ASSUME NEW s \in Slots, AdminRegister(p, s) PROVE Fresh
  BY <1>6 DEF AdminRegister, Become, IInv, InFlight, Idle, BeginPcs
<1>7. ASSUME NEW n \in Notes, DeleteNotification(p, n) PROVE Fresh
  BY <1>7 DEF DeleteNotification, Become, IInv, InFlight, Idle, BeginPcs
<1>8. ASSUME NEW r \in RowIds, AdminDelete(p, r) PROVE Fresh
  BY <1>8 DEF AdminDelete, Become, IInv, InFlight, Idle, BeginPcs
<1>9. ASSUME NEW s \in SubIds, DeleteTwitchOnly(p, s) PROVE Fresh
  BY <1>9 DEF DeleteTwitchOnly, Starts, Become, IInv, InFlight, Idle, BeginPcs
<1>10. Fresh
  BY <1>2, <1>3, <1>4, <1>5, <1>6, <1>7, <1>8, <1>9 DEF Request, TokenCron
<1> QED BY <1>1, <1>10

LEMMA RequestSole ==
  ASSUME IInv, IInv', SoleInv, Sequential, NEW p \in Tasks, Request(p) \/ TokenCron(p)
  PROVE  SoleInv'
<1>1. task[p].pc = "idle" /\ UNCHANGED <<rows, nextRow, remote>>
  BY DEF Request, TokenCron, Starts, At, CreateNotification, AdminRegister, DeleteNotification,
     AdminDelete, DeleteTwitchOnly, LinkTwitch, UnlinkTwitch, SetTwitchPersonalAuth,
     RefreshExpiringTokens, shared
<1>2. task[p].pc \notin NewSubPcs \cup {"migrateDelete"} BY <1>1 DEF NewSubPcs
<1>3. \E u \in Task : Become(p, u) /\ u.todo = {} /\ u.pc \in PlainPcs
  BY RequestBegins, Plain DEF BeginPcs
<1> QED BY <1>1, <1>2, <1>3, IdleSole

\* The stretches of an operation that write no row and no subscription.
LEMMA PlainProceedSole ==
  ASSUME IInv, IInv', SoleInv, Sequential, NEW p \in Tasks,
         \/ GetOrCreateStreamer(p) \/ TryRegisterWithUserToken(p) \/ PickApp(p)
         \/ ConsumeCost(p) \/ Attach(p) \/ CleanupIfUnused(p)
         \/ StoreTokens(p) \/ UnlinkAccount(p) \/ ForgetTokens(p)
         \/ Migrate(p) \/ Downgrade(p) \/ SuspendNotifications(p)
  PROVE  SoleInv'
<1>1. task[p] \in Task /\ Ahead(task[p]) BY DEF IInv, InFlight, SoleInv, Steady
<1>2. UNCHANGED <<rows, nextRow, remote>>
  BY DEF GetOrCreateStreamer, TryRegisterWithUserToken, PickApp, ConsumeCost, Attach,
     CleanupIfUnused, StoreTokens, UnlinkAccount, ForgetTokens, Migrate, Downgrade,
     SuspendNotifications, shared
<1>3. task[p].pc \notin NewSubPcs \cup {"migrateDelete"}
  BY DEF GetOrCreateStreamer, TryRegisterWithUserToken, PickApp, ConsumeCost, Attach,
     CleanupIfUnused, StoreTokens, UnlinkAccount, ForgetTokens, Migrate, Downgrade,
     SuspendNotifications, At, NewSubPcs
<1>4. CASE GetOrCreateStreamer(p)
  BY <1>2, <1>3, <1>4, Plain, DoneSole, GotoSole DEF GetOrCreateStreamer, At, LoopPcs
<1>5. CASE TryRegisterWithUserToken(p)
  <2>1. task[p].todo = {} BY <1>1, <1>5 DEF TryRegisterWithUserToken, At, Ahead, LoopPcs
  <2>2. ASSUME NEW a \in Internal, Become(p, [task[p] EXCEPT !.pc = "insertUser", !.app = a])
        PROVE  SoleInv'
    BY <1>1, <1>2, <1>3, <2>1, <2>2, Plain, IdleSole DEF Task
  <2>3. CASE Goto(p, "pickApp") BY <1>2, <1>3, <2>1, <2>3, Plain, GotoSole
  <2> QED BY <1>5, <2>2, <2>3 DEF TryRegisterWithUserToken
<1>6. CASE PickApp(p)
  <2>1. task[p].todo = {} BY <1>1, <1>6 DEF PickApp, At, Ahead, LoopPcs
  <2>2. ASSUME NEW STATE a, Become(p, [task[p] EXCEPT !.pc = "insertApp", !.app = a])
        PROVE  SoleInv'
    BY <1>1, <1>2, <1>3, <2>1, <2>2, Plain, IdleSole DEF Task
  <2> QED BY <1>2, <1>3, <1>6, <2>2, DoneSole DEF PickApp
<1>7. CASE ConsumeCost(p)
  BY <1>2, <1>3, <1>7, Plain, ReturnSole, GotoSole DEF ConsumeCost, At, LoopPcs
<1>8. CASE Attach(p) \/ ForgetTokens(p) BY <1>2, <1>3, <1>8, DoneSole DEF Attach, ForgetTokens
<1>9. CASE CleanupIfUnused(p)
  BY <1>2, <1>3, <1>9, Plain, DoneSole, GotoSole DEF CleanupIfUnused, At, LoopPcs
<1>10. CASE StoreTokens(p) \/ UnlinkAccount(p)
  BY <1>2, <1>3, <1>10, Plain, GotoSole DEF StoreTokens, UnlinkAccount, At, LoopPcs
<1>11. CASE Migrate(p)
  <2> DEFINE mine == {r \in Existing : StreamerOf[rows[r].slot] = task[p].who
                                         /\ rows[r].app \notin Internal}
             t == [task[p] EXCEPT !.pc = "migrateNext", !.todo = Entities(mine)]
  <2>1. CASE Done(p) BY <1>2, <1>3, <2>1, DoneSole
  <2>2. CASE Become(p, t)
    <3>1. t.pc = "migrateNext" /\ t.todo = Entities(mine) BY <1>1 DEF Task
    <3>2. Ahead(t) BY <3>1, JustLoaded
    <3> QED BY <1>2, <1>3, <2>2, <3>1, <3>2, Plain, PlainStep
  <2> QED BY <1>11, <2>1, <2>2 DEF Migrate
<1>12. CASE Downgrade(p)
  <2> DEFINE mine == {r \in Existing : /\ StreamerOf[rows[r].slot] = task[p].who
                                       /\ rows[r].app \in Internal}
             t == [task[p] EXCEPT !.pc = "downgradeNext", !.todo = Entities(mine)]
  <2>1. CASE Return(p) BY <1>2, <1>3, <1>12, <2>1, ReturnSole DEF Downgrade, At, LoopPcs
  <2>2. CASE Become(p, t)
    <3>1. t.pc = "downgradeNext" /\ t.todo = Entities(mine) BY <1>1 DEF Task
    <3>2. Ahead(t) BY <3>1, JustLoaded
    <3> QED BY <1>2, <1>3, <2>2, <3>1, <3>2, Plain, PlainStep
  <2> QED BY <1>12, <2>1, <2>2 DEF Downgrade
<1>13. CASE SuspendNotifications(p)
  BY <1>2, <1>3, <1>13, Plain, GotoSole DEF SuspendNotifications, LoopPcs
<1> QED BY <1>4, <1>5, <1>6, <1>7, <1>8, <1>9, <1>10, <1>11, <1>12, <1>13

LEMMA SteadyNow == ASSUME IInv, SoleInv, NEW p \in Tasks PROVE
  /\ task[p] \in Task /\ Loaded(task[p])
  /\ Inserted(task[p]) /\ NewOnApp(task[p]) /\ AsSeen(task[p]) /\ Outdated(task[p])
  /\ Ahead(task[p])
  BY DEF IInv, InFlight, Holds, SoleInv, Steady

LEMMA DeleteLocalSole ==
  ASSUME IInv, IInv', SoleInv, Sequential, NEW p \in Tasks, DeleteLocal(p) PROVE SoleInv'
<1> DEFINE t == [task[p] EXCEPT !.pc = "deleteRemote", !.seen = rows[task[p].row]]
<1>1. task[p] \in Task /\ task[p].pc = "deleteLocal" /\ task[p].todo = {}
  BY SteadyNow DEF DeleteLocal, At, Ahead, LoopPcs
<1>2. UNCHANGED <<rows, nextRow, remote>> /\ SameRows /\ SameSubs
  BY NothingMoved DEF DeleteLocal, shared
<1>3. CASE Done(p) BY <1>1, <1>2, <1>3, DoneSole DEF NewSubPcs
<1>4. CASE Become(p, t) /\ rows[task[p].row] # Null
  <2>1. /\ t.pc = "deleteRemote" /\ t.row = task[p].row /\ t.seen = rows[task[p].row]
        /\ t.todo = {}
    BY <1>1 DEF Task
  <2> HIDE DEF t
  <2>2. Inserted(t) /\ NewOnApp(t) /\ Outdated(t)
    BY <2>1 DEF Inserted, NewOnApp, Outdated, InsertedPcs, NewSubPcs, OutdatedPcs
  <2>3. AsSeen(t) BY <1>4, <2>1 DEF AsSeen
  <2>4. Steady(t) BY <2>1, <2>2, <2>3, NothingAhead DEF Steady
  <2>5. \A s \in SubIds : ~Holding(task[p], s) BY <1>1 DEF Holding, NewSubPcs
  <2> QED BY <1>2, <1>4, <2>4, <2>5, QuietStep
<1> QED BY <1>3, <1>4 DEF DeleteLocal

LEMMA ReleaseCostSole ==
  ASSUME IInv, IInv', SoleInv, Sequential, NEW p \in Tasks, ReleaseCost(p) PROVE SoleInv'
<1> DEFINE t == [task[p] EXCEPT !.pc = "removeRow"]
<1>1. task[p] \in Task /\ task[p].pc \in {"release", "migrateRelease"}
  BY SteadyNow DEF ReleaseCost
<1>2. UNCHANGED <<rows, nextRow, remote>> /\ SameRows /\ SameSubs
  BY NothingMoved DEF ReleaseCost
<1>3. CASE task[p].pc = "migrateRelease"
  BY <1>2, <1>3, Plain, GotoSole DEF ReleaseCost, At, NewSubPcs, LoopPcs
<1>4. CASE task[p].pc = "release"
  <2>1. t.pc = "removeRow" /\ t.row = task[p].row /\ t.todo = {}
    BY <1>1, <1>4, SteadyNow DEF Task, Ahead, LoopPcs
  <2>2. Become(p, t) BY <1>4 DEF ReleaseCost, At, Goto
  <2> HIDE DEF t
  <2>3. Inserted(t) /\ NewOnApp(t) /\ AsSeen(t)
    BY <2>1 DEF Inserted, NewOnApp, AsSeen, InsertedPcs, NewSubPcs, AsSeenPcs
  <2>4. Outdated(t) BY <1>4, <2>1, SteadyNow DEF Outdated, OutdatedPcs
  <2>5. Steady(t) BY <2>1, <2>3, <2>4, NothingAhead DEF Steady
  <2>6. \A s \in SubIds : ~Holding(task[p], s) BY <1>4 DEF Holding, NewSubPcs
  <2> QED BY <1>2, <2>2, <2>5, <2>6, QuietStep
<1> QED BY <1>1, <1>3, <1>4

LEMMA DeactivateSole ==
  ASSUME IInv, IInv', SoleInv, Sequential, NEW p \in Tasks, Deactivate(p) PROVE SoleInv'
<1> DEFINE t == [task[p] EXCEPT !.pc = "suspend"]
           new == [rows[task[p].row] EXCEPT !.status = "deactivated"]
<1>1. task[p] \in Task /\ task[p].pc = "deactivate" /\ task[p].row \in RowIds
  BY SteadyNow DEF Deactivate, At, Loaded, RowPcs
<1>2. SameRows
  <2>1. CASE rows[task[p].row] = Null BY <2>1 DEF Deactivate, UpdateRow, SameRows
  <2>2. CASE rows[task[p].row] # Null
    <3>1. rows[task[p].row] \in Row BY <1>1, <2>2 DEF IInv, Stored
    <3>2. /\ new # Null /\ new.sub = rows[task[p].row].sub /\ new.app = rows[task[p].row].app
      <4>1. new \in Row BY <3>1 DEF Row, Statuses
      <4> QED BY <3>1, <4>1, NullFacts DEF Row
    <3>3. rows' = [rows EXCEPT ![task[p].row] = new] BY <2>2 DEF Deactivate, UpdateRow
    <3> HIDE DEF new
    <3> QED BY <2>2, <3>2, <3>3 DEF SameRows, IInv, Stored
  <2> QED BY <2>1, <2>2
<1>3. SameSubs /\ nextRow' = nextRow BY DEF Deactivate, SameSubs, Live
<1>4. t.pc = "suspend" /\ t.todo = task[p].todo BY <1>1 DEF Task
<1>5. Become(p, t) BY DEF Deactivate, Goto
<1> HIDE DEF t
<1>6. Inserted(t) /\ NewOnApp(t) /\ AsSeen(t) /\ Outdated(t)
  BY <1>4 DEF Inserted, NewOnApp, AsSeen, Outdated, InsertedPcs, NewSubPcs, AsSeenPcs, OutdatedPcs
<1>7. Ahead(t)
  BY <1>4, SteadyNow, StillAhead DEF LoopPcs, MovingPcs
<1>8. \A s \in SubIds : ~Holding(task[p], s) BY <1>1 DEF Holding, NewSubPcs
<1> QED BY <1>2, <1>3, <1>5, <1>6, <1>7, <1>8, QuietStep DEF Steady

\* The next row of a loop: what the query loaded of it is still true.
LEMMA NextAhead ==
  ASSUME NEW STATE t, NEW STATE u, Ahead(t), NEW e \in t.todo, u.row = e.id, u.seen = e.row,
         u.todo = t.todo \ {e}, u.pc \in LoopPcs
  PROVE  Ahead(u) /\ AsSeen(u)
<1>1. Ahead(u) BY DEF Ahead
<1>2. AsSeen(u) BY DEF Ahead, AsSeen
<1> QED BY <1>1, <1>2

LEMMA DowngradeNextSole ==
  ASSUME IInv, IInv', SoleInv, Sequential, NEW p \in Tasks, DowngradeNext(p) PROVE SoleInv'
<1>1. task[p] \in Task /\ task[p].pc = "downgradeNext" /\ Ahead(task[p])
  BY SteadyNow DEF DowngradeNext, At
<1>2. UNCHANGED <<rows, nextRow, remote>> /\ SameRows /\ SameSubs
  BY NothingMoved DEF DowngradeNext, shared
<1>3. \A s \in SubIds : ~Holding(task[p], s) BY <1>1 DEF Holding, NewSubPcs
<1>4. ASSUME NEW e \in task[p].todo, NEW STATE t, Become(p, t), t.row = e.id, t.seen = e.row,
             t.todo = task[p].todo \ {e},
             t.pc \in {"downgradeNext", "downgradeRegister", "dropRemote"}
      PROVE  SoleInv'
  <2>1. Ahead(t) /\ AsSeen(t) BY <1>1, <1>4, NextAhead DEF LoopPcs
  <2>2. Inserted(t) /\ NewOnApp(t) /\ Outdated(t)
    BY <1>4 DEF Inserted, NewOnApp, Outdated, InsertedPcs, NewSubPcs, OutdatedPcs
  <2> QED BY <1>2, <1>3, <1>4, <2>1, <2>2, QuietStep DEF Steady
<1>5. CASE task[p].todo = {}
  BY <1>1, <1>2, <1>5, ReturnSole DEF DowngradeNext, NewSubPcs
<1>6. ASSUME NEW e \in task[p].todo,
             LET next == [task[p] EXCEPT !.row = e.id, !.seen = e.row, !.todo = @ \ {e}]
             IN  \/ Become(p, next)
                 \/ \E a \in FindLeastLoaded :
                      Become(p, [next EXCEPT !.pc = "downgradeRegister", !.app = a])
                 \/ Become(p, [next EXCEPT !.pc = "dropRemote"])
      PROVE  SoleInv'
  <2> DEFINE next == [task[p] EXCEPT !.row = e.id, !.seen = e.row, !.todo = @ \ {e}]
  <2>1. next.pc = "downgradeNext" /\ next.row = e.id /\ next.seen = e.row
          /\ next.todo = task[p].todo \ {e} /\ DOMAIN next = DOMAIN task[p]
    BY <1>1 DEF Task
  <2>2. DOMAIN next = DOMAIN Idle BY <1>1, <2>1 DEF Task, Idle
  <2> HIDE DEF next
  <2>3. CASE Become(p, next) BY <1>4, <2>1, <2>3
  <2>4. ASSUME NEW a \in FindLeastLoaded,
               Become(p, [next EXCEPT !.pc = "downgradeRegister", !.app = a])
        PROVE  SoleInv'
    <3> DEFINE t == [next EXCEPT !.pc = "downgradeRegister", !.app = a]
    <3>1. t.pc = "downgradeRegister" /\ t.row = e.id /\ t.seen = e.row
            /\ t.todo = task[p].todo \ {e}
      BY <2>1, <2>2 DEF Idle
    <3> HIDE DEF t
    <3> QED BY <1>4, <2>4, <3>1 DEF t
  <2>5. CASE Become(p, [next EXCEPT !.pc = "dropRemote"])
    <3> DEFINE t == [next EXCEPT !.pc = "dropRemote"]
    <3>1. t.pc = "dropRemote" /\ t.row = e.id /\ t.seen = e.row /\ t.todo = task[p].todo \ {e}
      BY <2>1, <2>2 DEF Idle
    <3> HIDE DEF t
    <3> QED BY <1>4, <2>5, <3>1 DEF t
  <2> QED BY <1>6, <2>3, <2>4, <2>5 DEF next
<1> QED BY <1>5, <1>6 DEF DowngradeNext

\* registerEvent: the operation that asked for the subscription holds it.
LEMMA CreatedSole ==
  ASSUME IInv, IInv', SoleInv, Sequential, NEW p \in Tasks, NEW STATE r, NEW STATE a, NEW STATE c,
         CreateRemote(r, a, c), UNCHANGED <<rows, nextRow>>,
         NEW STATE t, Become(p, t), t.sub = nextSub, t.app = a, t.pc \in NewSubPcs \ OutdatedPcs,
         Inserted(t), AsSeen(t), Ahead(t), task[p].pc \notin NewSubPcs \cup {"migrateDelete"}
  PROVE  SoleInv'
<1>1. task'[p] = t BY DEF Become, IInv, InFlight
<1>2. PICK u \in Task : u = t BY <1>1 DEF IInv, InFlight
<1>3. /\ nextSub \in SubIds /\ remote[nextSub] = Null
      /\ remote'[nextSub].app = a
      /\ \A s \in SubIds \ {nextSub} : remote'[s] = remote[s]
  BY DEF CreateRemote, IInv, Stored
<1>4. Steady(u)'
  <2>1. Inserted(u)' BY <1>2 DEF Inserted
  <2>2. NewOnApp(u)' BY <1>2, <1>3 DEF NewOnApp
  <2>3. AsSeen(u)' BY <1>2 DEF AsSeen
  <2>4. Outdated(u)' BY <1>2 DEF Outdated
  <2>5. Ahead(u)' BY <1>2 DEF Ahead
  <2> QED BY <2>1, <2>2, <2>3, <2>4, <2>5 DEF Steady
<1>5. \A x \in Existing : rows[x].sub \in SubIds \cup {0} /\ rows[x].sub # nextSub
  BY <1>3, NullFacts DEF IInv, Stored, Existing, Row, Known
<1>6. OnApps' BY <1>3, <1>5 DEF OnApps, SoleInv, Existing
<1>7. Unused' BY DEF Unused, SoleInv
<1>8. ASSUME Reliable, NEW s \in SubIds, Live(s)'
      PROVE  Holding(u, s) \/ \E x \in Existing' : rows'[x].sub = s
  <2>1. CASE s = nextSub BY <1>2, <2>1 DEF Holding
  <2>2. CASE s # nextSub
    <3>1. Live(s) BY <1>3, <1>8, <2>2 DEF Live
    <3>2. ~\E q \in Tasks : Holding(task[q], s) BY DEF Holding, Sequential
    <3>3. \E x \in Existing : rows[x].sub = s BY <1>8, <3>1, <3>2 DEF SoleInv, Accounted
    <3> QED BY <3>3 DEF Existing
  <2> QED BY <2>1, <2>2
<1> QED BY <1>1, <1>2, <1>4, <1>6, <1>7, <1>8, SoleStep

LEMMA RegisterWithAppSole ==
  ASSUME IInv, IInv', SoleInv, Sequential, NEW p \in Tasks, RegisterWithApp(p) PROVE SoleInv'
<1> DEFINE t == [task[p] EXCEPT !.pc = "recordApp", !.sub = nextSub]
<1>1. task[p] \in Task /\ task[p].pc = "twitchApp" /\ task[p].todo = {} /\ Inserted(task[p])
  BY SteadyNow DEF RegisterWithApp, At, Ahead, LoopPcs
<1>2. task[p].pc \notin NewSubPcs \cup {"migrateDelete"} BY <1>1 DEF NewSubPcs
<1>3. /\ t.pc = "recordApp" /\ t.row = task[p].row /\ t.app = task[p].app /\ t.sub = nextSub
      /\ t.todo = {}
  BY <1>1 DEF Task
<1>4. ASSUME NEW c \in Costs, CreateRemote(task[p].row, task[p].app, c), Become(p, t)
      PROVE  SoleInv'
  <2> HIDE DEF t
  <2>1. Inserted(t) BY <1>1, <1>3 DEF Inserted, InsertedPcs
  <2>2. AsSeen(t) /\ Ahead(t) BY <1>3, NothingAhead DEF AsSeen, AsSeenPcs
  <2>3. t.pc \in NewSubPcs \ OutdatedPcs BY <1>3 DEF NewSubPcs, OutdatedPcs
  <2>4. UNCHANGED <<rows, nextRow>> BY DEF RegisterWithApp
  <2> QED BY <1>2, <1>3, <1>4, <2>1, <2>2, <2>3, <2>4, CreatedSole
<1>5. CASE Done(p) /\ UNCHANGED remote BY <1>2, <1>5, DoneSole DEF RegisterWithApp
<1> QED BY <1>4, <1>5 DEF RegisterWithApp

LEMMA RegisterWithUserSole ==
  ASSUME IInv, IInv', SoleInv, Sequential, NEW p \in Tasks, RegisterWithUser(p) PROVE SoleInv'
<1> DEFINE t == [task[p] EXCEPT !.pc = "recordUser", !.sub = nextSub]
           v == [task[p] EXCEPT !.pc = "undo"]
<1>1. task[p] \in Task /\ task[p].pc = "twitchUser" /\ task[p].todo = {} /\ Inserted(task[p])
  BY SteadyNow DEF RegisterWithUser, At, Ahead, LoopPcs
<1>2. task[p].pc \notin NewSubPcs \cup {"migrateDelete"} BY <1>1 DEF NewSubPcs
<1>3. UNCHANGED <<rows, nextRow>> BY DEF RegisterWithUser
<1>4. ASSUME CreateRemote(task[p].row, task[p].app, 0), Become(p, t) PROVE SoleInv'
  <2>1. /\ t.pc = "recordUser" /\ t.row = task[p].row /\ t.app = task[p].app /\ t.sub = nextSub
        /\ t.todo = {}
    BY <1>1 DEF Task
  <2> HIDE DEF t
  <2>2. Inserted(t) BY <1>1, <2>1 DEF Inserted, InsertedPcs
  <2>3. AsSeen(t) /\ Ahead(t) BY <2>1, NothingAhead DEF AsSeen, AsSeenPcs
  <2>4. t.pc \in NewSubPcs \ OutdatedPcs BY <2>1 DEF NewSubPcs, OutdatedPcs
  <2> QED BY <1>2, <1>3, <1>4, <2>1, <2>2, <2>3, <2>4, CreatedSole
<1>5. ASSUME Become(p, v), UNCHANGED remote PROVE SoleInv'
  <2>1. v.pc = "undo" /\ v.row = task[p].row /\ v.app = task[p].app /\ v.todo = {}
    BY <1>1 DEF Task
  <2> HIDE DEF v
  <2>2. Inserted(v) BY <1>1, <2>1 DEF Inserted, InsertedPcs
  <2>3. NewOnApp(v) /\ AsSeen(v) /\ Outdated(v) /\ Ahead(v)
    BY <2>1, NothingAhead DEF NewOnApp, AsSeen, Outdated, NewSubPcs, AsSeenPcs, OutdatedPcs
  <2>4. SameRows /\ SameSubs BY <1>3, <1>5, NothingMoved
  <2>5. \A s \in SubIds : ~Holding(task[p], s) BY <1>2 DEF Holding
  <2> QED BY <1>3, <1>5, <2>2, <2>3, <2>4, <2>5, QuietStep DEF Steady
<1> QED BY <1>4, <1>5 DEF RegisterWithUser, Goto

LEMMA MigrateNextSole ==
  ASSUME IInv, IInv', SoleInv, Sequential, NEW p \in Tasks, MigrateNext(p) PROVE SoleInv'
<1>1. task[p] \in Task /\ task[p].pc = "migrateNext" /\ Ahead(task[p])
  BY SteadyNow DEF MigrateNext, At
<1>2. task[p].pc \notin NewSubPcs \cup {"migrateDelete"} BY <1>1 DEF NewSubPcs
<1>3. UNCHANGED <<rows, nextRow>> BY DEF MigrateNext
<1>4. CASE Done(p) /\ UNCHANGED remote BY <1>2, <1>3, <1>4, DoneSole
<1>5. ASSUME NEW e \in task[p].todo, NEW a \in Internal, CreateRemote(e.id, a, 0),
             Become(p, [task[p] EXCEPT !.pc = "migrateRecord", !.row = e.id, !.seen = e.row,
                            !.sub = nextSub, !.app = a, !.todo = @ \ {e}])
      PROVE  SoleInv'
  <2> DEFINE t == [task[p] EXCEPT !.pc = "migrateRecord", !.row = e.id, !.seen = e.row,
                            !.sub = nextSub, !.app = a, !.todo = @ \ {e}]
  <2>1. /\ t.pc = "migrateRecord" /\ t.row = e.id /\ t.seen = e.row /\ t.app = a
        /\ t.sub = nextSub /\ t.todo = task[p].todo \ {e}
    BY <1>1 DEF Task
  <2>2. Become(p, t) BY <1>5
  <2> HIDE DEF t
  <2>3. Ahead(t) /\ AsSeen(t) BY <1>1, <2>1, NextAhead DEF LoopPcs
  <2>4. Inserted(t) BY <2>1 DEF Inserted, InsertedPcs
  <2>5. t.pc \in NewSubPcs \ OutdatedPcs BY <2>1 DEF NewSubPcs, OutdatedPcs
  <2> QED BY <1>2, <1>3, <1>5, <2>1, <2>2, <2>3, <2>4, <2>5, CreatedSole
<1>6. ASSUME NEW e \in task[p].todo, UNCHANGED remote, Become(p, [task[p] EXCEPT !.todo = @ \ {e}])
      PROVE  SoleInv'
  <2> DEFINE t == [task[p] EXCEPT !.todo = @ \ {e}]
  <2>1. t.pc = "migrateNext" /\ t.todo \subseteq task[p].todo BY <1>1 DEF Task
  <2>2. Become(p, t) BY <1>6
  <2> HIDE DEF t
  <2>3. Ahead(t) BY <1>1, <2>1, StillAhead DEF LoopPcs, MovingPcs
  <2> QED BY <1>2, <1>3, <1>6, <2>1, <2>2, <2>3, Plain, PlainStep
<1> QED BY <1>4, <1>5, <1>6 DEF MigrateNext

LEMMA DowngradeRegisterSole ==
  ASSUME IInv, IInv', SoleInv, Sequential, NEW p \in Tasks, DowngradeRegister(p) PROVE SoleInv'
<1> DEFINE t == [task[p] EXCEPT !.pc = "downgradeDelete", !.sub = nextSub]
<1>1. /\ task[p] \in Task /\ task[p].pc = "downgradeRegister" /\ AsSeen(task[p])
      /\ Ahead(task[p])
  BY SteadyNow DEF DowngradeRegister, At
<1>2. task[p].pc \notin NewSubPcs \cup {"migrateDelete"} BY <1>1 DEF NewSubPcs
<1>3. UNCHANGED <<rows, nextRow>> BY DEF DowngradeRegister
<1>4. ASSUME NEW c \in Costs, CreateRemote(task[p].row, task[p].app, c), Become(p, t)
      PROVE  SoleInv'
  <2>1. /\ t.pc = "downgradeDelete" /\ t.row = task[p].row /\ t.seen = task[p].seen
        /\ t.app = task[p].app /\ t.sub = nextSub /\ t.todo = task[p].todo
    BY <1>1 DEF Task
  <2> HIDE DEF t
  <2>2. AsSeen(t) BY <1>1, <2>1 DEF AsSeen, AsSeenPcs
  <2>3. Ahead(t) BY <1>1, <2>1 DEF Ahead, LoopPcs, MovingPcs
  <2>4. Inserted(t) BY <2>1 DEF Inserted, InsertedPcs
  <2>5. t.pc \in NewSubPcs \ OutdatedPcs BY <2>1 DEF NewSubPcs, OutdatedPcs
  <2> QED BY <1>2, <1>3, <1>4, <2>1, <2>2, <2>3, <2>4, <2>5, CreatedSole
<1>5. CASE Goto(p, "downgradeNext") /\ UNCHANGED remote
  BY <1>2, <1>3, <1>5, Plain, GotoSole DEF LoopPcs
<1> QED BY <1>4, <1>5 DEF DowngradeRegister

\* The update by id: the row now refers to the subscription the operation holds.
LEMMA RecordedSole ==
  ASSUME IInv, IInv', SoleInv, Sequential, NEW p \in Tasks, NEW STATE r, NEW STATE new,
         r = task[p].row, r \in RowIds, rows[r] # Null, new # Null, UpdateRow(r, new),
         new.sub = task[p].sub, new.app = task[p].app, task[p].pc \in NewSubPcs,
         UNCHANGED <<nextRow, remote>>,
         NEW STATE t, Become(p, t), t.pc \in PlainPcs, Ahead(t), \A e \in t.todo : e.id # r,
         Reliable => \A s \in SubIds : Live(s) /\ rows[r].sub = s => Holding(t, s)
  PROVE  SoleInv'
<1>1. task'[p] = t BY DEF Become, IInv, InFlight
<1>2. PICK u \in Task : u = t BY <1>1 DEF IInv, InFlight
<1>3. rows'[r] = new /\ \A x \in RowIds \ {r} : rows'[x] = rows[x]
  BY DEF UpdateRow, IInv, Stored
<1>4. Existing' = Existing BY <1>3 DEF Existing
<1>5. Steady(u)'
  <2>1. Inserted(u)' /\ NewOnApp(u)' /\ AsSeen(u)' /\ Outdated(u)'
    BY <1>2 DEF Inserted, NewOnApp, AsSeen, Outdated, PlainPcs
  <2>2. Ahead(u)' BY <1>2, <1>3 DEF Ahead, Task, Entity
  <2> QED BY <2>1, <2>2 DEF Steady
<1>6. remote[new.sub].app = new.app BY SteadyNow DEF NewOnApp
<1>7. OnApps' BY <1>3, <1>4, <1>6 DEF OnApps, SoleInv, Existing
<1>8. Unused' BY <1>3 DEF Unused, SoleInv
<1>9. ASSUME Reliable, NEW s \in SubIds, Live(s)'
      PROVE  Holding(u, s) \/ \E x \in Existing' : rows'[x].sub = s
  <2>1. Live(s) BY <1>9 DEF Live
  <2>2. CASE \E q \in Tasks : Holding(task[q], s)
    <3>1. s = new.sub BY <2>2 DEF Holding, Sequential, NewSubPcs
    <3> QED BY <1>3, <1>4, <3>1 DEF Existing
  <2>3. ASSUME NEW x \in Existing, rows[x].sub = s
        PROVE  Holding(u, s) \/ \E y \in Existing' : rows'[y].sub = s
    <3>1. CASE x = r BY <1>2, <1>9, <2>1, <2>3, <3>1
    <3>2. CASE x # r BY <1>3, <1>4, <2>3, <3>2 DEF Existing
    <3> QED BY <3>1, <3>2
  <2> QED BY <1>9, <2>1, <2>2, <2>3 DEF SoleInv, Accounted
<1> QED BY <1>1, <1>2, <1>5, <1>7, <1>8, <1>9, SoleStep

LEMMA RecordSubscriptionSole ==
  ASSUME IInv, IInv', SoleInv, Sequential, NEW p \in Tasks, RecordSubscription(p) PROVE SoleInv'
<1> DEFINE tk == task[p]
           r == tk.row
           c == remote[tk.sub].cost
           user == tk.pc = "recordUser"
           new == IF user THEN [rows[r] EXCEPT !.sub = tk.sub]
                  ELSE [rows[r] EXCEPT !.sub = tk.sub, !.cost = c]
<1>1. /\ tk \in Task /\ tk.pc \in {"recordUser", "recordApp"} /\ tk.todo = {}
      /\ r \in RowIds /\ tk.sub \in SubIds /\ remote[tk.sub] \in Remote
      /\ rows[r] # Null /\ rows[r].sub = 0 /\ rows[r].app = tk.app
  BY SteadyNow DEF RecordSubscription, Loaded, RowPcs, SubPcs, Inserted, InsertedPcs, Ahead,
     LoopPcs
<1>2. rows[r] \in Row BY <1>1 DEF IInv, Stored
<1>3. new \in Row /\ new.sub = tk.sub /\ new.app = tk.app
  <2>1. c \in Nat BY <1>1 DEF Remote
  <2> HIDE DEF c
  <2>2. CASE user BY <1>1, <1>2, <2>2 DEF Row
  <2>3. CASE ~user BY <1>1, <1>2, <2>1, <2>3 DEF Row
  <2> QED BY <2>2, <2>3
<1>4. new # Null BY <1>3, NullFacts
<1>5. UpdateRow(r, new) /\ UNCHANGED <<nextRow, remote>> BY DEF RecordSubscription
<1>6. \A s \in SubIds : rows[r].sub # s BY <1>1, NullFacts
<1>7. \E l \in {"idle", "attach", "unlink", "consume"} :
        \E t \in Task : Become(p, t) /\ t.pc = l /\ t.todo = {}
  <2>1. CASE Done(p)
    BY <2>1, IdleTask DEF Done, Idle
  <2>2. ASSUME NEW l \in {"attach", "unlink", "consume"}, Goto(p, l)
        PROVE  \E t \in Task : Become(p, t) /\ t.pc = l /\ t.todo = {}
    <3>1. l \in Pcs BY DEF Pcs, RowPcs, WhoPcs
    <3>2. [tk EXCEPT !.pc = l] \in Task /\ [tk EXCEPT !.pc = l].pc = l
            /\ [tk EXCEPT !.pc = l].todo = {}
      BY <1>1, <3>1 DEF Task
    <3> QED BY <2>2, <3>2 DEF Goto
  <2>3. tk.ret \in {"idle", "attach", "unlink"} BY <1>1 DEF Task
  <2> QED BY <2>1, <2>2, <2>3 DEF RecordSubscription, Return
<1>8. PICK t \in Task : Become(p, t) /\ t.pc \in PlainPcs /\ t.todo = {}
  BY <1>7, Plain DEF PlainPcs, Pcs, RowPcs, WhoPcs
<1>9. Ahead(t) /\ \A e \in t.todo : e.id # r BY <1>8, NothingAhead
<1>10. tk.pc \in NewSubPcs BY <1>1 DEF NewSubPcs
<1> HIDE DEF new
<1> QED BY <1>1, <1>3, <1>4, <1>5, <1>6, <1>8, <1>9, <1>10, RecordedSole

LEMMA MigrateRecordSole ==
  ASSUME IInv, IInv', SoleInv, Sequential, NEW p \in Tasks, MigrateRecord(p) PROVE SoleInv'
<1> DEFINE tk == task[p]
           r == tk.row
           new == [rows[r] EXCEPT !.sub = tk.sub, !.app = tk.app, !.cost = 0,
                                  !.status = "pending"]
           t == [tk EXCEPT !.pc = "migrateDelete"]
<1>1. /\ tk \in Task /\ tk.pc = "migrateRecord" /\ r \in RowIds /\ tk.sub \in SubIds
      /\ tk.app \in Apps /\ rows[r] # Null /\ rows[r].sub = tk.seen.sub /\ Ahead(tk)
      /\ \A e \in tk.todo : e.id # r
  BY SteadyNow DEF MigrateRecord, At, Loaded, RowPcs, SubPcs, AppPcs, AsSeen, AsSeenPcs, Ahead,
     MovingPcs
<1>2. rows[r] \in Row BY <1>1 DEF IInv, Stored
<1>3. new \in Row /\ new.sub = tk.sub /\ new.app = tk.app BY <1>1, <1>2 DEF Row, Statuses
<1>4. new # Null BY <1>3, NullFacts
<1>5. UpdateRow(r, new) /\ UNCHANGED <<nextRow, remote>> /\ Become(p, t)
  BY DEF MigrateRecord, Goto
<1>6. t.pc = "migrateDelete" /\ t.seen = tk.seen /\ t.todo = tk.todo BY <1>1 DEF Task
<1>7. tk.pc \in NewSubPcs BY <1>1 DEF NewSubPcs
<1> HIDE DEF new, t
<1>8. Ahead(t) BY <1>1, <1>6, StillAhead DEF LoopPcs, MovingPcs
<1>9. \A s \in SubIds : Live(s) /\ rows[r].sub = s => Holding(t, s)
  BY <1>1, <1>6 DEF Holding
<1> QED BY <1>1, <1>3, <1>4, <1>5, <1>6, <1>7, <1>8, <1>9, Plain, RecordedSole

LEMMA DowngradeRecordSole ==
  ASSUME IInv, IInv', SoleInv, Sequential, NEW p \in Tasks, DowngradeRecord(p) PROVE SoleInv'
<1> DEFINE tk == task[p]
           r == tk.row
           new == [rows[r] EXCEPT !.sub = tk.sub, !.app = tk.app,
                                  !.cost = remote[tk.sub].cost, !.status = "pending"]
           t == [tk EXCEPT !.pc = "downgradeConsume"]
<1>1. /\ tk \in Task /\ tk.pc = "downgradeRecord" /\ r \in RowIds /\ tk.sub \in SubIds
      /\ tk.app \in Apps /\ remote[tk.sub] \in Remote /\ rows[r] # Null
      /\ Reliable => Dead(rows[r].sub)
      /\ Ahead(tk) /\ \A e \in tk.todo : e.id # r
  BY SteadyNow DEF DowngradeRecord, At, Loaded, RowPcs, SubPcs, AppPcs, Outdated, OutdatedPcs,
     Ahead, MovingPcs
<1>2. rows[r] \in Row /\ remote[tk.sub].cost \in Nat BY <1>1 DEF IInv, Stored, Remote
<1>3. new \in Row /\ new.sub = tk.sub /\ new.app = tk.app BY <1>1, <1>2 DEF Row, Statuses
<1>4. new # Null BY <1>3, NullFacts
<1>5. UpdateRow(r, new) /\ UNCHANGED <<nextRow, remote>> /\ Become(p, t)
  BY DEF DowngradeRecord, Goto
<1>6. t.pc = "downgradeConsume" /\ t.todo = tk.todo BY <1>1 DEF Task
<1>7. tk.pc \in NewSubPcs BY <1>1 DEF NewSubPcs
<1> HIDE DEF new, t
<1>8. Ahead(t) BY <1>1, <1>6, StillAhead DEF LoopPcs, MovingPcs
<1>9. Reliable => \A s \in SubIds : ~(Live(s) /\ rows[r].sub = s)
  BY <1>1, NullFacts DEF Dead, Live
<1> QED BY <1>1, <1>3, <1>4, <1>5, <1>6, <1>7, <1>8, <1>9, Plain, RecordedSole

LEMMA InsertRowSole ==
  ASSUME IInv, IInv', SoleInv, Sequential, NEW p \in Tasks, InsertRow(p) PROVE SoleInv'
<1> DEFINE user == At(p, "insertUser")
           new == [slot |-> task[p].slot, app |-> task[p].app, sub |-> 0,
                   cost |-> IF user THEN 0 ELSE DefaultCost,
                   status |-> "pending", aged |-> FALSE]
           t == [task[p] EXCEPT !.row = nextRow, !.pc = IF user THEN "twitchUser" ELSE "twitchApp"]
<1>1. /\ task[p] \in Task /\ task[p].pc \in {"insertUser", "insertApp"} /\ task[p].todo = {}
      /\ task[p].slot \in Slots /\ task[p].app \in Apps
  BY SteadyNow DEF InsertRow, Ahead, Loaded, SlotPcs, AppPcs, LoopPcs
<1>2. task[p].pc \notin NewSubPcs \cup {"migrateDelete"} BY <1>1 DEF NewSubPcs
<1>3. UNCHANGED remote BY DEF InsertRow
<1>4. CASE Done(p) /\ UNCHANGED <<rows, nextRow>> BY <1>2, <1>3, <1>4, DoneSole
<1>5. ASSUME nextRow \in RowIds, rows' = [rows EXCEPT ![nextRow] = new], nextRow' = nextRow + 1,
             Become(p, t)
      PROVE  SoleInv'
  <2>1. new \in Row BY <1>1 DEF Row, DefaultCost, Statuses
  <2>2. new # Null /\ new.sub = 0 /\ new.app = task[p].app BY <2>1, NullFacts
  <2> HIDE DEF new
  <2>3. rows'[nextRow] = new /\ \A x \in RowIds \ {nextRow} : rows'[x] = rows[x]
    BY <1>5 DEF IInv, Stored
  <2>4. rows[nextRow] = Null BY <1>5 DEF SoleInv, Unused, RowIds
  <2>5. t.row = nextRow /\ t.app = task[p].app /\ t.todo = {} /\ t.pc \in {"twitchUser", "twitchApp"}
    BY <1>1 DEF Task
  <2> HIDE DEF t
  <2>6. task'[p] = t BY <1>5 DEF Become, IInv, InFlight
  <2>7. PICK u \in Task : u = t BY <2>6 DEF IInv, InFlight
  <2>8. Steady(u)'
    <3>1. Inserted(u)' BY <2>2, <2>3, <2>5, <2>7 DEF Inserted
    <3>2. NewOnApp(u)' /\ AsSeen(u)' /\ Outdated(u)' /\ Ahead(u)'
      BY <2>5, <2>7 DEF NewOnApp, AsSeen, Outdated, Ahead, NewSubPcs, AsSeenPcs, OutdatedPcs
    <3> QED BY <3>1, <3>2 DEF Steady
  <2>9. Existing' = Existing \cup {nextRow} /\ nextRow \notin Existing
    BY <1>5, <2>2, <2>3, <2>4 DEF Existing
  <2>10. OnApps' BY <1>3, <2>2, <2>3, <2>9 DEF OnApps, SoleInv, Existing
  <2>11. Unused' BY <1>5, <2>3 DEF Unused, SoleInv, RowIds
  <2>12. ASSUME Reliable, NEW s \in SubIds, Live(s)'
         PROVE  Holding(u, s) \/ \E x \in Existing' : rows'[x].sub = s
    <3>1. Live(s) BY <1>3, <2>12 DEF Live
    <3>2. ~\E q \in Tasks : Holding(task[q], s) BY <1>2 DEF Holding, Sequential
    <3>3. PICK x \in Existing : rows[x].sub = s BY <2>12, <3>1, <3>2 DEF SoleInv, Accounted
    <3> QED BY <2>3, <2>9, <3>3 DEF Existing
  <2> QED BY <2>6, <2>7, <2>8, <2>10, <2>11, <2>12, SoleStep
<1> QED BY <1>4, <1>5 DEF InsertRow

\* A row goes whose subscription is not, or no longer, at Twitch.
LEMMA RemovedSole ==
  ASSUME IInv, IInv', SoleInv, Sequential, NEW p \in Tasks, NEW STATE r, r \in RowIds,
         RemoveRow(r), Reliable => Dead(rows[r].sub), UNCHANGED <<nextRow, remote>>,
         NEW STATE t, Become(p, t), t.pc \in PlainPcs, t.todo = {},
         task[p].pc \notin NewSubPcs \cup {"migrateDelete"}
  PROVE  SoleInv'
<1>1. task'[p] = t BY DEF Become, IInv, InFlight
<1>2. PICK u \in Task : u = t BY <1>1 DEF IInv, InFlight
<1>3. rows'[r] = Null /\ \A x \in RowIds \ {r} : rows'[x] = rows[x]
  BY DEF RemoveRow, IInv, Stored
<1>4. Existing' = Existing \ {r} BY <1>3 DEF Existing
<1>5. Steady(u)'
  BY <1>2 DEF Steady, Inserted, NewOnApp, AsSeen, Outdated, Ahead, PlainPcs, MovingPcs
<1>6. OnApps' BY <1>3, <1>4 DEF OnApps, SoleInv, Existing
<1>7. Unused' BY <1>3 DEF Unused, SoleInv
<1>8. ASSUME Reliable, NEW s \in SubIds, Live(s)'
      PROVE  Holding(u, s) \/ \E x \in Existing' : rows'[x].sub = s
  <2>1. Live(s) BY <1>8 DEF Live
  <2>2. ~\E q \in Tasks : Holding(task[q], s) BY DEF Holding, Sequential
  <2>3. PICK x \in Existing : rows[x].sub = s BY <1>8, <2>1, <2>2 DEF SoleInv, Accounted
  <2>4. x # r BY <1>8, <2>1, <2>3, NullFacts DEF Dead, Live
  <2> QED BY <1>3, <1>4, <2>3, <2>4 DEF Existing
<1> QED BY <1>1, <1>2, <1>5, <1>6, <1>7, <1>8, SoleStep

LEMMA UndoRowSole ==
  ASSUME IInv, IInv', SoleInv, Sequential, NEW p \in Tasks, UndoRow(p) PROVE SoleInv'
<1> DEFINE t == [task[p] EXCEPT !.pc = "pickApp"]
           r == task[p].row
<1>1. /\ task[p] \in Task /\ task[p].pc = "undo" /\ task[p].todo = {} /\ r \in RowIds
      /\ Dead(rows[r].sub)
  BY SteadyNow DEF UndoRow, At, Ahead, Loaded, RowPcs, LoopPcs, Inserted, InsertedPcs, Dead
<1>2. t.pc = "pickApp" /\ t.todo = {} BY <1>1 DEF Task
<1>3. Become(p, t) /\ RemoveRow(r) /\ UNCHANGED <<nextRow, remote>> BY DEF UndoRow, Goto
<1> HIDE DEF t
<1>4. task[p].pc \notin NewSubPcs \cup {"migrateDelete"} BY <1>1 DEF NewSubPcs
<1> QED BY <1>1, <1>2, <1>3, <1>4, Plain, RemovedSole

LEMMA DeleteLocalRowSole ==
  ASSUME IInv, IInv', SoleInv, Sequential, NEW p \in Tasks, DeleteLocalRow(p) PROVE SoleInv'
<1> DEFINE r == task[p].row
<1>1. task[p].pc = "removeRow" /\ r \in RowIds /\ (Reliable => Dead(rows[r].sub))
  BY SteadyNow DEF DeleteLocalRow, At, Loaded, RowPcs, Outdated, OutdatedPcs
<1>2. Idle.pc = "idle" /\ Idle.todo = {} BY DEF Idle
<1>3. Become(p, Idle) /\ RemoveRow(r) /\ UNCHANGED <<nextRow, remote>> BY DEF DeleteLocalRow, Done
<1>4. task[p].pc \notin NewSubPcs \cup {"migrateDelete"} BY <1>1 DEF NewSubPcs
<1> QED BY <1>1, <1>2, <1>3, <1>4, Plain, RemovedSole

\* A subscription is deleted at Twitch, or the deletion fails.
LEMMA DeletedSubs ==
  ASSUME IInv, NEW s \in SubIds \cup {0},
         remote' = (IF s = 0 THEN remote ELSE [remote EXCEPT ![s].state = "deleted"]) \/ UNCHANGED remote,
         s # 0 => remote[s] \in Remote
  PROVE  SameSubs
<1>1. CASE UNCHANGED remote BY <1>1 DEF SameSubs, Live
<1>2. CASE s # 0 /\ remote' = [remote EXCEPT ![s].state = "deleted"]
  <2>1. \A x \in SubIds \ {s} : remote'[x] = remote[x] BY <1>2 DEF IInv, Stored
  <2>2. s \in SubIds /\ remote'[s] = [remote[s] EXCEPT !.state = "deleted"]
    BY <1>2 DEF IInv, Stored
  <2>3. remote'[s] \in Remote /\ remote'[s].app = remote[s].app /\ remote'[s].state = "deleted"
    BY <1>2, <2>2 DEF Remote, RemoteStates
  <2>4. ~Live(s)' BY <2>3 DEF Live
  <2> QED BY <1>2, <2>1, <2>3, <2>4, NullFacts DEF SameSubs, Live
<1> QED BY <1>1, <1>2

LEMMA DeleteRemoteSole ==
  ASSUME IInv, IInv', SoleInv, Sequential, NEW p \in Tasks, DeleteRemote(p) PROVE SoleInv'
<1> DEFINE tk == task[p]
           orphan == At(p, "deleteOrphan")
           s == IF orphan THEN tk.sub ELSE tk.seen.sub
<1>1. /\ tk \in Task /\ Loaded(tk) /\ Holds(tk) /\ Inserted(tk) /\ NewOnApp(tk) /\ AsSeen(tk)
      /\ Ahead(tk)
      /\ orphan \/ tk.pc \in {"deleteRemote", "migrateDelete", "downgradeDelete", "dropRemote"}
  BY SteadyNow DEF DeleteRemote, AfterDelete, IInv, InFlight
<1>2. UNCHANGED <<rows, nextRow>> BY DEF DeleteRemote
<1>3. s \in SubIds \cup {0} /\ (s # 0 => remote[s] \in Remote)
  <2>1. CASE orphan BY <1>1, <2>1 DEF At, Loaded, SubPcs
  <2>2. CASE ~orphan
    <3>1. tk.seen \in Row BY <1>1, <2>2 DEF Loaded, SeenPcs
    <3> QED BY <1>1, <2>2, <3>1, NullFacts DEF Holds, Row, Known
  <2> QED BY <2>1, <2>2
<1>4. SameSubs
  <2>1. PICK x \in SubIds \cup {0} : x = s BY <1>3
  <2>2. \/ remote' = (IF x = 0 THEN remote ELSE [remote EXCEPT ![x].state = "deleted"])
        \/ UNCHANGED remote
    BY <2>1 DEF DeleteRemote
  <2> QED BY <1>3, <2>1, <2>2, DeletedSubs
<1>5. Reliable /\ s # 0 => remote'[s].state = "deleted"
  <2> SUFFICES ASSUME Reliable, s # 0 PROVE remote'[s].state = "deleted" OBVIOUS
  <2>1. remote' = [remote EXCEPT ![s].state = "deleted"] BY DEF DeleteRemote, Reliable
  <2>2. s \in SubIds /\ remote[s] \in Remote BY <1>3
  <2> QED BY <2>1, <2>2 DEF IInv, Stored, Remote
<1>6. SameRows BY <1>2 DEF SameRows
<1>7. OnApps' /\ Unused' BY <1>2, <1>4, <1>6, DatabaseKept DEF SoleInv
<1> DEFINE l == IF orphan THEN "idle" ELSE AfterDelete[tk.pc]
<1>8. /\ orphan => l = "idle"
      /\ ~orphan /\ tk.pc = "deleteRemote" => l = "release"
      /\ ~orphan /\ tk.pc = "migrateDelete" => l = "migrateRelease"
      /\ ~orphan /\ tk.pc = "downgradeDelete" => l = "downgradeRecord"
      /\ ~orphan /\ tk.pc = "dropRemote" => l = "deactivate"
  BY DEF AfterDelete
<1>9. PICK u \in Task : /\ task'[p] = u /\ u.pc = l
                        /\ ~orphan => u.row = tk.row /\ u.sub = tk.sub /\ u.app = tk.app /\ u.todo = tk.todo
                        /\ orphan => u.todo = {}
  <2>1. task'[p] \in Task BY DEF IInv, InFlight
  <2>2. CASE orphan
    <3>1. task'[p] = Idle BY <2>2 DEF DeleteRemote, Done, Become, IInv, InFlight
    <3> QED BY <2>1, <2>2, <3>1 DEF Idle
  <2>3. CASE ~orphan
    <3>1. task'[p] = [tk EXCEPT !.pc = l]
      BY <2>3 DEF DeleteRemote, Goto, Become, IInv, InFlight
    <3> HIDE DEF l
    <3>2. task'[p].pc = l /\ task'[p].row = tk.row /\ task'[p].sub = tk.sub
            /\ task'[p].app = tk.app /\ task'[p].todo = tk.todo
      BY <1>1, <3>1 DEF Task
    <3> QED BY <2>1, <2>3, <3>2
  <2> QED BY <2>2, <2>3
<1>10. tk.pc = "deleteOrphan" <=> orphan BY DEF At
<1> HIDE DEF l
<1>11. Steady(u)'
  <2>1. Inserted(u)' /\ AsSeen(u)'
    BY <1>1, <1>8, <1>9 DEF Inserted, AsSeen, InsertedPcs, AsSeenPcs
  <2>2. NewOnApp(u)'
    <3>1. u.pc \in NewSubPcs => tk.pc = "downgradeDelete" /\ ~orphan
      BY <1>1, <1>8, <1>9, <1>10 DEF NewSubPcs
    <3>2. tk.pc = "downgradeDelete" => tk.sub \in SubIds /\ remote[tk.sub].app = tk.app
      BY <1>1 DEF Loaded, SubPcs, NewOnApp, NewSubPcs
    <3> QED BY <1>4, <1>9, <3>1, <3>2 DEF NewOnApp, SameSubs
  <2>3. Outdated(u)'
    <3>1. u.pc \in OutdatedPcs => tk.pc \in {"deleteRemote", "downgradeDelete"} /\ ~orphan
      BY <1>1, <1>8, <1>9, <1>10 DEF OutdatedPcs
    <3>2. tk.pc \in {"deleteRemote", "downgradeDelete"} => rows[tk.row] # Null /\ rows[tk.row].sub = tk.seen.sub
      BY <1>1 DEF AsSeen, AsSeenPcs
    <3> QED BY <1>2, <1>5, <1>9, <3>1, <3>2 DEF Outdated, Dead
  <2>4. Ahead(u)'
    <3>1. CASE orphan BY <1>8, <1>9, <3>1 DEF Ahead
    <3>2. CASE ~orphan
      <4>1. u.pc \in LoopPcs \/ tk.pc \notin LoopPcs
        BY <1>1, <1>8, <1>9, <3>2 DEF LoopPcs
      <4>2. u.pc \in MovingPcs => tk.pc \in MovingPcs
        BY <1>1, <1>8, <1>9, <3>2 DEF MovingPcs
      <4> QED BY <1>1, <1>2, <1>9, <3>2, <4>1, <4>2 DEF Ahead
    <3> QED BY <3>1, <3>2
  <2> QED BY <2>1, <2>2, <2>3, <2>4 DEF Steady
<1>12. ASSUME Reliable, NEW x \in SubIds, Live(x)'
       PROVE  Holding(u, x) \/ \E y \in Existing' : rows'[y].sub = x
  <2>1. Live(x) BY <1>4, <1>12 DEF SameSubs
  <2>2. CASE \E y \in Existing : rows[y].sub = x BY <1>2, <2>2 DEF Existing
  <2>3. CASE Holding(tk, x)
    <3>1. CASE tk.pc = "migrateDelete"
      <4>1. x = s BY <1>10, <2>3, <3>1 DEF Holding, NewSubPcs
      <4> QED BY <1>5, <1>12, <4>1, NullFacts DEF Live
    <3>2. CASE tk.pc = "downgradeDelete"
      BY <1>8, <1>9, <1>10, <2>3, <3>2 DEF Holding, NewSubPcs
    <3> QED BY <1>1, <1>10, <2>3, <3>1, <3>2 DEF Holding, NewSubPcs
  <2> QED BY <1>12, <2>1, <2>2, <2>3 DEF SoleInv, Accounted, Sequential
<1> QED BY <1>7, <1>9, <1>11, <1>12, SoleStep

LEMMA ProceedSole ==
  ASSUME IInv, IInv', SoleInv, Sequential, NEW p \in Tasks, Proceed(p) PROVE SoleInv'
  BY PlainProceedSole, DeleteLocalSole, ReleaseCostSole, DeactivateSole, DowngradeNextSole,
     RegisterWithAppSole, RegisterWithUserSole, MigrateNextSole, DowngradeRegisterSole,
     RecordSubscriptionSole, MigrateRecordSole, DowngradeRecordSole, InsertRowSole,
     UndoRowSole, DeleteLocalRowSole, DeleteRemoteSole
  DEF Proceed

\* What goes on around the operation leaves it as it is.
LEMMA AroundSole ==
  ASSUME IInv, IInv', SoleInv, SameRows, SameSubs, UNCHANGED <<nextRow, task>> PROVE SoleInv'
<1>1. ASSUME NEW p \in Tasks PROVE Steady(task[p])'
  <2>1. PICK t \in Task : t = task[p] BY DEF IInv, InFlight
  <2>2. task'[p] = t BY <2>1
  <2>3. Steady(t) BY <2>1 DEF SoleInv
  <2>4. Loaded(t)' BY <2>2 DEF IInv, InFlight, Holds
  <2>5. Steady(t)' BY <2>3, <2>4, SteadyKept
  <2> QED BY <2>2, <2>5
<1>2. OnApps' /\ Unused' BY DatabaseKept DEF SoleInv
<1>3. ASSUME Reliable PROVE Accounted'
  <2> SUFFICES ASSUME NEW s \in SubIds, Live(s)'
               PROVE  \/ \E p \in Tasks : Holding(task'[p], s)
                      \/ \E r \in Existing' : rows'[r].sub = s
    BY DEF Accounted, Holding
  <2>1. Live(s) BY DEF SameSubs
  <2>2. CASE \E p \in Tasks : Holding(task[p], s) BY <2>2
  <2>3. CASE \E r \in Existing : rows[r].sub = s BY <2>3 DEF SameRows, Existing
  <2> QED BY <1>3, <2>1, <2>2, <2>3 DEF SoleInv, Accounted
<1> QED BY <1>1, <1>2, <1>3 DEF SoleInv

LEMMA SetStatusRows == ASSUME IInv, NEW STATE R, NEW STATE s, s \in Statuses, SetStatus(R, s) PROVE SameRows
<1> SUFFICES ASSUME NEW r \in RowIds
             PROVE  /\ rows'[r] = Null <=> rows[r] = Null
                    /\ rows'[r].sub = rows[r].sub
                    /\ rows'[r].app = rows[r].app
  BY DEF SameRows
<1>1. CASE r \in R /\ rows[r] # Null
  <2>1. rows[r] \in Row BY <1>1 DEF IInv, Stored
  <2>2. rows'[r] = [rows[r] EXCEPT !.status = s] BY <1>1 DEF SetStatus
  <2>3. rows'[r] \in Row /\ rows'[r].sub = rows[r].sub /\ rows'[r].app = rows[r].app
    BY <2>1, <2>2 DEF Row
  <2> QED BY <1>1, <2>3, NullFacts
<1>2. CASE ~(r \in R /\ rows[r] # Null) BY <1>2 DEF SetStatus
<1> QED BY <1>1, <1>2

LEMMA SetRemoteSubs ==
  ASSUME IInv, NEW s \in SubIds, NEW f \in {"pending", "enabled"},
         NEW x \in {"enabled", "failed", "revoked"}, SetRemote(s, f, x)
  PROVE  SameSubs
<1>1. remote[s] \in Remote /\ remote[s].state = f BY DEF SetRemote, IInv, Stored
<1>2. Live(s) BY <1>1, NullFacts DEF Live
<1>3. remote'[s] = [remote[s] EXCEPT !.state = x] /\ \A y \in SubIds \ {s} : remote'[y] = remote[y]
  BY DEF SetRemote, IInv, Stored
<1>4. remote'[s] \in Remote /\ remote'[s].app = remote[s].app
  BY <1>1, <1>3 DEF Remote, RemoteStates
<1> QED BY <1>1, <1>2, <1>3, <1>4, NullFacts DEF SameSubs, Live

LEMMA SyncSole == ASSUME IInv, IInv', SoleInv, Sync PROVE SoleInv'
<1>1. UNCHANGED <<remote, nextRow, task>>
  BY DEF Sync, SyncRead, SyncQuery, SyncEnable, SyncRevoke
<1>2. SameRows
  <2>1. CASE UNCHANGED rows BY <2>1 DEF SameRows
  <2>2. CASE SetStatus({e.id : e \in cron.toEnable}, "verified")
    BY <2>2, SetStatusRows DEF Statuses
  <2> QED BY <2>1, <2>2 DEF Sync, SyncRead, SyncQuery, SyncEnable, SyncRevoke, IInv, CronOK
<1>3. SameSubs BY <1>1 DEF SameSubs, Live
<1> QED BY <1>1, <1>2, <1>3, AroundSole

LEMMA QueueSole == ASSUME IInv, IInv', SoleInv, Queue PROVE SoleInv'
<1>1. PICK m \in acks : ApplyStatus(m) BY DEF Queue
<1>2. m.status \in Statuses BY DEF IInv, Stored, Ack, Statuses
<1>3. SameRows
  <2>1. CASE UNCHANGED rows BY <2>1 DEF SameRows
  <2>2. CASE SetStatus({m.row}, m.status) BY <1>2, <2>2, SetStatusRows
  <2> QED BY <1>1, <2>1, <2>2 DEF ApplyStatus
<1>4. SameSubs BY <1>1 DEF ApplyStatus, SameSubs, Live
<1> QED BY <1>1, <1>3, <1>4, AroundSole DEF ApplyStatus

LEMMA EnvironmentSole == ASSUME IInv, IInv', SoleInv, Environment PROVE SoleInv'
<1>1. ASSUME NEW s \in SubIds, Challenge(s) \/ ChallengeFails(s) \/ Revoke(s) PROVE SoleInv'
  <2>1. UNCHANGED <<rows, nextRow, task>> BY <1>1 DEF Challenge, ChallengeFails, Revoke
  <2>2. SameSubs BY <1>1, SetRemoteSubs DEF Challenge, ChallengeFails, Revoke
  <2> QED BY <2>1, <2>2, AroundSole DEF SameRows
<1>2. ASSUME NEW st \in Streamers, WithdrawGrant(st) PROVE SoleInv'
  BY <1>2, NothingMoved, AroundSole DEF WithdrawGrant
<1>3. ASSUME NEW r \in RowIds, Age(r) PROVE SoleInv'
  <2> DEFINE new == [rows[r] EXCEPT !.aged = TRUE]
  <2>1. rows[r] \in Row BY <1>3 DEF Age, IInv, Stored
  <2>2. new \in Row /\ new.sub = rows[r].sub /\ new.app = rows[r].app BY <2>1 DEF Row
  <2>3. rows' = [rows EXCEPT ![r] = new]
    BY <1>3 DEF Age
  <2> HIDE DEF new
  <2>4. SameRows BY <2>1, <2>2, <2>3, NullFacts DEF SameRows, IInv, Stored
  <2>5. SameSubs BY <1>3 DEF Age, SameSubs, Live
  <2> QED BY <1>3, <2>4, <2>5, AroundSole DEF Age
<1>4. ASSUME Crash PROVE SoleInv'
  <2>1. ~Reliable BY <1>4 DEF Crash, Reliable
  <2>2. SameRows /\ SameSubs /\ nextRow' = nextRow BY <1>4, NothingMoved DEF Crash
  <2>3. OnApps' /\ Unused' BY <2>2, DatabaseKept DEF SoleInv
  <2>4. Steady(Idle)'
    BY DEF Idle, Steady, Inserted, NewOnApp, AsSeen, Outdated, Ahead, InsertedPcs, NewSubPcs,
       AsSeenPcs, OutdatedPcs, MovingPcs
  <2>5. \A p \in Tasks : Steady(task[p])' BY <1>4, <2>4 DEF Crash
  <2> QED BY <2>1, <2>3, <2>5 DEF SoleInv
<1> QED BY <1>1, <1>2, <1>3, <1>4 DEF Environment

LEMMA InitSole == Init => SoleInv
<1> SUFFICES ASSUME Init PROVE SoleInv OBVIOUS
<1>1. \A p \in Tasks : Steady(task[p])
  BY DEF Init, Idle, Steady, Inserted, NewOnApp, AsSeen, Outdated, Ahead, InsertedPcs,
     NewSubPcs, AsSeenPcs, OutdatedPcs, MovingPcs
<1>2. OnApps /\ Unused /\ Accounted
  BY DEF Init, OnApps, Unused, Accounted, Existing, Live
<1> QED BY <1>1, <1>2 DEF SoleInv

LEMMA NextSole == ASSUME Sequential PROVE IInv /\ IInv' /\ SoleInv /\ [Next]_vars => SoleInv'
<1> SUFFICES ASSUME IInv, IInv', SoleInv, [Next]_vars PROVE SoleInv' OBVIOUS
<1>1. CASE UNCHANGED vars BY <1>1, NothingMoved, AroundSole DEF vars
<1> QED BY <1>1, RequestSole, ProceedSole, SyncSole, QueueSole, EnvironmentSole DEF Next

\* While operations do not overlap, a row's subscription is on the row's app,
\* whose client id any later deletion or listing uses, even when registrations
\* and deletions at Twitch fail and the process restarts between any two awaits.
THEOREM SubscriptionIsOnItsApp == ASSUME Sequential PROVE Spec => []OnItsApp
<1>1. SoleInv => OnItsApp BY DEF SoleInv, OnApps, OnItsApp
<1> QED BY <1>1, InitIInv, NextIInv, InitSole, NextSole, PTL DEF Spec

\* While operations do not overlap, no deletion at Twitch fails and no restart
\* forgets an operation, none leaves a live subscription behind: each belongs to
\* a row, whatever registrations fail, grants are withdrawn, challenges fail or
\* messages are lost.
THEOREM NothingLeaks == ASSUME Sequential, Reliable PROVE Spec => []NoLeak
<1>1. SoleInv => NoLeak
  <2> SUFFICES ASSUME SoleInv, Settled, NEW s \in SubIds, Live(s)
               PROVE  \E r \in Existing : rows[r].sub = s
    BY DEF NoLeak
  <2>1. \A p \in Tasks : ~Holding(task[p], s) BY DEF Settled, At, Holding, NewSubPcs
  <2> QED BY <2>1 DEF SoleInv, Accounted
<1> QED BY <1>1, InitIInv, NextIInv, InitSole, NextSole, PTL DEF Spec

-----------------------------------------------------------------------------
(* Sums of costs                                                            *)

\* The function MapThenSumSet recurses by, for the costs of rows R.
Chosen(S) == CHOOSE x \in S : TRUE
Sums(R, T, g) ==
  g = [S \in SUBSET T |->
        IF S = {} THEN 0 ELSE R[Chosen(S)].cost + g[S \ {Chosen(S)}]]
CostOf(R, T) == (CHOOSE g : Sums(R, T, g))[T]

LEMMA CostIsMapThenSum ==
  ASSUME NEW R, NEW T PROVE MapThenSumSet(LAMBDA r : R[r].cost, T) = CostOf(R, T)
  BY DEF MapThenSumSet, MapThenFoldSet, CostOf, Sums, Chosen

LEMMA SmallestSubset ==
  ASSUME NEW T, IsFiniteSet(T)
  PROVE  \A B \in SUBSET (SUBSET T) :
           B # {} => \E S \in B : IsFiniteSet(S) /\ \A U \in B : U \subseteq S => U = S
<1> SUFFICES ASSUME NEW B \in SUBSET (SUBSET T), B # {}
             PROVE  \E S \in B : IsFiniteSet(S) /\ \A U \in B : U \subseteq S => U = S
  OBVIOUS
<1>1. IsWellFoundedOn(StrictSubsetOrdering(T), SUBSET T)
  BY FS_StrictSubsetOrderingWellFounded, FS_FiniteSubsetsOfFinite
<1>2. PICK S \in B : \A U \in B : ~ (<<U, S>> \in StrictSubsetOrdering(T))
  BY <1>1, WFMin
<1>3. IsFiniteSet(S) BY FS_Subset
<1> QED BY <1>2, <1>3 DEF StrictSubsetOrdering

LEMMA SumsAt ==
  ASSUME NEW R, NEW T, NEW g, Sums(R, T, g), NEW S \in SUBSET T
  PROVE  /\ S = {} => g[S] = 0
         /\ S # {} => /\ Chosen(S) \in S
                      /\ g[S] = R[Chosen(S)].cost + g[S \ {Chosen(S)}]
<1>1. S # {} => Chosen(S) \in S BY DEF Chosen
<1>2. g[S] = IF S = {} THEN 0 ELSE R[Chosen(S)].cost + g[S \ {Chosen(S)}]
  <2>1. g = [U \in SUBSET T |->
              IF U = {} THEN 0 ELSE R[Chosen(U)].cost + g[U \ {Chosen(U)}]]
    BY DEF Sums
  <2> QED BY <2>1
<1> QED BY <1>1, <1>2

\* There is one such function at most.
LEMMA SumsAgree ==
  ASSUME NEW R, NEW T, NEW U, IsFiniteSet(T), NEW g, NEW h, Sums(R, T, g), Sums(R, U, h)
  PROVE  \A S \in SUBSET T : S \subseteq U => g[S] = h[S]
<1> DEFINE B == {S \in SUBSET T : S \subseteq U /\ g[S] # h[S]}
<1> SUFFICES ASSUME B # {} PROVE FALSE OBVIOUS
<1>0. B \in SUBSET (SUBSET T) OBVIOUS
<1> HIDE DEF B
<1>1. PICK S \in B : IsFiniteSet(S) /\ \A V \in B : V \subseteq S => V = S
  BY <1>0, SmallestSubset
<1> USE DEF B
<1>2. S \in SUBSET T /\ S \in SUBSET U /\ g[S] # h[S] OBVIOUS
<1>3. S # {} BY <1>2, SumsAt
<1> DEFINE V == S \ {Chosen(S)}
<1>4. V \in SUBSET T /\ V \subseteq U /\ V \subseteq S BY <1>2
<1>5. V # S BY <1>2, <1>3, SumsAt
<1>6. g[V] = h[V] BY <1>1, <1>4, <1>5
<1> QED BY <1>2, <1>3, <1>6, SumsAt

\* And there is one.
LEMMA SumsExist ==
  ASSUME NEW R, NEW T, IsFiniteSet(T) PROVE \E g : Sums(R, T, g)
<1> DEFINE B == {S \in SUBSET T : ~ \E g : Sums(R, S, g)}
<1> SUFFICES ASSUME B # {} PROVE FALSE OBVIOUS
<1>0. B \in SUBSET (SUBSET T) OBVIOUS
<1> HIDE DEF B
<1>1. PICK S \in B : IsFiniteSet(S) /\ \A V \in B : V \subseteq S => V = S
  BY <1>0, SmallestSubset
<1> USE DEF B
<1> DEFINE part(V) == CHOOSE g : Sums(R, V, g)
           below == [V \in SUBSET S |-> part(V)[V]]
           g == [V \in SUBSET S |->
                  IF V = {} THEN 0 ELSE R[Chosen(V)].cost + below[V \ {Chosen(V)}]]
<1>2. \A V \in SUBSET S : V # S => Sums(R, V, part(V)) BY <1>1
<1>3. \A V \in SUBSET S : IsFiniteSet(V) BY FS_Subset
<1>4. ASSUME NEW V \in SUBSET S, V # S PROVE g[V] = below[V]
  <2>1. Sums(R, V, part(V)) BY <1>2, <1>4
  <2>2. CASE V = {} BY <2>1, <2>2, SumsAt
  <2>3. CASE V # {}
    <3> DEFINE W == V \ {Chosen(V)}
    <3>1. W \in SUBSET V /\ W \in SUBSET S /\ W # S BY <1>4
    <3>2. Sums(R, W, part(W)) BY <1>2, <3>1
    <3>3. part(V)[W] = part(W)[W] BY <1>3, <2>1, <3>1, <3>2, SumsAgree
    <3>4. V \in SUBSET V OBVIOUS
    <3>5. part(V)[V] = R[Chosen(V)].cost + part(V)[W] BY <2>1, <2>3, <3>4, SumsAt
    <3> QED BY <2>3, <3>1, <3>3, <3>5
  <2> QED BY <2>2, <2>3
<1>5. ASSUME NEW V \in SUBSET S, V # {} PROVE below[V \ {Chosen(V)}] = g[V \ {Chosen(V)}]
  <2>1. Chosen(V) \in V BY <1>5 DEF Chosen
  <2>2. V \ {Chosen(V)} \in SUBSET S /\ V \ {Chosen(V)} # S BY <2>1
  <2> QED BY <1>4, <2>2
<1>6. Sums(R, S, g)
  <2> DEFINE step(V, k) == IF V = {} THEN 0 ELSE R[Chosen(V)].cost + k[V \ {Chosen(V)}]
             again == [V \in SUBSET S |-> step(V, g)]
  <2>1. g = [V \in SUBSET S |-> step(V, below)] OBVIOUS
  <2> HIDE DEF g, below
  <2>2. \A V \in SUBSET S : step(V, below) = step(V, g) BY <1>5
  <2> HIDE DEF step
  <2>3. again = [V \in SUBSET S |-> step(V, below)] BY <2>2
  <2>4. g = again BY <2>1, <2>3
  <2> USE DEF step
  <2> QED BY <2>4 DEF Sums
<1> QED BY <1>6

LEMMA CostUnfolds ==
  ASSUME NEW R, NEW T, IsFiniteSet(T)
  PROVE  /\ T = {} => CostOf(R, T) = 0
         /\ T # {} => /\ Chosen(T) \in T
                      /\ CostOf(R, T) = R[Chosen(T)].cost + CostOf(R, T \ {Chosen(T)})
<1> DEFINE g == CHOOSE h : Sums(R, T, h)
           U == T \ {Chosen(T)}
           k == CHOOSE h : Sums(R, U, h)
<1>1. Sums(R, T, g) BY SumsExist
<1>2. IsFiniteSet(U) /\ U \in SUBSET T /\ U \in SUBSET U /\ T \in SUBSET T BY FS_Subset
<1>3. Sums(R, U, k) BY <1>2, SumsExist
<1>4. g[U] = k[U] BY <1>1, <1>2, <1>3, SumsAgree
<1>5. CostOf(R, T) = g[T] /\ CostOf(R, U) = k[U] BY DEF CostOf
<1> HIDE DEF g, k
<1> QED BY <1>1, <1>2, <1>4, <1>5, SumsAt

LEMMA CostIsInt ==
  ASSUME NEW R, NEW T, IsFiniteSet(T), \A r \in T : R[r].cost \in Int
  PROVE  CostOf(R, T) \in Int
<1> DEFINE B == {S \in SUBSET T : CostOf(R, S) \notin Int}
<1> SUFFICES ASSUME B # {} PROVE FALSE BY DEF B
<1>0. B \in SUBSET (SUBSET T) OBVIOUS
<1> HIDE DEF B
<1>1. PICK S \in B : IsFiniteSet(S) /\ \A V \in B : V \subseteq S => V = S
  BY <1>0, SmallestSubset
<1> USE DEF B
<1>2. IsFiniteSet(S) BY <1>1
<1>3. S # {}
  <2> SUFFICES ASSUME S = {} PROVE FALSE OBVIOUS
  <2>1. CostOf(R, S) = 0 BY <1>2, CostUnfolds
  <2> QED BY <2>1
<1>4. Chosen(S) \in S /\ CostOf(R, S) = R[Chosen(S)].cost + CostOf(R, S \ {Chosen(S)})
  BY <1>2, <1>3, CostUnfolds
<1>5. CostOf(R, S \ {Chosen(S)}) \in Int BY <1>1, <1>4
<1> QED BY <1>4, <1>5

\* Any row may be taken out, not the chosen one alone.
LEMMA CostSplits ==
  ASSUME NEW R, NEW T, IsFiniteSet(T), \A r \in T : R[r].cost \in Int, NEW x \in T
  PROVE  CostOf(R, T) = R[x].cost + CostOf(R, T \ {x})
<1> DEFINE B == {S \in SUBSET T :
                  \E y \in S : CostOf(R, S) # R[y].cost + CostOf(R, S \ {y})}
<1> SUFFICES ASSUME B # {} PROVE FALSE BY DEF B
<1>0. B \in SUBSET (SUBSET T) OBVIOUS
<1> HIDE DEF B
<1>1. PICK S \in B : IsFiniteSet(S) /\ \A V \in B : V \subseteq S => V = S
  BY <1>0, SmallestSubset
<1> USE DEF B
<1>2. PICK y \in S : CostOf(R, S) # R[y].cost + CostOf(R, S \ {y}) OBVIOUS
<1> DEFINE c == Chosen(S)
<1>3. \A V \in SUBSET T : IsFiniteSet(V) BY FS_Subset
<1>4. c \in S /\ CostOf(R, S) = R[c].cost + CostOf(R, S \ {c}) BY <1>2, <1>3, CostUnfolds
<1>5. c # y BY <1>2, <1>4
<1>6. S \ {c} \notin B /\ S \ {y} \notin B BY <1>1, <1>4
<1>7. CostOf(R, S \ {c}) = R[y].cost + CostOf(R, (S \ {c}) \ {y}) BY <1>5, <1>6
<1>8. CostOf(R, S \ {y}) = R[c].cost + CostOf(R, (S \ {y}) \ {c}) BY <1>4, <1>5, <1>6
<1>9. (S \ {c}) \ {y} = (S \ {y}) \ {c} OBVIOUS
<1>10. CostOf(R, (S \ {c}) \ {y}) \in Int
  <2>1. (S \ {c}) \ {y} \in SUBSET T OBVIOUS
  <2> HIDE DEF c
  <2> QED BY <1>3, <2>1, CostIsInt
<1>11. R[c].cost \in Int /\ R[y].cost \in Int BY <1>4
<1> HIDE DEF c
<1>12. R[c].cost + (R[y].cost + CostOf(R, (S \ {c}) \ {y}))
         = R[y].cost + (R[c].cost + CostOf(R, (S \ {c}) \ {y}))
  BY <1>10, <1>11
<1> QED BY <1>2, <1>4, <1>7, <1>8, <1>9, <1>12

\* Only the costs of the rows in question count.
LEMMA CostDepends ==
  ASSUME NEW R, NEW Q, NEW T, IsFiniteSet(T), \A r \in T : R[r].cost = Q[r].cost
  PROVE  CostOf(R, T) = CostOf(Q, T)
<1> DEFINE B == {S \in SUBSET T : CostOf(R, S) # CostOf(Q, S)}
<1> SUFFICES ASSUME B # {} PROVE FALSE BY DEF B
<1>0. B \in SUBSET (SUBSET T) OBVIOUS
<1> HIDE DEF B
<1>1. PICK S \in B : IsFiniteSet(S) /\ \A V \in B : V \subseteq S => V = S
  BY <1>0, SmallestSubset
<1> USE DEF B
<1>2. IsFiniteSet(S) BY <1>1
<1>3. S # {}
  <2> SUFFICES ASSUME S = {} PROVE FALSE OBVIOUS
  <2>1. CostOf(R, S) = 0 /\ CostOf(Q, S) = 0 BY <1>2, CostUnfolds
  <2> QED BY <2>1
<1>4. /\ Chosen(S) \in S
      /\ CostOf(R, S) = R[Chosen(S)].cost + CostOf(R, S \ {Chosen(S)})
      /\ CostOf(Q, S) = Q[Chosen(S)].cost + CostOf(Q, S \ {Chosen(S)})
  BY <1>2, <1>3, CostUnfolds
<1>5. CostOf(R, S \ {Chosen(S)}) = CostOf(Q, S \ {Chosen(S)}) BY <1>1, <1>4
<1> QED BY <1>4, <1>5

-----------------------------------------------------------------------------
(* The ledger                                                               *)

\* What the rows R cost app a, and row r's part of it.
RowsOn(R, a) == {r \in RowIds : R[r] # Null /\ R[r].app = a}
Total(R, a) == CostOf(R, RowsOn(R, a))
Part(R, r, a) == IF R[r] # Null /\ R[r].app = a THEN R[r].cost ELSE 0

LEMMA TotalSplits ==
  ASSUME NEW R \in [RowIds -> Row \cup {Null}], NEW r \in RowIds, NEW a
  PROVE  /\ Total(R, a) = Part(R, r, a) + CostOf(R, RowsOn(R, a) \ {r})
         /\ Part(R, r, a) \in Int /\ CostOf(R, RowsOn(R, a) \ {r}) \in Int
<1> DEFINE T == RowsOn(R, a)
<1>1. IsFiniteSet(T) /\ IsFiniteSet(T \ {r})
  <2>1. IsFiniteSet(RowIds) BY FS_Interval, ConstantsOK DEF RowIds
  <2>2. T \subseteq RowIds /\ T \ {r} \subseteq RowIds BY DEF RowsOn
  <2> QED BY <2>1, <2>2, FS_Subset
<1>2. \A x \in T : R[x].cost \in Int BY DEF RowsOn, Row
<1>3. Part(R, r, a) \in Int BY DEF Part, Row
<1>4. r \in T <=> R[r] # Null /\ R[r].app = a BY DEF RowsOn
<1> HIDE DEF T
<1>5. CostOf(R, T \ {r}) \in Int BY <1>1, <1>2, CostIsInt
<1>6. CASE r \in T
  <2>1. Part(R, r, a) = R[r].cost BY <1>4, <1>6 DEF Part
  <2>2. CostOf(R, T) = R[r].cost + CostOf(R, T \ {r}) BY <1>1, <1>2, <1>6, CostSplits
  <2> QED BY <1>3, <1>5, <2>1, <2>2 DEF T, Total
<1>7. CASE r \notin T
  <2>1. Part(R, r, a) = 0 BY <1>4, <1>7 DEF Part
  <2>2. T \ {r} = T BY <1>7
  <2>3. Total(R, a) = CostOf(R, T \ {r}) BY <2>2 DEF T, Total
  <2> QED BY <1>5, <2>1, <2>3 DEF T
<1> QED BY <1>6, <1>7

\* A change of one row changes the total by what it changes the row's part.
LEMMA RowChanges ==
  ASSUME NEW R \in [RowIds -> Row \cup {Null}], NEW Q \in [RowIds -> Row \cup {Null}],
         NEW r \in RowIds, \A x \in RowIds \ {r} : Q[x] = R[x], NEW a
  PROVE  /\ Total(R, a) \in Int /\ Part(R, r, a) \in Int /\ Part(Q, r, a) \in Int
         /\ Total(Q, a) = Total(R, a) - Part(R, r, a) + Part(Q, r, a)
<1> DEFINE T == RowsOn(R, a) \ {r}
<1>1. RowsOn(Q, a) \ {r} = T BY DEF RowsOn
<1>2. T \subseteq RowIds BY DEF RowsOn
<1>3. IsFiniteSet(T) BY <1>2, FS_Interval, FS_Subset, ConstantsOK DEF RowIds
<1>4. \A x \in T : R[x].cost = Q[x].cost BY DEF RowsOn
<1> HIDE DEF T
<1>5. CostOf(R, T) = CostOf(Q, T) BY <1>3, <1>4, CostDepends
<1>6. /\ Total(R, a) = Part(R, r, a) + CostOf(R, T)
      /\ Part(R, r, a) \in Int /\ CostOf(R, T) \in Int
  BY TotalSplits DEF T
<1>7. Total(Q, a) = Part(Q, r, a) + CostOf(Q, T) /\ Part(Q, r, a) \in Int
  BY <1>1, TotalSplits
<1> QED BY <1>5, <1>6, <1>7

LEMMA TotalIsInt ==
  ASSUME NEW R \in [RowIds -> Row \cup {Null}], NEW a PROVE Total(R, a) \in Int
<1>1. RowsOn(R, a) \subseteq RowIds BY DEF RowsOn
<1>2. IsFiniteSet(RowsOn(R, a)) BY <1>1, FS_Interval, FS_Subset, ConstantsOK DEF RowIds
<1>3. \A x \in RowsOn(R, a) : R[x].cost \in Int BY DEF RowsOn, Row
<1> QED BY <1>2, <1>3, CostIsInt DEF Total

LEMMA TotalSame ==
  ASSUME NEW R, NEW Q,
         \A r \in RowIds : /\ Q[r] = Null <=> R[r] = Null
                           /\ Q[r].app = R[r].app
                           /\ Q[r].cost = R[r].cost,
         NEW a
  PROVE  Total(Q, a) = Total(R, a)
<1> DEFINE T == RowsOn(R, a)
<1>1. RowsOn(Q, a) = T BY DEF RowsOn
<1>2. T \subseteq RowIds BY DEF RowsOn
<1>3. IsFiniteSet(T) BY <1>2, FS_Interval, FS_Subset, ConstantsOK DEF RowIds
<1>4. \A x \in T : Q[x].cost = R[x].cost BY DEF RowsOn
<1> HIDE DEF T
<1>5. CostOf(Q, T) = CostOf(R, T) BY <1>3, <1>4, CostDepends
<1> QED BY <1>1, <1>5 DEF Total, T

\* No registration fails and no restart: what an operation has begun, it finishes.
Finishes == {"register_fails", "crash"} \cap Events = {}

\* The points at which the counter is yet to be charged with what the row costs, or
\* has been relieved of it already; those at which it is yet to be relieved of what the
\* row cost before.
UnchargedPcs == {"twitchApp", "recordApp", "consume", "downgradeConsume", "removeRow"}
OverchargedPcs == {"migrateDelete", "migrateRelease"}

Owed(t, a) ==
  IF t.pc \in UnchargedPcs THEN Part(rows, t.row, a)
  ELSE IF t.pc \in OverchargedPcs /\ t.seen.app = a THEN -t.seen.cost
  ELSE 0

\* The loop of downgradeUserAuthorizedSubscriptions.
DowngradeLoopPcs == {"downgradeNext", "downgradeRegister", "downgradeDelete", "downgradeRecord",
                     "downgradeConsume", "dropRemote", "deactivate", "suspend"}

\* An operation charges an app that is not internal, and is free on one that is;
Chargeable(t) ==
  /\ t.pc \in ConsumingPcs => t.app \notin Internal
  /\ t.pc \in {"insertUser", "twitchUser", "recordUser", "undo", "migrateRecord"}
       => t.app \in Internal

\* it charges what the row says,
Bought(t) ==
  t.pc \in {"consume", "downgradeConsume"} =>
    rows[t.row] # Null /\ rows[t.row].app = t.app /\ rows[t.row].cost = remote[t.sub].cost

\* and the rows it has loaded are where they were, at the same cost.
Priced(t) ==
  /\ t.pc \in {"deleteRemote", "release", "migrateRecord"} =>
       /\ rows[t.row] # Null
       /\ rows[t.row].app = t.seen.app /\ rows[t.row].cost = t.seen.cost
  /\ t.pc \in {"downgradeRegister", "downgradeDelete", "downgradeRecord"} =>
       rows[t.row].app \in Internal
  /\ \A e \in t.todo : rows[e.id].app = e.row.app /\ rows[e.id].cost = e.row.cost
  /\ t.pc \in DowngradeLoopPcs => \A e \in t.todo : e.row.app \in Internal

Dues(t) == Chargeable(t) /\ Bought(t) /\ Priced(t)

FreeOnInternal == \A r \in Existing : rows[r].app \in Internal => rows[r].cost = 0

\* A counter is the cost of the app's rows, but for what the operation owes.
Balanced ==
  /\ \A p \in Tasks, a \in Apps : currentCost[a] + Owed(task[p], a) = Total(rows, a)
  /\ Tasks = {} => \A a \in Apps : currentCost[a] = Total(rows, a)

LedgerInv == (\A p \in Tasks : Dues(task[p])) /\ FreeOnInternal /\ Balanced

SamePrices ==
  \A r \in RowIds : /\ rows'[r] = Null <=> rows[r] = Null
                    /\ rows'[r].app = rows[r].app
                    /\ rows'[r].cost = rows[r].cost

SameCosts == \A s \in SubIds : remote[s] # Null => remote'[s].cost = remote[s].cost

LEMMA OwedIsInt ==
  ASSUME rows \in [RowIds -> Row \cup {Null}], NEW t \in Task, Loaded(t), NEW a
  PROVE  Owed(t, a) \in Int
<1>1. t.pc \in UnchargedPcs => t.row \in RowIds BY DEF Loaded, UnchargedPcs, RowPcs
<1>2. t.pc \in OverchargedPcs => t.seen \in Row BY DEF Loaded, OverchargedPcs, SeenPcs
<1> QED BY <1>1, <1>2 DEF Owed, Part, Row

LEMMA DuesKept ==
  ASSUME SamePrices, SameCosts, NEW t \in Task, Loaded(t)', Dues(t),
         t.pc \in {"consume", "downgradeConsume"} => remote[t.sub] # Null
  PROVE  Dues(t)'
<1>1. t.pc \in RowPcs => t.row \in RowIds BY DEF Loaded
<1>2. t.pc \in SubPcs => t.sub \in SubIds BY DEF Loaded
<1>3. Chargeable(t)' BY DEF Dues, Chargeable
<1>4. Bought(t)' BY <1>1, <1>2 DEF Dues, Bought, SamePrices, SameCosts, RowPcs, SubPcs
<1>5. \A e \in t.todo : e.id \in RowIds BY DEF Task, Entity
<1>6. Priced(t)'
  <2>1. t.pc \in {"deleteRemote", "release", "migrateRecord", "downgradeRegister",
                  "downgradeDelete", "downgradeRecord"} => t.row \in RowIds
    BY <1>1 DEF RowPcs
  <2> QED BY <1>5, <2>1 DEF Dues, Priced, SamePrices
<1> QED BY <1>3, <1>4, <1>6 DEF Dues

LEMMA OwedKept ==
  ASSUME SamePrices, NEW t \in Task, Loaded(t)', NEW a PROVE Owed(t, a)' = Owed(t, a)
<1>1. t.pc \in UnchargedPcs => t.row \in RowIds BY DEF Loaded, UnchargedPcs, RowPcs
<1> QED BY <1>1 DEF Owed, Part, SamePrices

\* The only operation in flight goes on.
LEMMA LedgerStep ==
  ASSUME Sequential, NEW p \in Tasks, NEW u \in Task, task'[p] = u, Dues(u)', FreeOnInternal',
         \A a \in Apps : currentCost'[a] + Owed(u, a)' = Total(rows', a)
  PROVE  LedgerInv'
<1>1. \A q \in Tasks : task'[q] = u BY DEF Sequential
<1>2. \A q \in Tasks : Dues(task[q])' BY <1>1
<1>3. Tasks # {} OBVIOUS
<1>4. Balanced' BY <1>1, <1>3 DEF Balanced
<1> QED BY <1>2, <1>4 DEF LedgerInv

LEMMA FreeKept == ASSUME LedgerInv, SamePrices PROVE FreeOnInternal'
  BY DEF LedgerInv, FreeOnInternal, SamePrices, Existing

\* A step that leaves prices and counters alone.
LEMMA QuietLedger ==
  ASSUME IInv, IInv', LedgerInv, Sequential, SamePrices, SameCosts, UNCHANGED currentCost,
         NEW p \in Tasks, NEW STATE t, Become(p, t), Dues(t),
         t.pc \notin {"consume", "downgradeConsume"},
         \A a \in Apps : Owed(t, a) = Owed(task[p], a)
  PROVE  LedgerInv'
<1>1. task'[p] = t BY DEF Become, IInv, InFlight
<1>2. PICK u \in Task : u = t BY <1>1 DEF IInv, InFlight
<1>3. Loaded(u)' BY <1>1, <1>2 DEF IInv, InFlight, Holds
<1>4. Dues(u) /\ u.pc \notin {"consume", "downgradeConsume"} BY <1>2
<1>5. Dues(u)' BY <1>3, <1>4, DuesKept
<1>6. \A a \in Apps : Owed(u, a)' = Owed(u, a) BY <1>3, OwedKept
<1>7. \A a \in Apps : Total(rows', a) = Total(rows, a) BY TotalSame DEF SamePrices
<1>8. \A a \in Apps : currentCost'[a] + Owed(u, a)' = Total(rows', a)
  BY <1>2, <1>6, <1>7 DEF LedgerInv, Balanced
<1> QED BY <1>1, <1>2, <1>5, <1>8, FreeKept, LedgerStep

\* A step that changes one row, by what is owed afterwards.
LEMMA RowLedger ==
  ASSUME IInv, IInv', LedgerInv, Sequential, UNCHANGED currentCost,
         NEW p \in Tasks, NEW u \in Task, task'[p] = u, Dues(u)',
         NEW r \in RowIds, \A x \in RowIds \ {r} : rows'[x] = rows[x],
         rows'[r] # Null /\ rows'[r].app \in Internal => rows'[r].cost = 0,
         \A a \in Apps : Owed(u, a)' = Owed(task[p], a) - Part(rows, r, a) + Part(rows', r, a)
  PROVE  LedgerInv'
<1>1. FreeOnInternal' BY DEF LedgerInv, FreeOnInternal, Existing
<1>2. ASSUME NEW a \in Apps PROVE currentCost'[a] + Owed(u, a)' = Total(rows', a)
  <2>1. /\ Total(rows, a) \in Int /\ Part(rows, r, a) \in Int /\ Part(rows', r, a) \in Int
        /\ Total(rows', a) = Total(rows, a) - Part(rows, r, a) + Part(rows', r, a)
    BY RowChanges DEF IInv, Stored
  <2>2. currentCost[a] \in Int BY DEF IInv, Stored
  <2>3. Owed(task[p], a) \in Int BY OwedIsInt DEF IInv, Stored, InFlight, Holds
  <2>4. currentCost[a] + Owed(task[p], a) = Total(rows, a) BY DEF LedgerInv, Balanced
  <2>5. Owed(u, a)' = Owed(task[p], a) - Part(rows, r, a) + Part(rows', r, a) OBVIOUS
  <2> QED BY <2>1, <2>2, <2>3, <2>4, <2>5
<1> QED BY <1>1, <1>2, LedgerStep

\* Points without dues.
CarefreePcs == {"idle", "attach", "register", "userToken", "pickApp", "cleanup", "deleteLocal",
                "deleteOrphan", "storeTokens", "migrate", "unlink", "forgetTokens", "downgrade"}

LEMMA CarefreeDues ==
  ASSUME NEW t, t.pc \in CarefreePcs, t.todo = {} PROVE Dues(t) /\ \A a : Owed(t, a) = 0
<1>1. t.pc \notin ConsumingPcs \cup UnchargedPcs \cup OverchargedPcs \cup DowngradeLoopPcs
  BY DEF CarefreePcs, ConsumingPcs, UnchargedPcs, OverchargedPcs, DowngradeLoopPcs
<1>2. Dues(t) BY <1>1 DEF Dues, Chargeable, Bought, Priced, CarefreePcs
<1> QED BY <1>1, <1>2 DEF Owed

LEMMA CarefreeLedger ==
  ASSUME IInv, IInv', LedgerInv, Sequential, SamePrices, SameCosts, UNCHANGED currentCost,
         NEW p \in Tasks, NEW STATE t, Become(p, t), t.pc \in CarefreePcs, t.todo = {},
         task[p].pc \notin UnchargedPcs \cup OverchargedPcs
  PROVE  LedgerInv'
<1>1. \A a : Owed(task[p], a) = 0 BY DEF Owed
<1>2. PICK u : u = t OBVIOUS
<1>3. Dues(t) /\ \A a : Owed(t, a) = 0 BY <1>2, CarefreeDues
<1>4. t.pc \notin {"consume", "downgradeConsume"} BY DEF CarefreePcs
<1> QED BY <1>1, <1>3, <1>4, QuietLedger

LEMMA PricesStay == ASSUME UNCHANGED <<rows, remote>> PROVE SamePrices /\ SameCosts
  BY DEF SamePrices, SameCosts

LEMMA LedgerNow == ASSUME IInv, LedgerInv, NEW p \in Tasks PROVE
  /\ task[p] \in Task /\ Loaded(task[p])
  /\ Chargeable(task[p]) /\ Bought(task[p]) /\ Priced(task[p])
  BY DEF IInv, InFlight, Holds, LedgerInv, Dues

LEMMA DoneLedger ==
  ASSUME IInv, IInv', LedgerInv, Sequential, SamePrices, SameCosts, UNCHANGED currentCost,
         NEW p \in Tasks, Done(p), task[p].pc \notin UnchargedPcs \cup OverchargedPcs
  PROVE  LedgerInv'
<1>1. Idle.pc \in CarefreePcs /\ Idle.todo = {} BY DEF Idle, CarefreePcs
<1> QED BY <1>1, CarefreeLedger DEF Done

LEMMA GotoLedger ==
  ASSUME IInv, IInv', LedgerInv, Sequential, SamePrices, SameCosts, UNCHANGED currentCost,
         NEW p \in Tasks, NEW l \in CarefreePcs, Goto(p, l), task[p].todo = {},
         task[p].pc \notin UnchargedPcs \cup OverchargedPcs
  PROVE  LedgerInv'
<1> DEFINE t == [task[p] EXCEPT !.pc = l]
<1>1. t.pc = l /\ t.todo = task[p].todo BY DEF IInv, InFlight, Task
<1>2. Become(p, t) BY DEF Goto
<1> HIDE DEF t
<1> QED BY <1>1, <1>2, CarefreeLedger

\* Where an operation goes that returns to its caller.
LEMMA Returned ==
  ASSUME IInv, IInv', NEW p \in Tasks, Return(p), task[p].todo = {}
  PROVE  \E u \in Task : Become(p, u) /\ u.pc \in CarefreePcs /\ u.todo = {}
<1>1. CASE Done(p)
  <2>1. Idle.pc \in CarefreePcs /\ Idle.todo = {} BY DEF Idle, CarefreePcs
  <2> QED BY <1>1, <2>1, IdleTask DEF Done
<1>2. ASSUME NEW l \in {"attach", "unlink"}, Goto(p, l)
      PROVE  \E u \in Task : Become(p, u) /\ u.pc \in CarefreePcs /\ u.todo = {}
  <2> DEFINE t == [task[p] EXCEPT !.pc = l]
  <2>1. task'[p] = t BY <1>2 DEF Goto, Become, IInv, InFlight
  <2>2. t \in Task BY <2>1 DEF IInv, InFlight
  <2>3. t.pc = l /\ t.todo = {} BY DEF IInv, InFlight, Task
  <2>4. Become(p, t) BY <1>2 DEF Goto
  <2> HIDE DEF t
  <2> QED BY <2>2, <2>3, <2>4 DEF CarefreePcs
<1>3. task[p].ret \in {"idle", "attach", "unlink"} BY DEF IInv, InFlight, Task
<1> QED BY <1>1, <1>2, <1>3 DEF Return

LEMMA ReturnLedger ==
  ASSUME IInv, IInv', LedgerInv, Sequential, SamePrices, SameCosts, UNCHANGED currentCost,
         NEW p \in Tasks, Return(p), task[p].todo = {},
         task[p].pc \notin UnchargedPcs \cup OverchargedPcs
  PROVE  LedgerInv'
  BY Returned, CarefreeLedger

\* Registrations charge active apps and those of other rows, never the internal one.
LEMMA LeastLoadedCharges == ASSUME NEW a \in FindLeastLoaded PROVE a = Null \/ a \notin Internal
  BY DEF FindLeastLoaded, LeastLoaded, Internal

LEMMA BroadcasterCharges ==
  ASSUME NEW st, NEW a \in AppsForBroadcaster(st) PROVE a = Null \/ a \notin Internal
<1>1. \A b \in SiblingApps(st) : b \notin Internal BY DEF SiblingApps
<1> QED BY <1>1, LeastLoadedCharges DEF AppsForBroadcaster

LEMMA PlainLedger ==
  ASSUME IInv, IInv', SoleInv, LedgerInv, Sequential, Finishes, NEW p \in Tasks,
         \/ GetOrCreateStreamer(p) \/ TryRegisterWithUserToken(p) \/ PickApp(p)
         \/ Attach(p) \/ CleanupIfUnused(p)
         \/ StoreTokens(p) \/ UnlinkAccount(p) \/ ForgetTokens(p)
  PROVE  LedgerInv'
<1>1. task[p] \in Task /\ Ahead(task[p]) BY SteadyNow
<1>2. SamePrices /\ SameCosts /\ UNCHANGED currentCost
  BY PricesStay DEF GetOrCreateStreamer, TryRegisterWithUserToken, PickApp, Attach,
     CleanupIfUnused, StoreTokens, UnlinkAccount, ForgetTokens, shared
<1>3. task[p].pc \in {"register", "userToken", "pickApp", "attach", "cleanup", "storeTokens",
                      "unlink", "forgetTokens"}
  BY DEF GetOrCreateStreamer, TryRegisterWithUserToken, PickApp, Attach,
     CleanupIfUnused, StoreTokens, UnlinkAccount, ForgetTokens, At
<1>4. task[p].pc \notin UnchargedPcs \cup OverchargedPcs /\ task[p].todo = {}
  BY <1>1, <1>3 DEF UnchargedPcs, OverchargedPcs, Ahead, LoopPcs
<1>5. ASSUME NEW l \in {"userToken", "pickApp", "deleteLocal", "migrate", "forgetTokens"}, Goto(p, l)
      PROVE  LedgerInv'
  BY <1>2, <1>4, <1>5, GotoLedger DEF CarefreePcs
<1>6. ASSUME Done(p) PROVE LedgerInv' BY <1>2, <1>4, <1>6, DoneLedger
<1>7. ASSUME NEW STATE t, Become(p, t), t.todo = {},
             \/ t.pc = "insertUser" /\ t.app \in Internal
             \/ t.pc = "insertApp" /\ t.app \notin Internal
      PROVE  LedgerInv'
  <2>1. Dues(t)
    BY <1>7 DEF Dues, Chargeable, Bought, Priced, ConsumingPcs
  <2>2. \A a : Owed(t, a) = 0 /\ Owed(task[p], a) = 0
    BY <1>4, <1>7 DEF Owed, UnchargedPcs, OverchargedPcs
  <2> QED BY <1>2, <1>7, <2>1, <2>2, QuietLedger
<1>8. CASE GetOrCreateStreamer(p) BY <1>5, <1>6, <1>8 DEF GetOrCreateStreamer
<1>9. CASE TryRegisterWithUserToken(p)
  <2>1. ASSUME NEW a \in Internal, Become(p, [task[p] EXCEPT !.pc = "insertUser", !.app = a])
        PROVE  LedgerInv'
    <3> DEFINE t == [task[p] EXCEPT !.pc = "insertUser", !.app = a]
    <3>1. t.pc = "insertUser" /\ t.app = a /\ t.todo = {} BY <1>1, <1>4 DEF Task
    <3>2. Become(p, t) BY <2>1
    <3> HIDE DEF t
    <3> QED BY <1>7, <3>1, <3>2
  <2> QED BY <1>5, <1>9, <2>1 DEF TryRegisterWithUserToken
<1>10. CASE PickApp(p)
  <2>1. ASSUME NEW a \in AppsForBroadcaster(StreamerOf[task[p].slot]), a # Null,
               Become(p, [task[p] EXCEPT !.pc = "insertApp", !.app = a])
        PROVE  LedgerInv'
    <3> DEFINE t == [task[p] EXCEPT !.pc = "insertApp", !.app = a]
    <3>1. t.pc = "insertApp" /\ t.app = a /\ t.todo = {} BY <1>1, <1>4 DEF Task
    <3>2. Become(p, t) BY <2>1
    <3>3. a \notin Internal BY <2>1, BroadcasterCharges
    <3> HIDE DEF t
    <3> QED BY <1>7, <3>1, <3>2, <3>3
  <2> QED BY <1>6, <1>10, <2>1 DEF PickApp
<1>11. CASE Attach(p) \/ ForgetTokens(p) BY <1>6, <1>11 DEF Attach, ForgetTokens
<1>12. CASE CleanupIfUnused(p) BY <1>5, <1>6, <1>12 DEF CleanupIfUnused
<1>13. CASE StoreTokens(p) \/ UnlinkAccount(p) BY <1>5, <1>13 DEF StoreTokens, UnlinkAccount
<1> QED BY <1>8, <1>9, <1>10, <1>11, <1>12, <1>13

LEMMA LoadedLedger ==
  ASSUME IInv, IInv', SoleInv, LedgerInv, Sequential, NEW p \in Tasks, Migrate(p) \/ Downgrade(p)
  PROVE  LedgerInv'
<1>1. task[p] \in Task /\ task[p].pc \in {"migrate", "downgrade"} /\ task[p].todo = {}
  BY SteadyNow DEF Migrate, Downgrade, At, Ahead, LoopPcs
<1>2. SamePrices /\ SameCosts /\ UNCHANGED currentCost BY PricesStay DEF Migrate, Downgrade, shared
<1>3. task[p].pc \notin UnchargedPcs \cup OverchargedPcs BY <1>1 DEF UnchargedPcs, OverchargedPcs
<1>4. ASSUME NEW STATE t, NEW STATE R, Become(p, t), R \subseteq Existing, t.todo = Entities(R),
             \/ t.pc = "migrateNext"
             \/ t.pc = "downgradeNext" /\ \A r \in R : rows[r].app \in Internal
      PROVE  LedgerInv'
  <2>1. \A e \in t.todo : e.id \in R /\ e.row = rows[e.id] BY <1>4 DEF Entities
  <2>2. Dues(t)
    BY <1>4, <2>1 DEF Dues, Chargeable, Bought, Priced, ConsumingPcs, DowngradeLoopPcs
  <2>3. \A a : Owed(t, a) = 0 /\ Owed(task[p], a) = 0
    BY <1>3, <1>4 DEF Owed, UnchargedPcs, OverchargedPcs
  <2> QED BY <1>2, <1>4, <2>2, <2>3, QuietLedger
<1>5. CASE Migrate(p)
  <2> DEFINE mine == {r \in Existing : StreamerOf[rows[r].slot] = task[p].who
                                         /\ rows[r].app \notin Internal}
             t == [task[p] EXCEPT !.pc = "migrateNext", !.todo = Entities(mine)]
  <2>1. t.pc = "migrateNext" /\ t.todo = Entities(mine) BY <1>1 DEF Task
  <2>2. Become(p, t) \/ Done(p) BY <1>5 DEF Migrate
  <2> HIDE DEF t
  <2> QED BY <1>2, <1>3, <1>4, <2>1, <2>2, DoneLedger
<1>6. CASE Downgrade(p)
  <2> DEFINE mine == {r \in Existing : /\ StreamerOf[rows[r].slot] = task[p].who
                                       /\ rows[r].app \in Internal}
             t == [task[p] EXCEPT !.pc = "downgradeNext", !.todo = Entities(mine)]
  <2>1. t.pc = "downgradeNext" /\ t.todo = Entities(mine) BY <1>1 DEF Task
  <2>2. Become(p, t) \/ Return(p) BY <1>6 DEF Downgrade
  <2> HIDE DEF t
  <2> QED BY <1>1, <1>2, <1>3, <1>4, <2>1, <2>2, ReturnLedger
<1> QED BY <1>5, <1>6

LEMMA DeleteLocalLedger ==
  ASSUME IInv, IInv', SoleInv, LedgerInv, Sequential, NEW p \in Tasks, DeleteLocal(p)
  PROVE  LedgerInv'
<1> DEFINE t == [task[p] EXCEPT !.pc = "deleteRemote", !.seen = rows[task[p].row]]
<1>1. task[p] \in Task /\ task[p].pc = "deleteLocal" /\ task[p].todo = {}
  BY SteadyNow DEF DeleteLocal, At, Ahead, LoopPcs
<1>2. SamePrices /\ SameCosts /\ UNCHANGED currentCost BY PricesStay DEF DeleteLocal, shared
<1>3. task[p].pc \notin UnchargedPcs \cup OverchargedPcs BY <1>1 DEF UnchargedPcs, OverchargedPcs
<1>4. CASE Done(p) BY <1>2, <1>3, <1>4, DoneLedger
<1>5. CASE Become(p, t) /\ rows[task[p].row] # Null
  <2>1. /\ t.pc = "deleteRemote" /\ t.row = task[p].row /\ t.seen = rows[task[p].row]
        /\ t.todo = {}
    BY <1>1 DEF Task
  <2> HIDE DEF t
  <2>2. Dues(t) BY <1>5, <2>1 DEF Dues, Chargeable, Bought, Priced, ConsumingPcs
  <2>3. \A a : Owed(t, a) = 0 /\ Owed(task[p], a) = 0
    BY <1>3, <2>1 DEF Owed, UnchargedPcs, OverchargedPcs
  <2>4. t.pc \notin {"consume", "downgradeConsume"} BY <2>1
  <2> QED BY <1>2, <1>5, <2>2, <2>3, <2>4, QuietLedger
<1> QED BY <1>4, <1>5 DEF DeleteLocal

\* A counter moves by what the operation owed, and owes no more.
LEMMA CounterLedger ==
  ASSUME IInv, IInv', LedgerInv, Sequential, UNCHANGED <<rows, remote>>,
         NEW p \in Tasks, NEW STATE t, Become(p, t), Dues(t),
         t.pc \notin {"consume", "downgradeConsume"},
         \A a \in Apps : currentCost'[a] + Owed(t, a) = currentCost[a] + Owed(task[p], a)
  PROVE  LedgerInv'
<1>1. task'[p] = t BY DEF Become, IInv, InFlight
<1>2. PICK u \in Task : u = t BY <1>1 DEF IInv, InFlight
<1>3. Loaded(u)' BY <1>1, <1>2 DEF IInv, InFlight, Holds
<1>4. SamePrices /\ SameCosts BY PricesStay
<1>5. Dues(u)' BY <1>2, <1>3, <1>4, DuesKept
<1>6. \A a \in Apps : Owed(u, a)' = Owed(u, a) BY <1>3, <1>4, OwedKept
<1>7. \A a \in Apps : currentCost'[a] + Owed(u, a)' = Total(rows', a)
  BY <1>2, <1>6 DEF LedgerInv, Balanced
<1> QED BY <1>1, <1>2, <1>4, <1>5, <1>7, FreeKept, LedgerStep

LEMMA ConsumeCostLedger ==
  ASSUME IInv, IInv', SoleInv, LedgerInv, Sequential, NEW p \in Tasks, ConsumeCost(p)
  PROVE  LedgerInv'
<1> DEFINE tk == task[p]
           c == remote[tk.sub].cost
<1>1. /\ tk \in Task /\ tk.pc \in {"consume", "downgradeConsume"}
      /\ tk.row \in RowIds /\ tk.app \in Apps /\ tk.sub \in SubIds /\ remote[tk.sub] \in Remote
      /\ rows[tk.row] # Null /\ rows[tk.row].app = tk.app /\ rows[tk.row].cost = c
  BY LedgerNow DEF ConsumeCost, Bought, Loaded, RowPcs, AppPcs, SubPcs
<1>2. c \in Int BY <1>1 DEF Remote
<1>3. UNCHANGED <<rows, remote>> BY DEF ConsumeCost
<1>4. \A a \in Apps : currentCost'[a] = IF a = tk.app THEN currentCost[a] + c ELSE currentCost[a]
  BY <1>1 DEF ConsumeCost, AddCost, IInv, Stored
<1>5. \A a \in Apps : Owed(tk, a) = IF a = tk.app THEN c ELSE 0
  BY <1>1 DEF Owed, Part, UnchargedPcs
<1>6. \A a \in Apps : currentCost[a] \in Int BY DEF IInv, Stored
<1> HIDE DEF c
<1>7. \A a \in Apps : currentCost'[a] + 0 = currentCost[a] + Owed(tk, a)
  BY <1>2, <1>4, <1>5, <1>6
<1>8. CASE tk.pc = "consume"
  <2>1. tk.todo = {} /\ Return(p) BY <1>8, SteadyNow DEF ConsumeCost, At, Ahead, LoopPcs
  <2>2. PICK u \in Task : Become(p, u) /\ u.pc \in CarefreePcs /\ u.todo = {} BY <2>1, Returned
  <2>3. Dues(u) /\ \A a : Owed(u, a) = 0 BY <2>2, CarefreeDues
  <2>4. u.pc \notin {"consume", "downgradeConsume"} BY <2>2 DEF CarefreePcs
  <2> QED BY <1>3, <1>7, <2>2, <2>3, <2>4, CounterLedger
<1>9. CASE tk.pc = "downgradeConsume"
  <2> DEFINE t == [tk EXCEPT !.pc = "downgradeNext"]
  <2>1. Become(p, t) BY <1>9 DEF ConsumeCost, At, Goto
  <2>2. t.pc = "downgradeNext" /\ t.todo = tk.todo BY <1>1 DEF Task
  <2> HIDE DEF t
  <2>3. Dues(t)
    BY <1>9, <2>2, LedgerNow DEF Dues, Chargeable, Bought, Priced, ConsumingPcs, DowngradeLoopPcs
  <2>4. \A a : Owed(t, a) = 0 BY <2>2 DEF Owed, UnchargedPcs, OverchargedPcs
  <2>5. t.pc \notin {"consume", "downgradeConsume"} BY <2>2
  <2> QED BY <1>3, <1>7, <2>1, <2>3, <2>4, <2>5, CounterLedger
<1> QED BY <1>1, <1>8, <1>9

LEMMA ReleaseCostLedger ==
  ASSUME IInv, IInv', SoleInv, LedgerInv, Sequential, NEW p \in Tasks, ReleaseCost(p)
  PROVE  LedgerInv'
<1> DEFINE tk == task[p]
           c == tk.seen.cost
<1>1. tk \in Task /\ tk.pc \in {"release", "migrateRelease"} /\ tk.seen \in Row /\ tk.row \in RowIds
  BY LedgerNow DEF ReleaseCost, Loaded, SeenPcs, RowPcs
<1>2. c \in Int BY <1>1 DEF Row
<1>3. UNCHANGED <<rows, remote>> BY DEF ReleaseCost
<1>4. \A a \in Apps :
        currentCost'[a] = IF a = tk.seen.app THEN currentCost[a] + (-c) ELSE currentCost[a]
  BY <1>1 DEF ReleaseCost, AddCost, IInv, Stored
<1>5. \A a \in Apps : currentCost[a] \in Int BY DEF IInv, Stored
<1> DEFINE l == IF At(p, "release") THEN "removeRow" ELSE "migrateNext"
           t == [tk EXCEPT !.pc = l]
<1>6. Become(p, t) BY DEF ReleaseCost, Goto
<1>7. /\ t.pc = l /\ t.row = tk.row /\ t.todo = tk.todo
      /\ tk.pc = "release" => l = "removeRow"
      /\ tk.pc = "migrateRelease" => l = "migrateNext"
  BY <1>1 DEF Task, At
<1> HIDE DEF t, l, c
<1>8. Dues(t)
  BY <1>1, <1>7, LedgerNow DEF Dues, Chargeable, Bought, Priced, ConsumingPcs, DowngradeLoopPcs
<1>9. ASSUME NEW a \in Apps PROVE currentCost'[a] + Owed(t, a) = currentCost[a] + Owed(tk, a)
  <2>1. CASE tk.pc = "release"
    <3>1. rows[tk.row] # Null /\ rows[tk.row].app = tk.seen.app /\ rows[tk.row].cost = c
      BY <2>1, LedgerNow DEF Priced, c
    <3>2. Owed(tk, a) = 0 BY <2>1 DEF Owed, UnchargedPcs, OverchargedPcs
    <3>3. Owed(t, a) = IF a = tk.seen.app THEN c ELSE 0
      BY <1>7, <2>1, <3>1 DEF Owed, Part, UnchargedPcs
    <3> QED BY <1>2, <1>4, <1>5, <3>2, <3>3
  <2>2. CASE tk.pc = "migrateRelease"
    <3>1. Owed(tk, a) = IF a = tk.seen.app THEN -c ELSE 0
      BY <2>2 DEF Owed, UnchargedPcs, OverchargedPcs, c
    <3>2. Owed(t, a) = 0 BY <1>7, <2>2 DEF Owed, UnchargedPcs, OverchargedPcs
    <3> QED BY <1>2, <1>4, <1>5, <3>1, <3>2
  <2> QED BY <1>1, <2>1, <2>2
<1>10. t.pc \notin {"consume", "downgradeConsume"} BY <1>1, <1>7
<1> QED BY <1>3, <1>6, <1>8, <1>9, <1>10, CounterLedger

LEMMA SuspendedLedger ==
  ASSUME IInv, IInv', SoleInv, LedgerInv, Sequential, NEW p \in Tasks,
         Deactivate(p) \/ SuspendNotifications(p)
  PROVE  LedgerInv'
<1> DEFINE tk == task[p]
           r == tk.row
<1>1. tk \in Task /\ tk.pc \in {"deactivate", "suspend"} /\ r \in RowIds
  BY LedgerNow DEF Deactivate, SuspendNotifications, At, Loaded, RowPcs
<1>2. SameCosts /\ UNCHANGED currentCost BY DEF Deactivate, SuspendNotifications, SameCosts
<1>3. SamePrices
  <2>1. CASE UNCHANGED rows BY <2>1 DEF SamePrices
  <2>2. CASE rows[r] # Null /\ rows' = [rows EXCEPT ![r] = [rows[r] EXCEPT !.status = "deactivated"]]
    <3> DEFINE new == [rows[r] EXCEPT !.status = "deactivated"]
    <3>1. rows[r] \in Row BY <1>1, <2>2 DEF IInv, Stored
    <3>2. new \in Row /\ new.app = rows[r].app /\ new.cost = rows[r].cost
      BY <3>1 DEF Row, Statuses
    <3>3. rows' = [rows EXCEPT ![r] = new] BY <2>2
    <3> HIDE DEF new
    <3> QED BY <2>2, <3>2, <3>3, NullFacts DEF SamePrices, IInv, Stored
  <2> QED BY <2>1, <2>2 DEF Deactivate, SuspendNotifications, UpdateRow
<1>4. ASSUME NEW l \in {"suspend", "downgradeNext"}, Goto(p, l) PROVE LedgerInv'
  <2> DEFINE t == [tk EXCEPT !.pc = l]
  <2>1. Become(p, t) BY <1>4 DEF Goto
  <2>2. t.pc = l /\ t.todo = tk.todo BY <1>1 DEF Task
  <2> HIDE DEF t
  <2>3. Dues(t)
    BY <1>1, <2>2, LedgerNow DEF Dues, Chargeable, Bought, Priced, ConsumingPcs, DowngradeLoopPcs
  <2>4. \A a : Owed(t, a) = 0 /\ Owed(tk, a) = 0
    BY <1>1, <2>2 DEF Owed, UnchargedPcs, OverchargedPcs
  <2>5. t.pc \notin {"consume", "downgradeConsume"} BY <2>2
  <2> QED BY <1>2, <1>3, <2>1, <2>3, <2>4, <2>5, QuietLedger
<1> QED BY <1>4 DEF Deactivate, SuspendNotifications

LEMMA DowngradeNextLedger ==
  ASSUME IInv, IInv', SoleInv, LedgerInv, Sequential, NEW p \in Tasks, DowngradeNext(p)
  PROVE  LedgerInv'
<1> DEFINE tk == task[p]
<1>1. tk \in Task /\ tk.pc = "downgradeNext" /\ Priced(tk)
  BY LedgerNow DEF DowngradeNext, At
<1>2. SamePrices /\ SameCosts /\ UNCHANGED currentCost BY PricesStay DEF DowngradeNext, shared
<1>3. \A a : Owed(tk, a) = 0 BY <1>1 DEF Owed, UnchargedPcs, OverchargedPcs
<1>4. CASE tk.todo = {} /\ Return(p)
  BY <1>1, <1>2, <1>4, ReturnLedger DEF UnchargedPcs, OverchargedPcs
<1>5. ASSUME NEW e \in tk.todo, NEW STATE t, Become(p, t), t.row = e.id, t.todo = tk.todo \ {e},
             t.pc \in {"downgradeNext", "downgradeRegister", "dropRemote"},
             t.pc = "downgradeRegister" => t.app \notin Internal
      PROVE  LedgerInv'
  <2>1. Dues(t)
    <3>1. Chargeable(t) /\ Bought(t) BY <1>5 DEF Chargeable, Bought, ConsumingPcs
    <3>2. e.row.app \in Internal /\ rows[e.id].app = e.row.app
      BY <1>1 DEF Priced, DowngradeLoopPcs
    <3>3. Priced(t) BY <1>1, <1>5, <3>2 DEF Priced, DowngradeLoopPcs
    <3> QED BY <3>1, <3>3 DEF Dues
  <2>2. \A a : Owed(t, a) = 0 BY <1>5 DEF Owed, UnchargedPcs, OverchargedPcs
  <2>3. t.pc \notin {"consume", "downgradeConsume"} BY <1>5
  <2> QED BY <1>2, <1>3, <1>5, <2>1, <2>2, <2>3, QuietLedger
<1>6. ASSUME NEW e \in tk.todo,
             LET next == [tk EXCEPT !.row = e.id, !.seen = e.row, !.todo = @ \ {e}]
             IN  \/ Become(p, next)
                 \/ \E a \in FindLeastLoaded :
                      a # Null /\ Become(p, [next EXCEPT !.pc = "downgradeRegister", !.app = a])
                 \/ Become(p, [next EXCEPT !.pc = "dropRemote"])
      PROVE  LedgerInv'
  <2> DEFINE next == [tk EXCEPT !.row = e.id, !.seen = e.row, !.todo = @ \ {e}]
  <2>1. next.pc = "downgradeNext" /\ next.row = e.id /\ next.todo = tk.todo \ {e}
          /\ DOMAIN next = DOMAIN tk
    BY <1>1 DEF Task
  <2>2. DOMAIN next = DOMAIN Idle BY <1>1, <2>1 DEF Task, Idle
  <2> HIDE DEF next
  <2>3. CASE Become(p, next) BY <1>5, <2>1, <2>3
  <2>4. ASSUME NEW a \in FindLeastLoaded, a # Null,
               Become(p, [next EXCEPT !.pc = "downgradeRegister", !.app = a])
        PROVE  LedgerInv'
    <3> DEFINE t == [next EXCEPT !.pc = "downgradeRegister", !.app = a]
    <3>1. t.pc = "downgradeRegister" /\ t.row = e.id /\ t.todo = tk.todo \ {e} /\ t.app = a
      BY <2>1, <2>2 DEF Idle
    <3>2. a \notin Internal BY <2>4, LeastLoadedCharges
    <3> HIDE DEF t
    <3> QED BY <1>5, <2>4, <3>1, <3>2 DEF t
  <2>5. CASE Become(p, [next EXCEPT !.pc = "dropRemote"])
    <3> DEFINE t == [next EXCEPT !.pc = "dropRemote"]
    <3>1. t.pc = "dropRemote" /\ t.row = e.id /\ t.todo = tk.todo \ {e}
      BY <2>1, <2>2 DEF Idle
    <3> HIDE DEF t
    <3> QED BY <1>5, <2>5, <3>1 DEF t
  <2> QED BY <1>6, <2>3, <2>4, <2>5 DEF next
<1> QED BY <1>4, <1>6 DEF DowngradeNext

\* registerEvent: Twitch's new subscription costs nothing yet.
LEMMA CreatedLedger ==
  ASSUME IInv, IInv', LedgerInv, Sequential, UNCHANGED <<rows, currentCost>>, NEW p \in Tasks,
         NEW STATE r, NEW STATE a, NEW STATE c, CreateRemote(r, a, c),
         NEW STATE t, Become(p, t), Dues(t), t.pc \notin {"consume", "downgradeConsume"},
         \A b \in Apps : Owed(t, b) = Owed(task[p], b)
  PROVE  LedgerInv'
<1>1. remote[nextSub] = Null /\ \A s \in SubIds \ {nextSub} : remote'[s] = remote[s]
  BY DEF CreateRemote, IInv, Stored
<1>2. SameCosts BY <1>1 DEF SameCosts
<1>3. SamePrices BY DEF SamePrices
<1> QED BY <1>2, <1>3, QuietLedger

LEMMA RegisterLedger ==
  ASSUME IInv, IInv', SoleInv, LedgerInv, Sequential, Finishes, NEW p \in Tasks,
         RegisterWithApp(p) \/ RegisterWithUser(p) \/ DowngradeRegister(p)
  PROVE  LedgerInv'
<1> DEFINE tk == task[p]
<1>1. tk \in Task /\ tk.pc \in {"twitchApp", "twitchUser", "downgradeRegister"}
  BY LedgerNow DEF RegisterWithApp, RegisterWithUser, DowngradeRegister, At
<1>2. UNCHANGED <<rows, currentCost>>
  BY DEF RegisterWithApp, RegisterWithUser, DowngradeRegister
<1>3. ASSUME NEW l \in {"recordApp", "recordUser", "downgradeDelete"}, NEW c \in Nat,
             tk.pc = "twitchApp" <=> l = "recordApp",
             tk.pc = "twitchUser" <=> l = "recordUser",
             CreateRemote(tk.row, tk.app, c), Become(p, [tk EXCEPT !.pc = l, !.sub = nextSub])
      PROVE  LedgerInv'
  <2> DEFINE t == [tk EXCEPT !.pc = l, !.sub = nextSub]
  <2>1. t.pc = l /\ t.row = tk.row /\ t.app = tk.app /\ t.todo = tk.todo BY <1>1 DEF Task
  <2>2. Become(p, t) BY <1>3
  <2> HIDE DEF t
  <2>3. Dues(t)
    BY <1>1, <1>3, <2>1, LedgerNow DEF Dues, Chargeable, Bought, Priced, ConsumingPcs, DowngradeLoopPcs
  <2>4. \A a : Owed(t, a) = Owed(tk, a)
    BY <1>1, <1>3, <2>1 DEF Owed, UnchargedPcs, OverchargedPcs
  <2>5. t.pc \notin {"consume", "downgradeConsume"} BY <1>3, <2>1
  <2> QED BY <1>2, <1>3, <2>2, <2>3, <2>4, <2>5, CreatedLedger
<1>4. Costs \subseteq Nat /\ 0 \in Nat BY ConstantsOK
<1>5. CASE RegisterWithApp(p)
  BY <1>3, <1>4, <1>5 DEF RegisterWithApp, At, Finishes
<1>6. CASE DowngradeRegister(p)
  BY <1>3, <1>4, <1>6 DEF DowngradeRegister, At, Finishes
<1>7. CASE RegisterWithUser(p)
  <2>1. CASE Goto(p, "undo") /\ UNCHANGED remote
    <3> DEFINE t == [tk EXCEPT !.pc = "undo"]
    <3>1. t.pc = "undo" /\ t.app = tk.app /\ t.todo = tk.todo BY <1>1 DEF Task
    <3>2. Become(p, t) BY <2>1 DEF Goto
    <3> HIDE DEF t
    <3>3. tk.pc = "twitchUser" BY <1>7 DEF RegisterWithUser, At
    <3>4. Dues(t)
      BY <3>1, <3>3, LedgerNow DEF Dues, Chargeable, Bought, Priced, ConsumingPcs, DowngradeLoopPcs
    <3>5. \A a : Owed(t, a) = 0 /\ Owed(tk, a) = 0
      BY <3>1, <3>3 DEF Owed, UnchargedPcs, OverchargedPcs
    <3>6. t.pc \notin {"consume", "downgradeConsume"} BY <3>1
    <3>7. SamePrices /\ SameCosts BY <1>2, <2>1, PricesStay
    <3> QED BY <1>2, <3>2, <3>4, <3>5, <3>6, <3>7, QuietLedger
  <2> QED BY <1>3, <1>4, <1>7, <2>1 DEF RegisterWithUser, At
<1> QED BY <1>5, <1>6, <1>7

LEMMA MigrateNextLedger ==
  ASSUME IInv, IInv', SoleInv, LedgerInv, Sequential, NEW p \in Tasks, MigrateNext(p)
  PROVE  LedgerInv'
<1> DEFINE tk == task[p]
<1>1. tk \in Task /\ tk.pc = "migrateNext" /\ Priced(tk) /\ Ahead(tk)
  BY LedgerNow, SteadyNow DEF MigrateNext, At
<1>2. UNCHANGED <<rows, currentCost>> BY DEF MigrateNext
<1>3. \A a : Owed(tk, a) = 0 BY <1>1 DEF Owed, UnchargedPcs, OverchargedPcs
<1>4. CASE Done(p) /\ UNCHANGED remote
  BY <1>1, <1>2, <1>4, PricesStay, DoneLedger DEF UnchargedPcs, OverchargedPcs
<1>5. ASSUME NEW e \in tk.todo, NEW a \in Internal, CreateRemote(e.id, a, 0),
             Become(p, [tk EXCEPT !.pc = "migrateRecord", !.row = e.id, !.seen = e.row,
                                  !.sub = nextSub, !.app = a, !.todo = @ \ {e}])
      PROVE  LedgerInv'
  <2> DEFINE t == [tk EXCEPT !.pc = "migrateRecord", !.row = e.id, !.seen = e.row,
                             !.sub = nextSub, !.app = a, !.todo = @ \ {e}]
  <2>1. /\ t.pc = "migrateRecord" /\ t.row = e.id /\ t.seen = e.row /\ t.app = a
        /\ t.todo = tk.todo \ {e}
    BY <1>1 DEF Task
  <2>2. Become(p, t) BY <1>5
  <2> HIDE DEF t
  <2>3. rows[e.id] # Null /\ rows[e.id].app = e.row.app /\ rows[e.id].cost = e.row.cost
    BY <1>1 DEF Priced, Ahead
  <2>4. Priced(t) BY <1>1, <2>1, <2>3 DEF Priced, DowngradeLoopPcs
  <2>5. Dues(t) BY <2>1, <2>4 DEF Dues, Chargeable, Bought, ConsumingPcs
  <2>6. \A b : Owed(t, b) = 0 BY <2>1 DEF Owed, UnchargedPcs, OverchargedPcs
  <2>7. t.pc \notin {"consume", "downgradeConsume"} BY <2>1
  <2> QED BY <1>2, <1>3, <1>5, <2>2, <2>5, <2>6, <2>7, CreatedLedger
<1>6. ASSUME NEW e \in tk.todo, UNCHANGED remote, Become(p, [tk EXCEPT !.todo = @ \ {e}])
      PROVE  LedgerInv'
  <2> DEFINE t == [tk EXCEPT !.todo = @ \ {e}]
  <2>1. t.pc = "migrateNext" /\ t.todo = tk.todo \ {e} BY <1>1 DEF Task
  <2>2. Become(p, t) BY <1>6
  <2> HIDE DEF t
  <2>3. Dues(t)
    BY <1>1, <2>1 DEF Dues, Chargeable, Bought, Priced, ConsumingPcs, DowngradeLoopPcs
  <2>4. \A b : Owed(t, b) = 0 BY <2>1 DEF Owed, UnchargedPcs, OverchargedPcs
  <2>5. t.pc \notin {"consume", "downgradeConsume"} BY <2>1
  <2>6. SamePrices /\ SameCosts BY <1>2, <1>6, PricesStay
  <2> QED BY <1>2, <1>3, <2>2, <2>3, <2>4, <2>5, <2>6, QuietLedger
<1> QED BY <1>4, <1>5, <1>6 DEF MigrateNext

LEMMA StateCosts ==
  ASSUME IInv, NEW s \in SubIds, NEW x \in RemoteStates, remote' = [remote EXCEPT ![s].state = x],
         remote[s] \in Remote
  PROVE  SameCosts
<1>1. \A y \in SubIds \ {s} : remote'[y] = remote[y] BY DEF IInv, Stored
<1>2. remote'[s] = [remote[s] EXCEPT !.state = x] BY DEF IInv, Stored
<1>3. remote'[s].cost = remote[s].cost BY <1>2 DEF Remote
<1> QED BY <1>1, <1>3 DEF SameCosts

LEMMA DeleteRemoteLedger ==
  ASSUME IInv, IInv', SoleInv, LedgerInv, Sequential, NEW p \in Tasks, DeleteRemote(p)
  PROVE  LedgerInv'
<1> DEFINE tk == task[p]
           orphan == At(p, "deleteOrphan")
           s == IF orphan THEN tk.sub ELSE tk.seen.sub
<1>1. /\ tk \in Task /\ Loaded(tk) /\ Holds(tk) /\ Ahead(tk)
      /\ tk.pc \in {"deleteOrphan", "deleteRemote", "migrateDelete", "downgradeDelete", "dropRemote"}
      /\ orphan <=> tk.pc = "deleteOrphan"
  BY SteadyNow DEF DeleteRemote, AfterDelete, IInv, InFlight, At
<1>2. UNCHANGED <<rows, currentCost>> BY DEF DeleteRemote
<1>3. s \in SubIds \cup {0} /\ (s # 0 => remote[s] \in Remote)
  <2>1. CASE orphan BY <1>1, <2>1 DEF Loaded, SubPcs
  <2>2. CASE ~orphan
    <3>1. tk.seen \in Row BY <1>1, <2>2 DEF Loaded, SeenPcs
    <3> QED BY <1>1, <2>2, <3>1, NullFacts DEF Holds, Row, Known
  <2> QED BY <2>1, <2>2
<1>4. SameCosts
  <2>1. CASE UNCHANGED remote BY <2>1 DEF SameCosts
  <2>2. CASE s # 0 /\ remote' = [remote EXCEPT ![s].state = "deleted"]
    <3>1. PICK x \in SubIds : x = s BY <1>3, <2>2
    <3>2. remote' = [remote EXCEPT ![x].state = "deleted"] /\ remote[x] \in Remote
      BY <1>3, <2>2, <3>1
    <3> QED BY <3>2, StateCosts DEF RemoteStates
  <2> QED BY <2>1, <2>2 DEF DeleteRemote
<1>5. SamePrices BY <1>2 DEF SamePrices
<1>6. CASE orphan
  <2>1. Done(p) BY <1>6 DEF DeleteRemote
  <2> QED BY <1>1, <1>2, <1>4, <1>5, <1>6, <2>1, DoneLedger DEF UnchargedPcs, OverchargedPcs
<1>7. CASE ~orphan
  <2> DEFINE l == AfterDelete[tk.pc]
             t == [tk EXCEPT !.pc = l]
  <2>1. Become(p, t) BY <1>7 DEF DeleteRemote, Goto
  <2>2. /\ tk.pc = "deleteRemote" => l = "release"
        /\ tk.pc = "migrateDelete" => l = "migrateRelease"
        /\ tk.pc = "downgradeDelete" => l = "downgradeRecord"
        /\ tk.pc = "dropRemote" => l = "deactivate"
    BY DEF AfterDelete
  <2>3. t.pc = l /\ t.row = tk.row /\ t.seen = tk.seen /\ t.app = tk.app /\ t.todo = tk.todo
    BY <1>1 DEF Task
  <2> HIDE DEF t, l
  <2>4. Dues(t)
    BY <1>1, <1>7, <2>2, <2>3, LedgerNow
    DEF Dues, Chargeable, Bought, Priced, ConsumingPcs, DowngradeLoopPcs
  <2>5. \A a : Owed(t, a) = Owed(tk, a)
    BY <1>1, <1>7, <2>2, <2>3 DEF Owed, UnchargedPcs, OverchargedPcs
  <2>6. t.pc \notin {"consume", "downgradeConsume"} BY <1>1, <1>7, <2>2, <2>3
  <2> QED BY <1>2, <1>4, <1>5, <2>1, <2>4, <2>5, <2>6, QuietLedger
<1> QED BY <1>6, <1>7

LEMMA InsertRowLedger ==
  ASSUME IInv, IInv', SoleInv, LedgerInv, Sequential, NEW p \in Tasks, InsertRow(p)
  PROVE  LedgerInv'
<1> DEFINE tk == task[p]
           user == At(p, "insertUser")
           new == [slot |-> tk.slot, app |-> tk.app, sub |-> 0,
                   cost |-> IF user THEN 0 ELSE DefaultCost,
                   status |-> "pending", aged |-> FALSE]
           t == [tk EXCEPT !.row = nextRow, !.pc = IF user THEN "twitchUser" ELSE "twitchApp"]
<1>1. /\ tk \in Task /\ tk.pc \in {"insertUser", "insertApp"} /\ tk.todo = {}
      /\ tk.slot \in Slots /\ tk.app \in Apps /\ Chargeable(tk)
      /\ user <=> tk.pc = "insertUser"
  BY SteadyNow, LedgerNow DEF InsertRow, Ahead, Loaded, SlotPcs, AppPcs, LoopPcs, At
<1>2. UNCHANGED <<remote, currentCost>> BY DEF InsertRow
<1>3. \A a : Owed(tk, a) = 0 BY <1>1 DEF Owed, UnchargedPcs, OverchargedPcs
<1>4. CASE Done(p) /\ UNCHANGED rows
  BY <1>1, <1>2, <1>4, PricesStay, DoneLedger DEF UnchargedPcs, OverchargedPcs
<1>5. ASSUME nextRow \in RowIds, rows' = [rows EXCEPT ![nextRow] = new], Become(p, t)
      PROVE  LedgerInv'
  <2>1. new \in Row BY <1>1 DEF Row, DefaultCost, Statuses
  <2>2. new # Null /\ new.app = tk.app /\ (user => new.cost = 0) BY <2>1, NullFacts
  <2> HIDE DEF new
  <2>3. rows'[nextRow] = new /\ \A x \in RowIds \ {nextRow} : rows'[x] = rows[x]
    BY <1>5 DEF IInv, Stored
  <2>4. rows[nextRow] = Null BY <1>5 DEF SoleInv, Unused, RowIds
  <2>5. /\ t.row = nextRow /\ t.app = tk.app /\ t.todo = {}
        /\ t.pc = IF user THEN "twitchUser" ELSE "twitchApp"
    BY <1>1 DEF Task
  <2> HIDE DEF t, user
  <2>6. task'[p] = t BY <1>5 DEF Become, IInv, InFlight
  <2>7. PICK u \in Task : u = t BY <2>6 DEF IInv, InFlight
  <2>8. PICK r \in RowIds : r = nextRow BY <1>5
  <2>9. /\ user => tk.app \in Internal
        /\ ~user => tk.app \notin Internal
    BY <1>1 DEF Chargeable, ConsumingPcs
  <2>10. Dues(u)'
    BY <2>5, <2>7, <2>9 DEF Dues, Chargeable, Bought, Priced, ConsumingPcs, DowngradeLoopPcs
  <2>11. rows'[r].app \in Internal => rows'[r].cost = 0 BY <2>2, <2>3, <2>8, <2>9
  <2>12. ASSUME NEW a \in Apps
         PROVE  Owed(u, a)' = Owed(tk, a) - Part(rows, r, a) + Part(rows', r, a)
    <3>1. Part(rows, r, a) = 0 BY <2>4, <2>8 DEF Part
    <3>2. Part(rows', r, a) \in Int BY <2>1, <2>3, <2>8 DEF Part, Row
    <3>3. CASE user
      <4>1. Owed(u, a)' = 0 BY <2>5, <2>7, <3>3 DEF Owed, UnchargedPcs, OverchargedPcs
      <4>2. Part(rows', r, a) = 0 BY <2>2, <2>3, <2>8, <3>3 DEF Part
      <4> QED BY <1>3, <3>1, <4>1, <4>2
    <3>4. CASE ~user
      <4>1. Owed(u, a)' = Part(rows', r, a) BY <2>5, <2>7, <2>8, <3>4 DEF Owed, UnchargedPcs
      <4> QED BY <1>3, <3>1, <3>2, <4>1
    <3> QED BY <3>3, <3>4
  <2>13. \A x \in RowIds \ {r} : rows'[x] = rows[x] BY <2>3, <2>8
  <2> QED BY <1>2, <2>6, <2>7, <2>10, <2>11, <2>12, <2>13, RowLedger
<1> QED BY <1>4, <1>5 DEF InsertRow

\* A row goes that costs nothing, or whose cost was released.
LEMMA RemovedLedger ==
  ASSUME IInv, IInv', LedgerInv, Sequential, UNCHANGED currentCost, NEW p \in Tasks,
         NEW r \in RowIds, RemoveRow(r), NEW STATE t, Become(p, t), t.pc \in CarefreePcs, t.todo = {},
         \A a \in Apps : Owed(task[p], a) = Part(rows, r, a)
  PROVE  LedgerInv'
<1>1. task'[p] = t BY DEF Become, IInv, InFlight
<1>2. PICK u \in Task : u = t BY <1>1 DEF IInv, InFlight
<1>3. rows'[r] = Null /\ \A x \in RowIds \ {r} : rows'[x] = rows[x]
  BY DEF RemoveRow, IInv, Stored
<1>4. u.pc \notin ConsumingPcs \cup UnchargedPcs \cup OverchargedPcs \cup DowngradeLoopPcs
  BY <1>2 DEF CarefreePcs, ConsumingPcs, UnchargedPcs, OverchargedPcs, DowngradeLoopPcs
<1>5. Dues(u)' BY <1>2, <1>4 DEF Dues, Chargeable, Bought, Priced, CarefreePcs
<1>6. ASSUME NEW a \in Apps
      PROVE  Owed(u, a)' = Owed(task[p], a) - Part(rows, r, a) + Part(rows', r, a)
  <2>1. Owed(u, a)' = 0 BY <1>4 DEF Owed
  <2>2. Part(rows', r, a) = 0 BY <1>3 DEF Part
  <2>3. Part(rows, r, a) \in Int BY TotalSplits DEF IInv, Stored
  <2> QED BY <2>1, <2>2, <2>3
<1> QED BY <1>1, <1>2, <1>3, <1>5, <1>6, RowLedger

LEMMA UndoRowLedger ==
  ASSUME IInv, IInv', SoleInv, LedgerInv, Sequential, NEW p \in Tasks, UndoRow(p)
  PROVE  LedgerInv'
<1> DEFINE t == [task[p] EXCEPT !.pc = "pickApp"]
           r == task[p].row
<1>1. /\ task[p] \in Task /\ task[p].pc = "undo" /\ task[p].todo = {} /\ r \in RowIds
      /\ rows[r] # Null /\ rows[r].app = task[p].app /\ task[p].app \in Internal
  BY SteadyNow, LedgerNow DEF UndoRow, At, Ahead, Loaded, RowPcs, LoopPcs, Inserted, InsertedPcs,
     Chargeable
<1>2. t.pc = "pickApp" /\ t.todo = {} BY <1>1 DEF Task
<1>3. Become(p, t) /\ RemoveRow(r) /\ UNCHANGED currentCost BY DEF UndoRow, Goto
<1> HIDE DEF t
<1>4. rows[r].cost = 0 BY <1>1 DEF LedgerInv, FreeOnInternal, Existing
<1>5. \A a \in Apps : Owed(task[p], a) = Part(rows, r, a)
  BY <1>1, <1>4 DEF Owed, Part, UnchargedPcs, OverchargedPcs
<1>6. t.pc \in CarefreePcs BY <1>2 DEF CarefreePcs
<1> QED BY <1>1, <1>2, <1>3, <1>5, <1>6, RemovedLedger

LEMMA DeleteLocalRowLedger ==
  ASSUME IInv, IInv', SoleInv, LedgerInv, Sequential, NEW p \in Tasks, DeleteLocalRow(p)
  PROVE  LedgerInv'
<1> DEFINE r == task[p].row
<1>1. task[p].pc = "removeRow" /\ r \in RowIds
  BY LedgerNow DEF DeleteLocalRow, At, Loaded, RowPcs
<1>2. Idle.pc \in CarefreePcs /\ Idle.todo = {} BY DEF Idle, CarefreePcs
<1>3. Become(p, Idle) /\ RemoveRow(r) /\ UNCHANGED currentCost BY DEF DeleteLocalRow, Done
<1>4. \A a \in Apps : Owed(task[p], a) = Part(rows, r, a) BY <1>1 DEF Owed, UnchargedPcs
<1> QED BY <1>1, <1>2, <1>3, <1>4, RemovedLedger

LEMMA MigrateRecordLedger ==
  ASSUME IInv, IInv', SoleInv, LedgerInv, Sequential, NEW p \in Tasks, MigrateRecord(p)
  PROVE  LedgerInv'
<1> DEFINE tk == task[p]
           r == tk.row
           new == [rows[r] EXCEPT !.sub = tk.sub, !.app = tk.app, !.cost = 0,
                                  !.status = "pending"]
           t == [tk EXCEPT !.pc = "migrateDelete"]
<1>1. /\ tk \in Task /\ tk.pc = "migrateRecord" /\ r \in RowIds /\ tk.sub \in SubIds
      /\ tk.app \in Apps /\ rows[r] # Null
      /\ rows[r].app = tk.seen.app /\ rows[r].cost = tk.seen.cost
      /\ Ahead(tk) /\ Priced(tk) /\ \A e \in tk.todo : e.id # r
  BY SteadyNow, LedgerNow DEF MigrateRecord, At, Loaded, RowPcs, SubPcs, AppPcs, Ahead, MovingPcs,
     Priced
<1>2. rows[r] \in Row BY <1>1 DEF IInv, Stored
<1>3. new \in Row /\ new.cost = 0 BY <1>1, <1>2 DEF Row, Statuses
<1>4. UpdateRow(r, new) /\ UNCHANGED currentCost /\ Become(p, t) BY DEF MigrateRecord, Goto
<1>5. t.pc = "migrateDelete" /\ t.seen = tk.seen /\ t.todo = tk.todo BY <1>1 DEF Task
<1> HIDE DEF new, t
<1>6. rows'[r] = new /\ \A x \in RowIds \ {r} : rows'[x] = rows[x]
  BY <1>1, <1>4 DEF UpdateRow, IInv, Stored
<1>7. task'[p] = t BY <1>4 DEF Become, IInv, InFlight
<1>8. PICK u \in Task : u = t BY <1>7 DEF IInv, InFlight
<1>9. Dues(u)'
  <2>1. \A e \in tk.todo : e.id \in RowIds \ {r} BY <1>1 DEF Task, Entity
  <2> QED BY <1>1, <1>5, <1>6, <1>8, <2>1
      DEF Dues, Chargeable, Bought, Priced, ConsumingPcs, DowngradeLoopPcs
<1>10. ASSUME NEW a \in Apps
       PROVE  Owed(u, a)' = Owed(tk, a) - Part(rows, r, a) + Part(rows', r, a)
  <2>1. Owed(tk, a) = 0 BY <1>1 DEF Owed, UnchargedPcs, OverchargedPcs
  <2>2. Part(rows', r, a) = 0 BY <1>3, <1>6 DEF Part
  <2>3. Owed(u, a)' = IF rows[r].app = a THEN -rows[r].cost ELSE 0
    BY <1>1, <1>5, <1>8 DEF Owed, UnchargedPcs, OverchargedPcs
  <2>4. Part(rows, r, a) = IF rows[r].app = a THEN rows[r].cost ELSE 0 BY <1>1 DEF Part
  <2>5. rows[r].cost \in Int BY <1>2 DEF Row
  <2> QED BY <2>1, <2>2, <2>3, <2>4, <2>5
<1>11. rows'[r].cost = 0 BY <1>3, <1>6
<1> QED BY <1>1, <1>4, <1>6, <1>7, <1>8, <1>9, <1>10, <1>11, RowLedger

LEMMA DowngradeRecordLedger ==
  ASSUME IInv, IInv', SoleInv, LedgerInv, Sequential, NEW p \in Tasks, DowngradeRecord(p)
  PROVE  LedgerInv'
<1> DEFINE tk == task[p]
           r == tk.row
           c == remote[tk.sub].cost
           new == [rows[r] EXCEPT !.sub = tk.sub, !.app = tk.app, !.cost = c, !.status = "pending"]
           t == [tk EXCEPT !.pc = "downgradeConsume"]
<1>1. /\ tk \in Task /\ tk.pc = "downgradeRecord" /\ r \in RowIds /\ tk.sub \in SubIds
      /\ tk.app \in Apps /\ remote[tk.sub] \in Remote /\ rows[r] # Null
      /\ rows[r].app \in Internal /\ tk.app \notin Internal
      /\ Ahead(tk) /\ Priced(tk) /\ \A e \in tk.todo : e.id # r
  BY SteadyNow, LedgerNow DEF DowngradeRecord, At, Loaded, RowPcs, SubPcs, AppPcs, Outdated,
     OutdatedPcs, Ahead, MovingPcs, Priced, Chargeable, ConsumingPcs
<1>2. rows[r] \in Row /\ c \in Nat BY <1>1 DEF IInv, Stored, Remote
<1> HIDE DEF c
<1>3. new \in Row /\ new.cost = c /\ new.app = tk.app BY <1>1, <1>2 DEF Row, Statuses
<1>4. UpdateRow(r, new) /\ UNCHANGED <<remote, currentCost>> /\ Become(p, t)
  BY DEF DowngradeRecord, Goto, c
<1>5. /\ t.pc = "downgradeConsume" /\ t.row = r /\ t.app = tk.app /\ t.sub = tk.sub
      /\ t.todo = tk.todo
  BY <1>1 DEF Task
<1>6. new # Null BY <1>3, NullFacts
<1> HIDE DEF new, t
<1>7. rows'[r] = new /\ \A x \in RowIds \ {r} : rows'[x] = rows[x]
  BY <1>1, <1>4 DEF UpdateRow, IInv, Stored
<1>8. task'[p] = t BY <1>4 DEF Become, IInv, InFlight
<1>9. PICK u \in Task : u = t BY <1>8 DEF IInv, InFlight
<1>10. Dues(u)'
  <2>1. \A e \in tk.todo : e.id \in RowIds \ {r} BY <1>1 DEF Task, Entity
  <2>2. Chargeable(u)' BY <1>1, <1>5, <1>9 DEF Chargeable
  <2>3. Bought(u)' BY <1>3, <1>4, <1>5, <1>6, <1>7, <1>9 DEF Bought, c
  <2>4. Priced(u)' BY <1>1, <1>5, <1>7, <1>9, <2>1 DEF Priced, DowngradeLoopPcs
  <2> QED BY <2>2, <2>3, <2>4 DEF Dues
<1>11. ASSUME NEW a \in Apps
       PROVE  Owed(u, a)' = Owed(tk, a) - Part(rows, r, a) + Part(rows', r, a)
  <2>1. Owed(tk, a) = 0 BY <1>1 DEF Owed, UnchargedPcs, OverchargedPcs
  <2>2. rows[r].cost = 0 BY <1>1 DEF LedgerInv, FreeOnInternal, Existing
  <2>3. Part(rows, r, a) = 0 BY <2>2 DEF Part
  <2>4. Owed(u, a)' = Part(rows', r, a) BY <1>5, <1>9 DEF Owed, UnchargedPcs
  <2>5. Part(rows', r, a) \in Int BY <1>2, <1>3, <1>7 DEF Part
  <2> QED BY <2>1, <2>3, <2>4, <2>5
<1>12. rows'[r].app \notin Internal BY <1>1, <1>3, <1>7
<1> QED BY <1>1, <1>4, <1>7, <1>8, <1>9, <1>10, <1>11, <1>12, RowLedger

LEMMA RecordSubscriptionLedger ==
  ASSUME IInv, IInv', SoleInv, LedgerInv, Sequential, NEW p \in Tasks, RecordSubscription(p)
  PROVE  LedgerInv'
<1> DEFINE tk == task[p]
           r == tk.row
           c == remote[tk.sub].cost
           user == tk.pc = "recordUser"
           new == IF user THEN [rows[r] EXCEPT !.sub = tk.sub]
                  ELSE [rows[r] EXCEPT !.sub = tk.sub, !.cost = c]
           t == [tk EXCEPT !.pc = "consume"]
<1>1. /\ tk \in Task /\ tk.pc \in {"recordUser", "recordApp"} /\ tk.todo = {}
      /\ r \in RowIds /\ tk.sub \in SubIds /\ remote[tk.sub] \in Remote
      /\ rows[r] # Null /\ rows[r].app = tk.app /\ Chargeable(tk)
  BY SteadyNow, LedgerNow DEF RecordSubscription, Loaded, RowPcs, SubPcs, Inserted, InsertedPcs,
     Ahead, LoopPcs
<1>2. rows[r] \in Row /\ c \in Nat BY <1>1 DEF IInv, Stored, Remote
<1>3. /\ user => tk.app \in Internal
      /\ ~user => tk.app \notin Internal
  BY <1>1 DEF Chargeable, ConsumingPcs
<1>4. user => rows[r].cost = 0 BY <1>1, <1>3 DEF LedgerInv, FreeOnInternal, Existing
<1>5. UpdateRow(r, new) /\ UNCHANGED <<remote, currentCost>> BY DEF RecordSubscription
<1>6. \/ (user \/ c = 0) /\ Return(p)
      \/ ~user /\ Become(p, t)
  BY DEF RecordSubscription, Goto
<1> HIDE DEF c
<1>7. new \in Row /\ new.app = tk.app /\ new.cost = IF user THEN 0 ELSE c
  <2>1. CASE user BY <1>1, <1>2, <1>4, <2>1 DEF Row
  <2>2. CASE ~user BY <1>1, <1>2, <2>2 DEF Row
  <2> QED BY <2>1, <2>2
<1>8. new # Null BY <1>7, NullFacts
<1> HIDE DEF new
<1>9. rows'[r] = new /\ \A x \in RowIds \ {r} : rows'[x] = rows[x]
  BY <1>1, <1>5 DEF UpdateRow, IInv, Stored
<1>10. rows'[r].app \in Internal => rows'[r].cost = 0 BY <1>3, <1>7, <1>9
<1>11. ASSUME NEW a \in Apps PROVE
         /\ user => (Owed(tk, a) = 0 /\ Part(rows, r, a) = 0 /\ Part(rows', r, a) = 0)
         /\ ~user => Owed(tk, a) = Part(rows, r, a)
         /\ c = 0 => Part(rows', r, a) = 0
         /\ Part(rows, r, a) \in Int /\ Part(rows', r, a) \in Int
  <2>1. Part(rows, r, a) \in Int /\ Part(rows', r, a) \in Int
    BY <1>1, TotalSplits DEF IInv, Stored
  <2>2. user => Owed(tk, a) = 0 BY DEF Owed, UnchargedPcs, OverchargedPcs
  <2>3. ~user => Owed(tk, a) = Part(rows, r, a) BY <1>1 DEF Owed, UnchargedPcs
  <2>4. user => Part(rows, r, a) = 0 BY <1>4 DEF Part
  <2>5. (user \/ c = 0) => Part(rows', r, a) = 0 BY <1>7, <1>9 DEF Part
  <2> QED BY <2>1, <2>2, <2>3, <2>4, <2>5
<1>12. CASE (user \/ c = 0) /\ Return(p)
  <2>1. PICK u \in Task : Become(p, u) /\ u.pc \in CarefreePcs /\ u.todo = {}
    BY <1>1, <1>12, Returned
  <2>2. task'[p] = u BY <2>1 DEF Become, IInv, InFlight
  <2>3. u.pc \notin ConsumingPcs \cup UnchargedPcs \cup OverchargedPcs \cup DowngradeLoopPcs
    BY <2>1 DEF CarefreePcs, ConsumingPcs, UnchargedPcs, OverchargedPcs, DowngradeLoopPcs
  <2>4. Dues(u)' BY <2>1, <2>3 DEF Dues, Chargeable, Bought, Priced, CarefreePcs
  <2>5. \A a \in Apps : Owed(u, a)' = 0 BY <2>3 DEF Owed
  <2>6. \A a \in Apps : Owed(u, a)' = Owed(tk, a) - Part(rows, r, a) + Part(rows', r, a)
    BY <1>11, <1>12, <2>5
  <2> QED BY <1>1, <1>5, <1>9, <1>10, <2>2, <2>4, <2>6, RowLedger
<1>13. CASE ~user /\ Become(p, t)
  <2>1. task'[p] = t BY <1>13 DEF Become, IInv, InFlight
  <2>2. PICK u \in Task : u = t BY <2>1 DEF IInv, InFlight
  <2>3. t.pc = "consume" /\ t.row = r /\ t.app = tk.app /\ t.sub = tk.sub /\ t.todo = {}
    BY <1>1 DEF Task
  <2> HIDE DEF t
  <2>4. Dues(u)'
    <3>1. Chargeable(u)' BY <1>3, <1>13, <2>2, <2>3 DEF Chargeable
    <3>2. Bought(u)' BY <1>5, <1>7, <1>8, <1>9, <1>13, <2>2, <2>3 DEF Bought, c
    <3>3. Priced(u)' BY <2>2, <2>3 DEF Priced, DowngradeLoopPcs
    <3> QED BY <3>1, <3>2, <3>3 DEF Dues
  <2>5. \A a \in Apps : Owed(u, a)' = Part(rows', r, a) BY <2>2, <2>3 DEF Owed, UnchargedPcs
  <2>6. \A a \in Apps : Owed(u, a)' = Owed(tk, a) - Part(rows, r, a) + Part(rows', r, a)
    BY <1>11, <1>13, <2>5
  <2> QED BY <1>1, <1>5, <1>9, <1>10, <2>1, <2>2, <2>4, <2>6, RowLedger
<1> QED BY <1>6, <1>12, <1>13

LEMMA ProceedLedger ==
  ASSUME IInv, IInv', SoleInv, LedgerInv, Sequential, Finishes, NEW p \in Tasks, Proceed(p)
  PROVE  LedgerInv'
  BY PlainLedger, LoadedLedger, DeleteLocalLedger, ConsumeCostLedger, ReleaseCostLedger,
     SuspendedLedger, DowngradeNextLedger, RegisterLedger, MigrateNextLedger,
     DeleteRemoteLedger, InsertRowLedger, UndoRowLedger, DeleteLocalRowLedger,
     MigrateRecordLedger, DowngradeRecordLedger, RecordSubscriptionLedger
  DEF Proceed

LEMMA RequestLedger ==
  ASSUME IInv, IInv', LedgerInv, Sequential, NEW p \in Tasks, Request(p) \/ TokenCron(p)
  PROVE  LedgerInv'
<1>1. task[p].pc = "idle" /\ UNCHANGED <<rows, remote, currentCost>>
  BY DEF Request, TokenCron, Starts, At, CreateNotification, AdminRegister, DeleteNotification,
     AdminDelete, DeleteTwitchOnly, LinkTwitch, UnlinkTwitch, SetTwitchPersonalAuth,
     RefreshExpiringTokens, shared
<1>2. task[p].pc \notin UnchargedPcs \cup OverchargedPcs BY <1>1 DEF UnchargedPcs, OverchargedPcs
<1>3. PICK u \in Task : Become(p, u) /\ u.todo = {} /\ u.pc \in BeginPcs BY RequestBegins
<1>4. u.pc \in CarefreePcs BY <1>3 DEF BeginPcs, CarefreePcs
<1> QED BY <1>1, <1>2, <1>3, <1>4, PricesStay, CarefreeLedger

\* What goes on around the operation leaves prices and counters as they are.
LEMMA AroundLedger ==
  ASSUME IInv, IInv', LedgerInv, SamePrices, SameCosts, UNCHANGED <<currentCost, task>>
  PROVE  LedgerInv'
<1>1. ASSUME NEW p \in Tasks
      PROVE  Dues(task[p])' /\ \A a \in Apps : Owed(task[p], a)' = Owed(task[p], a)
  <2>1. PICK t \in Task : t = task[p] BY DEF IInv, InFlight
  <2>2. task'[p] = t BY <2>1
  <2>3. Dues(t) /\ Loaded(t) BY <2>1, LedgerNow DEF Dues
  <2>4. Loaded(t)' BY <2>2 DEF IInv, InFlight, Holds
  <2>5. t.pc \in {"consume", "downgradeConsume"} => remote[t.sub] # Null
    BY <2>3, NullFacts DEF Loaded, SubPcs
  <2>6. Dues(t)' BY <2>3, <2>4, <2>5, DuesKept
  <2>7. \A a \in Apps : Owed(t, a)' = Owed(t, a) BY <2>4, OwedKept
  <2> QED BY <2>1, <2>2, <2>6, <2>7
<1>2. \A a \in Apps : Total(rows', a) = Total(rows, a) BY TotalSame DEF SamePrices
<1>3. Balanced' BY <1>1, <1>2 DEF LedgerInv, Balanced
<1> QED BY <1>1, <1>3, FreeKept DEF LedgerInv

LEMMA SetStatusPrices ==
  ASSUME IInv, NEW R, NEW s, s \in Statuses, SetStatus(R, s) PROVE SamePrices
<1> SUFFICES ASSUME NEW r \in RowIds
             PROVE  /\ rows'[r] = Null <=> rows[r] = Null
                    /\ rows'[r].app = rows[r].app
                    /\ rows'[r].cost = rows[r].cost
  BY DEF SamePrices
<1>1. CASE r \in R /\ rows[r] # Null
  <2>1. rows[r] \in Row BY <1>1 DEF IInv, Stored
  <2>2. rows'[r] = [rows[r] EXCEPT !.status = s] BY <1>1 DEF SetStatus
  <2>3. rows'[r] \in Row /\ rows'[r].app = rows[r].app /\ rows'[r].cost = rows[r].cost
    BY <2>1, <2>2 DEF Row
  <2> QED BY <1>1, <2>3, NullFacts
<1>2. CASE ~(r \in R /\ rows[r] # Null) BY <1>2 DEF SetStatus
<1> QED BY <1>1, <1>2

\* syncStaleSubscriptions finds no row to revoke, so it releases no cost.
LEMMA SyncLedger == ASSUME IInv, IInv', LedgerInv, Sync PROVE LedgerInv'
<1>1. UNCHANGED <<remote, currentCost, task>>
  BY DEF Sync, SyncRead, SyncQuery, SyncEnable, SyncRevoke, IInv, CronOK
<1>2. SamePrices
  <2>1. CASE UNCHANGED rows BY <2>1 DEF SamePrices
  <2>2. CASE SetStatus({e.id : e \in cron.toEnable}, "verified")
    BY <2>2, SetStatusPrices DEF Statuses
  <2> QED BY <2>1, <2>2 DEF Sync, SyncRead, SyncQuery, SyncEnable, SyncRevoke, IInv, CronOK
<1>3. SameCosts BY <1>1 DEF SameCosts
<1> QED BY <1>1, <1>2, <1>3, AroundLedger

LEMMA QueueLedger == ASSUME IInv, IInv', LedgerInv, Queue PROVE LedgerInv'
<1>1. PICK m \in acks : ApplyStatus(m) BY DEF Queue
<1>2. m.status \in Statuses BY DEF IInv, Stored, Ack, Statuses
<1>3. SamePrices
  <2>1. CASE UNCHANGED rows BY <2>1 DEF SamePrices
  <2>2. CASE SetStatus({m.row}, m.status) BY <1>2, <2>2, SetStatusPrices
  <2> QED BY <1>1, <2>1, <2>2 DEF ApplyStatus
<1>4. SameCosts BY <1>1 DEF ApplyStatus, SameCosts
<1> QED BY <1>1, <1>3, <1>4, AroundLedger DEF ApplyStatus

LEMMA EnvironmentLedger ==
  ASSUME IInv, IInv', LedgerInv, Finishes, Environment PROVE LedgerInv'
<1>1. ASSUME NEW s \in SubIds, Challenge(s) \/ ChallengeFails(s) \/ Revoke(s) PROVE LedgerInv'
  <2>1. UNCHANGED <<rows, currentCost, task>> BY <1>1 DEF Challenge, ChallengeFails, Revoke
  <2>2. PICK x \in RemoteStates : remote[s] # Null /\ remote' = [remote EXCEPT ![s].state = x]
    BY <1>1 DEF Challenge, ChallengeFails, Revoke, SetRemote, RemoteStates
  <2>3. remote[s] \in Remote BY <2>2 DEF IInv, Stored
  <2>4. SameCosts BY <2>2, <2>3, StateCosts
  <2> QED BY <2>1, <2>4, AroundLedger DEF SamePrices
<1>2. ASSUME NEW st \in Streamers, WithdrawGrant(st) PROVE LedgerInv'
  BY <1>2, PricesStay, AroundLedger DEF WithdrawGrant
<1>3. ASSUME NEW r \in RowIds, Age(r) PROVE LedgerInv'
  <2> DEFINE new == [rows[r] EXCEPT !.aged = TRUE]
  <2>1. rows[r] \in Row BY <1>3 DEF Age, IInv, Stored
  <2>2. new \in Row /\ new.app = rows[r].app /\ new.cost = rows[r].cost BY <2>1 DEF Row
  <2>3. rows' = [rows EXCEPT ![r] = new] BY <1>3 DEF Age
  <2> HIDE DEF new
  <2>4. SamePrices BY <2>1, <2>2, <2>3, NullFacts DEF SamePrices, IInv, Stored
  <2>5. SameCosts BY <1>3 DEF Age, SameCosts
  <2> QED BY <1>3, <2>4, <2>5, AroundLedger DEF Age
<1>4. ~Crash BY DEF Crash, Finishes
<1> QED BY <1>1, <1>2, <1>3, <1>4 DEF Environment

LEMMA InitLedger == Init => LedgerInv
<1> SUFFICES ASSUME Init PROVE LedgerInv OBVIOUS
<1>1. \A p \in Tasks : task[p] = Idle BY DEF Init
<1>2. PICK u : u = Idle OBVIOUS
<1>3. u.pc \in CarefreePcs /\ u.todo = {} BY <1>2 DEF Idle, CarefreePcs
<1>4. Dues(u) /\ \A a : Owed(u, a) = 0 BY <1>3, CarefreeDues
<1>5. FreeOnInternal BY DEF Init, FreeOnInternal, Existing
<1>6. ASSUME NEW a \in Apps PROVE currentCost[a] = 0 /\ Total(rows, a) = 0
  <2>1. RowsOn(rows, a) = {} BY DEF Init, RowsOn
  <2>2. CostOf(rows, {}) = 0 BY CostUnfolds, FS_EmptySet
  <2> QED BY <2>1, <2>2 DEF Init, Total
<1> QED BY <1>1, <1>2, <1>4, <1>5, <1>6 DEF LedgerInv, Balanced

LEMMA NextLedger ==
  ASSUME Sequential, Finishes
  PROVE  IInv /\ IInv' /\ SoleInv /\ LedgerInv /\ [Next]_vars => LedgerInv'
<1> SUFFICES ASSUME IInv, IInv', SoleInv, LedgerInv, [Next]_vars PROVE LedgerInv' OBVIOUS
<1>1. CASE UNCHANGED vars BY <1>1, PricesStay, AroundLedger DEF vars
<1> QED BY <1>1, RequestLedger, ProceedLedger, SyncLedger, QueueLedger, EnvironmentLedger DEF Next

\* While operations do not overlap, no registration fails and no restart forgets an
\* operation, consumeAppCost and releaseAppCost keep the books: with nothing in flight,
\* twitch_apps.current_cost is the sum of the app's rows, whatever deletions fail at
\* Twitch, grants are withdrawn, challenges fail or messages are lost.
THEOREM LedgersSettle == ASSUME Sequential, Finishes PROVE Spec => []LedgerSettled
<1>1. IInv /\ LedgerInv => LedgerSettled
  <2> SUFFICES ASSUME IInv, LedgerInv, Settled, NEW a \in Apps
               PROVE  currentCost[a] = MapThenSumSet(LAMBDA r : rows[r].cost,
                                                     {r \in Existing : rows[r].app = a})
    BY DEF LedgerSettled
  <2>1. {r \in Existing : rows[r].app = a} = RowsOn(rows, a) BY DEF Existing, RowsOn
  <2>2. MapThenSumSet(LAMBDA r : rows[r].cost, RowsOn(rows, a)) = Total(rows, a)
    BY CostIsMapThenSum DEF Total
  <2>3. currentCost[a] = Total(rows, a)
    <3>1. currentCost[a] \in Int /\ Total(rows, a) \in Int BY TotalIsInt DEF IInv, Stored
    <3>2. CASE Tasks = {} BY <3>2 DEF LedgerInv, Balanced
    <3>3. ASSUME NEW p \in Tasks PROVE currentCost[a] = Total(rows, a)
      <4>1. Owed(task[p], a) = 0 BY DEF Settled, At, Owed, UnchargedPcs, OverchargedPcs
      <4> QED BY <3>1, <4>1 DEF LedgerInv, Balanced
    <3> QED BY <3>2, <3>3
  <2> QED BY <2>1, <2>2, <2>3
<1> QED BY <1>1, InitIInv, NextIInv, InitSole, NextSole, InitLedger, NextLedger, PTL DEF Spec
-----------------------------------------------------------------------------
(* A new subscription before the old one goes                                 *)

\* The points at which a move holds the subscription the row is to have, while
\* the one it had is still to be deleted.
MovePcs == {"migrateRecord", "migrateDelete", "downgradeDelete"}

\* The subscription a move has created is another one of the same row.  And nobody
\* is deleting a subscription by its id alone.
Covered(t) ==
  /\ t.pc # "deleteOrphan"
  /\ t.pc \in MovePcs =>
       /\ t.sub \in SubIds /\ remote[t.sub] # Null
       /\ remote[t.sub].row = t.row /\ remote[t.sub].state # "deleted"
       /\ t.seen.sub # t.sub
       /\ t.seen.sub # 0 => remote[t.seen.sub].row = t.row

MoveInv == \A p \in Tasks : Covered(task[p])

\* A step that deletes nothing at Twitch.
KeepsSubs ==
  \A s \in SubIds : remote[s] # Null =>
    /\ remote'[s] # Null
    /\ remote'[s].row = remote[s].row
    /\ remote[s].state # "deleted" => remote'[s].state # "deleted"

LEMMA CreationKeeps ==
  ASSUME IInv, NEW STATE r, NEW STATE a, NEW STATE c, CreateRemote(r, a, c)
  PROVE  /\ KeepsSubs
         /\ nextSub \in SubIds /\ remote[nextSub] = Null
         /\ remote'[nextSub] = [row |-> r, app |-> a, cost |-> c, state |-> "pending"]
<1>1. nextSub \in SubIds /\ remote[nextSub] = Null BY DEF CreateRemote, IInv, Stored
<1>2. /\ remote'[nextSub] = [row |-> r, app |-> a, cost |-> c, state |-> "pending"]
      /\ \A s \in SubIds \ {nextSub} : remote'[s] = remote[s]
  BY <1>1 DEF CreateRemote, IInv, Stored
<1> QED BY <1>1, <1>2 DEF KeepsSubs

LEMMA StateKeeps ==
  ASSUME IInv, NEW s \in SubIds, NEW f, NEW x \in RemoteStates \ {"deleted"}, SetRemote(s, f, x)
  PROVE  KeepsSubs
<1>1. remote[s] \in Remote BY DEF SetRemote, IInv, Stored
<1>2. remote'[s] = [remote[s] EXCEPT !.state = x] /\ \A y \in SubIds \ {s} : remote'[y] = remote[y]
  BY DEF SetRemote, IInv, Stored
<1>3. remote'[s] \in Remote /\ remote'[s].row = remote[s].row /\ remote'[s].state = x
  BY <1>1, <1>2 DEF Remote, RemoteStates
<1> QED BY <1>2, <1>3, NullFacts DEF KeepsSubs

\* Only DeleteRemote deletes.
LEMMA OthersKeep ==
  ASSUME IInv, [Next]_vars, \A p \in Tasks : ~DeleteRemote(p) PROVE KeepsSubs
<1>1. CASE UNCHANGED remote BY <1>1 DEF KeepsSubs
<1>2. ASSUME NEW p \in Tasks, Request(p) \/ TokenCron(p) PROVE UNCHANGED remote
  BY <1>2 DEF Request, TokenCron, CreateNotification, AdminRegister, DeleteNotification,
     AdminDelete, DeleteTwitchOnly, LinkTwitch, UnlinkTwitch, SetTwitchPersonalAuth,
     RefreshExpiringTokens, shared
<1>3. ASSUME NEW p \in Tasks, Proceed(p) PROVE KeepsSubs
  <2>1. CASE RegisterWithApp(p) \/ RegisterWithUser(p) \/ MigrateNext(p) \/ DowngradeRegister(p)
    <3>1. \/ UNCHANGED remote
          \/ \E r, a, c : CreateRemote(r, a, c)
      BY <2>1 DEF RegisterWithApp, RegisterWithUser, MigrateNext, DowngradeRegister
    <3> QED BY <1>1, <3>1, CreationKeeps
  <2>2. CASE ~(RegisterWithApp(p) \/ RegisterWithUser(p) \/ MigrateNext(p) \/ DowngradeRegister(p))
    <3>1. UNCHANGED remote
      BY <1>3, <2>2 DEF Proceed, GetOrCreateStreamer, TryRegisterWithUserToken, PickApp, InsertRow,
         UndoRow, RecordSubscription, ConsumeCost, Attach, CleanupIfUnused, DeleteLocal,
         ReleaseCost, DeleteLocalRow, Migrate, MigrateRecord, StoreTokens, UnlinkAccount,
         ForgetTokens, Downgrade, DowngradeNext, DowngradeRecord, Deactivate,
         SuspendNotifications, shared
    <3> QED BY <1>1, <3>1
  <2> QED BY <2>1, <2>2
<1>4. CASE Sync \/ Queue
  <2>1. UNCHANGED remote
    BY <1>4 DEF Sync, SyncRead, SyncQuery, SyncEnable, SyncRevoke, Queue, ApplyStatus
  <2> QED BY <1>1, <2>1
<1>5. CASE Environment
  <2>1. ASSUME NEW s \in SubIds, Challenge(s) \/ ChallengeFails(s) \/ Revoke(s) PROVE KeepsSubs
    BY <2>1, StateKeeps DEF Challenge, ChallengeFails, Revoke, RemoteStates
  <2> QED BY <1>1, <1>5, <2>1 DEF Environment, WithdrawGrant, Age, Crash
<1>6. CASE UNCHANGED vars BY <1>1, <1>6 DEF vars
<1> QED BY <1>1, <1>2, <1>3, <1>4, <1>5, <1>6 DEF Next

LEMMA CoveredKept ==
  ASSUME IInv, KeepsSubs, NEW t \in Task, Holds(t), Covered(t) PROVE Covered(t)'
<1> SUFFICES ASSUME t.pc \in MovePcs
             PROVE  (/\ t.sub \in SubIds /\ remote[t.sub] # Null
                     /\ remote[t.sub].row = t.row /\ remote[t.sub].state # "deleted"
                     /\ t.seen.sub # 0 => remote[t.seen.sub].row = t.row)'
  BY DEF Covered
<1>1. t.seen \in Row BY DEF Holds, Loaded, MovePcs, SeenPcs
<1>2. t.seen.sub # 0 => t.seen.sub \in SubIds /\ remote[t.seen.sub] # Null
  BY <1>1, NullFacts DEF Holds, Known, Row
<1> QED BY <1>2 DEF Covered, KeepsSubs

\* Where a step leads to.
LEMMA Onward ==
  ASSUME IInv, NEW p \in Tasks
  PROVE  /\ \A t : Become(p, t) => task'[p] = t
         /\ Done(p) => task'[p].pc = "idle"
         /\ \A l : Goto(p, l) => task'[p].pc = l
         /\ Return(p) => task'[p].pc \in {"idle", "attach", "unlink"}
<1>1. \A t : Become(p, t) => task'[p] = t BY DEF Become, IInv, InFlight
<1>2. task[p] \in Task BY DEF IInv, InFlight
<1>3. \A l : [task[p] EXCEPT !.pc = l].pc = l BY <1>2 DEF Task
<1>4. \A l : Goto(p, l) => task'[p].pc = l BY <1>1, <1>3 DEF Goto
<1>5. Done(p) => task'[p].pc = "idle" BY <1>1 DEF Done, Idle
<1>6. Return(p) => task'[p].pc \in {"idle", "attach", "unlink"}
  BY <1>2, <1>4, <1>5 DEF Return, Task
<1> QED BY <1>1, <1>4, <1>5, <1>6

\* All but three actions leave an operation with no move at hand.
LEMMA NoMove ==
  ASSUME IInv, NEW p \in Tasks, Proceed(p), ~MigrateNext(p), ~MigrateRecord(p), ~DowngradeRegister(p)
  PROVE  task'[p].pc \notin MovePcs \cup {"deleteOrphan"}
<1> DEFINE Out == task'[p].pc \notin MovePcs \cup {"deleteOrphan"}
<1>1. task[p] \in Task BY DEF IInv, InFlight
<1>2. ASSUME NEW l, Goto(p, l), l \notin MovePcs \cup {"deleteOrphan"} PROVE Out
  BY <1>2, Onward
<1>3. Done(p) => Out BY Onward DEF MovePcs
<1>4. Return(p) => Out BY Onward DEF MovePcs
<1>5. ASSUME NEW STATE t, Become(p, t), t.pc \notin MovePcs \cup {"deleteOrphan"} PROVE Out
  BY <1>5, Onward
<1> SUFFICES Out OBVIOUS
<1> HIDE DEF Out
<1>6. CASE \/ GetOrCreateStreamer(p) \/ UndoRow(p) \/ RecordSubscription(p) \/ ConsumeCost(p)
           \/ Attach(p) \/ CleanupIfUnused(p) \/ ReleaseCost(p) \/ DeleteLocalRow(p)
           \/ StoreTokens(p) \/ UnlinkAccount(p) \/ ForgetTokens(p) \/ DowngradeRecord(p)
           \/ Deactivate(p) \/ SuspendNotifications(p)
  BY <1>2, <1>3, <1>4, <1>6
  DEF GetOrCreateStreamer, UndoRow, RecordSubscription, ConsumeCost, Attach, CleanupIfUnused,
      ReleaseCost, DeleteLocalRow, StoreTokens, UnlinkAccount, ForgetTokens, DowngradeRecord,
      Deactivate, SuspendNotifications, MovePcs
<1>7. CASE DeleteRemote(p)
  <2>1. CASE At(p, "deleteOrphan") BY <1>3, <1>7, <2>1 DEF DeleteRemote
  <2>2. CASE ~At(p, "deleteOrphan")
    <3>1. task[p].pc \in DOMAIN AfterDelete /\ Goto(p, AfterDelete[task[p].pc])
      BY <1>7, <2>2 DEF DeleteRemote
    <3>2. AfterDelete[task[p].pc] \in {"release", "migrateRelease", "downgradeRecord", "deactivate"}
      BY <3>1 DEF AfterDelete
    <3> QED BY <1>2, <3>1, <3>2 DEF MovePcs
  <2> QED BY <2>1, <2>2
<1>8. CASE TryRegisterWithUserToken(p)
  <2>1. ASSUME NEW a \in Internal, Become(p, [task[p] EXCEPT !.pc = "insertUser", !.app = a])
        PROVE  Out
    <3>1. [task[p] EXCEPT !.pc = "insertUser", !.app = a].pc = "insertUser" BY <1>1 DEF Task
    <3> QED BY <1>5, <2>1, <3>1 DEF MovePcs
  <2> QED BY <1>2, <1>8, <2>1 DEF TryRegisterWithUserToken, MovePcs
<1>9. CASE PickApp(p)
  <2>1. ASSUME NEW a, Become(p, [task[p] EXCEPT !.pc = "insertApp", !.app = a]) PROVE Out
    <3>1. [task[p] EXCEPT !.pc = "insertApp", !.app = a].pc = "insertApp" BY <1>1 DEF Task
    <3> QED BY <1>5, <2>1, <3>1 DEF MovePcs
  <2> QED BY <1>3, <1>9, <2>1 DEF PickApp
<1>10. CASE InsertRow(p)
  <2>1. ASSUME NEW l \in {"twitchUser", "twitchApp"},
               Become(p, [task[p] EXCEPT !.row = nextRow, !.pc = l])
        PROVE  Out
    <3>1. [task[p] EXCEPT !.row = nextRow, !.pc = l].pc = l BY <1>1 DEF Task
    <3> QED BY <1>5, <2>1, <3>1 DEF MovePcs
  <2> QED BY <1>3, <1>10, <2>1 DEF InsertRow
<1>11. CASE RegisterWithApp(p) \/ RegisterWithUser(p)
  <2>1. ASSUME NEW l \in {"recordUser", "recordApp"},
               Become(p, [task[p] EXCEPT !.pc = l, !.sub = nextSub])
        PROVE  Out
    <3>1. [task[p] EXCEPT !.pc = l, !.sub = nextSub].pc = l BY <1>1 DEF Task
    <3> QED BY <1>5, <2>1, <3>1 DEF MovePcs
  <2> QED BY <1>2, <1>3, <1>11, <2>1 DEF RegisterWithApp, RegisterWithUser, MovePcs
<1>12. CASE DeleteLocal(p)
  <2>1. ASSUME Become(p, [task[p] EXCEPT !.pc = "deleteRemote", !.seen = rows[task[p].row]])
        PROVE  Out
    <3>1. [task[p] EXCEPT !.pc = "deleteRemote", !.seen = rows[task[p].row]].pc = "deleteRemote"
      BY <1>1 DEF Task
    <3> QED BY <1>5, <2>1, <3>1 DEF MovePcs
  <2> QED BY <1>3, <1>12, <2>1 DEF DeleteLocal
<1>13. CASE Migrate(p) \/ Downgrade(p)
  <2>1. ASSUME NEW STATE T, NEW l \in {"migrateNext", "downgradeNext"},
               Become(p, [task[p] EXCEPT !.pc = l, !.todo = T])
        PROVE  Out
    <3>1. [task[p] EXCEPT !.pc = l, !.todo = T].pc = l BY <1>1 DEF Task
    <3> QED BY <1>5, <2>1, <3>1 DEF MovePcs
  <2> QED BY <1>3, <1>4, <1>13, <2>1 DEF Migrate, Downgrade
<1>14. CASE DowngradeNext(p)
  <2>1. CASE task[p].todo = {} BY <1>4, <1>14, <2>1 DEF DowngradeNext
  <2>2. CASE task[p].todo # {}
    <3> DEFINE next(e) == [task[p] EXCEPT !.row = e.id, !.seen = e.row, !.todo = @ \ {e}]
    <3>1. PICK e \in task[p].todo, a \in FindLeastLoaded \cup {Null} :
            \/ Become(p, next(e))
            \/ Become(p, [next(e) EXCEPT !.pc = "downgradeRegister", !.app = a])
            \/ Become(p, [next(e) EXCEPT !.pc = "dropRemote"])
      BY <1>14, <2>2 DEF DowngradeNext
    <3>2. task[p].pc = "downgradeNext" BY <1>14 DEF DowngradeNext, At
    <3>3. /\ next(e).pc = "downgradeNext"
          /\ [next(e) EXCEPT !.pc = "downgradeRegister", !.app = a].pc = "downgradeRegister"
          /\ [next(e) EXCEPT !.pc = "dropRemote"].pc = "dropRemote"
      BY <1>1, <3>2 DEF Task
    <3> HIDE DEF next
    <3>4. task'[p].pc \in {"downgradeNext", "downgradeRegister", "dropRemote"}
      BY <3>1, <3>3, Onward
    <3> QED BY <3>4 DEF Out, MovePcs
  <2> QED BY <2>1, <2>2
<1> QED
  BY <1>6, <1>7, <1>8, <1>9, <1>10, <1>11, <1>12, <1>13, <1>14 DEF Proceed

\* A move takes a row as it is, and creates a subscription of that row.
LEMMA MoveBegins ==
  ASSUME IInv, IInv', SoleInv, NEW p \in Tasks, MigrateNext(p) \/ DowngradeRegister(p), NEW u \in Task,
         task'[p] = u
  PROVE  Covered(u)'
<1> DEFINE tk == task[p]
<1>1. tk \in Task /\ Holds(tk) /\ Ahead(tk) /\ AsSeen(tk) BY SteadyNow DEF IInv, InFlight
<1>2. \A r \in RowIds : rows[r] # Null /\ rows[r].sub # 0 => remote[rows[r].sub].row = r
  BY DEF IInv, Stored, OwnSubscription, Existing
<1>3. ASSUME NEW r \in RowIds, NEW old, NEW STATE a, NEW STATE c, CreateRemote(r, a, c),
             Known(old), old \in SubIds \cup {0}, rows[r] # Null, rows[r].sub = old,
             u.pc \in MovePcs, u.sub = nextSub, u.seen.sub = old, u.row = r
      PROVE  Covered(u)'
  <2>1. /\ KeepsSubs /\ nextSub \in SubIds /\ remote[nextSub] = Null
        /\ remote'[nextSub] = [row |-> r, app |-> a, cost |-> c, state |-> "pending"]
    BY <1>3, CreationKeeps
  <2>2. old # 0 => old \in SubIds /\ remote[old] # Null /\ remote[old].row = r
    BY <1>2, <1>3, NullFacts DEF Known
  <2>3. nextSub # old BY <2>1, <2>2, NullFacts
  <2>4. old # 0 => remote'[old].row = r BY <2>1, <2>2 DEF KeepsSubs
  <2>5. PICK n : n = nextSub OBVIOUS
  <2>6. n \in SubIds /\ remote'[n].row = r /\ remote'[n].state = "pending" /\ u.sub = n
    BY <1>3, <2>1, <2>5
  <2>7. remote'[n] # Null BY <1>3, <2>1, <2>5 DEF CreateRemote, IInv, Stored
  <2> QED BY <1>3, <2>3, <2>4, <2>5, <2>6, <2>7 DEF Covered, MovePcs
<1>4. CASE MigrateNext(p)
  <2>1. CASE tk.todo = {}
    <3>1. task'[p].pc = "idle" BY <1>4, <2>1, Onward DEF MigrateNext
    <3> QED BY <3>1 DEF Covered, MovePcs
  <2>2. CASE tk.todo # {}
    <3>1. PICK e \in tk.todo, a \in Internal :
            \/ /\ CreateRemote(e.id, a, 0)
               /\ Become(p, [tk EXCEPT !.pc = "migrateRecord", !.row = e.id, !.seen = e.row,
                                       !.sub = nextSub, !.app = a, !.todo = @ \ {e}])
            \/ Become(p, [tk EXCEPT !.todo = @ \ {e}])
      BY <1>4, <2>2 DEF MigrateNext
    <3>2. e \in Entity /\ rows[e.id] # Null /\ rows[e.id].sub = e.row.sub /\ Known(e.row.sub)
      BY <1>1 DEF Ahead, Task, Holds
    <3>3. e.id \in RowIds /\ e.row.sub \in SubIds \cup {0} BY <3>2 DEF Entity, Row
    <3>4. CASE Become(p, [tk EXCEPT !.todo = @ \ {e}])
      <4>1. u.pc = "migrateNext" BY <1>1, <1>4, <3>4, Onward DEF MigrateNext, At, Task
      <4> QED BY <4>1 DEF Covered, MovePcs
    <3>5. CASE /\ CreateRemote(e.id, a, 0)
               /\ Become(p, [tk EXCEPT !.pc = "migrateRecord", !.row = e.id, !.seen = e.row,
                                       !.sub = nextSub, !.app = a, !.todo = @ \ {e}])
      <4>1. u.pc = "migrateRecord" /\ u.sub = nextSub /\ u.seen = e.row /\ u.row = e.id
        BY <1>1, <3>5, Onward DEF Task
      <4> QED BY <1>3, <3>2, <3>3, <3>5, <4>1 DEF MovePcs
    <3> QED BY <3>1, <3>4, <3>5
  <2> QED BY <2>1, <2>2
<1>5. CASE DowngradeRegister(p)
  <2>1. tk.pc = "downgradeRegister" BY <1>5 DEF DowngradeRegister, At
  <2>2. /\ tk.row \in RowIds /\ rows[tk.row] # Null /\ rows[tk.row].sub = tk.seen.sub
        /\ tk.seen \in Row
    BY <1>1, <2>1 DEF Holds, Loaded, RowPcs, SeenPcs, AsSeen, AsSeenPcs
  <2>3. Known(tk.seen.sub) /\ tk.seen.sub \in SubIds \cup {0}
    BY <1>1, <2>2, NullFacts DEF Holds, Row
  <2>4. CASE Goto(p, "downgradeNext")
    <3>1. u.pc = "downgradeNext" BY <2>4, Onward
    <3> QED BY <3>1 DEF Covered, MovePcs
  <2>5. ASSUME NEW c \in Costs, CreateRemote(tk.row, tk.app, c),
               Become(p, [tk EXCEPT !.pc = "downgradeDelete", !.sub = nextSub])
        PROVE  Covered(u)'
    <3>1. u.pc = "downgradeDelete" /\ u.sub = nextSub /\ u.seen = tk.seen /\ u.row = tk.row
      BY <1>1, <2>5, Onward DEF Task
    <3> QED BY <1>3, <2>2, <2>3, <2>5, <3>1 DEF MovePcs
  <2> QED BY <1>5, <2>4, <2>5 DEF DowngradeRegister
<1> QED BY <1>4, <1>5

\* What a move has created is recorded before, or after, the old one is deleted.
LEMMA MoveRecorded ==
  ASSUME IInv, IInv', MoveInv, NEW p \in Tasks, MigrateRecord(p), NEW u \in Task, task'[p] = u
  PROVE  Covered(u)'
<1>1. task[p] \in Task /\ Holds(task[p]) /\ Covered(task[p]) BY DEF IInv, InFlight, MoveInv
<1>2. task[p].pc = "migrateRecord" /\ UNCHANGED remote BY DEF MigrateRecord, At
<1>3. u = [task[p] EXCEPT !.pc = "migrateDelete"] BY Onward DEF MigrateRecord, Goto
<1>4. /\ u.pc = "migrateDelete" /\ u.sub = task[p].sub /\ u.seen = task[p].seen
      /\ u.row = task[p].row
  BY <1>1, <1>3 DEF Task
<1> QED BY <1>1, <1>2, <1>4 DEF Covered, MovePcs

LEMMA NextMoves ==
  ASSUME Sequential, "orphan" \notin Ops
  PROVE  IInv /\ IInv' /\ SoleInv /\ MoveInv /\ [Next]_vars => MoveInv'
<1> SUFFICES ASSUME IInv, IInv', SoleInv, MoveInv, [Next]_vars PROVE MoveInv' OBVIOUS
<1>1. ASSUME NEW p \in Tasks, NEW u \in Task, task'[p] = u, Covered(u)' PROVE MoveInv'
  BY <1>1 DEF MoveInv, Sequential
<1>2. ASSUME NEW p \in Tasks, task'[p].pc \notin MovePcs \cup {"deleteOrphan"} PROVE MoveInv'
  <2>1. PICK u \in Task : task'[p] = u BY DEF IInv, InFlight
  <2>2. Covered(u)' BY <1>2, <2>1 DEF Covered
  <2> QED BY <1>1, <2>1, <2>2
<1>3. ASSUME NEW p \in Tasks, Request(p) \/ TokenCron(p) PROVE MoveInv'
  <2>1. PICK u \in Task : /\ Become(p, u) /\ u.pc \in BeginPcs
                          /\ u.pc = "deleteOrphan" => "orphan" \in Ops
    BY <1>3, RequestBegins
  <2> QED BY <1>2, <2>1, Onward DEF BeginPcs, MovePcs
<1>4. ASSUME NEW p \in Tasks, Proceed(p) PROVE MoveInv'
  <2>1. PICK u \in Task : task'[p] = u BY DEF IInv, InFlight
  <2>2. CASE MigrateNext(p) \/ DowngradeRegister(p) BY <1>1, <2>1, <2>2, MoveBegins
  <2>3. CASE MigrateRecord(p) BY <1>1, <2>1, <2>3, MoveRecorded
  <2> QED BY <1>2, <1>4, <2>2, <2>3, NoMove
<1>5. ASSUME KeepsSubs, UNCHANGED task PROVE MoveInv'
  <2> SUFFICES ASSUME NEW p \in Tasks PROVE Covered(task[p])' BY DEF MoveInv
  <2>1. PICK u \in Task : task[p] = u /\ Holds(u) /\ Covered(u) BY DEF IInv, InFlight, MoveInv
  <2>2. Covered(u)' BY <1>5, <2>1, CoveredKept
  <2>3. task'[p] = u BY <1>5, <2>1
  <2> QED BY <2>2, <2>3
<1>6. ASSUME UNCHANGED task \/ Crash, \A p \in Tasks : ~DeleteRemote(p) PROVE MoveInv'
  <2>1. CASE UNCHANGED task BY <1>5, <1>6, <2>1, OthersKeep
  <2>2. CASE Crash
    <3>1. \A p \in Tasks : task'[p].pc = "idle" BY <2>2 DEF Crash, Idle
    <3> QED BY <1>2, <3>1 DEF MovePcs, MoveInv
  <2> QED BY <1>6, <2>1, <2>2
<1>7. ASSUME Sync \/ Queue \/ Environment \/ UNCHANGED vars PROVE UNCHANGED task \/ Crash
  BY <1>7 DEF Sync, SyncRead, SyncQuery, SyncEnable, SyncRevoke, Queue, ApplyStatus, Environment,
     Challenge, ChallengeFails, Revoke, WithdrawGrant, Age, vars
<1>8. ASSUME NEW p \in Tasks, DeleteRemote(p) PROVE MoveInv' BY <1>4, <1>8 DEF Proceed
<1> QED BY <1>3, <1>4, <1>6, <1>7, <1>8 DEF Next

\* Deleting at Twitch takes the last subscription of no row but one that is given up.
LEMMA DeletionCovered ==
  ASSUME IInv, SoleInv, MoveInv, NEW p \in Tasks, DeleteRemote(p), NEW r \in RowIds,
         Undeleted(r) # {}, Undeleted(r)' = {}
  PROVE  GivenUp(r)
<1> DEFINE tk == task[p]
           s == tk.seen.sub
<1>1. /\ tk \in Task /\ Holds(tk) /\ AsSeen(tk) /\ Covered(tk)
      /\ tk.pc \in {"deleteRemote", "migrateDelete", "downgradeDelete", "dropRemote"}
  BY SteadyNow DEF DeleteRemote, AfterDelete, IInv, InFlight, MoveInv, Covered, At
<1>2. tk.row \in RowIds /\ tk.seen \in Row
  BY <1>1 DEF Holds, Loaded, RowPcs, SeenPcs
<1>3. PICK x \in SubIds : remote[x] # Null /\ remote[x].row = r /\ remote[x].state # "deleted"
  BY DEF Undeleted
<1>4. s # 0 /\ remote' = [remote EXCEPT ![s].state = "deleted"]
  <2>1. CASE UNCHANGED remote BY <1>3, <2>1 DEF Undeleted
  <2> QED BY <1>1, <2>1 DEF DeleteRemote, At
<1>5. s \in SubIds /\ \A y \in SubIds \ {s} : remote'[y] = remote[y]
  BY <1>2, <1>4 DEF IInv, Stored, Row
<1>6. x = s BY <1>3, <1>5 DEF Undeleted
<1>7. CASE tk.pc \in {"deleteRemote", "dropRemote"}
  <2>1. rows[tk.row] # Null /\ rows[tk.row].sub = s BY <1>1, <1>7 DEF AsSeen, AsSeenPcs
  <2>2. remote[s].row = tk.row BY <1>2, <1>4, <2>1 DEF IInv, Stored, OwnSubscription, Existing
  <2> QED BY <1>3, <1>6, <1>7, <2>2 DEF GivenUp
<1>8. CASE tk.pc \in MovePcs
  <2>1. /\ tk.sub \in SubIds /\ remote[tk.sub] # Null /\ remote[tk.sub].row = tk.row
        /\ remote[tk.sub].state # "deleted" /\ s # tk.sub /\ remote[s].row = tk.row
    BY <1>1, <1>4, <1>8 DEF Covered
  <2>2. remote'[tk.sub] = remote[tk.sub] BY <1>5, <2>1
  <2> QED BY <1>3, <1>6, <2>1, <2>2 DEF Undeleted
<1> QED BY <1>1, <1>7, <1>8 DEF MovePcs

\* While operations do not overlap, and unless an administrator deletes a subscription
\* by its id, a row with a subscription at Twitch is never left without one by a move
\* between apps: the service deletes the last one of a row only to give the row up,
\* whatever registrations or deletions fail and wherever a restart interrupts a move.
THEOREM MovesKeepASubscription ==
  ASSUME Sequential, "orphan" \notin Ops PROVE Spec => MakeBeforeBreak
<1>1. Init => MoveInv BY DEF Init, Idle, MoveInv, Covered, MovePcs
<1>2. IInv /\ SoleInv /\ MoveInv /\ [Next]_vars
        => [\A r \in RowIds : Undeleted(r) # {} /\ Undeleted(r)' = {} => GivenUp(r)]_vars
  <2> SUFFICES ASSUME IInv, SoleInv, MoveInv, [Next]_vars, NEW r \in RowIds,
                      Undeleted(r) # {}, Undeleted(r)' = {}
               PROVE  GivenUp(r)
    OBVIOUS
  <2>1. CASE \E p \in Tasks : DeleteRemote(p) BY <2>1, DeletionCovered
  <2>2. CASE \A p \in Tasks : ~DeleteRemote(p)
    <3>1. KeepsSubs BY <2>2, OthersKeep
    <3>2. Undeleted(r) \subseteq Undeleted(r)' BY <3>1 DEF Undeleted, KeepsSubs
    <3> QED BY <3>2
  <2> QED BY <2>1, <2>2
<1> QED
  BY <1>1, <1>2, InitIInv, NextIInv, InitSole, NextSole, NextMoves, PTL DEF Spec, MakeBeforeBreak
=============================================================================
