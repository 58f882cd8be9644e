------------------------- MODULE TwitchSubscriptions -------------------------
(***************************************************************************)
(* The api service's bookkeeping of Twitch EventSub subscriptions: the rows *)
(* of twitch_streamer_events, the subscriptions Twitch really holds, the    *)
(* cost counter of every Twitch app and the operations that keep the three  *)
(* in step (TwitchSubscriptionService, its two cron jobs, the handlers of   *)
(* the twitch.subscriptions queue and the callers in AuthService and        *)
(* TwitchNotificationsService).                                             *)
(*                                                                         *)
(* The service is one Node.js process: an operation runs without            *)
(* interruption between two awaits, and any number of operations interleave *)
(* at their awaits.  A task is one operation in flight; every action below  *)
(* is the stretch of code up to the next await that reads or writes the     *)
(* database or Twitch.                                                      *)
(***************************************************************************)
EXTENDS Integers, FiniteSets, FiniteSetsExt

CONSTANTS
  Streamers,    \* broadcasters
  Slots,        \* (streamer, event type) pairs, the unique key of a row
  StreamerOf,   \* the streamer of a slot
  Online,       \* the slots whose event type is stream.online
  Apps,         \* Twitch apps
  AppStatus,    \* "active", "internal" or "locked", for every app
  MaxCost,      \* twitch_apps.max_cost
  Costs,        \* the costs Twitch may assign to a subscription
  CostBound,    \* no cost is larger
  Notes,        \* notification ids (discord and webhook alike)
  Paid,         \* those whose costType is not Credit
  Tasks,        \* operations in flight
  Ops,          \* the operations this instance starts
  Events,       \* what Twitch, the broker and the host may do to it
  MaxRows,      \* bound on the rows ever inserted
  MaxSubs,      \* bound on the subscriptions Twitch ever creates
  Null

\* app_cost of a row that nobody set: the column default.
DefaultCost == 1

RowIds == 1..MaxRows
SubIds == 1..MaxSubs
Statuses == {"pending", "verified", "revoked", "deactivated"}
RemoteStates == {"pending", "enabled", "failed", "revoked", "deleted"}

Row == [slot: Slots, app: Apps, sub: SubIds \cup {0},
        cost: Nat, status: Statuses, aged: BOOLEAN]
Remote == [row: RowIds, app: Apps, cost: 0..CostBound, state: RemoteStates]
Entity == [id: RowIds, row: Row]
Account == [linked: BOOLEAN, personal: BOOLEAN, token: BOOLEAN, granted: BOOLEAN]
Ack == [row: RowIds, sub: SubIds, status: {"verified", "revoked"}]

ASSUME ConstantsOK ==
  /\ StreamerOf \in [Slots -> Streamers]
  /\ Online \subseteq Slots
  /\ AppStatus \in [Apps -> {"active", "internal", "locked"}]
  /\ MaxCost \in [Apps -> Nat \ {0}]
  /\ CostBound \in Nat \ {0}
  /\ Costs \subseteq 0..CostBound
  /\ Paid \subseteq Notes
  /\ IsFiniteSet(Tasks)
  /\ MaxRows \in Nat
  /\ MaxSubs \in Nat

ASSUME NullOK ==
  /\ Null \notin Row
  /\ Null \notin Remote
  /\ Null \notin Slots
  /\ Null \notin Streamers
  /\ Null \notin Apps
  /\ Null \notin Notes
  /\ Null \notin Entity

VARIABLES
  rows,         \* twitch_streamer_events by id, Null when absent
  nextRow,      \* the next id to be handed out
  note,         \* notifications: the row each belongs to (0: none), and
                \* whether its status is Active
  currentCost,  \* twitch_apps.current_cost
  account,      \* the streamer's link, flags and tokens
  remote,       \* subscriptions at Twitch by id, Null when never created
  nextSub,      \* the next subscription id of Twitch
  acks,         \* messages of the twitch.subscriptions queue
  task,         \* the operations in flight
  cron          \* the hourly synchronisation in flight

vars == <<rows, nextRow, note, currentCost, account, remote, nextSub, acks,
          task, cron>>

\* What a step that only advances its task leaves alone.
shared == <<rows, nextRow, note, currentCost, account, remote, nextSub, acks, cron>>

-----------------------------------------------------------------------------
(* Tasks                                                                    *)

Idle == [pc |-> "idle", ret |-> "idle", slot |-> Null, who |-> Null,
         row |-> 0, seen |-> Null, sub |-> 0, app |-> Null, todo |-> {},
         note |-> Null]

CronIdle == [pc |-> "idle", stale |-> {}, toEnable |-> {}, toDelete |-> {}]

At(p, l) == task[p].pc = l

Become(p, t) == task' = [task EXCEPT ![p] = t]

Done(p) == Become(p, Idle)

Goto(p, l) == Become(p, [task[p] EXCEPT !.pc = l])

\* Return to the caller of registerSubscription / downgrade.
Return(p) ==
  IF task[p].ret = "idle" THEN Done(p) ELSE Goto(p, task[p].ret)

Existing == {r \in RowIds : rows[r] # Null}

RowsOf(s) == {r \in Existing : rows[r].slot = s}

NotesOf(r) == {n \in Notes : note[n].row = r}

\* An entity as the query loaded it: its id and the values it had then.
Entities(R) == {[id |-> r, row |-> rows[r]] : r \in R}

Internal == {a \in Apps : AppStatus[a] = "internal"}

HasRoomOffByOne(a) == currentCost[a] <= MaxCost[a]
HasRoom(a) == currentCost[a] < MaxCost[a]

LeastLoaded ==
  LET open == {a \in Apps : AppStatus[a] = "active" /\ HasRoom(a)}
  IN  {a \in open : \A b \in open : currentCost[a] <= currentCost[b]}

\* twitchApp of any other subscription of the broadcaster.
SiblingApps(st) ==
  {rows[r].app : r \in {x \in Existing : /\ StreamerOf[rows[x].slot] = st
                                         /\ rows[x].app \notin Internal}}

\* findLeastLoaded, Null when no app has room.
FindLeastLoaded == IF LeastLoaded = {} THEN {Null} ELSE LeastLoaded

\* The apps getTwitchAppForBroadcaster may return.  Its findOne has no order.
AppsForBroadcaster(st) ==
  IF SiblingApps(st) = {} THEN FindLeastLoaded
  ELSE UNION {IF HasRoom(a) THEN {a} ELSE FindLeastLoaded : a \in SiblingApps(st)}

CreateRemote(r, a, c) ==
  /\ nextSub \in SubIds
  /\ remote' = [remote EXCEPT ![nextSub] =
                  [row |-> r, app |-> a, cost |-> c, state |-> "pending"]]
  /\ nextSub' = nextSub + 1

\* UPDATE ... WHERE id = r: affects nothing when the row is gone.
UpdateRow(r, new) ==
  rows' = IF rows[r] = Null THEN rows ELSE [rows EXCEPT ![r] = new]

\* DELETE of a row; the notifications cascade.
RemoveRow(r) ==
  /\ rows' = [rows EXCEPT ![r] = Null]
  /\ note' = [n \in Notes |-> IF note[n].row = r
                              THEN [row |-> 0, active |-> FALSE] ELSE note[n]]

AddCost(a, c) == currentCost' = [currentCost EXCEPT ![a] = @ + c]

-----------------------------------------------------------------------------
(* The streamer's Twitch account                                            *)

ClearTokens(st) ==
  account' = [account EXCEPT ![st].token = FALSE, ![st].personal = FALSE]

\* getValidToken succeeds: the access token has not expired, or is refreshed.
TokenValid(st) == account[st].token

\* An expired token whose grant was withdrawn: the refresh clears the tokens.
TokenRevoked(st) == TokenValid(st) /\ ~account[st].granted

-----------------------------------------------------------------------------
(* registerSubscription and getOrCreateEvent                                *)

Starts(p, o) == At(p, "idle") /\ o \in Ops

\* A notification is created: getOrCreateEvent finds the row, or registers one.
CreateNotification(p, s, n) ==
  /\ Starts(p, "create")
  /\ note[n].row = 0
  /\ \A q \in Tasks : task[q].note # n
  /\ IF RowsOf(s) # {}
     THEN \E r \in RowsOf(s) :
            Become(p, [Idle EXCEPT !.pc = "attach", !.row = r, !.note = n])
     ELSE Become(p, [Idle EXCEPT !.pc = "register",
                     !.ret = "attach", !.slot = s, !.note = n])
  /\ UNCHANGED shared

\* The administrator's endpoint registers stream.online without looking for a row.
AdminRegister(p, s) ==
  /\ Starts(p, "admin")
  /\ s \in Online
  /\ Become(p, [Idle EXCEPT !.pc = "register", !.slot = s])
  /\ UNCHANGED shared

\* What registerSubscription asks of the entity it was given.
WantsUserToken(st) == account[st].linked /\ account[st].personal

\* getOrCreateStreamer loads the streamer and asks Twitch about the broadcaster,
\* while the entity gets old.  Twitch may not know the broadcaster, and of two
\* that insert one streamer the second fails.
GetOrCreateStreamer(p) ==
  /\ At(p, "register")
  /\ \/ Goto(p, IF WantsUserToken(StreamerOf[task[p].slot]) THEN "userToken" ELSE "pickApp")
     \/ "register_fails" \in Events /\ Done(p)
  /\ UNCHANGED shared

\* tryRegisterWithUserToken up to its row: without a token or an internal app the
\* way of the apps is taken.
TryRegisterWithUserToken(p) ==
  LET st == StreamerOf[task[p].slot]
  IN  /\ At(p, "userToken")
      /\ \/ /\ TokenValid(st)
            /\ \E a \in Internal : Become(p, [task[p] EXCEPT !.pc = "insertUser", !.app = a])
            /\ UNCHANGED account
         \/ /\ TokenRevoked(st)
            /\ ClearTokens(st)
            /\ Goto(p, "pickApp")
         \/ /\ TokenValid(st) => Internal = {}
            /\ Goto(p, "pickApp")
            /\ UNCHANGED account
      /\ UNCHANGED <<rows, nextRow, note, currentCost, remote, nextSub, acks, cron>>

PickApp(p) ==
  /\ At(p, "pickApp")
  /\ \E a \in AppsForBroadcaster(StreamerOf[task[p].slot]) :
       IF a = Null THEN Done(p)
       ELSE Become(p, [task[p] EXCEPT !.pc = "insertApp", !.app = a])
  /\ UNCHANGED shared

\* save(newEvent); a row of the same slot is a unique violation, a 500.
InsertRow(p) ==
  LET user == At(p, "insertUser")
      new == [slot |-> task[p].slot, app |-> task[p].app, sub |-> 0,
              cost |-> IF user THEN 0 ELSE DefaultCost,
              status |-> "pending", aged |-> FALSE]
  IN  /\ task[p].pc \in {"insertUser", "insertApp"}
      /\ IF RowsOf(task[p].slot) # {}
         THEN Done(p) /\ UNCHANGED <<rows, nextRow>>
         ELSE /\ nextRow \in RowIds
              /\ rows' = [rows EXCEPT ![nextRow] = new]
              /\ nextRow' = nextRow + 1
              /\ Become(p, [task[p] EXCEPT !.row = nextRow,
                            !.pc = IF user THEN "twitchUser" ELSE "twitchApp"])
      /\ UNCHANGED <<note, currentCost, account, remote, nextSub, acks, cron>>

\* registerEvent with the app's token.  A failure leaves the row behind.
RegisterWithApp(p) ==
  /\ At(p, "twitchApp")
  /\ \/ /\ \E c \in Costs : CreateRemote(task[p].row, task[p].app, c)
        /\ Become(p, [task[p] EXCEPT !.pc = "recordApp", !.sub = nextSub])
     \/ /\ "register_fails" \in Events
        /\ Done(p)
        /\ UNCHANGED <<remote, nextSub>>
  /\ UNCHANGED <<rows, nextRow, note, currentCost, account, acks, cron>>

\* registerEvent with the streamer's token; a withdrawn grant is a 401, whose
\* forced refresh clears the tokens.
RegisterWithUser(p) ==
  LET st == StreamerOf[task[p].slot]
  IN  /\ At(p, "twitchUser")
      /\ \/ /\ account[st].granted
            /\ CreateRemote(task[p].row, task[p].app, 0)
            /\ Become(p, [task[p] EXCEPT !.pc = "recordUser", !.sub = nextSub])
            /\ UNCHANGED account
         \/ /\ "register_fails" \in Events \/ ~account[st].granted
            /\ IF account[st].granted THEN UNCHANGED account ELSE ClearTokens(st)
            /\ Goto(p, "undo")
            /\ UNCHANGED <<remote, nextSub>>
      /\ UNCHANGED <<rows, nextRow, note, currentCost, acks, cron>>

\* The catch of tryRegisterWithUserToken removes the row and falls back.
UndoRow(p) ==
  /\ At(p, "undo")
  /\ RemoveRow(task[p].row)
  /\ Goto(p, "pickApp")
  /\ UNCHANGED <<nextRow, currentCost, account, remote, nextSub, acks, cron>>

\* The update of subscriptionId, and of appCost on an app's path.
RecordSubscription(p) ==
  LET t == task[p]
      c == remote[t.sub].cost
      user == t.pc = "recordUser"
  IN  /\ t.pc \in {"recordUser", "recordApp"}
      /\ UpdateRow(t.row, IF user THEN [rows[t.row] EXCEPT !.sub = t.sub]
                          ELSE [rows[t.row] EXCEPT !.sub = t.sub, !.cost = c])
      /\ IF user \/ c = 0 THEN Return(p) ELSE Goto(p, "consume")
      /\ UNCHANGED <<nextRow, note, currentCost, account, remote, nextSub, acks, cron>>

\* consumeAppCost, after the update of a registration or of a downgrade.
ConsumeCost(p) ==
  /\ task[p].pc \in {"consume", "downgradeConsume"}
  /\ AddCost(task[p].app, remote[task[p].sub].cost)
  /\ IF At(p, "consume") THEN Return(p) ELSE Goto(p, "downgradeNext")
  /\ UNCHANGED <<rows, nextRow, note, account, remote, nextSub, acks, cron>>

\* The notification is saved, unless its row is gone (a foreign key violation).
Attach(p) ==
  /\ At(p, "attach")
  /\ note' = IF rows[task[p].row] = Null THEN note
             ELSE [note EXCEPT ![task[p].note] = [row |-> task[p].row, active |-> TRUE]]
  /\ Done(p)
  /\ UNCHANGED <<rows, nextRow, currentCost, account, remote, nextSub, acks, cron>>

-----------------------------------------------------------------------------
(* Deletion                                                                 *)

\* A notification is deleted; cleanupSubscriptionIfUnused follows.
DeleteNotification(p, n) ==
  /\ Starts(p, "remove")
  /\ note[n].row # 0
  /\ note' = [note EXCEPT ![n] = [row |-> 0, active |-> FALSE]]
  /\ Become(p, [Idle EXCEPT !.pc = "cleanup", !.row = note[n].row])
  /\ UNCHANGED <<rows, nextRow, currentCost, account, remote, nextSub, acks, cron>>

CleanupIfUnused(p) ==
  /\ At(p, "cleanup")
  /\ IF NotesOf(task[p].row) = {} THEN Goto(p, "deleteLocal") ELSE Done(p)
  /\ UNCHANGED shared

AdminDelete(p, r) ==
  /\ Starts(p, "delete")
  /\ r < nextRow
  /\ Become(p, [Idle EXCEPT !.pc = "deleteLocal", !.row = r])
  /\ UNCHANGED shared

\* deleteLocalSubscription loads the row and works on what it loaded.
DeleteLocal(p) ==
  /\ At(p, "deleteLocal")
  /\ IF rows[task[p].row] = Null THEN Done(p)
     ELSE Become(p, [task[p] EXCEPT !.pc = "deleteRemote", !.seen = rows[task[p].row]])
  /\ UNCHANGED shared

\* The subscription an operation deletes at Twitch: the one of the entity it
\* loaded, or of the administrator's request.  Every caller but the latter
\* swallows the error and goes on.
AfterDelete ==
  [deleteRemote |-> "release", migrateDelete |-> "migrateRelease",
   downgradeDelete |-> "downgradeRecord", dropRemote |-> "deactivate"]

DeleteRemote(p) ==
  LET orphan == At(p, "deleteOrphan")
      s == IF orphan THEN task[p].sub ELSE task[p].seen.sub
  IN  /\ orphan \/ task[p].pc \in DOMAIN AfterDelete
      /\ \/ remote' = IF s = 0 THEN remote ELSE [remote EXCEPT ![s].state = "deleted"]
         \/ "delete_fails" \in Events /\ s # 0 /\ UNCHANGED remote
      /\ IF orphan THEN Done(p) ELSE Goto(p, AfterDelete[task[p].pc])
      /\ UNCHANGED <<rows, nextRow, note, currentCost, account, nextSub, acks, cron>>

ReleaseCostAdds(p) ==
  /\ task[p].pc \in {"release", "migrateRelease"}
  /\ AddCost(task[p].seen.app, task[p].seen.cost)
  /\ Goto(p, IF At(p, "release") THEN "removeRow" ELSE "migrateNext")
  /\ UNCHANGED <<rows, nextRow, note, account, remote, nextSub, acks, cron>>

\* releaseAppCost of the cost the loaded entity carried.
ReleaseCost(p) ==
  /\ task[p].pc \in {"release", "migrateRelease"}
  /\ AddCost(task[p].seen.app, -task[p].seen.cost)
  /\ Goto(p, IF At(p, "release") THEN "removeRow" ELSE "migrateNext")
  /\ UNCHANGED <<rows, nextRow, note, account, remote, nextSub, acks, cron>>

DeleteLocalRow(p) ==
  /\ At(p, "removeRow")
  /\ RemoveRow(task[p].row)
  /\ Done(p)
  /\ UNCHANGED <<nextRow, currentCost, account, remote, nextSub, acks, cron>>

\* deleteTwitchOnlySubscription: refused when a row refers to the subscription.
DeleteTwitchOnly(p, s) ==
  /\ Starts(p, "orphan")
  /\ s < nextSub
  /\ \A r \in Existing : rows[r].sub # s
  /\ Become(p, [Idle EXCEPT !.pc = "deleteOrphan", !.sub = s])
  /\ UNCHANGED shared

-----------------------------------------------------------------------------
(* migrateToUserAuthorizedSubscriptions                                     *)

\* linkTwitch saves the link, then the tokens, then migrates.
LinkTwitch(p, st) ==
  /\ Starts(p, "link")
  /\ account' = [account EXCEPT ![st].linked = TRUE, ![st].personal = TRUE]
  /\ Become(p, [Idle EXCEPT !.who = st, !.pc = "storeTokens"])
  /\ UNCHANGED <<rows, nextRow, note, currentCost, remote, nextSub, acks, cron>>

StoreTokens(p) ==
  /\ At(p, "storeTokens")
  /\ account' = [account EXCEPT ![task[p].who].token = TRUE, ![task[p].who].granted = TRUE]
  /\ Goto(p, "migrate")
  /\ UNCHANGED <<rows, nextRow, note, currentCost, remote, nextSub, acks, cron>>

\* setTwitchPersonalAuth: nothing when the flag is already so.
SetTwitchPersonalAuth(p, st, enabled) ==
  /\ Starts(p, "personal")
  /\ account[st].linked
  /\ account[st].personal # enabled
  /\ account' = [account EXCEPT ![st].personal = enabled]
  /\ Become(p, [Idle EXCEPT !.who = st,
                                   !.pc = IF enabled THEN "migrate" ELSE "downgrade"])
  /\ UNCHANGED <<rows, nextRow, note, currentCost, remote, nextSub, acks, cron>>

\* The guards and the query of the rows that are not on the internal app.
Migrate(p) ==
  LET st == task[p].who
      mine == {r \in Existing : StreamerOf[rows[r].slot] = st /\ rows[r].app \notin Internal}
  IN  /\ At(p, "migrate")
      /\ \/ /\ account[st].personal /\ TokenValid(st) /\ Internal # {}
            /\ Become(p, [task[p] EXCEPT !.pc = "migrateNext", !.todo = Entities(mine)])
            /\ UNCHANGED account
         \/ /\ account[st].personal /\ TokenRevoked(st)
            /\ ClearTokens(st)
            /\ Done(p)
         \/ /\ ~(account[st].personal /\ TokenValid(st) /\ Internal # {})
            /\ Done(p)
            /\ UNCHANGED account
      /\ UNCHANGED <<rows, nextRow, note, currentCost, remote, nextSub, acks, cron>>

\* Next row of the loop: registerEvent with the token; a failure skips the row.
MigrateNextInFinally(p) ==
  LET st == task[p].who
  IN  /\ At(p, "migrateNext")
      /\ IF task[p].todo = {} THEN Done(p) /\ UNCHANGED <<account, remote, nextSub>>
         ELSE \E e \in task[p].todo :
           /\ Become(p, [task[p] EXCEPT !.pc = "migrateDelete", !.row = e.id,
                         !.seen = e.row, !.todo = @ \ {e}])
           /\ UNCHANGED <<account, remote, nextSub>>
      /\ UNCHANGED <<rows, nextRow, note, currentCost, acks, cron>>

MigrateNext(p) ==
  LET st == task[p].who
  IN  /\ At(p, "migrateNext")
      /\ IF task[p].todo = {} THEN Done(p) /\ UNCHANGED <<account, remote, nextSub>>
         ELSE \E e \in task[p].todo, a \in Internal :
           \/ /\ account[st].granted
              /\ CreateRemote(e.id, a, 0)
              /\ Become(p, [task[p] EXCEPT !.pc = "migrateRecord", !.row = e.id,
                            !.seen = e.row, !.sub = nextSub, !.app = a,
                            !.todo = @ \ {e}])
              /\ UNCHANGED account
           \/ /\ "register_fails" \in Events \/ ~account[st].granted
              /\ IF account[st].granted THEN UNCHANGED account ELSE ClearTokens(st)
              /\ Become(p, [task[p] EXCEPT !.todo = @ \ {e}])
              /\ UNCHANGED <<remote, nextSub>>
      /\ UNCHANGED <<rows, nextRow, note, currentCost, acks, cron>>

MigrateRecordKeepsCost(p) ==
  LET t == task[p]
  IN  /\ At(p, "migrateRecord")
      /\ UpdateRow(t.row, [rows[t.row] EXCEPT !.sub = t.sub, !.app = t.app,
                                              !.status = "pending"])
      /\ Goto(p, "migrateDelete")
      /\ UNCHANGED <<nextRow, note, currentCost, account, remote, nextSub, acks, cron>>

MigrateRecordReloads(p) ==
  LET t == task[p]
      new == [rows[t.row] EXCEPT !.sub = t.sub, !.app = t.app, !.cost = 0,
                                 !.status = "pending"]
  IN  /\ At(p, "migrateRecord")
      /\ UpdateRow(t.row, new)
      /\ Become(p, [task[p] EXCEPT !.pc = "migrateDelete", !.seen = new])
      /\ UNCHANGED <<nextRow, note, currentCost, account, remote, nextSub, acks, cron>>

MigrateRecordOfStreamer(p) ==
  LET t == task[p]
  IN  /\ At(p, "migrateRecord")
      /\ rows' = [r \in RowIds |-> IF r \in Existing /\ StreamerOf[rows[r].slot] = t.who
                                   THEN [rows[r] EXCEPT !.sub = t.sub] ELSE rows[r]]
      /\ Goto(p, "migrateDelete")
      /\ UNCHANGED <<nextRow, note, currentCost, account, remote, nextSub, acks, cron>>

MigrateRecord(p) ==
  LET t == task[p]
  IN  /\ At(p, "migrateRecord")
      /\ UpdateRow(t.row, [rows[t.row] EXCEPT !.sub = t.sub, !.app = t.app,
                                              !.cost = 0, !.status = "pending"])
      /\ Goto(p, "migrateDelete")
      /\ UNCHANGED <<nextRow, note, currentCost, account, remote, nextSub, acks, cron>>

-----------------------------------------------------------------------------
(* downgradeUserAuthorizedSubscriptions                                     *)

\* unlinkTwitch downgrades first and forgets the account afterwards.
UnlinkTwitch(p, st) ==
  /\ Starts(p, "unlink")
  /\ account[st].linked
  /\ Become(p, [Idle EXCEPT !.pc = "downgrade", !.who = st, !.ret = "unlink"])
  /\ UNCHANGED shared

UnlinkAccount(p) ==
  /\ At(p, "unlink")
  /\ account' = [account EXCEPT ![task[p].who].linked = FALSE]
  /\ Goto(p, "forgetTokens")
  /\ UNCHANGED <<rows, nextRow, note, currentCost, remote, nextSub, acks, cron>>

ForgetTokens(p) ==
  /\ At(p, "forgetTokens")
  /\ account' = [account EXCEPT ![task[p].who].token = FALSE]
  /\ Done(p)
  /\ UNCHANGED <<rows, nextRow, note, currentCost, remote, nextSub, acks, cron>>

\* refreshExpiringTokens selects users that still have a refresh token.  A
\* withdrawn grant clears the tokens and then downgrades.
RefreshExpiringTokens(p, st) ==
  /\ Starts(p, "tokenCron")
  /\ account[st].token
  /\ ~account[st].granted
  /\ ClearTokens(st)
  /\ IF account[st].linked
     THEN Become(p, [Idle EXCEPT !.who = st, !.pc = "downgrade"])
     ELSE Done(p)
  /\ UNCHANGED <<rows, nextRow, note, currentCost, remote, nextSub, acks, cron>>

Downgrade(p) ==
  LET mine == {r \in Existing : /\ StreamerOf[rows[r].slot] = task[p].who
                                /\ rows[r].app \in Internal}
  IN  /\ At(p, "downgrade")
      /\ IF Internal = {} THEN Return(p)
         ELSE Become(p, [task[p] EXCEPT !.pc = "downgradeNext", !.todo = Entities(mine)])
      /\ UNCHANGED shared

\* Next row of the loop: a row with a paid notification moves to the least
\* loaded app (or stays when there is none), any other is deactivated.
DowngradeNext(p) ==
  /\ At(p, "downgradeNext")
  /\ IF task[p].todo = {} THEN Return(p)
     ELSE \E e \in task[p].todo :
       LET next == [task[p] EXCEPT !.row = e.id, !.seen = e.row, !.todo = @ \ {e}]
       IN IF NotesOf(e.id) \cap Paid # {}
          THEN \E a \in FindLeastLoaded :
                 Become(p, IF a = Null THEN next
                   ELSE [next EXCEPT !.pc = "downgradeRegister", !.app = a])
          ELSE Become(p, [next EXCEPT !.pc = "dropRemote"])
  /\ UNCHANGED shared

\* The catch of a failed registration leaves the row as it is.
DowngradeRegister(p) ==
  /\ At(p, "downgradeRegister")
  /\ \/ /\ \E c \in Costs : CreateRemote(task[p].row, task[p].app, c)
        /\ Become(p, [task[p] EXCEPT !.pc = "downgradeDelete", !.sub = nextSub])
     \/ /\ "register_fails" \in Events
        /\ Goto(p, "downgradeNext")
        /\ UNCHANGED <<remote, nextSub>>
  /\ UNCHANGED <<rows, nextRow, note, currentCost, account, acks, cron>>

DowngradeRecordKeepsApp(p) ==
  LET t == task[p]
  IN  /\ At(p, "downgradeRecord")
      /\ UpdateRow(t.row, [rows[t.row] EXCEPT !.sub = t.sub,
                              !.cost = remote[t.sub].cost, !.status = "pending"])
      /\ Goto(p, "downgradeConsume")
      /\ UNCHANGED <<nextRow, note, currentCost, account, remote, nextSub, acks, cron>>

DowngradeRecord(p) ==
  LET t == task[p]
  IN  /\ At(p, "downgradeRecord")
      /\ UpdateRow(t.row, [rows[t.row] EXCEPT !.sub = t.sub, !.app = t.app,
                              !.cost = remote[t.sub].cost, !.status = "pending"])
      /\ Goto(p, "downgradeConsume")
      /\ UNCHANGED <<nextRow, note, currentCost, account, remote, nextSub, acks, cron>>

Deactivate(p) ==
  /\ At(p, "deactivate")
  /\ UpdateRow(task[p].row, [rows[task[p].row] EXCEPT !.status = "deactivated"])
  /\ Goto(p, "suspend")
  /\ UNCHANGED <<nextRow, note, currentCost, account, remote, nextSub, acks, cron>>

SuspendNotifications(p) ==
  /\ At(p, "suspend")
  /\ note' = [n \in Notes |-> IF note[n].row = task[p].row
                              THEN [note[n] EXCEPT !.active = FALSE] ELSE note[n]]
  /\ Goto(p, "downgradeNext")
  /\ UNCHANGED <<rows, nextRow, currentCost, account, remote, nextSub, acks, cron>>

-----------------------------------------------------------------------------
(* The hourly syncStaleSubscriptions                                        *)

\* The columns the query selects; createdAt is filtered on, not selected.
Selected == {"id", "subscriptionId", "eventStatus", "twitchApp"}

\* ageMs > hourMs: NaN, hence false, for an entity without createdAt.
OlderThanAnHour(e) == "createdAt" \in Selected /\ e.row.aged

\* isFailed, from what Twitch lists for the entity's subscription.
IsFailed(e) == e.row.sub = 0 \/ remote[e.row.sub].state \in {"deleted", "failed", "revoked"}

SyncRead ==
  /\ "sync" \in Ops
  /\ cron.pc = "idle"
  /\ LET stale == {r \in Existing : rows[r].status = "pending" /\ rows[r].aged}
     IN  cron' = [CronIdle EXCEPT !.pc = "query", !.stale = Entities(stale)]
  /\ UNCHANGED <<rows, nextRow, note, currentCost, account, remote, nextSub, acks, task>>

\* getSubscriptions of every app; one that throws ends the run for all of them.
SyncQueryAgesBoth ==
  /\ cron.pc = "query"
  /\ \/ cron' = [cron EXCEPT !.pc = "enable",
                    !.toEnable = {e \in cron.stale : ~IsFailed(e) /\ OlderThanAnHour(e)},
                    !.toDelete = {e \in cron.stale : IsFailed(e) /\ OlderThanAnHour(e)}]
     \/ "list_fails" \in Events /\ cron' = CronIdle
  /\ UNCHANGED <<rows, nextRow, note, currentCost, account, remote, nextSub, acks, task>>

SyncQuery ==
  /\ cron.pc = "query"
  /\ \/ cron' = [cron EXCEPT !.pc = "enable",
                    !.toEnable = {e \in cron.stale : ~IsFailed(e)},
                    !.toDelete = {e \in cron.stale : IsFailed(e) /\ OlderThanAnHour(e)}]
     \/ "list_fails" \in Events /\ cron' = CronIdle
  /\ UNCHANGED <<rows, nextRow, note, currentCost, account, remote, nextSub, acks, task>>

SetStatus(R, s) ==
  rows' = [r \in RowIds |-> IF r \in R /\ rows[r] # Null
                            THEN [rows[r] EXCEPT !.status = s] ELSE rows[r]]

\* update() rejects an empty list of criteria, which ends the run.
SyncEnable ==
  /\ cron.pc = "enable"
  /\ IF cron.toEnable = {} THEN cron' = CronIdle /\ UNCHANGED rows
     ELSE /\ SetStatus({e.id : e \in cron.toEnable}, "verified")
          /\ cron' = [cron EXCEPT !.pc = "revoke"]
  /\ UNCHANGED <<nextRow, note, currentCost, account, remote, nextSub, acks, task>>

\* Statuses and counters of the failed rows, by what Twitch listed of them.
SyncRevoke ==
  LET listed(a) == {e \in cron.toDelete : /\ e.row.app = a /\ e.row.sub # 0
                                          /\ remote[e.row.sub].state # "deleted"}
      total(a) == MapThenSumSet(LAMBDA e : remote[e.row.sub].cost, listed(a))
  IN  /\ cron.pc = "revoke"
      /\ cron' = CronIdle
      /\ IF cron.toDelete = {} THEN UNCHANGED <<rows, currentCost>>
         ELSE /\ SetStatus({e.id : e \in cron.toDelete}, "revoked")
              /\ currentCost' = [a \in Apps |-> currentCost[a] - total(a)]
      /\ UNCHANGED <<nextRow, note, account, remote, nextSub, acks, task>>

-----------------------------------------------------------------------------
(* The twitch.subscriptions queue: every message is applied by a promise    *)
(* nobody awaits and acknowledged at once, so in any order, or never.       *)

ApplyStatus(m) ==
  /\ m \in acks
  /\ \/ SetStatus({m.row}, m.status)
     \/ "lose_message" \in Events /\ UNCHANGED rows
  /\ acks' = acks \ {m}
  /\ UNCHANGED <<nextRow, note, currentCost, account, remote, nextSub, task, cron>>

-----------------------------------------------------------------------------
(* Twitch, the webhook-receiver in front of it, and time                    *)

SetRemote(s, from, to) ==
  /\ remote[s] # Null
  /\ remote[s].state = from
  /\ remote' = [remote EXCEPT ![s].state = to]

\* The receiver answers the challenge and publishes "verified".
Challenge(s) ==
  /\ "challenge" \in Events
  /\ SetRemote(s, "pending", "enabled")
  /\ acks' = acks \cup {[row |-> remote[s].row, sub |-> s, status |-> "verified"]}
  /\ UNCHANGED <<rows, nextRow, note, currentCost, account, nextSub, task, cron>>

ChallengeFails(s) ==
  /\ "challenge_fails" \in Events
  /\ SetRemote(s, "pending", "failed")
  /\ UNCHANGED <<rows, nextRow, note, currentCost, account, nextSub, acks, task, cron>>

\* Twitch revokes a subscription; the receiver publishes "revoked".
Revoke(s) ==
  /\ "revoke" \in Events
  /\ SetRemote(s, "enabled", "revoked")
  /\ acks' = acks \cup {[row |-> remote[s].row, sub |-> s, status |-> "revoked"]}
  /\ UNCHANGED <<rows, nextRow, note, currentCost, account, nextSub, task, cron>>

\* The streamer withdraws the grant in the Twitch settings.
WithdrawGrant(st) ==
  /\ "withdraw" \in Events
  /\ account[st].granted
  /\ account' = [account EXCEPT ![st].granted = FALSE]
  /\ UNCHANGED <<rows, nextRow, note, currentCost, remote, nextSub, acks, task, cron>>

\* Twenty-four hours pass for a row.
Age(r) ==
  /\ "sync" \in Ops
  /\ rows[r] # Null
  /\ ~rows[r].aged
  /\ rows' = [rows EXCEPT ![r].aged = TRUE]
  /\ UNCHANGED <<nextRow, note, currentCost, account, remote, nextSub, acks, task, cron>>

\* The process restarts: every operation in flight is forgotten.
Crash ==
  /\ "crash" \in Events
  /\ \E p \in Tasks : ~At(p, "idle")
  /\ task' = [p \in Tasks |-> Idle]
  /\ cron' = CronIdle
  /\ UNCHANGED <<rows, nextRow, note, currentCost, account, remote, nextSub, acks>>

-----------------------------------------------------------------------------

Init ==
  /\ rows = [r \in RowIds |-> Null]
  /\ nextRow = 1
  /\ note = [n \in Notes |-> [row |-> 0, active |-> FALSE]]
  /\ currentCost = [a \in Apps |-> 0]
  /\ account = [st \in Streamers |->
                 [linked |-> FALSE, personal |-> FALSE, token |-> FALSE, granted |-> FALSE]]
  /\ remote = [s \in SubIds |-> Null]
  /\ nextSub = 1
  /\ acks = {}
  /\ task = [p \in Tasks |-> Idle]
  /\ cron = CronIdle

Request(p) ==
  \/ \E s \in Slots, n \in Notes : CreateNotification(p, s, n)
  \/ \E s \in Slots : AdminRegister(p, s)
  \/ \E n \in Notes : DeleteNotification(p, n)
  \/ \E r \in RowIds : AdminDelete(p, r)
  \/ \E s \in SubIds : DeleteTwitchOnly(p, s)
  \/ \E st \in Streamers : LinkTwitch(p, st) \/ UnlinkTwitch(p, st)
  \/ \E st \in Streamers, b \in BOOLEAN : SetTwitchPersonalAuth(p, st, b)

TokenCron(p) == \E st \in Streamers : RefreshExpiringTokens(p, st)

Proceed(p) ==
  \/ GetOrCreateStreamer(p) \/ TryRegisterWithUserToken(p)
  \/ PickApp(p) \/ InsertRow(p) \/ RegisterWithApp(p)
  \/ RegisterWithUser(p) \/ UndoRow(p) \/ RecordSubscription(p)
  \/ ConsumeCost(p) \/ Attach(p)
  \/ CleanupIfUnused(p) \/ DeleteLocal(p) \/ DeleteRemote(p)
  \/ ReleaseCost(p) \/ DeleteLocalRow(p)
  \/ Migrate(p) \/ MigrateNext(p) \/ MigrateRecord(p)
  \/ StoreTokens(p) \/ UnlinkAccount(p) \/ ForgetTokens(p)
  \/ Downgrade(p) \/ DowngradeNext(p) \/ DowngradeRegister(p)
  \/ DowngradeRecord(p) \/ Deactivate(p) \/ SuspendNotifications(p)

Sync == SyncRead \/ SyncQuery \/ SyncEnable \/ SyncRevoke

Queue == \E m \in acks : ApplyStatus(m)

Environment ==
  \/ \E s \in SubIds : Challenge(s) \/ ChallengeFails(s) \/ Revoke(s)
  \/ \E st \in Streamers : WithdrawGrant(st)
  \/ \E r \in RowIds : Age(r)
  \/ Crash

Next ==
  \/ \E p \in Tasks : Request(p) \/ TokenCron(p) \/ Proceed(p)
  \/ Sync
  \/ Queue
  \/ Environment

Spec == Init /\ [][Next]_vars

\* The fairness of the event loop: what is in flight proceeds, the cron jobs
\* run again and again, Twitch's listing answers in the end, time passes.
Fairness ==
  /\ \A p \in Tasks : WF_vars(Proceed(p)) /\ SF_vars(TokenCron(p))
  /\ WF_vars(SyncRead) /\ WF_vars(SyncEnable) /\ WF_vars(SyncRevoke)
  /\ SF_vars(SyncQuery /\ cron'.pc = "enable")
  /\ WF_vars(Queue)
  /\ \A r \in RowIds : WF_vars(Age(r))

FairSpec == Spec /\ Fairness

-----------------------------------------------------------------------------
(* Properties                                                               *)

\* The program points between two awaits, by what the operation holds there.
SlotPcs == {"register", "userToken", "pickApp", "insertUser", "insertApp", "twitchUser", "undo"}
AppPcs == {"insertUser", "insertApp", "twitchUser", "twitchApp", "recordUser",
           "recordApp", "consume", "migrateRecord", "downgradeRegister",
           "downgradeDelete", "downgradeRecord", "downgradeConsume"}
RowPcs == {"twitchUser", "twitchApp", "undo", "recordUser", "recordApp", "consume",
           "attach", "cleanup", "deleteLocal", "deleteRemote", "release", "removeRow",
           "migrateRecord", "migrateDelete", "migrateRelease", "downgradeRegister",
           "downgradeDelete", "downgradeRecord", "downgradeConsume",
           "dropRemote", "deactivate", "suspend"}
SeenPcs == {"deleteRemote", "release", "migrateRecord", "migrateDelete",
            "migrateRelease", "downgradeRegister", "downgradeDelete", "dropRemote"}
SubPcs == {"recordUser", "recordApp", "consume", "deleteOrphan", "migrateRecord",
           "downgradeDelete", "downgradeRecord", "downgradeConsume"}
WhoPcs == {"storeTokens", "forgetTokens", "migrate", "migrateNext", "migrateRecord", "migrateDelete",
           "migrateRelease", "unlink", "downgrade"}
Pcs == {"idle", "downgradeNext"} \cup SlotPcs \cup AppPcs \cup RowPcs \cup SeenPcs \cup SubPcs \cup WhoPcs

Task == [pc: Pcs, ret: {"idle", "attach", "unlink"}, slot: Slots \cup {Null},
         who: Streamers \cup {Null}, row: RowIds \cup {0}, seen: Row \cup {Null},
         sub: SubIds \cup {0}, app: Apps \cup {Null}, todo: SUBSET Entity,
         note: Notes \cup {Null}]

\* What the code at t.pc reads is there: a row it loaded, an id it was given.
Loaded(t) ==
  /\ t.pc \in SlotPcs => t.slot \in Slots
  /\ t.pc \in AppPcs => t.app \in Apps
  /\ t.pc \in RowPcs => t.row \in RowIds
  /\ t.pc \in SeenPcs => t.seen \in Row
  /\ t.pc \in SubPcs => t.sub \in SubIds /\ remote[t.sub] \in Remote
  /\ t.pc \in WhoPcs \/ t.ret = "unlink" => t.who \in Streamers

\* The types of the database, of Twitch and of the operations in flight.
TypeOK ==
  /\ rows \in [RowIds -> Row \cup {Null}]
  /\ nextRow \in Nat \ {0}
  /\ note \in [Notes -> [row: RowIds \cup {0}, active: BOOLEAN]]
  /\ currentCost \in [Apps -> Int]
  /\ account \in [Streamers -> Account]
  /\ remote \in [SubIds -> Remote \cup {Null}]
  /\ nextSub \in Nat \ {0}
  /\ acks \subseteq Ack
  /\ task \in [Tasks -> Task]
  /\ cron \in [pc: {"idle", "query", "enable", "revoke"}, stale: SUBSET Entity,
               toEnable: SUBSET Entity, toDelete: SUBSET Entity]
  /\ \A p \in Tasks : Loaded(task[p])

\* However operations interleave, the subscription a row refers to calls back
\* to that very row, so no two rows share one and the unique constraint on
\* subscription_id never rejects the update of a registration.
OwnSubscription ==
  \A r \in Existing : rows[r].sub # 0 =>
    remote[rows[r].sub] # Null /\ remote[rows[r].sub].row = r

\* Tasks that passed the capacity check of an app and may still consume.
ConsumingPcs == {"insertApp", "twitchApp", "recordApp", "consume", "downgradeRegister",
                 "downgradeDelete", "downgradeRecord", "downgradeConsume"}
Consuming(a) == {p \in Tasks : task[p].app = a /\ task[p].pc \in ConsumingPcs}

\* The capacity check and the increment are awaits apart: an app may exceed its
\* max_cost, but by less than one subscription per operation in flight.
CapacityBounded ==
  \A a \in Apps : currentCost[a] < MaxCost[a] + CostBound * Cardinality(Tasks)

Settled == \A p \in Tasks : At(p, "idle")

Live(s) == remote[s] # Null /\ remote[s].state \in {"pending", "enabled"}

\* With no operation in flight, an app's counter is the cost of its rows.
LedgerSettled ==
  Settled => \A a \in Apps :
    currentCost[a] = MapThenSumSet(LAMBDA r : rows[r].cost,
                                   {r \in Existing : rows[r].app = a})

\* With no operation in flight, a live subscription is some row's own: none is
\* left to deliver to a row that forgot it, or to no row at all.
NoLeak ==
  Settled => \A s \in SubIds : Live(s) => \E r \in Existing : rows[r].sub = s

\* With no operation in flight, a row's subscription is on the row's app, whose
\* client id any later deletion or listing will use.
OnItsApp ==
  Settled => \A r \in Existing :
    rows[r].sub # 0 => remote[rows[r].sub].app = rows[r].app

Undeleted(r) == {s \in SubIds : /\ remote[s] # Null
                                /\ remote[s].row = r
                                /\ remote[s].state # "deleted"}

\* The row is deleted or deactivated, or an operation is about to make it so.
GivenUp(r) ==
  \/ rows[r] = Null
  \/ rows[r].status = "deactivated"
  \/ \E p \in Tasks : /\ task[p].row = r
                      /\ task[p].pc \in {"deleteRemote", "release", "removeRow",
                                        "dropRemote", "deactivate"}

\* The service deletes the last subscription of a row only when the row is
\* given up: a move registers the new subscription before it deletes the old.
MakeBeforeBreak ==
  [][\A r \in RowIds : Undeleted(r) # {} /\ Undeleted(r)' = {} => GivenUp(r)]_vars

Stuck(r, s) ==
  /\ rows[r] # Null /\ rows[r].status = "pending" /\ rows[r].sub = s
  /\ remote[s].state = "enabled"

\* A "verified" message may be lost; the hourly job still marks the row.
LostVerificationHeals ==
  \A r \in RowIds, s \in SubIds : []<>(~Stuck(r, s))

Cancelled(r, s) ==
  /\ rows[r] # Null /\ rows[r].status = "pending" /\ rows[r].sub = s
  /\ remote[s].state \in {"failed", "revoked"}

\* "REVOKED: Twitch cancelled the subscription": a pending row whose
\* subscription Twitch cancelled does not stay pending.
CancelledIsRevoked ==
  \A r \in RowIds, s \in SubIds : []<>(~Cancelled(r, s))
=============================================================================
