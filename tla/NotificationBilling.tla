------------------------- MODULE NotificationBilling -------------------------
(***************************************************************************)
(* Creating, deleting and paying for the notifications of one event of one   *)
(* streamer: TwitchNotificationsService of the api, with the balances of     *)
(* users and guilds it charges.                                              *)
(*                                                                         *)
(* A request is a task; each action is what happens up to the next await.    *)
(* Nothing runs in a transaction.  Registration and deletion at Twitch are   *)
(* in TwitchSubscriptions; here an event is a row that exists or not.        *)
(***************************************************************************)
EXTENDS Integers, FiniteSets

CONSTANTS
  Users, Guilds,
  Tasks,        \* requests in flight at once
  Ops,          \* what the tasks may do
  Start,        \* BASE_BALANCE
  StartGuild,   \* BASE_GUILD_BALANCE
  Price,        \* NotificationPrice.STANDARD
  Amounts,      \* the balances an administrator sets
  MaxNotes,     \* bound on the notifications ever saved
  MaxRows,      \* bound on the event rows ever inserted
  MaxEdits,     \* bound on the balances set
  Null

Accounts == Users \cup Guilds

ASSUME BillingConstants ==
  /\ Start \in Nat /\ StartGuild \in Nat /\ Price \in Nat \ {0} /\ Amounts \subseteq Nat
  /\ MaxNotes \in Nat /\ MaxRows \in Nat /\ MaxEdits \in Nat
  /\ Users \cap Guilds = {}
  /\ Null \notin Accounts /\ Null \notin Int
  /\ IsFiniteSet(Tasks)

VARIABLES
  balance,      \* of every user; of a guild Null while it has no row
  allows,       \* the streamer allows personal subscriptions
  rows,         \* event rows
  notes,        \* notifications
  task,
  count,        \* notifications, event rows and edits of balances so far
  given,        \* credits ever given to an account: all but what was charged
  bought        \* notifications saved that the account was to pay for

vars == <<balance, allows, rows, notes, task, count, given, bought>>
ledger == <<given, bought>>

-----------------------------------------------------------------------------

Types == {"personal", "guild", "credit"}
Kinds == {"discord", "webhook"}
NoteIds == 1..MaxNotes
RowIds == 1..MaxRows

\* A notification's costType is not read again here: an update of it charges nothing
\* and gives nothing back, nor does a deletion.
Note == [id: NoteIds, row: RowIds, owner: Users, guild: Guilds \cup {Null}]

\* The body of a creation: its kind, the user, the guild (a webhook may have
\* none) and who is to pay.
Request == [kind: Kinds, user: Users, guild: Guilds \cup {Null}, type: Types]

Idle == [pc |-> "idle", req |-> Null, row |-> Null, note |-> Null,
         user |-> Null, seen |-> Null]

Goto(t, pc) == task' = [task EXCEPT ![t].pc = pc]
Finish(t) == task' = [task EXCEPT ![t] = Idle]

\* resolveCost
Cost(type) == IF type = "credit" THEN 0 ELSE Price

\* The account a creation charges; Null when it charges none.
Payer(r) ==
  CASE r.type = "personal" -> r.user
    [] r.type = "guild" -> r.guild
    [] OTHER -> Null

\* assertGuildBalance; of a user the same is asked.
HasBalance(a, amount) == balance[a] # Null /\ balance[a] >= amount

\* deductGuildBalance, and of a user the same: one UPDATE whose WHERE asks for the
\* balance again.
Deduct(a, amount) ==
  /\ HasBalance(a, amount)
  /\ balance' = [balance EXCEPT ![a] = @ - amount]

-----------------------------------------------------------------------------
(* Creation                                                                 *)

\* assertCanAfford; the endpoints give a Discord notification a guild.
Create(t, r) ==
  /\ "create" \in Ops
  /\ task[t].pc = "idle"
  /\ r.kind = "discord" => r.guild # Null
  /\ CASE r.type = "credit" -> allows
       [] OTHER -> Payer(r) # Null /\ HasBalance(Payer(r), Cost(r.type))
  /\ task' = [task EXCEPT ![t] = [Idle EXCEPT !.pc = "event", !.req = r]]
  /\ UNCHANGED <<balance, allows, rows, notes, count, ledger>>

\* getOrCreateEvent: the row there is, or a new one; registration may fail, and
\* may leave its row.
GetOrCreateEvent(t) ==
  LET new == count.row + 1
      insert == /\ count.row < MaxRows
                /\ rows' = rows \cup {new}
                /\ count' = [count EXCEPT !.row = new]
  IN  /\ task[t].pc = "event"
      /\ \/ /\ \E e \in rows : task' = [task EXCEPT ![t].pc = "payload", ![t].row = e]
            /\ UNCHANGED <<rows, count>>
         \/ /\ rows = {}
            /\ \/ insert /\ task' = [task EXCEPT ![t].pc = "payload", ![t].row = new]
               \/ insert /\ Finish(t)
               \/ Finish(t) /\ UNCHANGED <<rows, count>>
      /\ UNCHANGED <<balance, allows, notes, ledger>>

ValidatePayloadUnchecked(t) ==
  /\ task[t].pc = "payload"
  /\ \/ Finish(t)
     \/ Goto(t, IF task[t].req.kind = "webhook" THEN "guild" ELSE "charge")
  /\ UNCHANGED <<balance, allows, rows, notes, count, ledger>>

\* The payload, or the address of the webhook, is refused, or it goes on: a
\* webhook of a guild fetches the guild before it is charged.
ValidatePayload(t) ==
  LET r == task[t].req
  IN  /\ task[t].pc = "payload"
      /\ \/ Finish(t)
         \/ Goto(t, IF r.kind = "webhook" /\ r.guild # Null THEN "guild" ELSE "charge")
      /\ UNCHANGED <<balance, allows, rows, notes, count, ledger>>

AfterGuild(t) == Goto(t, IF task[t].req.kind = "discord" THEN "save" ELSE "charge")

\* getOrCreateGuild
FindGuild(t) ==
  /\ task[t].pc = "guild"
  /\ IF balance[task[t].req.guild] # Null THEN AfterGuild(t) ELSE Goto(t, "newGuild")
  /\ UNCHANGED <<balance, allows, rows, notes, count, ledger>>

\* guild_id is unique: who comes second fails.
SaveGuild(t) ==
  LET g == task[t].req.guild
  IN  /\ task[t].pc = "newGuild"
      /\ IF balance[g] # Null
         THEN Finish(t) /\ UNCHANGED <<balance, given>>
         ELSE /\ balance' = [balance EXCEPT ![g] = StartGuild]
              /\ given' = [given EXCEPT ![g] = StartGuild]
              /\ AfterGuild(t)
      /\ UNCHANGED <<allows, rows, notes, count, bought>>

AfterCharge(t) ==
  Goto(t, IF task[t].req.kind = "discord" THEN "guild" ELSE "save")

ApplyChargeUnguarded(t) ==
  LET r == task[t].req
  IN  /\ task[t].pc = "charge"
      /\ AfterCharge(t)
      /\ balance' = IF Payer(r) = Null THEN balance
                    ELSE [balance EXCEPT ![Payer(r)] = @ - Cost(r.type)]
      /\ UNCHANGED <<allows, rows, notes, count, ledger>>

ApplyChargePersonal(t) ==
  LET r == task[t].req
  IN  /\ task[t].pc = "charge"
      /\ AfterCharge(t)
      /\ r.type = "personal" => balance[r.user] >= Price
      /\ balance' = IF r.type = "personal" THEN [balance EXCEPT ![r.user] = @ - Price]
                    ELSE balance
      /\ UNCHANGED <<allows, rows, notes, count, ledger>>

\* applyCharge
ApplyCharge(t) ==
  LET r == task[t].req
      c == Cost(r.type)
      a == Payer(r)
  IN  /\ task[t].pc = "charge"
      /\ CASE c <= 0 -> AfterCharge(t) /\ UNCHANGED balance
           [] c > 0 /\ HasBalance(a, c) -> AfterCharge(t) /\ Deduct(a, c)
           [] OTHER -> Finish(t) /\ UNCHANGED balance
      /\ UNCHANGED <<allows, rows, notes, count, ledger>>

\* The insertion fails when the event is gone: the foreign key.
SaveNotification(t) ==
  LET r == task[t].req
      new == count.note + 1
  IN  /\ task[t].pc = "save"
      /\ count.note < MaxNotes
      /\ IF task[t].row \in rows
         THEN /\ notes' = notes \cup {[id |-> new, row |-> task[t].row, owner |-> r.user,
                                       guild |-> r.guild]}
              /\ count' = [count EXCEPT !.note = new]
              /\ bought' = [a \in Accounts |-> bought[a] + IF a = Payer(r) THEN 1 ELSE 0]
         ELSE UNCHANGED <<notes, count, bought>>
      /\ Finish(t)
      /\ UNCHANGED <<balance, allows, rows, given>>

-----------------------------------------------------------------------------
(* Deletion, edits, the rest                                                *)

Without(n) == {m \in notes : m.id # n.id}

\* deleteDiscordNotification, deleteWebhookNotification, removeDestination and
\* the updates load the notification; then access is asked for.
LoadNotification(t, op, n) ==
  /\ op \in Ops
  /\ task[t].pc = "idle"
  /\ task' = [task EXCEPT ![t] = [Idle EXCEPT !.pc = op, !.note = n]]
  /\ UNCHANGED <<balance, allows, rows, notes, count, ledger>>

\* remove() of a row that is gone already is no error.
RemoveNotification(t) ==
  /\ task[t].pc = "delete"
  /\ notes' = Without(task[t].note)
  /\ task' = [task EXCEPT ![t] = [Idle EXCEPT !.pc = "count", !.row = task[t].note.row]]
  /\ UNCHANGED <<balance, allows, rows, count, ledger>>

\* cleanupSubscriptionIfUnused
CountNotifications(t) ==
  /\ task[t].pc = "count"
  /\ IF \E n \in notes : n.row = task[t].row THEN Finish(t) ELSE Goto(t, "drop")
  /\ UNCHANGED <<balance, allows, rows, notes, count, ledger>>

\* A deletion of an event takes its notifications along.
DropEvent(e) ==
  /\ rows' = rows \ {e}
  /\ notes' = {n \in notes : n.row # e}

DeleteLocalSubscription(t) ==
  /\ task[t].pc = "drop"
  /\ DropEvent(task[t].row)
  /\ Finish(t)
  /\ UNCHANGED <<balance, allows, count, ledger>>

\* updateDiscordNotification, updateWebhookNotification: another costType is
\* stored, nothing is charged and the cost stays.  save() of a row that is gone
\* inserts it again; it fails when the event is gone too, and of a webhook, whose
\* columns were not all loaded.
UpdateNotification(t) ==
  LET n == task[t].note
  IN  /\ task[t].pc = "update"
      /\ \/ notes' = Without(n) \cup {n} /\ n.row \in rows
         \/ (\A m \in notes : m.id # n.id) /\ UNCHANGED notes
      /\ Finish(t)
      /\ UNCHANGED <<balance, allows, rows, count, ledger>>

AdminDelete(e) ==
  /\ "admin" \in Ops
  /\ DropEvent(e)
  /\ UNCHANGED <<balance, allows, task, count, ledger>>

\* getUserGuildInfo, asked for by the members of a guild, creates its row too.
VisitGuild(g) ==
  /\ "visit" \in Ops
  /\ balance[g] = Null
  /\ balance' = [balance EXCEPT ![g] = StartGuild]
  /\ given' = [given EXCEPT ![g] = StartGuild]
  /\ UNCHANGED <<allows, rows, notes, task, count, bought>>

\* updateUserBalance; what is given is what the balance rises by.
UpdateUserBalance(u, b) ==
  /\ "balance" \in Ops
  /\ b # balance[u]
  /\ count.edits < MaxEdits
  /\ balance' = [balance EXCEPT ![u] = b]
  /\ given' = [given EXCEPT ![u] = @ + b - balance[u]]
  /\ count' = [count EXCEPT !.edits = @ + 1]
  /\ UNCHANGED <<allows, rows, notes, task, bought>>

\* authByDiscordCode and updateUserRoles load a user to save it again.
LoadUser(t, u) ==
  /\ "login" \in Ops
  /\ task[t].pc = "idle"
  /\ task' = [task EXCEPT ![t] = [Idle EXCEPT !.pc = "saveUser", !.user = u,
                                           !.seen = balance[u]]]
  /\ UNCHANGED <<balance, allows, rows, notes, count, ledger>>

\* save() writes the columns in which the entity differs from the row, the
\* balance read before among them: charges made since are given back.
SaveUser(t) ==
  LET u == task[t].user
  IN  /\ task[t].pc = "saveUser"
      /\ balance' = [balance EXCEPT ![u] = task[t].seen]
      /\ given' = [given EXCEPT ![u] = @ + task[t].seen - balance[u]]
      /\ Finish(t)
      /\ UNCHANGED <<allows, rows, notes, count, bought>>

\* setTwitchPersonalAuth
SetPersonal ==
  /\ "personal" \in Ops
  /\ allows' = ~allows
  /\ UNCHANGED <<balance, rows, notes, task, count, ledger>>

-----------------------------------------------------------------------------

Init ==
  /\ balance = [a \in Accounts |-> IF a \in Users THEN Start ELSE Null]
  /\ allows = FALSE
  /\ rows = {}
  /\ notes = {}
  /\ task = [t \in Tasks |-> Idle]
  /\ count = [note |-> 0, row |-> 0, edits |-> 0]
  /\ given = [a \in Accounts |-> IF a \in Users THEN Start ELSE 0]
  /\ bought = [a \in Accounts |-> 0]

Step(t) ==
  \/ \E r \in Request : Create(t, r)
  \/ GetOrCreateEvent(t) \/ ValidatePayload(t)
  \/ FindGuild(t) \/ SaveGuild(t)
  \/ ApplyCharge(t) \/ SaveNotification(t)
  \/ \E op \in {"delete", "update"}, n \in notes : LoadNotification(t, op, n)
  \/ RemoveNotification(t) \/ UpdateNotification(t)
  \/ CountNotifications(t) \/ DeleteLocalSubscription(t)
  \/ \E u \in Users : LoadUser(t, u)
  \/ SaveUser(t)

Next ==
  \/ \E t \in Tasks : Step(t)
  \/ \E e \in rows : AdminDelete(e)
  \/ \E g \in Guilds : VisitGuild(g)
  \/ \E u \in Users, b \in Amounts : UpdateUserBalance(u, b)
  \/ SetPersonal

Spec == Init /\ [][Next]_vars

-----------------------------------------------------------------------------
(* Properties                                                               *)

CreationSteps == {"event", "payload", "guild", "newGuild", "charge", "save"}

TaskOK(k) ==
  /\ k.pc \in {"idle", "delete", "update", "count", "drop", "saveUser"} \cup CreationSteps
  /\ k.pc \in CreationSteps => k.req \in Request
  /\ k.pc \in CreationSteps /\ k.req.kind = "discord" => k.req.guild # Null
  /\ k.pc \in CreationSteps \ {"event"} => k.row \in RowIds
  /\ k.pc \in {"guild", "newGuild"} => k.req.guild \in Guilds
  /\ k.pc \in CreationSteps /\ k.req.type # "credit" => Payer(k.req) \in Accounts
  /\ k.pc \in {"delete", "update"} => k.note \in Note
  /\ k.pc \in {"count", "drop"} => k.row \in RowIds
  /\ k.pc = "saveUser" => k.user \in Users /\ k.seen \in Int

\* The types; a step finds in its task what the steps before left there, the
\* account it is to charge and the guild it is to create among them.
TypeOK ==
  /\ balance \in [Accounts -> Int \cup {Null}]
  /\ \A u \in Users : balance[u] # Null
  /\ allows \in BOOLEAN
  /\ rows \subseteq RowIds
  /\ notes \subseteq Note
  /\ \A t \in Tasks : TaskOK(task[t])

\* "The limit is checked before any addition": however many creations passed
\* assertCanAfford together, none takes a balance below zero.
NoOverdraft == \A a \in Accounts : balance[a] # Null => balance[a] >= 0

\* Creations that have charged the account and not saved yet.
HasCharged(k) ==
  \/ k.pc = "save"
  \/ k.pc \in {"guild", "newGuild"} /\ k.req.kind = "discord"

Charged(a) == {t \in Tasks : HasCharged(task[t]) /\ Payer(task[t].req) = a}

Spent(a) == given[a] - (IF balance[a] = Null THEN 0 ELSE balance[a])

\* Every notification somebody was to pay for, and every one about to be saved,
\* has been paid by that account.  A stale save of a user that brings credits
\* back gives them (SaveUser); the price was taken before.
NothingUnpaid ==
  \A a \in Accounts : Spent(a) >= Price * (bought[a] + Cardinality(Charged(a)))
=============================================================================
