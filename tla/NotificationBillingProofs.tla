---------------------- MODULE NotificationBillingProofs ----------------------
(* What holds of NotificationBilling for every value of its constants.        *)
EXTENDS NotificationBilling, TLAPS, FiniteSetTheorems

Pcs == {"idle", "delete", "update", "count", "drop", "saveUser"} \cup CreationSteps

Task == [pc: Pcs, req: Request \cup {Null}, row: RowIds \cup {Null}, note: Note \cup {Null},
         user: Users \cup {Null}, seen: Nat \cup {Null}]

\* The types, with what the counters and the fields of a task range over; an
\* account without a row was given nothing.
IInv ==
  /\ TypeOK
  /\ NoOverdraft
  /\ task \in [Tasks -> Task]
  /\ count \in [note: Nat, row: Nat, edits: Nat]
  /\ given \in [Accounts -> Int] /\ bought \in [Accounts -> Nat]
  /\ \A a \in Accounts : balance[a] = Null => given[a] = 0

-----------------------------------------------------------------------------

LEMMA IdleOK == Idle \in Task /\ TaskOK(Idle)
  BY DEF Idle, Task, Pcs, TaskOK, CreationSteps

LEMMA InitInv == Init => IInv
  <1> SUFFICES ASSUME Init PROVE IInv
    OBVIOUS
  <1> USE BillingConstants DEF Init
  <1>1. task \in [Tasks -> Task] /\ \A t \in Tasks : TaskOK(task[t])
    BY IdleOK
  <1>2. TypeOK
    <2>1. balance \in [Accounts -> Int \cup {Null}] /\ \A u \in Users : balance[u] # Null
      BY DEF Accounts
    <2>2. allows \in BOOLEAN /\ rows \subseteq RowIds /\ notes \subseteq Note
      OBVIOUS
    <2> QED
      BY <1>1, <2>1, <2>2 DEF TypeOK
  <1>3. NoOverdraft
    BY DEF NoOverdraft, Accounts
  <1>4. /\ count \in [note: Nat, row: Nat, edits: Nat]
        /\ given \in [Accounts -> Int] /\ bought \in [Accounts -> Nat]
    BY DEF Accounts
  <1>5. \A a \in Accounts : balance[a] = Null => given[a] = 0
    BY DEF Accounts
  <1> QED
    BY <1>1, <1>2, <1>3, <1>4, <1>5 DEF IInv

\* A step that only moves one task keeps the invariant when the new value of the
\* task is as it should be.
LEMMA TaskStep ==
  ASSUME IInv, NEW t \in Tasks, NEW k \in Task, TaskOK(k), task' = [task EXCEPT ![t] = k]
  PROVE  task' \in [Tasks -> Task] /\ \A s \in Tasks : TaskOK(task'[s])
  BY DEF IInv, TypeOK

\* Moving a task to another point of the creation.
LEMMA GotoStep ==
  ASSUME IInv, NEW t \in Tasks, NEW pc \in Pcs, Goto(t, pc),
         TaskOK([task[t] EXCEPT !.pc = pc])
  PROVE  task' \in [Tasks -> Task] /\ \A s \in Tasks : TaskOK(task'[s])
  <1> DEFINE k == [task[t] EXCEPT !.pc = pc]
  <1>1. k \in Task
    BY DEF IInv, Task
  <1>2. task' = [task EXCEPT ![t] = k]
    BY DEF Goto, IInv
  <1> QED
    BY <1>1, <1>2, TaskStep

LEMMA FinishStep ==
  ASSUME IInv, NEW t \in Tasks, Finish(t)
  PROVE  task' \in [Tasks -> Task] /\ \A s \in Tasks : TaskOK(task'[s])
  BY IdleOK, TaskStep DEF Finish

\* What is left to show of a step that has moved its task.
Rest ==
  /\ balance' \in [Accounts -> Int \cup {Null}]
  /\ \A u \in Users : balance'[u] # Null
  /\ \A a \in Accounts : balance'[a] # Null => balance'[a] >= 0
  /\ allows' \in BOOLEAN
  /\ rows' \subseteq RowIds
  /\ notes' \subseteq Note
  /\ count' \in [note: Nat, row: Nat, edits: Nat]
  /\ given' \in [Accounts -> Int] /\ bought' \in [Accounts -> Nat]
  /\ \A a \in Accounts : balance'[a] = Null => given'[a] = 0

LEMMA Parts ==
  ASSUME Rest, task' \in [Tasks -> Task], \A s \in Tasks : TaskOK(task'[s])
  PROVE  IInv'
  BY DEF Rest, IInv, TypeOK, NoOverdraft, ledger

LEMMA SameRest ==
  ASSUME IInv, UNCHANGED <<balance, allows, rows, notes, count, ledger>>
  PROVE  Rest
  BY DEF Rest, IInv, TypeOK, NoOverdraft, ledger
-----------------------------------------------------------------------------

LEMMA CreateStep ==
  ASSUME IInv, NEW t \in Tasks, NEW r \in Request, Create(t, r)
  PROVE  IInv'
  <1> DEFINE k == [Idle EXCEPT !.pc = "event", !.req = r]
  <1>1. r.type # "credit" => Payer(r) \in Accounts
    BY DEF Create, Payer, Accounts, Request, Types
  <1>2. k \in Task /\ TaskOK(k)
    BY <1>1, BillingConstants DEF Create, Idle, Task, Pcs, TaskOK, CreationSteps
  <1>3. task' = [task EXCEPT ![t] = k]
    BY DEF Create
  <1>4. Rest
    BY SameRest DEF Create
  <1> QED
    BY <1>2, <1>3, <1>4, TaskStep, Parts

LEMMA GetOrCreateEventStep ==
  ASSUME IInv, NEW t \in Tasks, GetOrCreateEvent(t)
  PROVE  IInv'
  <1> DEFINE new == count.row + 1
  <1>1. task[t] \in Task /\ TaskOK(task[t]) /\ task[t].pc = "event"
    BY DEF IInv, TypeOK, GetOrCreateEvent
  <1>2. CASE UNCHANGED <<rows, count>>
    <2>1. Rest
      BY <1>2, SameRest DEF GetOrCreateEvent
    <2>2. CASE Finish(t)
      BY <2>1, <2>2, FinishStep, Parts
    <2>3. CASE \E e \in rows : task' = [task EXCEPT ![t].pc = "payload", ![t].row = e]
      <3>1. PICK e \in rows : task' = [task EXCEPT ![t].pc = "payload", ![t].row = e]
        BY <2>3
      <3> DEFINE k == [task[t] EXCEPT !.pc = "payload", !.row = e]
      <3>2. task' = [task EXCEPT ![t] = k]
        BY <1>1, <3>1 DEF Task, IInv
      <3>3. k \in Task /\ TaskOK(k)
        BY <1>1 DEF Task, TaskOK, Pcs, CreationSteps, IInv, TypeOK
      <3> QED
        BY <2>1, <3>2, <3>3, TaskStep, Parts
    <2>4. count.row + 1 # count.row
      BY DEF IInv
    <2> QED
      BY <1>2, <2>2, <2>3, <2>4 DEF GetOrCreateEvent, IInv
  <1>3. CASE count.row < MaxRows /\ rows' = rows \cup {new} /\ count' = [count EXCEPT !.row = new]
    <2>1. new \in RowIds
      BY <1>3, BillingConstants DEF RowIds, IInv
    <2>2. Rest
      BY <1>3, <2>1 DEF Rest, GetOrCreateEvent, IInv, TypeOK, NoOverdraft, ledger
    <2>3. CASE Finish(t)
      BY <2>2, <2>3, FinishStep, Parts
    <2>4. CASE task' = [task EXCEPT ![t].pc = "payload", ![t].row = new]
      <3> DEFINE k == [task[t] EXCEPT !.pc = "payload", !.row = new]
      <3>1. task' = [task EXCEPT ![t] = k]
        BY <1>1, <2>4 DEF Task, IInv
      <3>2. k \in Task /\ TaskOK(k)
        BY <1>1, <2>1 DEF Task, TaskOK, Pcs, CreationSteps
      <3> QED
        BY <2>2, <3>1, <3>2, TaskStep, Parts
    <2>5. count' # count
      BY <1>3 DEF IInv
    <2> QED
      BY <1>3, <2>3, <2>4, <2>5 DEF GetOrCreateEvent
  <1> QED
    BY <1>2, <1>3 DEF GetOrCreateEvent

LEMMA ValidatePayloadStep ==
  ASSUME IInv, NEW t \in Tasks, ValidatePayload(t)
  PROVE  IInv'
  <1>1. Rest
    BY SameRest DEF ValidatePayload
  <1>2. CASE Finish(t)
    BY <1>1, <1>2, FinishStep, Parts
  <1>3. CASE Goto(t, "guild") /\ task[t].req.guild # Null
    <2>1. TaskOK([task[t] EXCEPT !.pc = "guild"])
      BY <1>3 DEF ValidatePayload, IInv, TypeOK, Task, TaskOK, CreationSteps, Request
    <2> QED
      BY <1>1, <1>3, <2>1, GotoStep, Parts DEF Pcs, CreationSteps
  <1>4. CASE Goto(t, "charge")
    <2>1. TaskOK([task[t] EXCEPT !.pc = "charge"])
      BY DEF ValidatePayload, IInv, TypeOK, Task, TaskOK, CreationSteps
    <2> QED
      BY <1>1, <1>4, <2>1, GotoStep, Parts DEF Pcs, CreationSteps
  <1> QED
    BY <1>2, <1>3, <1>4 DEF ValidatePayload

\* After getOrCreateGuild.
LEMMA AfterGuildStep ==
  ASSUME IInv, NEW t \in Tasks, task[t].pc \in {"guild", "newGuild"}, AfterGuild(t)
  PROVE  task' \in [Tasks -> Task] /\ \A s \in Tasks : TaskOK(task'[s])
  <1> DEFINE pc == IF task[t].req.kind = "discord" THEN "save" ELSE "charge"
  <1>1. pc \in Pcs
    BY DEF Pcs, CreationSteps
  <1>2. TaskOK([task[t] EXCEPT !.pc = pc])
    BY DEF IInv, TypeOK, Task, TaskOK, CreationSteps
  <1> QED
    BY <1>1, <1>2, GotoStep DEF AfterGuild

LEMMA FindGuildStep ==
  ASSUME IInv, NEW t \in Tasks, FindGuild(t)
  PROVE  IInv'
  <1>1. Rest
    BY SameRest DEF FindGuild
  <1>2. CASE AfterGuild(t)
    BY <1>1, <1>2, AfterGuildStep, Parts DEF FindGuild
  <1>3. CASE Goto(t, "newGuild")
    <2>1. TaskOK([task[t] EXCEPT !.pc = "newGuild"])
      BY DEF FindGuild, IInv, TypeOK, Task, TaskOK, CreationSteps
    <2> QED
      BY <1>1, <1>3, <2>1, GotoStep, Parts DEF Pcs, CreationSteps
  <1> QED
    BY <1>2, <1>3 DEF FindGuild

\* A guild gets its row.
LEMMA GuildRow ==
  ASSUME IInv, NEW g \in Guilds, balance' = [balance EXCEPT ![g] = StartGuild],
         given' = [given EXCEPT ![g] = StartGuild],
         UNCHANGED <<allows, rows, notes, count, bought>>
  PROVE  Rest
  BY BillingConstants DEF Rest, IInv, TypeOK, NoOverdraft, ledger, Accounts

LEMMA SaveGuildStep ==
  ASSUME IInv, NEW t \in Tasks, SaveGuild(t)
  PROVE  IInv'
  <1> DEFINE g == task[t].req.guild
  <1>1. g \in Guilds
    BY DEF SaveGuild, IInv, TypeOK, TaskOK, CreationSteps
  <1>2. CASE balance[g] # Null
    <2>1. Rest
      BY <1>2, SameRest DEF SaveGuild, ledger
    <2> QED
      BY <1>2, <2>1, FinishStep, Parts DEF SaveGuild
  <1>3. CASE balance[g] = Null
    <2>1. Rest
      BY <1>1, <1>3, GuildRow DEF SaveGuild
    <2> QED
      BY <1>3, <2>1, AfterGuildStep, Parts DEF SaveGuild
  <1> QED
    BY <1>2, <1>3

\* The charge is guarded by the balance it is taken from.
LEMMA ApplyChargeStep ==
  ASSUME IInv, NEW t \in Tasks, ApplyCharge(t)
  PROVE  IInv'
  <1> DEFINE r == task[t].req
             c == Cost(r.type)
             a == Payer(r)
             pc == IF r.kind = "discord" THEN "guild" ELSE "save"
  <1>1. TaskOK(task[t]) /\ task[t] \in Task /\ task[t].pc = "charge" /\ r \in Request
    BY DEF ApplyCharge, HasBalance, Deduct, IInv, TypeOK, TaskOK, CreationSteps
  <1>2. c \in Nat /\ (c > 0 => r.type # "credit")
    BY BillingConstants DEF Cost
  <1>3. c > 0 => a \in Accounts
    BY <1>1, <1>2 DEF TaskOK, CreationSteps
  <1>4. AfterCharge(t) => task' \in [Tasks -> Task] /\ \A s \in Tasks : TaskOK(task'[s])
    <2>1. pc \in Pcs
      BY DEF Pcs, CreationSteps
    <2>2. r.kind = "discord" => r.guild \in Guilds
      BY <1>1 DEF TaskOK, CreationSteps, Request
    <2>3. TaskOK([task[t] EXCEPT !.pc = pc])
      BY <1>1, <2>2 DEF Task, TaskOK, CreationSteps
    <2> QED
      BY <2>1, <2>3, GotoStep DEF AfterCharge
  <1>5. CASE c <= 0
    <2>1. Rest /\ AfterCharge(t)
      BY <1>1, <1>2, <1>5, SameRest DEF ApplyCharge, HasBalance, Deduct
    <2> QED
      BY <2>1, <1>4, Parts
  <1>6. CASE c > 0 /\ balance[a] # Null /\ balance[a] >= c
    <2>1. balance' = [balance EXCEPT ![a] = @ - c] /\ AfterCharge(t)
      BY <1>2, <1>6 DEF ApplyCharge, HasBalance, Deduct
    <2>2. Rest
      BY <1>2, <1>3, <1>6, <2>1, BillingConstants
      DEF Rest, ApplyCharge, HasBalance, Deduct, IInv, TypeOK, NoOverdraft, ledger, Accounts
    <2> QED
      BY <2>1, <2>2, <1>4, Parts
  <1>7. CASE c > 0 /\ ~(balance[a] # Null /\ balance[a] >= c)
    <2>1. Rest /\ Finish(t)
      BY <1>2, <1>7, SameRest DEF ApplyCharge, HasBalance, Deduct
    <2> QED
      BY <2>1, FinishStep, Parts
  <1> QED
    BY <1>2, <1>5, <1>6, <1>7
-----------------------------------------------------------------------------

LEMMA SaveNotificationStep ==
  ASSUME IInv, NEW t \in Tasks, SaveNotification(t)
  PROVE  IInv'
  <1> DEFINE r == task[t].req
             n == [id |-> count.note + 1, row |-> task[t].row, owner |-> r.user,
                   guild |-> r.guild]
  <1>1. r \in Request /\ task[t].row \in RowIds
    BY DEF SaveNotification, IInv, TypeOK, TaskOK, CreationSteps
  <1>2. n \in Note
    BY <1>1, BillingConstants DEF SaveNotification, IInv, Note, NoteIds, Request
  <1>3. CASE task[t].row \in rows
    <2>1. notes' = notes \cup {n}
      BY <1>3 DEF SaveNotification
    <2>2. count' \in [note: Nat, row: Nat, edits: Nat] /\ bought' \in [Accounts -> Nat]
      BY <1>3 DEF SaveNotification, IInv
    <2>3. Rest
      BY <1>2, <2>1, <2>2 DEF SaveNotification, Rest, IInv, TypeOK, NoOverdraft, ledger
    <2> QED
      BY <2>3, FinishStep, Parts DEF SaveNotification
  <1>4. CASE task[t].row \notin rows
    BY <1>4, SameRest, FinishStep, Parts DEF SaveNotification, ledger
  <1> QED
    BY <1>3, <1>4

LEMMA DeletionSteps ==
  ASSUME IInv, NEW t \in Tasks,
         \/ \E op \in {"delete", "update"}, n \in notes : LoadNotification(t, op, n)
         \/ RemoveNotification(t)
         \/ UpdateNotification(t)
         \/ CountNotifications(t)
         \/ DeleteLocalSubscription(t)
  PROVE  IInv'
  <1>1. CASE \E op \in {"delete", "update"}, n \in notes : LoadNotification(t, op, n)
    <2>1. PICK op \in {"delete", "update"}, n \in notes : LoadNotification(t, op, n)
      BY <1>1
    <2> DEFINE k == [Idle EXCEPT !.pc = op, !.note = n]
    <2>2. k \in Task /\ TaskOK(k)
      BY DEF IInv, TypeOK, Idle, Task, Pcs, TaskOK, CreationSteps
    <2>3. Rest
      BY <2>1, SameRest DEF LoadNotification
    <2> QED
      BY <2>1, <2>2, <2>3, TaskStep, Parts DEF LoadNotification
  <1>4. CASE RemoveNotification(t)
    <2> DEFINE k == [Idle EXCEPT !.pc = "count", !.row = task[t].note.row]
    <2>1. task[t].note \in Note
      BY <1>4 DEF RemoveNotification, IInv, TypeOK, TaskOK
    <2>2. k \in Task /\ TaskOK(k)
      BY <2>1 DEF Note, Idle, Task, Pcs, TaskOK, CreationSteps
    <2>3. Rest
      BY <1>4 DEF RemoveNotification, Without, Rest, IInv, TypeOK, NoOverdraft, ledger
    <2> QED
      BY <1>4, <2>2, <2>3, TaskStep, Parts DEF RemoveNotification
  <1>5. CASE UpdateNotification(t)
    <2>1. task[t].note \in Note
      BY <1>5 DEF UpdateNotification, IInv, TypeOK, TaskOK
    <2>2. notes' \subseteq Note
      BY <1>5, <2>1 DEF UpdateNotification, Without, IInv, TypeOK
    <2>3. Rest
      BY <1>5, <2>2 DEF UpdateNotification, Rest, IInv, TypeOK, NoOverdraft, ledger
    <2> QED
      BY <1>5, <2>3, FinishStep, Parts DEF UpdateNotification
  <1>2. CASE CountNotifications(t)
    <2>1. Rest
      BY <1>2, SameRest DEF CountNotifications
    <2>2. TaskOK([task[t] EXCEPT !.pc = "drop"])
      BY <1>2 DEF CountNotifications, IInv, TypeOK, Task, TaskOK, CreationSteps
    <2>3. "drop" \in Pcs
      BY DEF Pcs
    <2> QED
      BY <1>2, <2>1, <2>2, <2>3, FinishStep, GotoStep, Parts DEF CountNotifications
  <1>3. CASE DeleteLocalSubscription(t)
    <2>1. Rest
      BY <1>3 DEF DeleteLocalSubscription, DropEvent, Rest, IInv, TypeOK, NoOverdraft, ledger
    <2> QED
      BY <1>3, <2>1, FinishStep, Parts DEF DeleteLocalSubscription
  <1> QED
    BY <1>1, <1>2, <1>3, <1>4, <1>5

LEMMA LoginSteps ==
  ASSUME IInv, NEW t \in Tasks, (\E u \in Users : LoadUser(t, u)) \/ SaveUser(t)
  PROVE  IInv'
  <1>1. CASE \E u \in Users : LoadUser(t, u)
    <2>1. PICK u \in Users : LoadUser(t, u)
      BY <1>1
    <2> DEFINE k == [Idle EXCEPT !.pc = "saveUser", !.user = u, !.seen = balance[u]]
    <2>2. balance[u] \in Nat
      BY DEF IInv, TypeOK, NoOverdraft, Accounts
    <2>6. k \in Task
      BY <2>2 DEF Idle, Task, Pcs
    <2>7. TaskOK(k)
      BY <2>2 DEF Idle, TaskOK, CreationSteps
    <2>4. Rest
      BY <2>1, SameRest DEF LoadUser
    <2> QED
      BY <2>1, <2>4, <2>6, <2>7, TaskStep, Parts DEF LoadUser
  <1>2. CASE SaveUser(t)
    <2>1. task[t].user \in Users /\ task[t].seen \in Nat
      BY <1>2, BillingConstants
      DEF SaveUser, IInv, TypeOK, TaskOK, Task
    <2> DEFINE u == task[t].user
               b == task[t].seen
    <2>2. b \in Nat /\ u \in Accounts /\ balance[u] \in Int
      BY <2>1, BillingConstants DEF IInv, TypeOK, Accounts
    <2>4. /\ balance' = [balance EXCEPT ![u] = b]
          /\ UNCHANGED <<allows, rows, notes, count, bought>>
      BY <1>2 DEF SaveUser
    <2>5. /\ given' \in [Accounts -> Int]
          /\ \A a \in Accounts : a # u => given'[a] = given[a]
      BY <1>2, <2>2 DEF SaveUser, IInv
    <2>6. \A a \in Accounts : balance'[a] = IF a = u THEN b ELSE balance[a]
      BY <2>2, <2>4 DEF IInv, TypeOK
    <2>7. b # Null /\ b >= 0
      BY <2>2, BillingConstants
    <2> HIDE DEF u, b
    <2>8. /\ balance' \in [Accounts -> Int \cup {Null}]
          /\ \A a \in Users : balance'[a] # Null
      BY <2>2, <2>4, <2>6, <2>7 DEF IInv, TypeOK, Accounts
    <2>9. \A a \in Accounts : /\ balance'[a] # Null => balance'[a] >= 0
                              /\ balance'[a] = Null => given'[a] = 0
      BY <2>5, <2>6, <2>7 DEF IInv, NoOverdraft
    <2>3. Rest
      BY <2>4, <2>5, <2>8, <2>9 DEF Rest, IInv, TypeOK
    <2> QED
      BY <1>2, <2>3, FinishStep, Parts DEF SaveUser
  <1> QED
    BY <1>1, <1>2

\* What happens outside the tasks.
LEMMA OtherSteps ==
  ASSUME IInv,
         \/ \E e \in rows : AdminDelete(e)
         \/ \E g \in Guilds : VisitGuild(g)
         \/ \E u \in Users, b \in Amounts : UpdateUserBalance(u, b)
         \/ SetPersonal
  PROVE  IInv'
  <1>1. CASE \E e \in rows : AdminDelete(e)
    BY <1>1, Parts DEF AdminDelete, DropEvent, Rest, IInv, TypeOK, NoOverdraft, ledger
  <1>3. CASE \E g \in Guilds : VisitGuild(g)
    BY <1>3, GuildRow, Parts DEF VisitGuild, IInv, TypeOK
  <1>4. CASE \E u \in Users, b \in Amounts : UpdateUserBalance(u, b)
    <2>1. PICK u \in Users, b \in Amounts : UpdateUserBalance(u, b)
      BY <1>4
    <2>2. b \in Nat /\ u \in Accounts /\ balance[u] \in Int
      BY BillingConstants DEF IInv, TypeOK, Accounts
    <2>4. balance' = [balance EXCEPT ![u] = b] /\ UNCHANGED <<allows, rows, notes>>
      BY <2>1 DEF UpdateUserBalance
    <2>5. /\ count' \in [note: Nat, row: Nat, edits: Nat] /\ bought' = bought
          /\ given' \in [Accounts -> Int]
          /\ \A a \in Accounts : a # u => given'[a] = given[a]
      BY <2>1, <2>2 DEF UpdateUserBalance, IInv
    <2>6. \A a \in Accounts : balance'[a] = IF a = u THEN b ELSE balance[a]
      BY <2>2, <2>4 DEF IInv, TypeOK
    <2>7. b # Null /\ b >= 0
      BY <2>2, BillingConstants
    <2>8. /\ balance' \in [Accounts -> Int \cup {Null}]
          /\ \A a \in Users : balance'[a] # Null
      BY <2>2, <2>4, <2>6, <2>7 DEF IInv, TypeOK, Accounts
    <2>9. \A a \in Accounts : /\ balance'[a] # Null => balance'[a] >= 0
                              /\ balance'[a] = Null => given'[a] = 0
      BY <2>5, <2>6, <2>7 DEF IInv, NoOverdraft
    <2>3. Rest
      BY <2>4, <2>5, <2>8, <2>9 DEF Rest, IInv, TypeOK
    <2> QED
      BY <2>1, <2>3, Parts DEF UpdateUserBalance, IInv, TypeOK
  <1>5. CASE SetPersonal
    <2>1. allows' \in BOOLEAN
      BY <1>5 DEF SetPersonal
    <2> QED
      BY <1>5, <2>1, Parts DEF SetPersonal, Rest, IInv, TypeOK, NoOverdraft, ledger
  <1> QED
    BY <1>1, <1>3, <1>4, <1>5

LEMMA StepInv == IInv /\ [Next]_vars => IInv'
  <1> SUFFICES ASSUME IInv, [Next]_vars PROVE IInv'
    OBVIOUS
  <1>1. CASE \E t \in Tasks : Step(t)
    <2>1. PICK t \in Tasks : Step(t)
      BY <1>1
    <2> QED
      BY <2>1, CreateStep, GetOrCreateEventStep, ValidatePayloadStep, FindGuildStep,
         SaveGuildStep, ApplyChargeStep, SaveNotificationStep, DeletionSteps, LoginSteps
      DEF Step
  <1>2. CASE UNCHANGED vars
    BY <1>2, SameRest, Parts DEF vars, ledger, IInv, TypeOK
  <1> QED
    BY <1>1, <1>2, OtherSteps DEF Next

-----------------------------------------------------------------------------

\* Every step of a request finds the account, the guild and the row the steps
\* before prepared for it, whatever else happens in between.
THEOREM TypeCorrect == Spec => []TypeOK
  <1>1. IInv => TypeOK
    BY DEF IInv
  <1> QED
    BY InitInv, StepInv, <1>1, PTL DEF Spec

\* No interleaving of creations, top-ups and logins takes a balance below zero:
\* the UPDATE of applyCharge asks for the balance again.
THEOREM BalanceIsNeverNegative == Spec => []NoOverdraft
  <1>1. IInv => NoOverdraft
    BY DEF IInv
  <1> QED
    BY InitInv, StepInv, <1>1, PTL DEF Spec
-----------------------------------------------------------------------------
(* Nothing is unpaid                                                        *)

\* What a task adds to the notifications the account has paid and not received.
Owes(k, a) == HasCharged(k) /\ Payer(k.req) = a

LEMMA Monotone == \A p \in Nat, x, y \in Int : x <= y => p * x <= p * y
  OBVIOUS

LEMMA Distribute == \A p, x \in Int : p * (x + 1) = p * x + p
  OBVIOUS

LEMMA ChargedFinite ==
  \A a : IsFiniteSet(Charged(a)) /\ Cardinality(Charged(a)) \in Nat
  BY BillingConstants, FS_Subset, FS_CardinalityType DEF Charged

LEMMA NotMore ==
  ASSUME NEW a, NEW t \in Tasks, NEW k, task \in [Tasks -> Task],
         task' = [task EXCEPT ![t] = k], Owes(k, a) => Owes(task[t], a)
  PROVE  Cardinality(Charged(a)') <= Cardinality(Charged(a))
  <1>1. Charged(a)' \subseteq Charged(a)
    BY DEF Charged, Owes
  <1> QED
    BY <1>1, ChargedFinite, FS_Subset

LEMMA OneMore ==
  ASSUME NEW a, NEW t \in Tasks, NEW k, task \in [Tasks -> Task],
         task' = [task EXCEPT ![t] = k], ~Owes(task[t], a)
  PROVE  Cardinality(Charged(a)') <= Cardinality(Charged(a)) + 1
  <1>1. Charged(a)' \subseteq Charged(a) \cup {t} /\ t \notin Charged(a)
    BY DEF Charged, Owes
  <1>2. /\ IsFiniteSet(Charged(a) \cup {t})
        /\ Cardinality(Charged(a) \cup {t}) = Cardinality(Charged(a)) + 1
    BY <1>1, ChargedFinite, FS_AddElement
  <1> QED
    BY <1>1, <1>2, FS_Subset

LEMMA OneLess ==
  ASSUME NEW a, NEW t \in Tasks, NEW k, task \in [Tasks -> Task],
         task' = [task EXCEPT ![t] = k], Owes(task[t], a), ~Owes(k, a)
  PROVE  Cardinality(Charged(a)') = Cardinality(Charged(a)) - 1
  <1>1. Charged(a)' = Charged(a) \ {t} /\ t \in Charged(a)
    BY DEF Charged, Owes
  <1> QED
    BY <1>1, ChargedFinite, FS_RemoveElement

LEMMA SameCharged ==
  ASSUME NEW a, task' = task
  PROVE  Charged(a)' = Charged(a)
  BY DEF Charged

\* The inequality survives when spending does not shrink and obligations do not
\* grow.
LEMMA StaysPaid ==
  ASSUME IInv, IInv', NothingUnpaid, NEW a \in Accounts,
         Spent(a)' >= Spent(a),
         bought'[a] + Cardinality(Charged(a)') <= bought[a] + Cardinality(Charged(a)),
         Cardinality(Charged(a)') \in Nat
  PROVE  Spent(a)' >= Price * (bought'[a] + Cardinality(Charged(a)'))
  <1> DEFINE x == bought'[a] + Cardinality(Charged(a)')
             y == bought[a] + Cardinality(Charged(a))
  <1>1. x \in Int /\ y \in Int /\ x <= y
    BY ChargedFinite DEF IInv
  <1>2. Price * x <= Price * y
    BY <1>1, Monotone, BillingConstants
  <1>3. Spent(a) >= Price * y
    BY DEF NothingUnpaid
  <1>4. Spent(a) \in Int /\ Spent(a)' \in Int
    BY DEF Spent, IInv, TypeOK
  <1>5. Price * x \in Int /\ Price * y \in Int
    BY <1>1, BillingConstants
  <1> HIDE DEF x, y
  <1>6. Spent(a)' >= Price * x
    BY <1>2, <1>3, <1>4, <1>5
  <1> QED
    BY <1>6 DEF x
\* A step that moves one task, charges nobody and saves nothing.
LEMMA QuietStep ==
  ASSUME IInv, IInv', NothingUnpaid, NEW t \in Tasks, NEW k,
         task' = [task EXCEPT ![t] = k], UNCHANGED <<balance, given, bought>>,
         \A a \in Accounts : Owes(k, a) => Owes(task[t], a)
  PROVE  NothingUnpaid'
  <1> SUFFICES ASSUME NEW a \in Accounts
               PROVE  Spent(a)' >= Price * (bought'[a] + Cardinality(Charged(a)'))
    BY DEF NothingUnpaid
  <1>1. Cardinality(Charged(a)') <= Cardinality(Charged(a))
    BY NotMore DEF IInv
  <1>2. Cardinality(Charged(a)') \in Nat /\ Cardinality(Charged(a)) \in Nat
    BY ChargedFinite, BillingConstants, FS_Subset, FS_CardinalityType DEF Charged
  <1>3. Spent(a)' = Spent(a) /\ Spent(a) \in Int /\ bought[a] \in Nat
    BY DEF Spent, IInv, TypeOK
  <1> QED
    BY <1>1, <1>2, <1>3, StaysPaid

\* The points of a task at which it has charged nobody.
LEMMA UnchargedStep ==
  ASSUME IInv, IInv', NothingUnpaid, NEW t \in Tasks, NEW k,
         task' = [task EXCEPT ![t] = k], UNCHANGED <<balance, given, bought>>,
         k.pc \in {"idle", "event", "payload", "charge",
                   "delete", "update", "count", "drop", "saveUser"}
  PROVE  NothingUnpaid'
  <1>1. \A a : ~Owes(k, a)
    BY DEF Owes, HasCharged
  <1> QED
    BY <1>1, QuietStep

LEMMA UnchargedGoto ==
  ASSUME IInv, IInv', NothingUnpaid, NEW t \in Tasks, NEW pc, Goto(t, pc),
         UNCHANGED <<balance, given, bought>>,
         pc \in {"payload", "charge", "drop"}
  PROVE  NothingUnpaid'
  <1>1. task' = [task EXCEPT ![t] = [task[t] EXCEPT !.pc = pc]]
    BY DEF Goto, IInv
  <1>2. [task[t] EXCEPT !.pc = pc].pc = pc
    BY DEF IInv, Task
  <1> QED
    BY <1>1, <1>2, UnchargedStep

LEMMA QuietFinish ==
  ASSUME IInv, IInv', NothingUnpaid, NEW t \in Tasks, Finish(t),
         UNCHANGED <<balance, given, bought>>
  PROVE  NothingUnpaid'
  BY UnchargedStep DEF Finish, Idle

\* Getting a row of its own, an account has still spent nothing.
LEMMA NewGuildSpent ==
  ASSUME IInv, IInv', NEW g \in Guilds, balance[g] = Null,
         balance' = [balance EXCEPT ![g] = StartGuild],
         given' = [given EXCEPT ![g] = StartGuild], NEW a \in Accounts
  PROVE  Spent(a)' = Spent(a) /\ Spent(a) \in Int
  BY BillingConstants DEF Spent, IInv, TypeOK, Accounts

LEMMA PaidCreate ==
  ASSUME IInv, IInv', NothingUnpaid, NEW t \in Tasks,
         \/ \E r \in Request : Create(t, r)
         \/ GetOrCreateEvent(t)
         \/ ValidatePayload(t)
  PROVE  NothingUnpaid'
  <1>1. CASE \E r \in Request : Create(t, r)
    <2>1. PICK r \in Request : Create(t, r)
      BY <1>1
    <2> DEFINE k == [Idle EXCEPT !.pc = "event", !.req = r]
    <2>2. k.pc = "event"
      BY DEF Idle
    <2>3. task' = [task EXCEPT ![t] = k] /\ UNCHANGED <<balance, given, bought>>
      BY <2>1 DEF Create, ledger
    <2> QED
      BY <2>2, <2>3, UnchargedStep
  <1>2. CASE GetOrCreateEvent(t)
    <2>1. UNCHANGED <<balance, given, bought>>
      BY <1>2 DEF GetOrCreateEvent, ledger
    <2>2. CASE Finish(t)
      BY <2>1, <2>2, QuietFinish
    <2>3. CASE \E e : task' = [task EXCEPT ![t].pc = "payload", ![t].row = e]
      <3>1. PICK e : task' = [task EXCEPT ![t].pc = "payload", ![t].row = e]
        BY <2>3
      <3> DEFINE k == [task[t] EXCEPT !.pc = "payload", !.row = e]
      <3>2. task' = [task EXCEPT ![t] = k] /\ k.pc = "payload"
        BY <3>1 DEF IInv, Task
      <3> QED
        BY <2>1, <3>2, UnchargedStep
    <2> QED
      BY <1>2, <2>2, <2>3 DEF GetOrCreateEvent
  <1>3. CASE ValidatePayload(t)
    <2>1. UNCHANGED <<balance, given, bought>>
      BY <1>3 DEF ValidatePayload, ledger
    <2>2. CASE Finish(t)
      BY <2>1, <2>2, QuietFinish
    <2>3. CASE Goto(t, "charge")
      BY <2>1, <2>3, UnchargedGoto
    <2>4. CASE Goto(t, "guild") /\ task[t].req.kind = "webhook"
      <3> DEFINE k == [task[t] EXCEPT !.pc = "guild"]
      <3>1. task' = [task EXCEPT ![t] = k]
        BY <2>4 DEF Goto, IInv
      <3>2. k.pc = "guild" /\ k.req.kind = "webhook"
        BY <2>4 DEF IInv, Task
      <3>3. \A a : ~Owes(k, a)
        BY <3>2 DEF Owes, HasCharged
      <3> QED
        BY <2>1, <3>1, <3>3, QuietStep
    <2> QED
      BY <1>3, <2>2, <2>3, <2>4 DEF ValidatePayload
  <1> QED
    BY <1>1, <1>2, <1>3

\* After getOrCreateGuild a creation owes what it owed before.
LEMMA AfterGuildOwes ==
  ASSUME IInv, NEW t \in Tasks, task[t].pc \in {"guild", "newGuild"}, AfterGuild(t)
  PROVE  \E k : /\ task' = [task EXCEPT ![t] = k]
                /\ \A a : Owes(k, a) => Owes(task[t], a)
  <1> DEFINE pc == IF task[t].req.kind = "discord" THEN "save" ELSE "charge"
             k == [task[t] EXCEPT !.pc = pc]
  <1>1. task' = [task EXCEPT ![t] = k]
    BY DEF AfterGuild, Goto, IInv
  <1>2. k.pc = pc /\ k.req = task[t].req
    BY DEF IInv, Task
  <1>3. \A a : Owes(k, a) => Owes(task[t], a)
    BY <1>2 DEF Owes, HasCharged
  <1> QED
    BY <1>1, <1>3

LEMMA PaidGuild ==
  ASSUME IInv, IInv', NothingUnpaid, NEW t \in Tasks, FindGuild(t) \/ SaveGuild(t)
  PROVE  NothingUnpaid'
  <1> DEFINE g == task[t].req.guild
  <1>1. CASE FindGuild(t)
    <2>1. UNCHANGED <<balance, given, bought>>
      BY <1>1 DEF FindGuild, ledger
    <2>2. CASE AfterGuild(t)
      BY <1>1, <2>1, <2>2, AfterGuildOwes, QuietStep DEF FindGuild
    <2>3. CASE Goto(t, "newGuild")
      <3> DEFINE k == [task[t] EXCEPT !.pc = "newGuild"]
      <3>1. task' = [task EXCEPT ![t] = k] /\ k.pc = "newGuild" /\ k.req = task[t].req
        BY <2>3 DEF Goto, IInv, Task
      <3>2. \A a : Owes(k, a) => Owes(task[t], a)
        BY <1>1, <3>1 DEF Owes, HasCharged, FindGuild
      <3> QED
        BY <2>1, <3>1, <3>2, QuietStep
    <2> QED
      BY <1>1, <2>2, <2>3 DEF FindGuild
  <1>2. CASE SaveGuild(t) /\ balance[g] # Null
    BY <1>2, QuietFinish DEF SaveGuild
  <1>3. CASE SaveGuild(t) /\ balance[g] = Null
    <2>1. g \in Guilds /\ task[t].pc = "newGuild"
      BY <1>3 DEF SaveGuild, IInv, TypeOK, TaskOK
    <2>2. PICK k : /\ task' = [task EXCEPT ![t] = k]
                   /\ \A a : Owes(k, a) => Owes(task[t], a)
      BY <1>3, <2>1, AfterGuildOwes DEF SaveGuild
    <2> SUFFICES ASSUME NEW a \in Accounts
                 PROVE  Spent(a)' >= Price * (bought'[a] + Cardinality(Charged(a)'))
      BY DEF NothingUnpaid
    <2>3. Spent(a)' = Spent(a) /\ Spent(a) \in Int
      BY <1>3, <2>1, NewGuildSpent DEF SaveGuild
    <2>4. Cardinality(Charged(a)') <= Cardinality(Charged(a))
      BY <2>2, NotMore DEF IInv
    <2>5. Cardinality(Charged(a)') \in Nat /\ Cardinality(Charged(a)) \in Nat
      BY ChargedFinite, BillingConstants, FS_Subset, FS_CardinalityType DEF Charged
    <2>6. bought' = bought /\ bought[a] \in Nat
      BY <1>3 DEF SaveGuild, IInv
    <2> QED
      BY <2>3, <2>4, <2>5, <2>6, StaysPaid
  <1> QED
    BY <1>1, <1>2, <1>3
\* The charge: one more notification owed, and its price spent.
LEMMA PaidCharge ==
  ASSUME IInv, IInv', NothingUnpaid, NEW t \in Tasks, ApplyCharge(t)
  PROVE  NothingUnpaid'
  <1> DEFINE r == task[t].req
             c == Cost(r.type)
             p == Payer(r)
             pc == IF r.kind = "discord" THEN "guild" ELSE "save"
             k == [task[t] EXCEPT !.pc = pc]
  <1>1. TaskOK(task[t]) /\ task[t].pc = "charge" /\ r \in Request
    BY DEF ApplyCharge, HasBalance, Deduct, IInv, TypeOK, TaskOK, CreationSteps
  <1>2. \A a : ~Owes(task[t], a)
    BY <1>1 DEF Owes, HasCharged
  <1>3. AfterCharge(t) => task' = [task EXCEPT ![t] = k]
    BY DEF AfterCharge, Goto, IInv
  <1>4. k.req = r
    BY DEF IInv, Task
  <1>5. UNCHANGED <<given, bought>>
    BY DEF ApplyCharge, HasBalance, Deduct, ledger
  <1>6. CASE c <= 0
    <2>1. p = Null
      BY <1>6, BillingConstants DEF Cost, Payer
    <2>2. \A a \in Accounts : ~Owes(k, a)
      BY <1>4, <2>1, BillingConstants DEF Owes
    <2>3. UNCHANGED balance /\ AfterCharge(t)
      BY <1>6, BillingConstants DEF ApplyCharge, HasBalance, Deduct, Cost
    <2> QED
      BY <1>3, <1>5, <2>2, <2>3, QuietStep
  <1>7. CASE c > 0 /\ balance[p] # Null /\ balance[p] >= c
    <2>1. c = Price
      BY <1>7 DEF Cost
    <2>2. balance' = [balance EXCEPT ![p] = @ - Price] /\ AfterCharge(t)
      BY <1>7, <2>1, BillingConstants DEF ApplyCharge, HasBalance, Deduct
    <2>3. p \in Accounts
      BY <1>1, <1>7 DEF TaskOK, CreationSteps, Cost
    <2> SUFFICES ASSUME NEW a \in Accounts
                 PROVE  Spent(a)' >= Price * (bought'[a] + Cardinality(Charged(a)'))
      BY DEF NothingUnpaid
    <2>4. Cardinality(Charged(a)') \in Nat /\ Cardinality(Charged(a)) \in Nat
      BY ChargedFinite, BillingConstants, FS_Subset, FS_CardinalityType DEF Charged
    <2>5. bought' = bought /\ bought[a] \in Nat /\ given' = given /\ given[a] \in Int
      BY <1>5 DEF IInv
    <2>6. CASE a = p
      <3>1. Spent(a)' = Spent(a) + Price /\ Spent(a) \in Int
        BY <1>7, <2>2, <2>3, <2>5, <2>6, BillingConstants DEF Spent, IInv, TypeOK
      <3>2. Cardinality(Charged(a)') <= Cardinality(Charged(a)) + 1
        BY <1>2, <1>3, <2>2, OneMore DEF IInv
      <3> DEFINE x == bought'[a] + Cardinality(Charged(a)')
                 y == bought[a] + Cardinality(Charged(a))
      <3>3. x \in Int /\ y \in Int /\ x <= y + 1
        BY <2>4, <2>5, <3>2
      <3>4. Price * x <= Price * (y + 1) /\ Price * (y + 1) = Price * y + Price
        BY <3>3, Monotone, Distribute, BillingConstants
      <3>5. Spent(a) >= Price * y
        BY DEF NothingUnpaid
      <3>6. Price * x \in Int /\ Price * y \in Int /\ Price \in Int
        BY <3>3, BillingConstants
      <3> HIDE DEF x, y
      <3>7. Spent(a)' >= Price * x
        BY <3>1, <3>4, <3>5, <3>6
      <3> QED
        BY <3>7 DEF x
    <2>7. CASE a # p
      <3>1. Spent(a)' = Spent(a) /\ Spent(a) \in Int
        BY <2>2, <2>3, <2>5, <2>7 DEF Spent, IInv, TypeOK
      <3>2. ~Owes(k, a)
        BY <1>4, <2>7 DEF Owes
      <3>3. Cardinality(Charged(a)') <= Cardinality(Charged(a))
        BY <1>3, <2>2, <3>2, NotMore DEF IInv
      <3> QED
        BY <2>4, <2>5, <3>1, <3>3, StaysPaid
    <2> QED
      BY <2>6, <2>7
  <1>8. CASE c > 0 /\ ~(balance[p] # Null /\ balance[p] >= c)
    <2>1. Finish(t) /\ UNCHANGED balance
      BY <1>8, BillingConstants DEF ApplyCharge, HasBalance, Deduct, Cost
    <2> QED
      BY <1>5, <2>1, QuietFinish
  <1>9. c \in Nat
    BY BillingConstants DEF Cost
  <1> QED
    BY <1>6, <1>7, <1>8, <1>9

\* The insertion turns what was owed into a notification.
LEMMA PaidSave ==
  ASSUME IInv, IInv', NothingUnpaid, NEW t \in Tasks, SaveNotification(t)
  PROVE  NothingUnpaid'
  <1> DEFINE r == task[t].req
  <1>1. UNCHANGED <<balance, given>> /\ Finish(t) /\ task[t].pc = "save"
    BY DEF SaveNotification
  <1>2. CASE UNCHANGED bought
    BY <1>1, <1>2, QuietFinish
  <1>3. CASE bought' = [a \in Accounts |-> bought[a] + IF a = Payer(r) THEN 1 ELSE 0]
    <2> SUFFICES ASSUME NEW a \in Accounts
                 PROVE  Spent(a)' >= Price * (bought'[a] + Cardinality(Charged(a)'))
      BY DEF NothingUnpaid
    <2>1. task' = [task EXCEPT ![t] = Idle] /\ ~Owes(Idle, a)
      BY <1>1 DEF Finish, Idle, Owes, HasCharged
    <2>2. Spent(a)' = Spent(a) /\ Spent(a) \in Int /\ bought[a] \in Nat
      BY <1>1 DEF Spent, IInv, TypeOK
    <2>3. Cardinality(Charged(a)') \in Nat /\ Cardinality(Charged(a)) \in Nat
      BY ChargedFinite, BillingConstants, FS_Subset, FS_CardinalityType DEF Charged
    <2>4. CASE a = Payer(r)
      <3>1. Owes(task[t], a)
        BY <1>1, <2>4 DEF Owes, HasCharged
      <3>2. Cardinality(Charged(a)') = Cardinality(Charged(a)) - 1
        BY <2>1, <3>1, OneLess DEF IInv
      <3>3. bought'[a] = bought[a] + 1
        BY <1>3, <2>4
      <3> QED
        BY <2>2, <2>3, <3>2, <3>3, StaysPaid
    <2>5. CASE a # Payer(r)
      <3>1. Cardinality(Charged(a)') <= Cardinality(Charged(a))
        BY <2>1, NotMore DEF IInv
      <3>2. bought'[a] = bought[a]
        BY <1>3, <2>2, <2>5
      <3> QED
        BY <2>2, <2>3, <3>1, <3>2, StaysPaid
    <2> QED
      BY <2>4, <2>5
  <1> QED
    BY <1>2, <1>3 DEF SaveNotification

LEMMA PaidDeletion ==
  ASSUME IInv, IInv', NothingUnpaid, NEW t \in Tasks,
         \/ \E op \in {"delete", "update"}, n \in notes : LoadNotification(t, op, n)
         \/ RemoveNotification(t)
         \/ UpdateNotification(t)
         \/ CountNotifications(t)
         \/ DeleteLocalSubscription(t)
  PROVE  NothingUnpaid'
  <1>1. UNCHANGED <<balance, given, bought>>
    BY DEF LoadNotification, RemoveNotification, UpdateNotification, CountNotifications,
           DeleteLocalSubscription, ledger
  <1>2. CASE \E op \in {"delete", "update"}, n \in notes : LoadNotification(t, op, n)
    <2>1. PICK op \in {"delete", "update"}, n \in notes : LoadNotification(t, op, n)
      BY <1>2
    <2> DEFINE k == [Idle EXCEPT !.pc = op, !.note = n]
    <2>2. task' = [task EXCEPT ![t] = k] /\ k.pc \in {"delete", "update"}
      BY <2>1 DEF LoadNotification, Idle
    <2> QED
      BY <1>1, <2>2, UnchargedStep
  <1>3. CASE RemoveNotification(t)
    <2> DEFINE k == [Idle EXCEPT !.pc = "count", !.row = task[t].note.row]
    <2>1. task' = [task EXCEPT ![t] = k] /\ k.pc = "count"
      BY <1>3 DEF RemoveNotification, Idle
    <2> QED
      BY <1>1, <2>1, UnchargedStep
  <1>4. CASE Finish(t)
    BY <1>1, <1>4, QuietFinish
  <1>5. CASE Goto(t, "drop")
    BY <1>1, <1>5, UnchargedGoto
  <1> QED
    BY <1>2, <1>3, <1>4, <1>5
    DEF UpdateNotification, CountNotifications, DeleteLocalSubscription

\* What happens outside the tasks spends nothing.
LEMMA PaidOther ==
  ASSUME IInv, IInv', NothingUnpaid, task' = task, bought' = bought,
         \A a \in Accounts : Spent(a)' = Spent(a)
  PROVE  NothingUnpaid'
  <1> SUFFICES ASSUME NEW a \in Accounts
               PROVE  Spent(a)' >= Price * (bought'[a] + Cardinality(Charged(a)'))
    BY DEF NothingUnpaid
  <1>1. Charged(a)' = Charged(a)
    BY SameCharged
  <1> QED
    BY <1>1 DEF NothingUnpaid

LEMMA OtherSpent ==
  ASSUME IInv, IInv', NEW a \in Accounts,
         \/ \E e \in rows : AdminDelete(e)
         \/ \E g \in Guilds : VisitGuild(g)
         \/ \E u \in Users, b \in Amounts : UpdateUserBalance(u, b)
         \/ SetPersonal
         \/ UNCHANGED vars
  PROVE  Spent(a)' = Spent(a) /\ task' = task /\ bought' = bought
  <1>1. CASE \E g \in Guilds : VisitGuild(g)
    BY <1>1, NewGuildSpent DEF VisitGuild
  <1>2. CASE \E u \in Users, b \in Amounts : UpdateUserBalance(u, b)
    <2>1. PICK u \in Users, b \in Amounts : UpdateUserBalance(u, b)
      BY <1>2
    <2>2. u \in Accounts /\ balance[u] \in Int /\ b \in Int /\ b # Null /\ balance[u] # Null
      BY BillingConstants DEF IInv, TypeOK, Accounts
    <2>3. CASE a = u
      <3>1. balance'[a] = b /\ given'[a] = given[a] + b - balance[a] /\ given[a] \in Int
        BY <2>1, <2>2, <2>3 DEF UpdateUserBalance, IInv, TypeOK
      <3> QED
        BY <2>1, <2>2, <2>3, <3>1 DEF Spent, UpdateUserBalance
    <2>4. CASE a # u
      BY <2>1, <2>2, <2>4 DEF Spent, UpdateUserBalance, IInv, TypeOK
    <2> QED
      BY <2>3, <2>4
  <1>3. CASE UNCHANGED <<balance, given, bought, task>>
    BY <1>3 DEF Spent
  <1> QED
    BY <1>1, <1>2, <1>3
    DEF AdminDelete, SetPersonal, vars, ledger

\* A save of a user moves its balance and what it was given alike.
LEMMA PaidLogin ==
  ASSUME IInv, IInv', NothingUnpaid, NEW t \in Tasks,
         (\E u \in Users : LoadUser(t, u)) \/ SaveUser(t)
  PROVE  NothingUnpaid'
  <1>1. CASE \E u \in Users : LoadUser(t, u)
    <2>1. PICK u \in Users : LoadUser(t, u)
      BY <1>1
    <2> DEFINE k == [Idle EXCEPT !.pc = "saveUser", !.user = u, !.seen = balance[u]]
    <2>2. k.pc = "saveUser"
      BY DEF Idle
    <2>3. task' = [task EXCEPT ![t] = k] /\ UNCHANGED <<balance, given, bought>>
      BY <2>1 DEF LoadUser, ledger
    <2> QED
      BY <2>2, <2>3, UnchargedStep
  <1>2. CASE SaveUser(t)
    <2> DEFINE u == task[t].user
               b == task[t].seen
    <2>1. u \in Users /\ b \in Nat
      BY <1>2, BillingConstants DEF SaveUser, IInv, TypeOK, TaskOK, Task
    <2>2. u \in Accounts /\ balance[u] \in Int /\ b # Null /\ balance[u] # Null
      BY <2>1, BillingConstants DEF IInv, TypeOK, Accounts
    <2>3. /\ balance' = [balance EXCEPT ![u] = b]
          /\ given' = [given EXCEPT ![u] = @ + b - balance[u]]
          /\ bought' = bought /\ task' = [task EXCEPT ![t] = Idle]
      BY <1>2 DEF SaveUser, Finish
    <2> HIDE DEF u, b
    <2> SUFFICES ASSUME NEW a \in Accounts
                 PROVE  Spent(a)' >= Price * (bought'[a] + Cardinality(Charged(a)'))
      BY DEF NothingUnpaid
    <2>4. Spent(a)' = Spent(a)
      <3>1. CASE a = u
        <4>1. balance'[a] = b /\ given'[a] = given[a] + b - balance[a] /\ given[a] \in Int
          BY <2>2, <2>3, <3>1 DEF IInv, TypeOK
        <4> QED
          BY <2>1, <2>2, <3>1, <4>1 DEF Spent
      <3>2. CASE a # u
        BY <2>2, <2>3, <3>2 DEF Spent, IInv, TypeOK
      <3> QED
        BY <3>1, <3>2
    <2>5. Cardinality(Charged(a)') <= Cardinality(Charged(a))
      <3>1. ~Owes(Idle, a)
        BY DEF Idle, Owes, HasCharged
      <3> QED
        BY <2>3, <3>1, NotMore DEF IInv
    <2>6. Cardinality(Charged(a)') \in Nat /\ Cardinality(Charged(a)) \in Nat
      BY ChargedFinite, BillingConstants, FS_Subset, FS_CardinalityType DEF Charged
    <2>7. bought'[a] = bought[a] /\ bought[a] \in Nat /\ Spent(a) \in Int
      BY <2>3 DEF Spent, IInv, TypeOK
    <2> QED
      BY <2>4, <2>5, <2>6, <2>7, StaysPaid
  <1> QED
    BY <1>1, <1>2

\* What is saved or about to be saved has been paid by the account that was to
\* pay, whatever else is going on; what a top-up or a save of a user read before
\* brings back counts as given.
THEOREM NotificationsArePaid == Spec => []NothingUnpaid
  <1> DEFINE PaidInv == IInv /\ NothingUnpaid
  <1>1. Init => PaidInv
    <2> SUFFICES ASSUME Init PROVE NothingUnpaid
      BY InitInv
    <2>2. ASSUME NEW a \in Accounts
          PROVE  Spent(a) >= Price * (bought[a] + Cardinality(Charged(a)))
      <3>1. Charged(a) = {}
        BY DEF Charged, HasCharged, Init, Idle
      <3>2. bought[a] = 0
        BY DEF Init
      <3>3. Spent(a) = 0
        <4>1. CASE a \in Users
          <5>1. balance[a] = Start /\ given[a] = Start
            BY <4>1 DEF Init
          <5>2. Start \in Int /\ Start # Null
            BY BillingConstants
          <5> QED
            BY <5>1, <5>2 DEF Spent
        <4>2. CASE a \notin Users
          <5>1. balance[a] = Null /\ given[a] = 0
            BY <4>2 DEF Init
          <5> QED
            BY <5>1 DEF Spent
        <4> QED
          BY <4>1, <4>2
      <3>4. Cardinality(Charged(a)) = 0
        BY <3>1, FS_EmptySet
      <3>5. Price * (0 + 0) = 0
        BY BillingConstants
      <3> QED
        BY <3>2, <3>3, <3>4, <3>5
    <2> QED
      BY <2>2 DEF NothingUnpaid
  <1>2. PaidInv /\ [Next]_vars => PaidInv'
    <2> SUFFICES ASSUME PaidInv, [Next]_vars PROVE NothingUnpaid'
      BY StepInv
    <2>1. IInv'
      BY StepInv
    <2>2. CASE \E t \in Tasks : Step(t)
      <3>1. PICK t \in Tasks : Step(t)
        BY <2>2
      <3> QED
        BY <2>1, <3>1, PaidCreate, PaidGuild, PaidCharge, PaidSave, PaidDeletion, PaidLogin
        DEF Step
    <2>3. CASE ~\E t \in Tasks : Step(t)
      <3>1. \A a \in Accounts : Spent(a)' = Spent(a)
        BY <2>1, <2>3, OtherSpent DEF Next
      <3>2. task' = task /\ bought' = bought
        BY <2>3 DEF Next, AdminDelete, VisitGuild, UpdateUserBalance,
                    SetPersonal, vars, ledger
      <3> QED
        BY <2>1, <3>1, <3>2, PaidOther
    <2> QED
      BY <2>2, <2>3
  <1>3. PaidInv => NothingUnpaid
    OBVIOUS
  <1> QED
    BY <1>1, <1>2, <1>3, PTL DEF Spec
=============================================================================
