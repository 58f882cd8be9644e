---------------------------- MODULE EventPipeline ----------------------------
(***************************************************************************)
(* A stream.online event on its way from Twitch to the destinations: the     *)
(* webhook-receiver deduplicates it in Redis and publishes it to the         *)
(* stream.events queue, the notification-worker finds the notifications of   *)
(* its subscription, queues the Discord ones, posts the webhooks and logs    *)
(* every attempt, and the discord-bot sends what discord.notifications       *)
(* holds.                                                                    *)
(*                                                                         *)
(* The worker acknowledges by hand and asks RabbitMQ to requeue a message    *)
(* whose handler threw; nothing limits how many messages it handles at once. *)
(* The bot's queue is acknowledged on delivery.                              *)
(***************************************************************************)
EXTENDS Integers, FiniteSets, FiniteSetsExt

CONSTANTS
  Messages,     \* ids of the events of one subscription
  Discords,     \* its Discord notifications
  Webhooks,     \* its webhook notifications
  Filtered,     \* the notifications with a game filter that the event's game passes
  Requests,     \* requests the receiver may be handling at once
  Workers,      \* messages the worker may be handling at once
  Events,       \* what may go wrong, and whether owners edit notifications
  MaxSends,     \* bound on how often Twitch sends an event
  MaxFaults,    \* bound on the transient failures of database and broker
  Null

Notes == Discords \cup Webhooks

\* A message of stream.events: the event, and whether the channel's game is known.
Payload == [msg: Messages, game: BOOLEAN]

ASSUME PipelineConstants ==
  /\ Discords \cap Webhooks = {}
  /\ IsFiniteSet(Requests) /\ IsFiniteSet(Workers)
  /\ Filtered \subseteq Notes
  /\ MaxSends \in Nat
  /\ MaxFaults \in Nat
  /\ Null \notin Messages
  /\ Null \notin Payload
  /\ Null \notin Discords

VARIABLES
  twitch,       \* how often Twitch sent an event, and whether it saw a 2xx answer
  marked,       \* events with a twitch:webhook:log key in Redis
  request,      \* requests in flight at the receiver
  streamQ,      \* messages ready in stream.events, counted
  worker,       \* messages the worker holds unacknowledged
  discordQ,     \* messages ready in discord.notifications, counted
  note,         \* status and isDisabled of every notification
  logs,         \* entries of notification_logs, counted
  faults,       \* transient failures so far
  hist          \* what happened, for the properties

vars == <<twitch, marked, request, streamQ, worker, discordQ, note, logs, faults, hist>>
receiver == <<twitch, marked, request>>
delivery == <<worker, discordQ, note, logs>>

-----------------------------------------------------------------------------

NoRequest == [pc |-> "idle", msg |-> Null, game |-> FALSE]
NoJob == [pc |-> "idle", job |-> Null, discord |-> {}, hooks |-> {}, cur |-> Null,
          sent |-> TRUE, failed |-> {}]

Fault(e) == e \in Events /\ faults < MaxFaults /\ faults' = faults + 1

Put(q, x) == [q EXCEPT ![x] = @ + 1]
Take(q, x) == [q EXCEPT ![x] = @ - 1]

\* The query of the handler joins the notifications that are Active and not
\* disabled; the filter then drops those that want a game the event lacks.
Listening == {n \in Notes : note[n].status = "active" /\ ~note[n].disabled}
Destinations(x) == {n \in Listening : n \in Filtered => x.game}

-----------------------------------------------------------------------------
(* webhook-receiver                                                         *)

\* Twitch sends an event until it has seen an answer.
Deliver(q, m) ==
  /\ request[q].pc = "idle"
  /\ ~twitch[m].answered
  /\ twitch[m].sends < MaxSends
  /\ twitch' = [twitch EXCEPT ![m].sends = @ + 1]
  /\ request' = [request EXCEPT ![q] = [pc |-> "dedup", msg |-> m, game |-> FALSE]]
  /\ UNCHANGED <<marked, streamQ, delivery, faults, hist>>

\* The answer reaches Twitch, or is lost or late.
Answer(m) ==
  \/ twitch' = [twitch EXCEPT ![m].answered = TRUE]
  \/ "lose_response" \in Events /\ UNCHANGED twitch

IsDuplicate(q) ==
  LET m == request[q].msg
  IN  /\ request[q].pc = "dedup"
      /\ IF m \in marked
         THEN request' = [request EXCEPT ![q] = NoRequest] /\ Answer(m)
         ELSE request' = [request EXCEPT ![q].pc = "call"] /\ UNCHANGED twitch
      /\ UNCHANGED <<marked, streamQ, delivery, faults, hist>>

MarkIfNewSwallows(q) ==
  LET m == request[q].msg
  IN  /\ request[q].pc = "dedup"
      /\ \/ /\ m \notin marked
            /\ marked' = marked \cup {m}
            /\ request' = [request EXCEPT ![q].pc = "call"]
            /\ UNCHANGED <<twitch, faults>>
         \/ /\ (m \in marked /\ UNCHANGED faults) \/ Fault("redis_fails")
            /\ request' = [request EXCEPT ![q] = NoRequest]
            /\ Answer(m)
            /\ UNCHANGED marked
      /\ UNCHANGED <<streamQ, delivery, hist>>

\* SET NX with a TTL; when Redis fails the answer is a 500.
MarkIfNew(q) ==
  LET m == request[q].msg
  IN  /\ request[q].pc = "dedup"
      /\ \/ /\ m \in marked
            /\ request' = [request EXCEPT ![q] = NoRequest]
            /\ Answer(m)
            /\ UNCHANGED <<marked, faults>>
         \/ /\ m \notin marked
            /\ marked' = marked \cup {m}
            /\ request' = [request EXCEPT ![q].pc = "call"]
            /\ UNCHANGED <<twitch, faults>>
         \/ /\ Fault("redis_fails")
            /\ request' = [request EXCEPT ![q] = NoRequest]
            /\ UNCHANGED <<twitch, marked>>
      /\ UNCHANGED <<streamQ, delivery, hist>>

\* handleEvent asks the api for the channel, does without on a failure, starts
\* the publication without awaiting it, and the request is answered.
HandleEvent(q) ==
  LET m == request[q].msg
  IN  /\ request[q].pc = "call"
      /\ \E known \in BOOLEAN :
           request' = [request EXCEPT ![q] = [pc |-> "publish", msg |-> m, game |-> known]]
      /\ Answer(m)
      /\ UNCHANGED <<marked, streamQ, delivery, faults, hist>>

\* The process ends, and with it the requests whose event is marked already.
Stop ==
  /\ request' = [q \in Requests |-> NoRequest]
  /\ hist' = [hist EXCEPT !.dropped = @ \cup {request[q].msg : q \in
                {r \in Requests : request[r].pc \in {"call", "publish"}}}]

\* QueueService.emit, without publisher confirms.  Nobody awaits it, so its
\* rejection is unhandled and ends the process.
Publish(q) ==
  LET x == [msg |-> request[q].msg, game |-> request[q].game]
  IN  /\ request[q].pc = "publish"
      /\ \/ /\ request' = [request EXCEPT ![q] = NoRequest]
            /\ streamQ' = Put(streamQ, x)
            /\ hist' = [hist EXCEPT !.ingested[x.msg] = @ + 1,
                                    !.owed[x.msg] = Destinations(x)]
            /\ UNCHANGED faults
         \/ /\ Fault("broker_fails")
            /\ Stop
            /\ UNCHANGED streamQ
      /\ UNCHANGED <<twitch, marked, delivery>>

\* The key outlives the window in which Twitch sends an event again.
ExpireKey(m) ==
  /\ "expire" \in Events
  /\ m \in marked
  /\ twitch[m].sends = MaxSends
  /\ \A q \in Requests : request[q].msg # m
  /\ marked' = marked \ {m}
  /\ UNCHANGED <<twitch, request, streamQ, delivery, faults, hist>>

ReceiverCrash ==
  /\ \E q \in Requests : request[q].pc # "idle"
  /\ Fault("receiver_crash")
  /\ Stop
  /\ UNCHANGED <<twitch, marked, streamQ, delivery>>

-----------------------------------------------------------------------------
(* notification-worker                                                      *)

Hold(w, job) == worker' = [worker EXCEPT ![w] = job]

\* channel.ack, after which the handler returns.
Ack(w) ==
  /\ Hold(w, NoJob)
  /\ hist' = [hist EXCEPT !.acked = @ \cup {worker[w].job.msg}]

\* The catch: channel.nack with requeue.
NackDrops(w) ==
  /\ Fault("db_fails")
  /\ Hold(w, NoJob)
  /\ UNCHANGED <<streamQ, hist>>

NackAcks(w) ==
  /\ Fault("db_fails")
  /\ Ack(w)
  /\ UNCHANGED streamQ

Nack(w) ==
  /\ Fault("db_fails")
  /\ streamQ' = Put(streamQ, worker[w].job)
  /\ Hold(w, NoJob)
  /\ hist' = [hist EXCEPT !.requeued[worker[w].job.msg] = @ + 1]

Consume(w) ==
  /\ worker[w].pc = "idle"
  /\ \E x \in Payload :
       /\ streamQ[x] > 0
       /\ streamQ' = Take(streamQ, x)
       /\ Hold(w, [NoJob EXCEPT !.pc = "find", !.job = x])
  /\ UNCHANGED <<receiver, discordQ, note, logs, faults, hist>>

\* The row with the event's subscription id; without one the message is dropped,
\* and no notification is left of it either (ON DELETE CASCADE).
FindEvent(w) ==
  LET to == Destinations(worker[w].job)
  IN  /\ worker[w].pc = "find"
      /\ \/ /\ Hold(w, [worker[w] EXCEPT !.pc = "discord", !.discord = to \cap Discords,
                                         !.hooks = to \cap Webhooks])
            /\ UNCHANGED <<streamQ, faults, hist>>
         \/ /\ "unmatched" \in Events
            /\ Hold(w, NoJob)
            /\ hist' = [hist EXCEPT !.acked = @ \cup {worker[w].job.msg},
                                    !.owed[worker[w].job.msg] = {}, !.broken = {}]
            /\ UNCHANGED <<streamQ, faults>>
         \/ Nack(w)
      /\ UNCHANGED <<receiver, discordQ, note, logs>>

Attempted(A, m) ==
  [x \in Messages \X Notes |-> hist.attempts[x] + IF x[1] = m /\ x[2] \in A THEN 1 ELSE 0]

\* dispatchDiscord: the next notification is queued; a failure is caught.
DispatchDiscordRetries(w) ==
  LET m == worker[w].job.msg
  IN  /\ worker[w].pc = "discord"
      /\ IF worker[w].discord = {}
         THEN /\ Hold(w, [worker[w] EXCEPT !.pc = "webhooks"])
              /\ UNCHANGED <<discordQ, faults, hist>>
         ELSE \E d \in worker[w].discord :
              /\ \/ /\ discordQ' = Put(discordQ, <<m, d>>)
                    /\ Hold(w, [worker[w] EXCEPT !.pc = "log", !.cur = d, !.sent = TRUE,
                                                 !.discord = @ \ {d}])
                    /\ UNCHANGED faults
                 \/ Fault("broker_fails") /\ UNCHANGED <<worker, discordQ>>
              /\ hist' = [hist EXCEPT !.attempts = Attempted({d}, m)]
      /\ UNCHANGED <<receiver, streamQ, note, logs>>

DispatchDiscord(w) ==
  LET m == worker[w].job.msg
      next(d, ok) == [worker[w] EXCEPT !.pc = "log", !.cur = d, !.sent = ok,
                                       !.discord = @ \ {d}]
  IN  /\ worker[w].pc = "discord"
      /\ IF worker[w].discord = {}
         THEN /\ Hold(w, [worker[w] EXCEPT !.pc = "webhooks"])
              /\ UNCHANGED <<discordQ, faults, hist>>
         ELSE \E d \in worker[w].discord :
              /\ \/ /\ discordQ' = Put(discordQ, <<m, d>>)
                    /\ Hold(w, next(d, TRUE))
                    /\ UNCHANGED faults
                 \/ /\ Fault("broker_fails")
                    /\ Hold(w, next(d, FALSE))
                    /\ UNCHANGED discordQ
              /\ hist' = [hist EXCEPT !.attempts = Attempted({d}, m)]
      /\ UNCHANGED <<receiver, streamQ, note, logs>>

\* The rows of notification_logs of one event and one notification, by status.
LogEntries == [sent: Nat, failed: Nat]

\* Entries for the notifications F that failed and the notifications S that did not.
Logged(m, S, F) ==
  [x \in Messages \X Notes |->
     [sent   |-> logs[x].sent + IF x[1] = m /\ x[2] \in S THEN 1 ELSE 0,
      failed |-> logs[x].failed + IF x[1] = m /\ x[2] \in F THEN 1 ELSE 0]]

LogDiscord(w) ==
  LET t == worker[w]
  IN  /\ t.pc = "log"
      /\ \/ /\ logs' = Logged(t.job.msg, IF t.sent THEN {t.cur} ELSE {},
                                         IF t.sent THEN {} ELSE {t.cur})
            /\ Hold(w, [t EXCEPT !.pc = "discord", !.cur = Null])
            /\ UNCHANGED <<streamQ, faults, hist>>
         \/ Nack(w) /\ UNCHANGED logs
      /\ UNCHANGED <<receiver, discordQ, note>>

\* dispatchWebhooks posts to all of them and waits until the last has settled.
PostWebhooks(w) ==
  LET t == worker[w]
  IN  /\ t.pc = "webhooks"
      /\ IF t.hooks = {} THEN Ack(w)
         ELSE \E F \in SUBSET t.hooks :
              /\ F # {} => "post_fails" \in Events
              /\ Hold(w, [t EXCEPT !.pc = "logHooks", !.failed = F])
              /\ hist' = [hist EXCEPT !.attempts = Attempted(t.hooks, t.job.msg),
                                      !.broken = (@ \ t.hooks) \cup F]
      /\ UNCHANGED <<receiver, streamQ, discordQ, note, logs, faults>>

LogWebhooksSwallows(w) ==
  LET t == worker[w]
  IN  /\ t.pc = "logHooks"
      /\ \/ /\ logs' = Logged(t.job.msg, t.hooks \ t.failed, t.failed)
            /\ IF t.failed = {} THEN Ack(w)
               ELSE Hold(w, [t EXCEPT !.pc = "suspend"]) /\ UNCHANGED hist
            /\ UNCHANGED <<streamQ, faults>>
         \/ Fault("db_fails") /\ Ack(w) /\ UNCHANGED <<logs, streamQ>>
      /\ UNCHANGED <<receiver, discordQ, note>>

LogWebhooksGoesOn(w) ==
  LET t == worker[w]
  IN  /\ t.pc = "logHooks"
      /\ \/ logs' = Logged(t.job.msg, t.hooks \ t.failed, t.failed) /\ UNCHANGED faults
         \/ Fault("db_fails") /\ UNCHANGED logs
      /\ IF t.failed = {} THEN Ack(w)
         ELSE Hold(w, [t EXCEPT !.pc = "suspend"]) /\ UNCHANGED hist
      /\ UNCHANGED <<receiver, streamQ, discordQ, note>>

LogWebhooks(w) ==
  LET t == worker[w]
  IN  /\ t.pc = "logHooks"
      /\ \/ /\ logs' = Logged(t.job.msg, t.hooks \ t.failed, t.failed)
            /\ IF t.failed = {} THEN Ack(w)
               ELSE Hold(w, [t EXCEPT !.pc = "suspend"]) /\ UNCHANGED hist
            /\ UNCHANGED <<streamQ, faults>>
         \/ Nack(w) /\ UNCHANGED logs
      /\ UNCHANGED <<receiver, discordQ, note>>

\* update(suspendedIds, Suspended), then the acknowledgement.
SuspendWebhooks(w) ==
  LET t == worker[w]
  IN  /\ t.pc = "suspend"
      /\ \/ /\ note' = [n \in Notes |-> IF n \in t.failed
                                        THEN [note[n] EXCEPT !.status = "suspended"] ELSE note[n]]
            /\ Hold(w, NoJob)
            /\ hist' = [hist EXCEPT !.acked = @ \cup {t.job.msg},
                                    !.owed = [m \in Messages |-> @[m] \ t.failed]]
            /\ UNCHANGED <<streamQ, faults>>
         \/ Nack(w) /\ UNCHANGED note
      /\ UNCHANGED <<receiver, discordQ, logs>>

\* A restart, or a lost connection: the broker requeues what was unacknowledged.
WorkerCrash ==
  LET held(x) == {w \in Workers : worker[w].job = x}
  IN  /\ \E w \in Workers : worker[w].pc # "idle"
      /\ Fault("worker_crash")
      /\ streamQ' = [x \in Payload |-> streamQ[x] + Cardinality(held(x))]
      /\ worker' = [w \in Workers |-> NoJob]
      /\ hist' = [hist EXCEPT !.requeued = [m \in Messages |->
           @[m] + Cardinality({w \in Workers : worker[w].job # Null /\ worker[w].job.msg = m})]]
      /\ UNCHANGED <<receiver, discordQ, note, logs>>

-----------------------------------------------------------------------------
(* discord-bot                                                              *)

\* SuspendNotificationHandler of the api was to suspend the notification and to log why.
\* Its findOne asks for the relation guild.discordGuildId: that is a column, TypeORM
\* rejects the query, and nothing is written.
SuspendNotification == UNCHANGED <<note, logs>>

\* SendNotificationHandler.  The queue is acknowledged on delivery, so the message
\* is gone whether it is sent, the send fails or the bot crashes.  A failed send
\* calls suspendNotification, and callSafe turns the rejection into a line of the
\* bot's log.
SendNotification(m, d) ==
  /\ discordQ[<<m, d>>] > 0
  /\ discordQ' = Take(discordQ, <<m, d>>)
  /\ SuspendNotification
  /\ UNCHANGED <<receiver, streamQ, worker, faults, hist>>

-----------------------------------------------------------------------------
(* The owner of a notification                                              *)

\* updateDiscordNotification / updateWebhookNotification make it Active again.
UpdateNotification(n, disabled) ==
  /\ "update" \in Events
  /\ note[n] # [status |-> "active", disabled |-> disabled]
  /\ note' = [note EXCEPT ![n] = [status |-> "active", disabled |-> disabled]]
  /\ hist' = [hist EXCEPT !.broken = @ \ {n},
                          !.owed = [m \in Messages |-> IF disabled THEN @[m] \ {n} ELSE @[m]]]
  /\ UNCHANGED <<receiver, streamQ, worker, discordQ, logs, faults>>

-----------------------------------------------------------------------------

Init ==
  /\ twitch = [m \in Messages |-> [sends |-> 0, answered |-> FALSE]]
  /\ marked = {}
  /\ request = [q \in Requests |-> NoRequest]
  /\ streamQ = [x \in Payload |-> 0]
  /\ worker = [w \in Workers |-> NoJob]
  /\ discordQ = [x \in Messages \X Discords |-> 0]
  /\ note = [n \in Notes |-> [status |-> "active", disabled |-> FALSE]]
  /\ logs = [x \in Messages \X Notes |-> [sent |-> 0, failed |-> 0]]
  /\ faults = 0
  /\ hist = [ingested |-> [m \in Messages |-> 0], requeued |-> [m \in Messages |-> 0],
             acked |-> {}, dropped |-> {}, owed |-> [m \in Messages |-> {}],
             attempts |-> [x \in Messages \X Notes |-> 0], broken |-> {}]

Receive(q) == MarkIfNew(q) \/ HandleEvent(q) \/ Publish(q)

Work(w) ==
  \/ FindEvent(w) \/ DispatchDiscord(w) \/ LogDiscord(w)
  \/ PostWebhooks(w) \/ LogWebhooks(w) \/ SuspendWebhooks(w)

Send == \E m \in Messages, d \in Discords : SendNotification(m, d)

Next ==
  \/ \E q \in Requests : (\E m \in Messages : Deliver(q, m)) \/ Receive(q)
  \/ \E w \in Workers : Consume(w) \/ Work(w)
  \/ Send
  \/ \E n \in Notes, b \in BOOLEAN : UpdateNotification(n, b)
  \/ \E m \in Messages : ExpireKey(m)
  \/ ReceiverCrash
  \/ WorkerCrash

Spec == Init /\ [][Next]_vars

\* What was begun goes on, and the consumers consume.
Fairness ==
  /\ \A q \in Requests : WF_vars(Receive(q))
  /\ \A w \in Workers : WF_vars(Work(w))
  /\ WF_vars(\E w \in Workers : Consume(w))
  /\ WF_vars(Send)

FairSpec == Spec /\ Fairness

-----------------------------------------------------------------------------
(* Properties                                                               *)

Job == [pc: {"idle", "find", "discord", "log", "webhooks", "logHooks", "suspend"},
        job: Payload \cup {Null}, discord: SUBSET Discords, hooks: SUBSET Webhooks,
        cur: Discords \cup {Null}, sent: BOOLEAN, failed: SUBSET Webhooks]

\* The types; no queue holds less than nothing, a busy worker holds a message.
TypeOK ==
  /\ twitch \in [Messages -> [sends: 0..MaxSends, answered: BOOLEAN]]
  /\ marked \subseteq Messages
  /\ request \in [Requests -> [pc: {"idle", "dedup", "call", "publish"},
                               msg: Messages \cup {Null}, game: BOOLEAN]]
  /\ streamQ \in [Payload -> Nat]
  /\ worker \in [Workers -> Job]
  /\ discordQ \in [Messages \X Discords -> Nat]
  /\ note \in [Notes -> [status: {"active", "suspended"}, disabled: BOOLEAN]]
  /\ logs \in [Messages \X Notes -> LogEntries]
  /\ faults \in 0..MaxFaults
  /\ \A q \in Requests : request[q].pc # "idle" => request[q].msg \in Messages
  /\ \A w \in Workers : worker[w].pc # "idle" => worker[w].job \in Payload

PastDedup(m) == {q \in Requests : request[q].msg = m /\ request[q].pc \in {"call", "publish"}}

\* "Idempotent ingestion": however often Twitch sends an event, and however the
\* requests overlap, it enters stream.events at most once.
IngestedOnce ==
  \A m \in Messages : hist.ingested[m] + Cardinality(PastDedup(m)) <= 1

\* An event Twitch will not send again is in stream.events, or on its way there;
\* the only events lost are those a stopping receiver had marked and not published.
AnsweredIsIngested ==
  \A m \in Messages :
    twitch[m].answered => hist.ingested[m] > 0 \/ PastDedup(m) # {} \/ m \in hist.dropped

\* When the worker has acknowledged an event, every notification that listened
\* from its publication until then has been attempted.
NobodySkipped ==
  \A m \in hist.acked : \A n \in hist.owed[m] : hist.attempts[<<m, n>>] > 0

\* A webhook whose last post failed is suspended or switched off, or is about to
\* be: a handler still has it on its list, or its message will be handled again.
FailedIsSuspended ==
  \A n \in hist.broken :
    \/ note[n].status = "suspended"
    \/ note[n].disabled
    \/ \E w \in Workers : n \in worker[w].failed
    \/ \E x \in Payload : streamQ[x] > 0
    \/ \E w \in Workers : worker[w].pc = "find" \/ n \in worker[w].hooks

\* "Every delivery attempt is logged": whatever fails between them, a webhook the
\* worker suspended has the failed post in its log.
SuspensionIsLogged ==
  \A n \in Webhooks :
    note[n].status = "suspended" => \E m \in Messages : logs[<<m, n>>].failed > 0

\* A destination is attempted again only when the message was handed out again.
NoSpuriousRepeat ==
  \A x \in Messages \X Notes :
    hist.attempts[x] <= hist.ingested[x[1]] + hist.requeued[x[1]]

Queued(m) == \E x \in Payload : x.msg = m /\ streamQ[x] > 0

\* A message of stream.events survives every failure of the worker: once the
\* database and the broker recover it is handled to its end.
QueuedIsHandled == \A m \in Messages : Queued(m) ~> m \in hist.acked
=============================================================================
