------------------------- MODULE EventPipelineProofs -------------------------
(***************************************************************************)
(* Theorems about EventPipeline, and that it implements Delivery, for any    *)
(* number of events, notifications, requests and handlers, any filters and   *)
(* any failures.                                                             *)
(***************************************************************************)
EXTENDS PipelineDelivery, FiniteSetTheorems, TLAPS

History ==
  [ingested: [Messages -> Nat], requeued: [Messages -> Nat], acked: SUBSET Messages,
   dropped: SUBSET Messages, owed: [Messages -> SUBSET Notes],
   attempts: [Messages \X Notes -> Nat], broken: SUBSET Webhooks]

Types == TypeOK /\ hist \in History

-----------------------------------------------------------------------------
(* Types                                                                    *)

LEMMA TypesInit == Init => Types
  <1> SUFFICES ASSUME Init PROVE Types
    OBVIOUS
  <1> USE PipelineConstants DEF Init
  <1>1. twitch \in [Messages -> [sends: 0..MaxSends, answered: BOOLEAN]]
    OBVIOUS
  <1>2. request \in [Requests -> [pc: {"idle", "dedup", "call", "publish"},
                                  msg: Messages \cup {Null}, game: BOOLEAN]]
    BY DEF NoRequest
  <1>3. worker \in [Workers -> Job]
    BY DEF NoJob, Job
  <1>4. note \in [Notes -> [status: {"active", "suspended"}, disabled: BOOLEAN]]
    OBVIOUS
  <1>5. logs \in [Messages \X Notes -> LogEntries]
    BY DEF LogEntries
  <1>6. hist \in History
    BY DEF History
  <1>7. /\ \A q \in Requests : request[q].pc = "idle"
        /\ \A w \in Workers : worker[w].pc = "idle"
    BY DEF NoRequest, NoJob
  <1>8. marked \subseteq Messages /\ faults \in 0..MaxFaults
    OBVIOUS
  <1>9. streamQ \in [Payload -> Nat] /\ discordQ \in [Messages \X Discords -> Nat]
    OBVIOUS
  <1> QED
    BY <1>1, <1>2, <1>3, <1>4, <1>5, <1>6, <1>7, <1>8, <1>9 DEF Types, TypeOK

\* What the steps of the receiver change, typed.
ReceiverTypes ==
  /\ twitch \in [Messages -> [sends: 0..MaxSends, answered: BOOLEAN]]
  /\ marked \subseteq Messages
  /\ request \in [Requests -> [pc: {"idle", "dedup", "call", "publish"},
                               msg: Messages \cup {Null}, game: BOOLEAN]]
  /\ \A q \in Requests : request[q].pc # "idle" => request[q].msg \in Messages

\* And those of the worker.
WorkerTypes ==
  /\ streamQ \in [Payload -> Nat]
  /\ worker \in [Workers -> Job]
  /\ \A w \in Workers : worker[w].pc # "idle" => worker[w].job \in Payload

OtherTypes ==
  /\ discordQ \in [Messages \X Discords -> Nat]
  /\ note \in [Notes -> [status: {"active", "suspended"}, disabled: BOOLEAN]]
  /\ logs \in [Messages \X Notes -> LogEntries]
  /\ faults \in 0..MaxFaults
  /\ hist \in History

LEMMA TypesSplit == Types <=> ReceiverTypes /\ WorkerTypes /\ OtherTypes
  BY DEF Types, TypeOK, ReceiverTypes, WorkerTypes, OtherTypes

LEMMA FaultType ==
  ASSUME NEW e, faults \in 0..MaxFaults, Fault(e)
  PROVE  faults' \in 0..MaxFaults
  BY PipelineConstants DEF Fault

LEMMA Rest ==
  ASSUME Types, ReceiverTypes', WorkerTypes', OtherTypes'
  PROVE  Types'
  BY DEF Types, TypeOK, ReceiverTypes, WorkerTypes, OtherTypes

LEMMA AnswerTypes ==
  ASSUME ReceiverTypes, NEW m \in Messages, Answer(m)
  PROVE  twitch' \in [Messages -> [sends: 0..MaxSends, answered: BOOLEAN]]
  <1>1. CASE UNCHANGED twitch
    BY <1>1 DEF ReceiverTypes
  <1>2. CASE twitch' = [twitch EXCEPT ![m].answered = TRUE]
    BY <1>2 DEF ReceiverTypes
  <1> QED
    BY <1>1, <1>2 DEF Answer

\* The steps that end a request, or move it on.
LEMMA RequestTypes ==
  ASSUME ReceiverTypes, NEW q \in Requests,
         \/ request' = [request EXCEPT ![q] = NoRequest]
         \/ request' = [r \in Requests |-> NoRequest]
         \/ \E m \in Messages :
              request' = [request EXCEPT ![q] = [pc |-> "dedup", msg |-> m, game |-> FALSE]]
         \/ /\ request[q].pc # "idle"
            /\ \/ request' = [request EXCEPT ![q].pc = "call"]
               \/ \E known \in BOOLEAN :
                    request' = [request EXCEPT ![q] =
                      [pc |-> "publish", msg |-> request[q].msg, game |-> known]]
  PROVE  /\ request' \in [Requests -> [pc: {"idle", "dedup", "call", "publish"},
                                       msg: Messages \cup {Null}, game: BOOLEAN]]
         /\ \A r \in Requests : request'[r].pc # "idle" => request'[r].msg \in Messages
  <1> USE DEF ReceiverTypes, NoRequest
  <1>1. CASE request' = [request EXCEPT ![q] = NoRequest]
    BY <1>1
  <1>2. CASE request' = [r \in Requests |-> NoRequest]
    BY <1>2
  <1>3. ASSUME NEW m \in Messages,
               request' = [request EXCEPT ![q] = [pc |-> "dedup", msg |-> m, game |-> FALSE]]
        PROVE  request' \in [Requests -> [pc: {"idle", "dedup", "call", "publish"},
                                          msg: Messages \cup {Null}, game: BOOLEAN]]
               /\ \A r \in Requests : request'[r].pc # "idle" => request'[r].msg \in Messages
    BY <1>3
  <1>4. CASE request[q].pc # "idle" /\ request' = [request EXCEPT ![q].pc = "call"]
    BY <1>4
  <1>5. ASSUME NEW known \in BOOLEAN, request[q].pc # "idle",
               request' = [request EXCEPT ![q] =
                      [pc |-> "publish", msg |-> request[q].msg, game |-> known]]
        PROVE  request' \in [Requests -> [pc: {"idle", "dedup", "call", "publish"},
                                          msg: Messages \cup {Null}, game: BOOLEAN]]
               /\ \A r \in Requests : request'[r].pc # "idle" => request'[r].msg \in Messages
    BY <1>5
  <1> QED
    BY <1>1, <1>2, <1>3, <1>4, <1>5

\* A stopping receiver adds events to those it dropped.
LEMMA StopTypes ==
  ASSUME ReceiverTypes, hist \in History, Stop
  PROVE  hist' \in History
  <1>1. {request[q].msg : q \in {r \in Requests : request[r].pc \in {"call", "publish"}}}
          \subseteq Messages
    BY DEF ReceiverTypes
  <1> QED
    BY <1>1 DEF Stop, History

LEMMA JobTypes ==
  ASSUME NEW t \in Job
  PROVE  /\ NoJob \in Job
         /\ \A x \in Payload : [NoJob EXCEPT !.pc = "find", !.job = x] \in Job
         /\ \A D \in SUBSET Discords, H \in SUBSET Webhooks :
              [t EXCEPT !.pc = "discord", !.discord = D, !.hooks = H] \in Job
         /\ \A p \in {"webhooks", "suspend"} : [t EXCEPT !.pc = p] \in Job
         /\ \A d \in Discords, ok \in BOOLEAN :
              [t EXCEPT !.pc = "log", !.cur = d, !.sent = ok, !.discord = @ \ {d}] \in Job
         /\ [t EXCEPT !.pc = "discord", !.cur = Null] \in Job
         /\ \A F \in SUBSET Webhooks : [t EXCEPT !.pc = "logHooks", !.failed = F] \in Job
  <1>1. NoJob \in Job
    BY DEF Job, NoJob
  <1>2. \A x \in Payload : [NoJob EXCEPT !.pc = "find", !.job = x] \in Job
    BY DEF Job, NoJob
  <1>3. \A D \in SUBSET Discords, H \in SUBSET Webhooks :
              [t EXCEPT !.pc = "discord", !.discord = D, !.hooks = H] \in Job
    BY DEF Job
  <1>4. \A p \in {"webhooks", "suspend"} : [t EXCEPT !.pc = p] \in Job
    BY DEF Job
  <1>5. \A d \in Discords, ok \in BOOLEAN :
              [t EXCEPT !.pc = "log", !.cur = d, !.sent = ok, !.discord = @ \ {d}] \in Job
    BY DEF Job
  <1>6. [t EXCEPT !.pc = "discord", !.cur = Null] \in Job
    BY DEF Job
  <1>7. \A F \in SUBSET Webhooks : [t EXCEPT !.pc = "logHooks", !.failed = F] \in Job
    BY DEF Job
  <1> QED
    BY <1>1, <1>2, <1>3, <1>4, <1>5, <1>6, <1>7

LEMMA HistTypes ==
  ASSUME hist \in History, NEW m \in Messages, NEW N \in SUBSET Notes
  PROVE  /\ [hist EXCEPT !.ingested[m] = @ + 1, !.owed[m] = N] \in History
         /\ \A M \in SUBSET Messages : [hist EXCEPT !.dropped = @ \cup M] \in History
         /\ [hist EXCEPT !.acked = @ \cup {m}] \in History
         /\ [hist EXCEPT !.requeued[m] = @ + 1] \in History
         /\ [hist EXCEPT !.acked = @ \cup {m}, !.owed[m] = {}, !.broken = {}] \in History
         /\ [hist EXCEPT !.attempts = Attempted(N, m)] \in History
         /\ \A B \in SUBSET Webhooks :
              [hist EXCEPT !.attempts = Attempted(N, m), !.broken = B] \in History
         /\ [hist EXCEPT !.acked = @ \cup {m}, !.owed = [k \in Messages |-> @[k] \ N]] \in History
         /\ \A R \in [Messages -> Nat] : [hist EXCEPT !.requeued = R] \in History
         /\ \A n \in Notes, O \in [Messages -> SUBSET Notes] :
              [hist EXCEPT !.broken = @ \ {n}, !.owed = O] \in History
  <1> USE DEF History
  <1>1. [hist EXCEPT !.ingested[m] = @ + 1, !.owed[m] = N] \in History
    <2> DEFINE mid == [hist EXCEPT !.ingested[m] = @ + 1]
    <2>1. mid \in History
      OBVIOUS
    <2>2. [mid EXCEPT !.owed[m] = N] \in History
      BY <2>1
    <2> QED
      BY <2>2
  <1>2. \A M \in SUBSET Messages : [hist EXCEPT !.dropped = @ \cup M] \in History
    OBVIOUS
  <1>3. [hist EXCEPT !.acked = @ \cup {m}] \in History
    OBVIOUS
  <1>4. [hist EXCEPT !.requeued[m] = @ + 1] \in History
    OBVIOUS
  <1>5. [hist EXCEPT !.acked = @ \cup {m}, !.owed[m] = {}, !.broken = {}] \in History
    <2> DEFINE mid == [hist EXCEPT !.acked = @ \cup {m}, !.owed[m] = {}]
    <2>1. mid \in History
      OBVIOUS
    <2>2. [mid EXCEPT !.broken = {}] \in History
      BY <2>1
    <2> QED
      BY <2>2
  <1>6. Attempted(N, m) \in [Messages \X Notes -> Nat]
    BY DEF Attempted
  <1>7. [hist EXCEPT !.attempts = Attempted(N, m)] \in History
    BY <1>6
  <1>8. \A B \in SUBSET Webhooks :
              [hist EXCEPT !.attempts = Attempted(N, m), !.broken = B] \in History
    BY <1>6
  <1>9. [hist EXCEPT !.acked = @ \cup {m}, !.owed = [k \in Messages |-> @[k] \ N]] \in History
    OBVIOUS
  <1>10. \A R \in [Messages -> Nat] : [hist EXCEPT !.requeued = R] \in History
    OBVIOUS
  <1>11. \A n \in Notes, O \in [Messages -> SUBSET Notes] :
              [hist EXCEPT !.broken = @ \ {n}, !.owed = O] \in History
    OBVIOUS
  <1> QED
    BY <1>1, <1>2, <1>3, <1>4, <1>5, <1>7, <1>8, <1>9, <1>10, <1>11

LEMMA ReceiverTypesStep ==
  ASSUME Types, NEW q \in Requests, Receive(q) \/ (\E m \in Messages : Deliver(q, m))
  PROVE  Types'
  <1>0. ReceiverTypes /\ WorkerTypes /\ OtherTypes
    BY TypesSplit
  <1>1. ASSUME NEW m \in Messages, Deliver(q, m) PROVE Types'
    <2>1. twitch' \in [Messages -> [sends: 0..MaxSends, answered: BOOLEAN]]
      BY <1>0, <1>1, PipelineConstants DEF Deliver, ReceiverTypes
    <2>2. ReceiverTypes'
      BY <1>0, <1>1, <2>1, RequestTypes DEF Deliver, ReceiverTypes
    <2>3. WorkerTypes' /\ OtherTypes'
      BY <1>0, <1>1 DEF Deliver, delivery, WorkerTypes, OtherTypes
    <2> QED
      BY <2>2, <2>3, Rest
  <1>2. CASE MarkIfNew(q)
    <2>1. request[q].msg \in Messages /\ request[q].pc # "idle"
      BY <1>0, <1>2 DEF MarkIfNew, ReceiverTypes
    <2>2. twitch' \in [Messages -> [sends: 0..MaxSends, answered: BOOLEAN]]
      BY <1>0, <1>2, <2>1, AnswerTypes DEF MarkIfNew, ReceiverTypes
    <2>3. marked' \subseteq Messages
      BY <1>0, <1>2, <2>1 DEF MarkIfNew, ReceiverTypes
    <2>4. ReceiverTypes'
      BY <1>0, <1>2, <2>1, <2>2, <2>3, RequestTypes DEF MarkIfNew, ReceiverTypes
    <2>5. WorkerTypes' /\ OtherTypes'
      BY <1>0, <1>2, FaultType DEF MarkIfNew, delivery, WorkerTypes, OtherTypes
    <2> QED
      BY <2>4, <2>5, Rest
  <1>3. CASE HandleEvent(q)
    <2>1. request[q].msg \in Messages /\ request[q].pc # "idle"
      BY <1>0, <1>3 DEF HandleEvent, ReceiverTypes
    <2>2. twitch' \in [Messages -> [sends: 0..MaxSends, answered: BOOLEAN]]
      BY <1>0, <1>3, <2>1, AnswerTypes DEF HandleEvent
    <2>3. ReceiverTypes'
      BY <1>0, <1>3, <2>1, <2>2, RequestTypes DEF HandleEvent, ReceiverTypes
    <2>4. WorkerTypes' /\ OtherTypes'
      BY <1>0, <1>3 DEF HandleEvent, delivery, WorkerTypes, OtherTypes
    <2> QED
      BY <2>3, <2>4, Rest
  <1>4. CASE Publish(q)
    <2> DEFINE x == [msg |-> request[q].msg, game |-> request[q].game]
    <2>1. x \in Payload /\ x.msg \in Messages /\ request[q].pc # "idle"
      BY <1>0, <1>4 DEF Publish, Payload, ReceiverTypes
    <2>2. ReceiverTypes'
      BY <1>0, <1>4, RequestTypes DEF Publish, Stop, ReceiverTypes
    <2>3. WorkerTypes'
      BY <1>0, <1>4, <2>1 DEF Publish, Put, delivery, WorkerTypes
    <2>4. hist' \in History
      <3>1. Destinations(x) \in SUBSET Notes
        BY DEF Destinations, Listening
      <3>2. CASE Stop
        BY <1>0, <2>1, <3>2, StopTypes DEF OtherTypes
      <3>3. CASE hist' = [hist EXCEPT !.ingested[x.msg] = @ + 1,
                                      !.owed[x.msg] = Destinations(x)]
        <4> HIDE DEF x
        <4> QED
          BY <1>0, <2>1, <3>1, <3>3, HistTypes DEF OtherTypes
      <3> QED
        BY <1>4, <3>2, <3>3 DEF Publish
    <2>5. OtherTypes'
      BY <1>0, <1>4, <2>4, FaultType DEF Publish, delivery, OtherTypes
    <2> QED
      BY <2>2, <2>3, <2>5, Rest
  <1> QED
    BY <1>1, <1>2, <1>3, <1>4 DEF Receive

LEMMA LoggedType ==
  ASSUME logs \in [Messages \X Notes -> LogEntries], NEW m, NEW S, NEW F
  PROVE  Logged(m, S, F) \in [Messages \X Notes -> LogEntries]
  BY DEF Logged, LogEntries

LEMMA WorkTypesStep ==
  ASSUME Types, NEW w \in Workers, Consume(w) \/ Work(w)
  PROVE  Types'
  <1> DEFINE t == worker[w]
             m == t.job.msg
  <1>0. ReceiverTypes /\ WorkerTypes /\ OtherTypes
    BY TypesSplit
  <1>1. t \in Job /\ (t.pc # "idle" => t.job \in Payload /\ m \in Messages)
    BY <1>0 DEF WorkerTypes, Payload
  <1>2. ReceiverTypes'
    BY <1>0 DEF Consume, Work, FindEvent, DispatchDiscord, LogDiscord, PostWebhooks,
                LogWebhooks, SuspendWebhooks, receiver, ReceiverTypes
  <1>3. ASSUME NEW job \in Job, Hold(w, job), job.pc # "idle" => job.job \in Payload,
               streamQ' \in [Payload -> Nat]
        PROVE  WorkerTypes'
    BY <1>0, <1>3 DEF Hold, WorkerTypes
  <1>4. NoJob \in Job /\ NoJob.pc = "idle"
    BY DEF NoJob, Job
  <1>5. ASSUME Nack(w), t.pc # "idle"
        PROVE  WorkerTypes' /\ hist' \in History /\ faults' \in 0..MaxFaults
    <2>1. streamQ' \in [Payload -> Nat]
      BY <1>0, <1>1, <1>5 DEF Nack, Put, WorkerTypes
    <2>2. WorkerTypes'
      BY <1>3, <1>4, <1>5, <2>1 DEF Nack
    <2> QED
      BY <1>0, <1>1, <1>5, <2>2, FaultType, HistTypes DEF Nack, OtherTypes
  <1>6. ASSUME Ack(w), t.pc # "idle", UNCHANGED streamQ
        PROVE  WorkerTypes' /\ hist' \in History
    <2>1. WorkerTypes'
      BY <1>0, <1>3, <1>4, <1>6 DEF Ack, WorkerTypes
    <2> QED
      BY <1>0, <1>1, <1>6, <2>1, HistTypes DEF Ack, OtherTypes
  <1>7. CASE Consume(w)
    <2>1. PICK x \in Payload : /\ streamQ[x] > 0
                               /\ streamQ' = Take(streamQ, x)
                               /\ Hold(w, [NoJob EXCEPT !.pc = "find", !.job = x])
      BY <1>7 DEF Consume
    <2>2. streamQ' \in [Payload -> Nat]
      BY <1>0, <2>1 DEF Take, WorkerTypes
    <2>3. [NoJob EXCEPT !.pc = "find", !.job = x].job = x
      BY DEF NoJob
    <2>4. WorkerTypes'
      BY <1>1, <1>3, <2>1, <2>2, <2>3, JobTypes
    <2>5. OtherTypes'
      BY <1>0, <1>7 DEF Consume, OtherTypes
    <2> QED
      BY <1>2, <2>4, <2>5, Rest
  <1>8. CASE FindEvent(w)
    <2>1. t.pc # "idle"
      BY <1>8 DEF FindEvent
    <2> DEFINE to == Destinations(t.job)
               found == [t EXCEPT !.pc = "discord", !.discord = to \cap Discords,
                                  !.hooks = to \cap Webhooks]
    <2>2. found \in Job
      BY <1>1, JobTypes
    <2>3. found.job = t.job
      BY <1>1 DEF Job
    <2> HIDE DEF found, to
    <2>4. WorkerTypes' /\ hist' \in History /\ faults' \in 0..MaxFaults
      <3>1. CASE Hold(w, found) /\ UNCHANGED <<streamQ, faults, hist>>
        BY <1>0, <1>1, <1>3, <2>1, <2>2, <2>3, <3>1 DEF WorkerTypes, OtherTypes
      <3>2. CASE /\ Hold(w, NoJob)
                 /\ hist' = [hist EXCEPT !.acked = @ \cup {m}, !.owed[m] = {}, !.broken = {}]
                 /\ UNCHANGED <<streamQ, faults>>
        BY <1>0, <1>1, <1>3, <1>4, <2>1, <3>2, HistTypes DEF WorkerTypes, OtherTypes
      <3>3. CASE Nack(w)
        BY <1>5, <2>1, <3>3
      <3> QED
        BY <1>8, <3>1, <3>2, <3>3 DEF FindEvent, found, to
    <2>5. OtherTypes'
      BY <1>0, <1>8, <2>4 DEF FindEvent, OtherTypes
    <2> QED
      BY <1>2, <2>4, <2>5, Rest
  <1>9. CASE DispatchDiscord(w)
    <2>1. t.pc # "idle"
      BY <1>9 DEF DispatchDiscord
    <2>2. CASE t.discord = {}
      <3>1. [t EXCEPT !.pc = "webhooks"] \in Job /\ [t EXCEPT !.pc = "webhooks"].job = t.job
        <4>1. [t EXCEPT !.pc = "webhooks"] \in Job
          BY <1>1, JobTypes
        <4>2. [t EXCEPT !.pc = "webhooks"].job = t.job
          BY <1>1 DEF Job
        <4> QED
          BY <4>1, <4>2
      <3>2. WorkerTypes'
        BY <1>0, <1>1, <1>3, <1>9, <2>1, <2>2, <3>1 DEF DispatchDiscord, WorkerTypes
      <3>3. OtherTypes'
        BY <1>0, <1>9, <2>2 DEF DispatchDiscord, OtherTypes
      <3> QED
        BY <1>2, <3>2, <3>3, Rest
    <2>3. CASE t.discord # {}
      <3> DEFINE next(d, ok) == [t EXCEPT !.pc = "log", !.cur = d, !.sent = ok,
                                          !.discord = @ \ {d}]
      <3>1. PICK d \in t.discord :
              /\ \/ /\ discordQ' = Put(discordQ, <<m, d>>)
                    /\ Hold(w, next(d, TRUE))
                    /\ UNCHANGED faults
                 \/ /\ Fault("broker_fails")
                    /\ Hold(w, next(d, FALSE))
                    /\ UNCHANGED discordQ
              /\ hist' = [hist EXCEPT !.attempts = Attempted({d}, m)]
        BY <1>9, <2>3 DEF DispatchDiscord
      <3>2. d \in Discords
        BY <1>1 DEF Job
      <3>3. \A ok \in BOOLEAN : next(d, ok) \in Job /\ next(d, ok).job = t.job
        <4>1. \A ok \in BOOLEAN : next(d, ok) \in Job
          BY <1>1, <3>2, JobTypes
        <4>2. \A ok \in BOOLEAN : next(d, ok).job = t.job
          BY <1>1 DEF Job
        <4> HIDE DEF next
        <4> QED
          BY <4>1, <4>2
      <3> HIDE DEF next
      <3>4. streamQ' \in [Payload -> Nat]
        BY <1>0, <1>9 DEF DispatchDiscord, WorkerTypes
      <3>5. WorkerTypes'
        BY <1>1, <1>3, <2>1, <3>1, <3>3, <3>4
      <3>6. discordQ' \in [Messages \X Discords -> Nat]
        <4>1. <<m, d>> \in Messages \X Discords
          BY <1>1, <2>1, <3>2
        <4>2. Put(discordQ, <<m, d>>) \in [Messages \X Discords -> Nat]
          BY <1>0, <4>1 DEF Put, OtherTypes
        <4> QED
          BY <1>0, <3>1, <4>2 DEF OtherTypes
      <3>7. hist' \in History
        <4>1. {d} \in SUBSET Notes
          BY <3>2 DEF Notes
        <4> QED
          BY <1>0, <1>1, <2>1, <3>1, <4>1, HistTypes DEF OtherTypes
      <3>8. OtherTypes'
        BY <1>0, <1>9, <3>1, <3>6, <3>7, FaultType DEF DispatchDiscord, OtherTypes
      <3> QED
        BY <1>2, <3>5, <3>8, Rest
    <2> QED
      BY <2>2, <2>3
  <1>10. CASE LogDiscord(w)
    <2>1. t.pc # "idle"
      BY <1>10 DEF LogDiscord
    <2> DEFINE next == [t EXCEPT !.pc = "discord", !.cur = Null]
    <2>2. next \in Job /\ next.job = t.job
      <3>1. next \in Job
        BY <1>1, JobTypes
      <3>2. next.job = t.job
        BY <1>1 DEF Job
      <3> QED
        BY <3>1, <3>2
    <2> HIDE DEF next
    <2>3. CASE Nack(w) /\ UNCHANGED logs
      <3>1. OtherTypes'
        BY <1>0, <1>5, <1>10, <2>1, <2>3 DEF LogDiscord, OtherTypes
      <3> QED
        BY <1>2, <1>5, <2>1, <2>3, <3>1, Rest
    <2>4. CASE /\ logs' = Logged(m, IF t.sent THEN {t.cur} ELSE {}, IF t.sent THEN {} ELSE {t.cur})
               /\ Hold(w, next)
               /\ UNCHANGED <<streamQ, faults, hist>>
      <3>1. WorkerTypes'
        BY <1>0, <1>1, <1>3, <2>1, <2>2, <2>4 DEF WorkerTypes
      <3>2. OtherTypes'
        BY <1>0, <1>10, <2>4, LoggedType DEF LogDiscord, OtherTypes
      <3> QED
        BY <1>2, <3>1, <3>2, Rest
    <2> QED
      BY <1>10, <2>3, <2>4 DEF LogDiscord, next
  <1>11. CASE PostWebhooks(w)
    <2>1. t.pc # "idle"
      BY <1>11 DEF PostWebhooks
    <2>2. CASE t.hooks = {}
      <3>1. Ack(w) /\ UNCHANGED streamQ
        BY <1>11, <2>2 DEF PostWebhooks
      <3>2. OtherTypes'
        BY <1>0, <1>6, <1>11, <2>1, <3>1 DEF PostWebhooks, OtherTypes
      <3> QED
        BY <1>2, <1>6, <2>1, <3>1, <3>2, Rest
    <2>3. CASE t.hooks # {}
      <3>1. PICK F \in SUBSET t.hooks :
              /\ Hold(w, [t EXCEPT !.pc = "logHooks", !.failed = F])
              /\ hist' = [hist EXCEPT !.attempts = Attempted(t.hooks, m),
                                      !.broken = (@ \ t.hooks) \cup F]
        BY <1>11, <2>3 DEF PostWebhooks
      <3> DEFINE next == [t EXCEPT !.pc = "logHooks", !.failed = F]
      <3>2. next \in Job /\ next.job = t.job
        <4>1. F \in SUBSET Webhooks
          BY <1>1 DEF Job
        <4>2. next \in Job
          BY <1>1, <4>1, JobTypes
        <4>3. next.job = t.job
          BY <1>1 DEF Job
        <4> QED
          BY <4>2, <4>3
      <3> HIDE DEF next
      <3>3. WorkerTypes'
        BY <1>0, <1>1, <1>3, <1>11, <2>1, <3>1, <3>2 DEF PostWebhooks, WorkerTypes, next
      <3>4. hist' \in History
        <4>1. t.hooks \in SUBSET Notes /\ (hist.broken \ t.hooks) \cup F \in SUBSET Webhooks
          BY <1>0, <1>1 DEF Job, Notes, OtherTypes, History
        <4> QED
          BY <1>0, <1>1, <2>1, <3>1, <4>1, HistTypes DEF OtherTypes
      <3>5. OtherTypes'
        BY <1>0, <1>11, <3>4 DEF PostWebhooks, OtherTypes
      <3> QED
        BY <1>2, <3>3, <3>5, Rest
    <2> QED
      BY <2>2, <2>3
  <1>12. CASE LogWebhooks(w)
    <2>1. t.pc # "idle"
      BY <1>12 DEF LogWebhooks
    <2>2. CASE Nack(w) /\ UNCHANGED logs
      <3>1. OtherTypes'
        BY <1>0, <1>5, <1>12, <2>1, <2>2 DEF LogWebhooks, OtherTypes
      <3> QED
        BY <1>2, <1>5, <2>1, <2>2, <3>1, Rest
    <2> DEFINE next == [t EXCEPT !.pc = "suspend"]
    <2>3. next \in Job /\ next.job = t.job
      <3>1. next \in Job
        BY <1>1, JobTypes
      <3>2. next.job = t.job
        BY <1>1 DEF Job
      <3> QED
        BY <3>1, <3>2
    <2> HIDE DEF next
    <2>4. CASE /\ logs' = Logged(m, t.hooks \ t.failed, t.failed)
               /\ IF t.failed = {} THEN Ack(w) ELSE Hold(w, next) /\ UNCHANGED hist
               /\ UNCHANGED <<streamQ, faults>>
      <3>1. WorkerTypes' /\ hist' \in History
        BY <1>0, <1>1, <1>3, <1>6, <2>1, <2>3, <2>4 DEF WorkerTypes, OtherTypes
      <3>2. OtherTypes'
        BY <1>0, <1>12, <2>4, <3>1, LoggedType DEF LogWebhooks, OtherTypes
      <3> QED
        BY <1>2, <3>1, <3>2, Rest
    <2> QED
      BY <1>12, <2>2, <2>4 DEF LogWebhooks, next
  <1>13. CASE SuspendWebhooks(w)
    <2>1. t.pc # "idle"
      BY <1>13 DEF SuspendWebhooks
    <2>2. CASE Nack(w) /\ UNCHANGED note
      <3>1. OtherTypes'
        BY <1>0, <1>5, <1>13, <2>1, <2>2 DEF SuspendWebhooks, OtherTypes
      <3> QED
        BY <1>2, <1>5, <2>1, <2>2, <3>1, Rest
    <2>3. CASE /\ note' = [n \in Notes |-> IF n \in t.failed
                                  THEN [note[n] EXCEPT !.status = "suspended"] ELSE note[n]]
               /\ Hold(w, NoJob)
               /\ hist' = [hist EXCEPT !.acked = @ \cup {m},
                                       !.owed = [k \in Messages |-> @[k] \ t.failed]]
               /\ UNCHANGED <<streamQ, faults>>
      <3>1. WorkerTypes'
        BY <1>0, <1>3, <1>4, <2>3 DEF WorkerTypes
      <3>2. note' \in [Notes -> [status: {"active", "suspended"}, disabled: BOOLEAN]]
        BY <1>0, <2>3 DEF OtherTypes
      <3>3. hist' \in History
        <4>1. t.failed \in SUBSET Notes
          BY <1>1 DEF Job, Notes
        <4> QED
          BY <1>0, <1>1, <2>1, <2>3, <4>1, HistTypes DEF OtherTypes
      <3>4. OtherTypes'
        BY <1>0, <1>13, <2>3, <3>2, <3>3 DEF SuspendWebhooks, OtherTypes
      <3> QED
        BY <1>2, <3>1, <3>4, Rest
    <2> QED
      BY <1>13, <2>2, <2>3 DEF SuspendWebhooks
  <1> QED
    BY <1>7, <1>8, <1>9, <1>10, <1>11, <1>12, <1>13 DEF Work

LEMMA TypesStep == Types /\ [Next]_vars => Types'
  <1> SUFFICES ASSUME Types, [Next]_vars PROVE Types'
    OBVIOUS
  <1>0. ReceiverTypes /\ WorkerTypes /\ OtherTypes
    BY TypesSplit
  <1>1. CASE UNCHANGED vars
    BY <1>0, <1>1, Rest DEF vars, ReceiverTypes, WorkerTypes, OtherTypes
  <1>2. CASE Send
    <2>1. PICK m \in Messages, d \in Discords : SendNotification(m, d)
      BY <1>2 DEF Send
    <2>2. <<m, d>> \in Messages \X Discords /\ discordQ[<<m, d>>] > 0
      BY <2>1 DEF SendNotification, SuspendNotification
    <2>3. discordQ' \in [Messages \X Discords -> Nat]
      BY <1>0, <2>1, <2>2 DEF SendNotification, SuspendNotification, Take, OtherTypes
    <2>4. ReceiverTypes' /\ WorkerTypes' /\ OtherTypes'
      BY <1>0, <2>1, <2>3 DEF SendNotification, SuspendNotification, receiver, ReceiverTypes, WorkerTypes, OtherTypes
    <2> QED
      BY <2>4, Rest
  <1>3. ASSUME NEW n \in Notes, NEW b \in BOOLEAN, UpdateNotification(n, b)
        PROVE  Types'
    <2>1. note' \in [Notes -> [status: {"active", "suspended"}, disabled: BOOLEAN]]
      BY <1>0, <1>3 DEF UpdateNotification, OtherTypes
    <2>2. hist' \in History
      <3> DEFINE O == [m \in Messages |-> IF b THEN hist.owed[m] \ {n} ELSE hist.owed[m]]
      <3>1. O \in [Messages -> SUBSET Notes] /\ hist \in History
        BY <1>0 DEF OtherTypes, History
      <3>2. hist' = [hist EXCEPT !.broken = @ \ {n}, !.owed = O]
        BY <1>3 DEF UpdateNotification
      <3> HIDE DEF O
      <3> QED
        BY <3>1, <3>2 DEF History
    <2>3. ReceiverTypes' /\ WorkerTypes' /\ OtherTypes'
      BY <1>0, <1>3, <2>1, <2>2 DEF UpdateNotification, receiver,
         ReceiverTypes, WorkerTypes, OtherTypes
    <2> QED
      BY <2>3, Rest
  <1>4. ASSUME NEW m \in Messages, ExpireKey(m)
        PROVE  Types'
    <2>1. ReceiverTypes' /\ WorkerTypes' /\ OtherTypes'
      BY <1>0, <1>4 DEF ExpireKey, delivery, ReceiverTypes, WorkerTypes, OtherTypes
    <2> QED
      BY <2>1, Rest
  <1>5. CASE ReceiverCrash
    <2>1. hist' \in History
      BY <1>0, <1>5, StopTypes DEF ReceiverCrash, OtherTypes
    <2>2. ReceiverTypes'
      BY <1>0, <1>5, RequestTypes DEF ReceiverCrash, Stop, ReceiverTypes
    <2>3. WorkerTypes' /\ OtherTypes'
      BY <1>0, <1>5, <2>1, FaultType DEF ReceiverCrash, delivery, WorkerTypes, OtherTypes
    <2> QED
      BY <2>2, <2>3, Rest
  <1>6. CASE WorkerCrash
    <2>1. \A W \in SUBSET Workers : Cardinality(W) \in Nat
      BY PipelineConstants, FS_Subset, FS_CardinalityType
    <2>2. WorkerTypes'
      <3>1. streamQ' \in [Payload -> Nat]
        <4>1. \A x \in Payload : Cardinality({w \in Workers : worker[w].job = x}) \in Nat
          BY <2>1
        <4> QED
          BY <1>0, <1>6, <4>1 DEF WorkerCrash, WorkerTypes
      <3>2. NoJob \in Job /\ NoJob.pc = "idle"
        BY DEF NoJob, Job
      <3> QED
        BY <1>6, <3>1, <3>2 DEF WorkerCrash, WorkerTypes
    <2>3. hist' \in History
      <3> DEFINE back(m) == Cardinality({w \in Workers : worker[w].job # Null
                                                          /\ worker[w].job.msg = m})
                 R == [m \in Messages |-> hist.requeued[m] + back(m)]
      <3>1. \A m \in Messages : back(m) \in Nat
        BY <2>1
      <3>2. R \in [Messages -> Nat] /\ hist \in History
        BY <1>0, <3>1 DEF OtherTypes, History
      <3>3. hist' = [hist EXCEPT !.requeued = R]
        BY <1>6 DEF WorkerCrash
      <3> HIDE DEF R
      <3> QED
        BY <3>2, <3>3 DEF History
    <2>4. ReceiverTypes' /\ OtherTypes'
      BY <1>0, <1>6, <2>3, FaultType DEF WorkerCrash, receiver, ReceiverTypes, OtherTypes
    <2> QED
      BY <2>2, <2>4, Rest
  <1> QED
    BY <1>1, <1>2, <1>3, <1>4, <1>5, <1>6, ReceiverTypesStep, WorkTypesStep DEF Next

LEMMA TypesHold == Spec => []Types
  BY TypesInit, TypesStep, PTL DEF Spec

\* Whatever is sent, fails or restarts, every variable keeps its type, no queue
\* holds less than nothing, and a busy handler holds an event.
THEOREM TypeCorrect == Spec => []TypeOK
  <1>1. Types => TypeOK
    BY DEF Types
  <1> QED
    BY <1>1, TypesHold, PTL

-----------------------------------------------------------------------------
(* The receiver's gate                                                      *)

Past(q, m) == request[q].msg = m /\ request[q].pc \in {"call", "publish"}

\* An event is past its deduplication in at most one request, and only until it is
\* in the queue.
Once(m) ==
  \/ hist.ingested[m] = 0 /\ \A p, q \in Requests : Past(p, m) /\ Past(q, m) => p = q
  \/ hist.ingested[m] = 1 /\ \A q \in Requests : ~Past(q, m)

\* An event without a key is new, or Twitch has finished with it.
Unmarked(m) ==
  m \notin marked =>
    \/ hist.ingested[m] = 0 /\ \A q \in Requests : ~Past(q, m)
    \/ twitch[m].sends = MaxSends /\ \A q \in Requests : request[q].msg # m

\* An event with a key, or with an answer, went in, is going in or was dropped.
Accounted(m) ==
  m \in marked \/ twitch[m].answered =>
    hist.ingested[m] > 0 \/ (\E q \in Requests : Past(q, m)) \/ m \in hist.dropped

Gate == \A m \in Messages : Once(m) /\ Unmarked(m) /\ Accounted(m)

LEMMA GateInit == Init => Gate
  BY PipelineConstants DEF Init, NoRequest, Gate, Once, Unmarked, Accounted, Past

LEMMA GateFrame ==
  ASSUME Gate, UNCHANGED receiver,
         hist'.ingested = hist.ingested, hist'.dropped = hist.dropped
  PROVE  Gate'
  BY DEF receiver, Gate, Once, Unmarked, Accounted, Past

\* When every request ends, those past their deduplication are dropped.
LEMMA GateStop ==
  ASSUME Types, Gate, Stop, UNCHANGED <<twitch, marked>>
  PROVE  Gate'
  <1> DEFINE lost == {request[q].msg : q \in {r \in Requests :
                                               request[r].pc \in {"call", "publish"}}}
  <1>1. hist \in History /\ hist' = [hist EXCEPT !.dropped = @ \cup lost]
    BY DEF Types, Stop
  <1>2. hist'.ingested = hist.ingested /\ hist'.dropped = hist.dropped \cup lost
    BY <1>1 DEF History
  <1>3. \A q \in Requests : request'[q].pc = "idle" /\ request'[q].msg = Null
    BY DEF Stop, NoRequest
  <1>4. SUFFICES ASSUME NEW m \in Messages PROVE Once(m)' /\ Unmarked(m)' /\ Accounted(m)'
    BY DEF Gate
  <1>5. m # Null
    BY PipelineConstants
  <1>6. Once(m) /\ Unmarked(m) /\ Accounted(m)
    BY DEF Gate
  <1>7. \A q \in Requests : Past(q, m) => m \in lost
    BY DEF Past
  <1> HIDE DEF lost
  <1>8. Once(m)'
    BY <1>2, <1>3, <1>6 DEF Once, Past
  <1>9. Unmarked(m)'
    BY <1>2, <1>3, <1>5, <1>6 DEF Unmarked, Past
  <1>10. Accounted(m)'
    BY <1>2, <1>6, <1>7 DEF Accounted
  <1> QED
    BY <1>8, <1>9, <1>10

LEMMA GateReceive ==
  ASSUME Types, Gate, NEW q \in Requests, Receive(q) \/ (\E m \in Messages : Deliver(q, m))
  PROVE  Gate'
  <1>0. ReceiverTypes /\ hist \in History
    BY TypesSplit DEF Types
  <1> SUFFICES ASSUME NEW m \in Messages PROVE Once(m)' /\ Unmarked(m)' /\ Accounted(m)'
    <2>1. CASE Publish(q) /\ Stop
      BY <2>1, GateStop DEF Publish
    <2> QED
      BY <2>1 DEF Gate
  <1>1. Once(m) /\ Unmarked(m) /\ Accounted(m) /\ m # Null
    BY PipelineConstants DEF Gate
  <1>2. ASSUME NEW k \in Messages, Deliver(q, k) PROVE Once(m)' /\ Unmarked(m)' /\ Accounted(m)'
    <2>1. /\ request[q].pc = "idle" /\ twitch[k].sends # MaxSends
          /\ request' = [request EXCEPT ![q] = [pc |-> "dedup", msg |-> k, game |-> FALSE]]
          /\ UNCHANGED <<marked, hist>>
      BY <1>0, <1>2, PipelineConstants DEF Deliver, ReceiverTypes
    <2>2. \A r \in Requests : Past(r, m)' <=> Past(r, m)
      BY <1>0, <2>1 DEF Past, ReceiverTypes
    <2>3. twitch'[m].answered = twitch[m].answered /\ (m # k => twitch'[m] = twitch[m])
      BY <1>0, <1>2 DEF Deliver, ReceiverTypes
    <2>4. \A r \in Requests : r # q => request'[r] = request[r]
      BY <1>0, <2>1 DEF ReceiverTypes
    <2>5. request'[q].msg = k
      BY <1>0, <2>1 DEF ReceiverTypes
    <2> QED
      BY <1>1, <2>1, <2>2, <2>3, <2>4, <2>5 DEF Once, Unmarked, Accounted
  <1>3. ASSUME NEW k \in Messages, Answer(k)
        PROVE  /\ twitch'[m].sends = twitch[m].sends
               /\ m # k => twitch'[m].answered = twitch[m].answered
    BY <1>0, <1>3 DEF Answer, ReceiverTypes
  <1> DEFINE k == request[q].msg
  <1>4. request[q].pc # "idle" => k \in Messages
    BY <1>0 DEF ReceiverTypes
  \* The other requests stay as they are.
  <1>5. ASSUME NEW new, request' = [request EXCEPT ![q] = new]
        PROVE  /\ \A r \in Requests : r # q => request'[r] = request[r]
               /\ request'[q] = new
    BY <1>0, <1>5 DEF ReceiverTypes
  <1>6. CASE MarkIfNew(q)
    <2>1. /\ request[q].pc = "dedup" /\ UNCHANGED hist /\ ~Past(q, m)
      BY <1>6 DEF MarkIfNew, Past
    <2>2. CASE /\ k \in marked
               /\ request' = [request EXCEPT ![q] = NoRequest]
               /\ Answer(k)
               /\ UNCHANGED <<marked, faults>>
      <3>1. \A r \in Requests : Past(r, m)' <=> Past(r, m)
        BY <1>1, <1>5, <2>1, <2>2 DEF Past, NoRequest
      <3>2. \A r \in Requests : request[r].msg # m => request'[r].msg # m
        BY <1>1, <1>5, <2>2 DEF NoRequest
      <3> QED
        BY <1>1, <1>3, <1>4, <2>1, <2>2, <3>1, <3>2 DEF Once, Unmarked, Accounted
    <2>3. CASE /\ k \notin marked
               /\ marked' = marked \cup {k}
               /\ request' = [request EXCEPT ![q].pc = "call"]
               /\ UNCHANGED <<twitch, faults>>
      <3>1. request'[q].pc = "call" /\ request'[q].msg = k
        BY <1>0, <2>3 DEF ReceiverTypes
      <3>2. \A r \in Requests : r # q => request'[r] = request[r]
        BY <1>0, <2>3 DEF ReceiverTypes
      <3>3. CASE m = k
        <4>1. hist.ingested[m] = 0 /\ \A r \in Requests : ~Past(r, m)
          BY <1>1, <2>3, <3>3 DEF Unmarked
        <4>2. Past(q, m)' /\ \A r \in Requests : Past(r, m)' => r = q
          BY <3>1, <3>2, <3>3, <4>1 DEF Past
        <4> QED
          BY <2>1, <2>3, <3>3, <4>1, <4>2 DEF Once, Unmarked, Accounted
      <3>4. CASE m # k
        <4>1. \A r \in Requests : Past(r, m)' <=> Past(r, m)
          BY <3>1, <3>2, <3>4, <2>1 DEF Past
        <4>2. \A r \in Requests : request[r].msg # m => request'[r].msg # m
          BY <3>1, <3>2
        <4> QED
          BY <1>1, <2>1, <2>3, <3>4, <4>1, <4>2 DEF Once, Unmarked, Accounted
      <3> QED
        BY <3>3, <3>4
    <2>4. CASE /\ request' = [request EXCEPT ![q] = NoRequest]
               /\ UNCHANGED <<twitch, marked>>
      <3>1. \A r \in Requests : Past(r, m)' <=> Past(r, m)
        BY <1>1, <1>5, <2>1, <2>4 DEF Past, NoRequest
      <3>2. \A r \in Requests : request[r].msg # m => request'[r].msg # m
        BY <1>1, <1>5, <2>4 DEF NoRequest
      <3> QED
        BY <1>1, <2>1, <2>4, <3>1, <3>2 DEF Once, Unmarked, Accounted
    <2> QED
      BY <1>6, <2>2, <2>3, <2>4 DEF MarkIfNew
  <1>7. CASE HandleEvent(q)
    <2>1. request[q].pc = "call" /\ Answer(k) /\ UNCHANGED <<marked, hist>>
      BY <1>7 DEF HandleEvent
    <2>2. PICK known \in BOOLEAN :
            request' = [request EXCEPT ![q] = [pc |-> "publish", msg |-> k, game |-> known]]
      BY <1>7 DEF HandleEvent
    <2>3. \A r \in Requests : request'[r].msg = request[r].msg
      BY <1>5, <2>2
    <2>4. \A r \in Requests : Past(r, m)' <=> Past(r, m)
      BY <1>5, <2>1, <2>2 DEF Past
    <2>5. m = k => Past(q, m)
      BY <2>1 DEF Past
    <2> QED
      BY <1>1, <1>3, <1>4, <2>1, <2>3, <2>4, <2>5 DEF Once, Unmarked, Accounted
  <1>8. CASE Publish(q)
    <2> DEFINE x == [msg |-> k, game |-> request[q].game]
    <2>1. CASE Stop
      <3>1. Gate'
        BY <1>8, <2>1, GateStop DEF Publish
      <3> QED
        BY <3>1 DEF Gate
    <2>2. CASE /\ request' = [request EXCEPT ![q] = NoRequest]
               /\ hist' = [hist EXCEPT !.ingested[x.msg] = @ + 1, !.owed[x.msg] = Destinations(x)]
      <3>1. k \in Messages /\ request[q].pc = "publish" /\ UNCHANGED <<twitch, marked>>
        BY <1>4, <1>8 DEF Publish
      <3>2. hist'.ingested = [hist.ingested EXCEPT ![k] = @ + 1] /\ hist'.dropped = hist.dropped
        BY <1>0, <2>2 DEF History
      <3>3. \A r \in Requests : request[r].msg # m => request'[r].msg # m
        BY <1>1, <1>5, <2>2 DEF NoRequest
      <3>4. CASE m = k
        <4>1. Past(q, m)
          BY <3>1, <3>4 DEF Past
        <4>2. hist.ingested[m] = 0 /\ \A r \in Requests : Past(r, m) => r = q
          BY <1>1, <4>1 DEF Once
        <4>3. \A r \in Requests : ~Past(r, m)'
          BY <1>1, <1>5, <2>2, <4>2 DEF Past, NoRequest
        <4>4. hist'.ingested[m] = 1
          BY <1>0, <3>1, <3>2, <3>4, <4>2 DEF History
        <4>5. m \in marked
          BY <1>1, <4>1 DEF Unmarked, Past
        <4> QED
          BY <3>1, <4>3, <4>4, <4>5 DEF Once, Unmarked, Accounted
      <3>5. CASE m # k
        <4>1. hist'.ingested[m] = hist.ingested[m]
          BY <1>0, <3>2, <3>5 DEF History
        <4>2. \A r \in Requests : Past(r, m)' <=> Past(r, m)
          BY <1>1, <1>5, <2>2, <3>5 DEF Past, NoRequest
        <4> QED
          BY <1>1, <3>1, <3>2, <3>3, <4>1, <4>2 DEF Once, Unmarked, Accounted
      <3> QED
        BY <3>4, <3>5
    <2> QED
      BY <1>8, <2>1, <2>2 DEF Publish
  <1> QED
    BY <1>2, <1>6, <1>7, <1>8 DEF Receive

LEMMA GateStep ==
  ASSUME Types, Gate, [Next]_vars
  PROVE  Gate'
  <1>0. ReceiverTypes /\ hist \in History
    BY TypesSplit DEF Types
  <1>1. CASE UNCHANGED vars
    BY <1>1, GateFrame DEF vars, receiver
  <1>2. CASE Send
    BY <1>2, GateFrame DEF Send, SendNotification, SuspendNotification
  <1>3. ASSUME NEW w \in Workers, Consume(w) \/ Work(w)
        PROVE  Gate'
    <2>1. UNCHANGED receiver
      BY <1>3 DEF Consume, Work, FindEvent, DispatchDiscord, LogDiscord, PostWebhooks,
                  LogWebhooks, SuspendWebhooks
    <2>2. hist'.ingested = hist.ingested /\ hist'.dropped = hist.dropped
      BY <1>0, <1>3 DEF Consume, Work, FindEvent, DispatchDiscord, LogDiscord, PostWebhooks,
                        LogWebhooks, SuspendWebhooks, Ack, Nack, History
    <2> QED
      BY <2>1, <2>2, GateFrame
  <1>4. ASSUME NEW n \in Notes, NEW b \in BOOLEAN, UpdateNotification(n, b)
        PROVE  Gate'
    <2>1. hist'.ingested = hist.ingested /\ hist'.dropped = hist.dropped
      BY <1>0, <1>4 DEF UpdateNotification, History
    <2> QED
      BY <1>4, <2>1, GateFrame DEF UpdateNotification
  <1>5. ASSUME NEW k \in Messages, ExpireKey(k)
        PROVE  Gate'
    <2>1. SUFFICES ASSUME NEW m \in Messages PROVE Once(m)' /\ Unmarked(m)' /\ Accounted(m)'
      BY DEF Gate
    <2>2. Once(m) /\ Unmarked(m) /\ Accounted(m)
      BY DEF Gate
    <2> QED
      BY <1>5, <2>2 DEF ExpireKey, Once, Unmarked, Accounted, Past
  <1>6. CASE ReceiverCrash
    BY <1>6, GateStop DEF ReceiverCrash
  <1>7. CASE WorkerCrash
    <2>1. hist'.ingested = hist.ingested /\ hist'.dropped = hist.dropped
      BY <1>0, <1>7 DEF WorkerCrash, History
    <2> QED
      BY <1>7, <2>1, GateFrame DEF WorkerCrash
  <1> QED
    BY <1>1, <1>2, <1>3, <1>4, <1>5, <1>6, <1>7, GateReceive DEF Next

LEMMA GateHolds == Spec => [](Types /\ Gate)
  <1>1. Types /\ Gate /\ [Next]_vars => (Types /\ Gate)'
    BY TypesStep, GateStep
  <1> QED
    BY TypesInit, GateInit, <1>1, PTL DEF Spec

\* "Idempotent ingestion": SET NX admits one request per event, and nothing puts
\* the event of one admitted request into stream.events twice, whatever Twitch
\* repeats, Redis fails and the receiver forgets.
THEOREM IngestionIsIdempotent == Spec => []IngestedOnce
  <1>1. ASSUME Types, Gate PROVE IngestedOnce
    <2> SUFFICES ASSUME NEW m \in Messages
                 PROVE  hist.ingested[m] + Cardinality(PastDedup(m)) <= 1
      BY DEF IngestedOnce
    <2>1. Once(m)
      BY <1>1 DEF Gate
    <2>2. CASE \A q \in Requests : ~Past(q, m)
      <3>1. PastDedup(m) = {}
        BY <2>2 DEF PastDedup, Past
      <3> QED
        BY <2>1, <3>1, FS_EmptySet DEF Once
    <2>3. CASE \E q \in Requests : Past(q, m)
      <3>1. PICK q \in Requests : Past(q, m)
        BY <2>3
      <3>2. PastDedup(m) = {q}
        BY <2>1, <3>1 DEF PastDedup, Past, Once
      <3>3. hist.ingested[m] = 0
        BY <2>1, <3>1 DEF Once
      <3> QED
        BY <3>2, <3>3, FS_Singleton
    <2> QED
      BY <2>2, <2>3
  <1> QED
    BY <1>1, GateHolds, PTL

\* What the receiver tells Twitch is true: an event answered with a 2xx is in
\* stream.events or on its way there, unless the process that held it stopped.
THEOREM AnswersAreHonest == Spec => []AnsweredIsIngested
  <1>1. Gate => AnsweredIsIngested
    BY DEF Gate, Accounted, AnsweredIsIngested, PastDedup, Past
  <1> QED
    BY <1>1, GateHolds, PTL

-----------------------------------------------------------------------------
(* Nobody is skipped                                                        *)

Present(x) == streamQ[x] > 0 \/ \E w \in Workers : worker[w].job = x

\* What a handler still has to attempt for a destination the event is owed to.
Covered(w) ==
  LET t == worker[w]
      m == t.job.msg
  IN  t.pc \in {"discord", "log", "webhooks", "logHooks", "suspend"} =>
        \A n \in hist.owed[m] :
          \/ hist.attempts[<<m, n>>] > 0
          \/ t.pc \in {"discord", "log"} /\ n \in t.discord
          \/ t.pc \in {"discord", "log", "webhooks"} /\ n \in t.hooks

\* An event is owed to notifications that listen, and that its payload suits.
Route ==
  /\ \A m \in Messages : \A n \in hist.owed[m] :
       note[n].status = "active" /\ ~note[n].disabled
  /\ \A x \in Payload : Present(x) =>
       hist.ingested[x.msg] > 0 /\ \A n \in hist.owed[x.msg] : n \in Filtered => x.game
  /\ \A m \in hist.acked : hist.ingested[m] > 0
  /\ NobodySkipped
  /\ \A w \in Workers : Covered(w)

LEMMA RouteInit == Init => Route
  <1> SUFFICES ASSUME Init PROVE Route
    OBVIOUS
  <1>1. \A x \in Payload : ~Present(x)
    BY PipelineConstants DEF Init, Present, NoJob
  <1>2. \A w \in Workers : Covered(w)
    BY DEF Init, Covered, NoJob
  <1> QED
    BY <1>1, <1>2 DEF Init, Route, NobodySkipped

\* The parts of the state the route does not depend on may change.
LEMMA RouteFrame ==
  ASSUME Route, UNCHANGED <<streamQ, worker, note>>,
         hist'.ingested = hist.ingested, hist'.owed = hist.owed, hist'.acked = hist.acked,
         hist'.attempts = hist.attempts
  PROVE  Route'
  BY DEF Route, NobodySkipped, Covered, Present

\* What one handler does: its new job is the old one, none, or a payload of the
\* queue; the old one may return to the queue; no event is owed to anyone new.
LEMMA RouteMove ==
  ASSUME Types, Route, NEW w \in Workers, NEW new, NEW m \in Messages,
         worker' = [worker EXCEPT ![w] = new],
         hist'.ingested = hist.ingested,
         \A k \in Messages : hist'.owed[k] \subseteq hist.owed[k],
         \A x \in Messages \X Notes : hist.attempts[x] > 0 => hist'.attempts[x] > 0,
         \A x \in Payload : streamQ'[x] > 0 => Present(x),
         \A x \in Payload : new.job = x => Present(x),
         \A k \in Messages : \A n \in hist'.owed[k] :
            note'[n].status = "active" /\ ~note'[n].disabled,
         \A k \in hist'.acked : k \in hist.acked \/
            (k = m /\ hist.ingested[m] > 0 /\ \A n \in hist'.owed[m] : hist'.attempts[<<m, n>>] > 0),
         Covered(w)'
  PROVE  Route'
  <1>0. /\ worker \in [Workers -> Job] /\ hist \in History
        /\ \A v \in Workers : worker[v].pc # "idle" => worker[v].job \in Payload
    BY TypesSplit DEF Types, WorkerTypes
  <1>1. \A v \in Workers : v # w => worker'[v] = worker[v]
    BY <1>0
  <1>2. worker'[w] = new
    BY <1>0
  <1>3. \A x \in Payload : Present(x)' => Present(x)
    BY <1>1, <1>2 DEF Present
  <1>4. \A x \in Payload : Present(x)' =>
          hist'.ingested[x.msg] > 0 /\ \A n \in hist'.owed[x.msg] : n \in Filtered => x.game
    BY <1>3 DEF Route, Payload
  <1>5. \A k \in hist'.acked : hist'.ingested[k] > 0
    BY DEF Route
  <1>6. \A k \in Messages : \A n \in hist.owed[k] : <<k, n>> \in Messages \X Notes
    BY <1>0 DEF History
  <1>7. NobodySkipped'
    <2> SUFFICES ASSUME NEW k \in hist'.acked, NEW n \in hist'.owed[k]
                 PROVE  hist'.attempts[<<k, n>>] > 0
      BY DEF NobodySkipped
    <2>1. CASE k \in hist.acked
      <3>1. k \in Messages
        BY <1>0, <2>1 DEF History
      <3>2. n \in hist.owed[k] /\ hist.attempts[<<k, n>>] > 0
        BY <2>1, <3>1 DEF Route, NobodySkipped
      <3> QED
        BY <1>6, <3>1, <3>2
    <2> QED
      BY <2>1
  <1>8. ASSUME NEW v \in Workers PROVE Covered(v)'
    <2>1. CASE v = w
      BY <2>1
    <2>2. CASE v # w
      <3> DEFINE t == worker[v]
                 k == t.job.msg
      <3>1. worker'[v] = t /\ Covered(v)
        BY <1>1, <2>2 DEF Route
      <3>2. t.pc # "idle" => k \in Messages
        BY <1>0 DEF Payload
      <3>3. t.pc # "idle" => hist'.owed[k] \subseteq hist.owed[k]
        BY <3>2
      <3>4. t.pc # "idle" => \A n \in hist.owed[k] :
              hist.attempts[<<k, n>>] > 0 => hist'.attempts[<<k, n>>] > 0
        BY <1>6, <3>2
      <3> QED
        BY <3>1, <3>3, <3>4 DEF Covered
    <2> QED
      BY <2>1, <2>2
  <1> QED
    BY <1>4, <1>5, <1>7, <1>8 DEF Route

LEMMA RoutePublish ==
  ASSUME Types, Gate, Route, NEW q \in Requests, Publish(q)
  PROVE  Route'
  <1> DEFINE k == request[q].msg
             x == [msg |-> k, game |-> request[q].game]
  <1>0. ReceiverTypes /\ WorkerTypes /\ OtherTypes /\ hist \in History
    BY TypesSplit DEF Types
  <1>1. UNCHANGED <<worker, note>> /\ request[q].pc = "publish"
    BY DEF Publish, delivery
  <1>2. x \in Payload /\ k \in Messages
    BY <1>0, <1>1 DEF ReceiverTypes, Payload
  <1>3. CASE Stop /\ UNCHANGED streamQ
    <2>1. /\ hist'.ingested = hist.ingested /\ hist'.owed = hist.owed
          /\ hist'.acked = hist.acked /\ hist'.attempts = hist.attempts
      BY <1>0, <1>3 DEF Stop, History
    <2> QED
      BY <1>1, <1>3, <2>1, RouteFrame
  <1>4. CASE /\ streamQ' = Put(streamQ, x)
             /\ hist' = [hist EXCEPT !.ingested[x.msg] = @ + 1, !.owed[x.msg] = Destinations(x)]
    <2>1. hist.ingested[k] = 0
      BY <1>1, <1>2 DEF Gate, Once, Past
    <2>2. /\ hist'.ingested = [hist.ingested EXCEPT ![k] = @ + 1]
          /\ hist'.owed = [hist.owed EXCEPT ![k] = Destinations(x)]
          /\ hist'.acked = hist.acked /\ hist'.attempts = hist.attempts
      BY <1>0, <1>4 DEF History
    <2> HIDE DEF x
    <2>3. x.msg = k
      BY DEF x
    <2>4. \A y \in Payload : Present(y) => y.msg # k
      BY <2>1 DEF Route
    <2>5. \A y \in Payload : Present(y)' => Present(y) \/ y = x
      BY <1>0, <1>1, <1>2, <1>4 DEF Present, Put, WorkerTypes
    <2>6. hist'.ingested[k] = 1 /\ \A m \in Messages : m # k => hist'.ingested[m] = hist.ingested[m]
      BY <1>0, <1>2, <2>1, <2>2 DEF History
    <2>7. /\ hist'.owed[k] = Destinations(x)
          /\ \A m \in Messages : m # k => hist'.owed[m] = hist.owed[m]
      BY <1>0, <1>2, <2>2 DEF History
    <2>8. \A m \in Messages : \A n \in hist'.owed[m] :
            note'[n].status = "active" /\ ~note'[n].disabled
      BY <1>1, <2>7 DEF Route, Destinations, Listening
    <2>9. \A y \in Payload : Present(y)' =>
            hist'.ingested[y.msg] > 0 /\ \A n \in hist'.owed[y.msg] : n \in Filtered => y.game
      BY <2>3, <2>4, <2>5, <2>6, <2>7 DEF Route, Payload, Destinations
    <2>10. k \notin hist.acked /\ hist.acked \subseteq Messages
      BY <1>0, <2>1 DEF Route, History
    <2>11. (\A m \in hist'.acked : hist'.ingested[m] > 0) /\ NobodySkipped'
      BY <2>2, <2>6, <2>7, <2>10 DEF Route, NobodySkipped
    <2>12. ASSUME NEW w \in Workers PROVE Covered(w)'
      <3>1. worker'[w] = worker[w] /\ Covered(w)
        BY <1>1 DEF Route
      <3>2. worker[w].pc # "idle" => worker[w].job.msg # k /\ worker[w].job.msg \in Messages
        BY <1>0, <2>4 DEF WorkerTypes, Present, Payload
      <3> QED
        BY <2>2, <2>7, <3>1, <3>2 DEF Covered
    <2> QED
      BY <2>8, <2>9, <2>11, <2>12 DEF Route
  <1> QED
    BY <1>3, <1>4 DEF Publish

LEMMA RouteWork ==
  ASSUME Types, Route, NEW w \in Workers, Consume(w) \/ Work(w)
  PROVE  Route'
  <1> DEFINE t == worker[w]
             m == t.job.msg
  <1>0. WorkerTypes /\ OtherTypes /\ hist \in History
    BY TypesSplit DEF Types
  <1>1. t \in Job /\ Covered(w) /\ (t.pc # "idle" => t.job \in Payload /\ m \in Messages)
    BY <1>0 DEF WorkerTypes, Payload, Route
  <1>2. t.pc # "idle" => Present(t.job) /\ hist.ingested[m] > 0
    BY <1>1 DEF Present, Route
  <1>3. NoJob.pc = "idle" /\ \A x \in Payload : NoJob.job # x
    BY PipelineConstants DEF NoJob
  <1>4. \A k \in Messages : \A n \in hist.owed[k] : note[n].status = "active" /\ ~note[n].disabled
    BY DEF Route
  \* A message that returns to the queue was there or held before.
  <1>5. ASSUME Nack(w), t.pc # "idle", UNCHANGED note PROVE Route'
    <2>1. /\ hist'.ingested = hist.ingested /\ hist'.owed = hist.owed
          /\ hist'.acked = hist.acked /\ hist'.attempts = hist.attempts
      BY <1>0, <1>5 DEF Nack, History
    <2>2. worker' = [worker EXCEPT ![w] = NoJob] /\ streamQ' = Put(streamQ, t.job)
      BY <1>5 DEF Nack, Hold
    <2>3. \A x \in Payload : streamQ'[x] > 0 => Present(x)
      BY <1>0, <1>1, <1>2, <1>5, <2>2 DEF Put, Present, WorkerTypes
    <2>4. Covered(w)'
      BY <1>0, <1>3, <2>2 DEF Covered, WorkerTypes
    <2> QED
      BY <1>1, <1>3, <1>4, <1>5, <2>1, <2>2, <2>3, <2>4, RouteMove
  \* An event that is acknowledged has been attempted for everyone.
  <1>6. ASSUME Ack(w), t.pc # "idle", UNCHANGED <<note, streamQ>>,
               \A n \in hist.owed[m] : hist.attempts[<<m, n>>] > 0
        PROVE  Route'
    <2>1. /\ hist'.ingested = hist.ingested /\ hist'.owed = hist.owed
          /\ hist'.acked = hist.acked \cup {m} /\ hist'.attempts = hist.attempts
      BY <1>0, <1>6 DEF Ack, History
    <2>2. worker' = [worker EXCEPT ![w] = NoJob]
      BY <1>6 DEF Ack, Hold
    <2>3. Covered(w)'
      BY <1>0, <1>3, <2>2 DEF Covered, WorkerTypes
    <2>4. \A x \in Payload : streamQ'[x] > 0 => Present(x)
      BY <1>6 DEF Present
    <2> QED
      BY <1>1, <1>2, <1>3, <1>4, <1>6, <2>1, <2>2, <2>3, <2>4, RouteMove
  \* A handler goes on with the same job.
  <1>7. ASSUME NEW new, Hold(w, new), t.pc # "idle", new.job = t.job, UNCHANGED <<note, streamQ>>,
               hist'.ingested = hist.ingested, hist'.owed = hist.owed,
               hist'.acked = hist.acked,
               \A x \in Messages \X Notes : hist.attempts[x] > 0 => hist'.attempts[x] > 0,
               Covered(w)'
        PROVE  Route'
    <2>1. worker' = [worker EXCEPT ![w] = new]
      BY <1>7 DEF Hold
    <2>2. \A x \in Payload : streamQ'[x] > 0 => Present(x)
      BY <1>7 DEF Present
    <2>3. \A x \in Payload : new.job = x => Present(x)
      BY <1>2, <1>7
    <2> QED
      BY <1>1, <1>4, <1>7, <2>1, <2>2, <2>3, RouteMove
  <1>8. CASE Consume(w)
    <2>1. PICK x \in Payload : /\ streamQ[x] > 0
                               /\ streamQ' = Take(streamQ, x)
                               /\ Hold(w, [NoJob EXCEPT !.pc = "find", !.job = x])
      BY <1>8 DEF Consume
    <2> DEFINE new == [NoJob EXCEPT !.pc = "find", !.job = x]
    <2>2. new.job = x /\ new.pc = "find"
      BY DEF NoJob
    <2> HIDE DEF new
    <2>3. worker' = [worker EXCEPT ![w] = new]
      BY <2>1 DEF Hold, new
    <2>4. \A y \in Payload : streamQ'[y] > 0 => Present(y)
      BY <1>0, <2>1 DEF Take, Present, WorkerTypes
    <2>5. \A y \in Payload : new.job = y => Present(y)
      BY <2>1, <2>2 DEF Present
    <2>6. Covered(w)'
      BY <1>0, <2>2, <2>3 DEF Covered, WorkerTypes
    <2>7. x.msg \in Messages /\ UNCHANGED <<hist, note>>
      BY <1>8 DEF Consume, Payload
    <2> QED
      BY <1>4, <2>3, <2>4, <2>5, <2>6, <2>7, RouteMove
  <1>9. CASE FindEvent(w)
    <2> DEFINE to == Destinations(t.job)
               found == [t EXCEPT !.pc = "discord", !.discord = to \cap Discords,
                                  !.hooks = to \cap Webhooks]
    <2>1. t.pc = "find" /\ UNCHANGED note
      BY <1>9 DEF FindEvent
    <2>2. CASE Hold(w, found) /\ UNCHANGED <<streamQ, faults, hist>>
      <3>1. /\ found.job = t.job /\ found.pc = "discord"
            /\ found.discord = to \cap Discords /\ found.hooks = to \cap Webhooks
        BY <1>1 DEF Job
      <3>2. hist.owed[m] \subseteq to
        <4>1. hist.owed[m] \subseteq Notes
          BY <1>0, <1>1, <2>1 DEF History
        <4> QED
          BY <1>1, <1>2, <2>1, <4>1 DEF Route, Destinations, Listening
      <3>3. to \subseteq Discords \cup Webhooks
        BY DEF Destinations, Listening, Notes
      <3> HIDE DEF found, to
      <3>4. Covered(w)'
        BY <1>0, <2>2, <3>1, <3>2, <3>3 DEF Covered, Hold, WorkerTypes
      <3> QED
        BY <1>7, <2>1, <2>2, <3>1, <3>4
    <2>3. CASE /\ Hold(w, NoJob)
               /\ hist' = [hist EXCEPT !.acked = @ \cup {m}, !.owed[m] = {}, !.broken = {}]
               /\ UNCHANGED <<streamQ, faults>>
      <3>1. /\ hist'.ingested = hist.ingested /\ hist'.attempts = hist.attempts
            /\ hist'.acked = hist.acked \cup {m} /\ hist'.owed = [hist.owed EXCEPT ![m] = {}]
        BY <1>0, <2>3 DEF History
      <3>2. /\ hist'.owed[m] = {}
            /\ \A k \in Messages : hist'.owed[k] \subseteq hist.owed[k]
        BY <1>0, <1>1, <2>1, <3>1 DEF History
      <3>3. Covered(w)'
        BY <1>0, <1>3, <2>3 DEF Covered, Hold, WorkerTypes
      <3>4. worker' = [worker EXCEPT ![w] = NoJob] /\ \A x \in Payload : streamQ'[x] > 0 => Present(x)
        BY <2>3 DEF Hold, Present
      <3>5. \A k \in Messages : \A n \in hist'.owed[k] :
              note'[n].status = "active" /\ ~note'[n].disabled
        BY <1>4, <2>1, <3>2
      <3>6. \A k \in hist'.acked : k \in hist.acked \/
              (k = m /\ hist.ingested[m] > 0 /\ \A n \in hist'.owed[m] : hist'.attempts[<<m, n>>] > 0)
        BY <1>2, <2>1, <3>1, <3>2
      <3>7. m \in Messages /\ \A x \in Messages \X Notes : hist.attempts[x] > 0 => hist'.attempts[x] > 0
        BY <1>1, <2>1, <3>1
      <3> HIDE DEF m, t, to, found
      <3> QED
        BY <1>3, <3>1, <3>2, <3>3, <3>4, <3>5, <3>6, <3>7, RouteMove
    <2> QED
      BY <1>5, <1>9, <2>1, <2>2, <2>3 DEF FindEvent
  <1>10. ASSUME NEW A \in SUBSET Notes, NEW k \in Messages
         PROVE  /\ \A x \in Messages \X Notes : hist.attempts[x] > 0 => Attempted(A, k)[x] > 0
                /\ \A n \in A : Attempted(A, k)[<<k, n>>] > 0
    BY <1>0 DEF Attempted, History
  <1>11. CASE DispatchDiscord(w)
    <2>1. t.pc = "discord" /\ UNCHANGED <<note, streamQ>>
      BY <1>11 DEF DispatchDiscord
    <2>2. CASE t.discord = {}
      <3> DEFINE new == [t EXCEPT !.pc = "webhooks"]
      <3>1. new.job = t.job /\ new.pc = "webhooks" /\ new.hooks = t.hooks
        BY <1>1 DEF Job
      <3>2. Hold(w, new) /\ UNCHANGED hist
        BY <1>11, <2>2 DEF DispatchDiscord
      <3> HIDE DEF new
      <3>3. Covered(w)'
        BY <1>0, <1>1, <2>1, <2>2, <3>1, <3>2 DEF Covered, Hold, WorkerTypes
      <3> QED
        BY <1>7, <2>1, <3>1, <3>2, <3>3
    <2>3. CASE t.discord # {}
      <3>1. PICK d \in t.discord, ok \in BOOLEAN :
              /\ Hold(w, [t EXCEPT !.pc = "log", !.cur = d, !.sent = ok, !.discord = @ \ {d}])
              /\ hist' = [hist EXCEPT !.attempts = Attempted({d}, m)]
        BY <1>11, <2>3 DEF DispatchDiscord
      <3> DEFINE new == [t EXCEPT !.pc = "log", !.cur = d, !.sent = ok, !.discord = @ \ {d}]
      <3>2. /\ new.job = t.job /\ new.pc = "log" /\ new.hooks = t.hooks
            /\ new.discord = t.discord \ {d}
        BY <1>1 DEF Job
      <3> HIDE DEF new
      <3>3. worker'[w] = new
        BY <1>0, <3>1 DEF Hold, WorkerTypes, new
      <3>4. /\ hist'.ingested = hist.ingested /\ hist'.acked = hist.acked
            /\ hist'.owed = hist.owed /\ hist'.attempts = Attempted({d}, m)
        BY <1>0, <3>1 DEF History
      <3>5. {d} \in SUBSET Notes /\ m \in Messages
        BY <1>1, <2>1 DEF Job, Notes
      <3>6. /\ \A x \in Messages \X Notes : hist.attempts[x] > 0 => hist'.attempts[x] > 0
            /\ hist'.attempts[<<m, d>>] > 0
        BY <1>10, <3>4, <3>5
      <3>7. Covered(w)'
        <4>1. \A n \in hist.owed[m] : <<m, n>> \in Messages \X Notes
          BY <1>0, <3>5 DEF History
        <4> QED
          BY <1>1, <2>1, <3>2, <3>3, <3>4, <3>6, <4>1 DEF Covered
      <3> QED
        BY <1>7, <2>1, <3>1, <3>2, <3>4, <3>6, <3>7 DEF new
    <2> QED
      BY <2>2, <2>3
  <1>12. CASE LogDiscord(w)
    <2>1. t.pc = "log" /\ UNCHANGED note
      BY <1>12 DEF LogDiscord
    <2> DEFINE new == [t EXCEPT !.pc = "discord", !.cur = Null]
    <2>2. /\ new.job = t.job /\ new.pc = "discord" /\ new.hooks = t.hooks
          /\ new.discord = t.discord
      BY <1>1 DEF Job
    <2>3. CASE Hold(w, new) /\ UNCHANGED <<streamQ, faults, hist>>
      <3> HIDE DEF new
      <3>1. Covered(w)'
        BY <1>0, <1>1, <2>1, <2>2, <2>3 DEF Covered, Hold, WorkerTypes
      <3> QED
        BY <1>7, <2>1, <2>2, <2>3, <3>1
    <2> QED
      BY <1>5, <1>12, <2>1, <2>3 DEF LogDiscord
  <1>13. CASE PostWebhooks(w)
    <2>1. t.pc = "webhooks" /\ UNCHANGED <<note, streamQ>>
      BY <1>13 DEF PostWebhooks
    <2>2. CASE t.hooks = {}
      <3>1. \A n \in hist.owed[m] : hist.attempts[<<m, n>>] > 0
        BY <1>1, <2>1, <2>2 DEF Covered
      <3> QED
        BY <1>6, <1>13, <2>1, <2>2, <3>1 DEF PostWebhooks
    <2>3. CASE t.hooks # {}
      <3>1. PICK F \in SUBSET t.hooks :
              /\ Hold(w, [t EXCEPT !.pc = "logHooks", !.failed = F])
              /\ hist' = [hist EXCEPT !.attempts = Attempted(t.hooks, m),
                                      !.broken = (@ \ t.hooks) \cup F]
        BY <1>13, <2>3 DEF PostWebhooks
      <3> DEFINE new == [t EXCEPT !.pc = "logHooks", !.failed = F]
      <3>2. new.job = t.job /\ new.pc = "logHooks"
        BY <1>1 DEF Job
      <3> HIDE DEF new
      <3>3. worker'[w] = new
        BY <1>0, <3>1 DEF Hold, WorkerTypes, new
      <3>4. /\ hist'.ingested = hist.ingested /\ hist'.acked = hist.acked
            /\ hist'.owed = hist.owed /\ hist'.attempts = Attempted(t.hooks, m)
        BY <1>0, <3>1 DEF History
      <3>5. t.hooks \in SUBSET Notes /\ m \in Messages
        BY <1>1, <2>1 DEF Job, Notes
      <3>6. /\ \A x \in Messages \X Notes : hist.attempts[x] > 0 => hist'.attempts[x] > 0
            /\ \A n \in t.hooks : hist'.attempts[<<m, n>>] > 0
        BY <1>10, <3>4, <3>5
      <3>7. Covered(w)'
        <4>1. \A n \in hist.owed[m] : <<m, n>> \in Messages \X Notes
          BY <1>0, <3>5 DEF History
        <4> QED
          BY <1>1, <2>1, <3>2, <3>3, <3>4, <3>6, <4>1 DEF Covered
      <3> QED
        BY <1>7, <2>1, <3>1, <3>2, <3>4, <3>6, <3>7 DEF new
    <2> QED
      BY <2>2, <2>3
  <1>14. CASE LogWebhooks(w)
    <2>1. t.pc = "logHooks" /\ UNCHANGED note
      BY <1>14 DEF LogWebhooks
    <2> DEFINE new == [t EXCEPT !.pc = "suspend"]
    <2>2. new.job = t.job /\ new.pc = "suspend"
      BY <1>1 DEF Job
    <2>3. CASE Hold(w, new) /\ UNCHANGED <<streamQ, hist>>
      <3> HIDE DEF new
      <3>1. Covered(w)'
        BY <1>0, <1>1, <2>1, <2>2, <2>3 DEF Covered, Hold, WorkerTypes
      <3> QED
        BY <1>7, <2>1, <2>2, <2>3, <3>1
    <2>4. CASE Ack(w) /\ UNCHANGED streamQ
      <3>1. \A n \in hist.owed[m] : hist.attempts[<<m, n>>] > 0
        BY <1>1, <2>1 DEF Covered
      <3> QED
        BY <1>6, <2>1, <2>4, <3>1
    <2> QED
      BY <1>5, <1>14, <2>1, <2>3, <2>4 DEF LogWebhooks
  <1>15. CASE SuspendWebhooks(w)
    <2>1. t.pc = "suspend"
      BY <1>15 DEF SuspendWebhooks
    <2>2. CASE /\ note' = [n \in Notes |-> IF n \in t.failed
                                  THEN [note[n] EXCEPT !.status = "suspended"] ELSE note[n]]
               /\ Hold(w, NoJob)
               /\ hist' = [hist EXCEPT !.acked = @ \cup {m},
                                       !.owed = [k \in Messages |-> @[k] \ t.failed]]
               /\ UNCHANGED <<streamQ, faults>>
      <3>1. /\ hist'.ingested = hist.ingested /\ hist'.attempts = hist.attempts
            /\ hist'.acked = hist.acked \cup {m}
            /\ \A k \in Messages : hist'.owed[k] = hist.owed[k] \ t.failed
        BY <1>0, <2>2 DEF History
      <3>2. \A k \in Messages : \A n \in hist'.owed[k] :
              note'[n].status = "active" /\ ~note'[n].disabled
        BY <1>0, <1>4, <2>2, <3>1 DEF History
      <3>3. \A n \in hist'.owed[m] : hist'.attempts[<<m, n>>] > 0
        BY <1>1, <2>1, <3>1 DEF Covered
      <3>4. Covered(w)'
        BY <1>0, <1>3, <2>2 DEF Covered, Hold, WorkerTypes
      <3>5. worker' = [worker EXCEPT ![w] = NoJob] /\ \A x \in Payload : streamQ'[x] > 0 => Present(x)
        BY <2>2 DEF Hold, Present
      <3>6. \A k \in hist'.acked : k \in hist.acked \/
              (k = m /\ hist.ingested[m] > 0 /\ \A n \in hist'.owed[m] : hist'.attempts[<<m, n>>] > 0)
        BY <1>2, <2>1, <3>1, <3>3
      <3>7. /\ m \in Messages /\ \A x \in Messages \X Notes : hist.attempts[x] > 0 => hist'.attempts[x] > 0
            /\ \A k \in Messages : hist'.owed[k] \subseteq hist.owed[k]
        BY <1>1, <2>1, <3>1
      <3> HIDE DEF m, t
      <3> QED
        BY <1>3, <3>1, <3>2, <3>4, <3>5, <3>6, <3>7, RouteMove
    <2> QED
      BY <1>5, <1>15, <2>1, <2>2 DEF SuspendWebhooks
  <1> QED
    BY <1>8, <1>9, <1>11, <1>12, <1>13, <1>14, <1>15 DEF Work

LEMMA RouteStep ==
  ASSUME Types, Gate, Route, [Next]_vars
  PROVE  Route'
  <1>0. WorkerTypes /\ OtherTypes /\ hist \in History
    BY TypesSplit DEF Types
  <1>1. CASE UNCHANGED vars
    BY <1>1, RouteFrame DEF vars
  <1>2. CASE Send
    BY <1>2, RouteFrame DEF Send, SendNotification, SuspendNotification
  <1>3. ASSUME NEW n \in Notes, NEW b \in BOOLEAN, UpdateNotification(n, b)
        PROVE  Route'
    <2>1. /\ hist'.ingested = hist.ingested /\ hist'.attempts = hist.attempts
          /\ hist'.acked = hist.acked
          /\ \A k \in Messages : hist'.owed[k] = IF b THEN hist.owed[k] \ {n} ELSE hist.owed[k]
      BY <1>0, <1>3 DEF UpdateNotification, History
    <2>2. /\ UNCHANGED <<worker, streamQ>>
          /\ note' = [note EXCEPT ![n] = [status |-> "active", disabled |-> b]]
      BY <1>3 DEF UpdateNotification
    <2>3. \A k \in Messages : \A p \in hist'.owed[k] :
            note'[p].status = "active" /\ ~note'[p].disabled
      <3>1. \A k \in Messages : hist.owed[k] \subseteq Notes
        BY <1>0 DEF History
      <3> SUFFICES ASSUME NEW k \in Messages, NEW p \in hist'.owed[k]
                   PROVE  note'[p].status = "active" /\ ~note'[p].disabled
        OBVIOUS
      <3>2. p \in hist.owed[k] /\ p \in Notes /\ (b => p # n)
        BY <2>1, <3>1
      <3>3. note[p].status = "active" /\ ~note[p].disabled
        BY <3>2 DEF Route
      <3>4. CASE p = n
        <4>1. note'[p] = [status |-> "active", disabled |-> b] /\ ~b
          BY <1>0, <2>2, <3>2, <3>4 DEF OtherTypes
        <4> QED
          BY <4>1
      <3>5. CASE p # n
        BY <1>0, <2>2, <3>2, <3>3, <3>5 DEF OtherTypes
      <3> QED
        BY <3>4, <3>5
    <2>4. \A x \in Payload : Present(x)' =>
            hist'.ingested[x.msg] > 0 /\ \A p \in hist'.owed[x.msg] : p \in Filtered => x.game
      BY <2>1, <2>2 DEF Route, Present, Payload
    <2>5. NobodySkipped'
      BY <1>0, <2>1 DEF Route, NobodySkipped, History
    <2>6. ASSUME NEW w \in Workers PROVE Covered(w)'
      <3>1. worker'[w] = worker[w] /\ Covered(w)
        BY <2>2 DEF Route
      <3>2. worker[w].pc # "idle" => hist'.owed[worker[w].job.msg] \subseteq hist.owed[worker[w].job.msg]
        BY <1>0, <2>1 DEF WorkerTypes, Payload
      <3> QED
        BY <2>1, <3>1, <3>2 DEF Covered
    <2>7. \A k \in hist'.acked : hist'.ingested[k] > 0
      BY <2>1 DEF Route
    <2> QED
      BY <2>3, <2>4, <2>5, <2>6, <2>7 DEF Route
  <1>4. CASE ReceiverCrash
    <2>1. /\ hist'.ingested = hist.ingested /\ hist'.owed = hist.owed
          /\ hist'.acked = hist.acked /\ hist'.attempts = hist.attempts
      BY <1>0, <1>4 DEF ReceiverCrash, Stop, History
    <2> QED
      BY <1>4, <2>1, RouteFrame DEF ReceiverCrash, delivery
  <1>5. CASE WorkerCrash
    <2>1. /\ hist'.ingested = hist.ingested /\ hist'.owed = hist.owed
          /\ hist'.acked = hist.acked /\ hist'.attempts = hist.attempts
      BY <1>0, <1>5 DEF WorkerCrash, History
    <2>2. \A x \in Payload : Present(x)' => Present(x)
      <3> SUFFICES ASSUME NEW x \in Payload, ~Present(x) PROVE ~Present(x)'
        OBVIOUS
      <3> DEFINE held == {w \in Workers : worker[w].job = x}
      <3>1. held = {} /\ streamQ[x] = 0
        BY <1>0 DEF Present, WorkerTypes
      <3>2. streamQ'[x] = streamQ[x] + Cardinality(held)
        BY <1>5 DEF WorkerCrash
      <3>3. streamQ'[x] = 0
        BY <3>1, <3>2, FS_EmptySet
      <3>4. \A w \in Workers : worker'[w].job # x
        BY <1>5, PipelineConstants DEF WorkerCrash, NoJob
      <3> QED
        BY <3>3, <3>4 DEF Present
    <2>3. \A w \in Workers : Covered(w)'
      BY <1>5 DEF WorkerCrash, Covered, NoJob
    <2> QED
      BY <1>5, <2>1, <2>2, <2>3 DEF Route, WorkerCrash, NobodySkipped
  <1>6. ASSUME NEW q \in Requests, Receive(q) \/ (\E m \in Messages : Deliver(q, m))
        PROVE  Route'
    <2>1. CASE Publish(q)
      BY <2>1, RoutePublish
    <2> QED
      BY <1>6, <2>1, RouteFrame DEF Receive, MarkIfNew, HandleEvent, Deliver, delivery
  <1>7. ASSUME NEW m \in Messages, ExpireKey(m) PROVE Route'
    BY <1>7, RouteFrame DEF ExpireKey, delivery
  <1> QED
    BY <1>1, <1>2, <1>3, <1>4, <1>5, <1>6, <1>7, RouteWork DEF Next

\* The worker acknowledges an event only when every notification that listened from
\* its publication until then has been attempted, whatever its handler crashed on.
THEOREM EveryoneIsAttempted == Spec => []NobodySkipped
  <1>1. Types /\ Gate /\ Route /\ [Next]_vars => (Types /\ Gate /\ Route)'
    BY TypesStep, GateStep, RouteStep
  <1>2. Route => NobodySkipped
    BY DEF Route
  <1> QED
    BY TypesInit, GateInit, RouteInit, <1>1, <1>2, PTL DEF Spec

-----------------------------------------------------------------------------
(* A suspension has its entry in the log                                    *)

\* A handler that is about to suspend webhooks has logged why.
ReasonLogged(w) ==
  worker[w].pc = "suspend" =>
    \A n \in worker[w].failed : logs[<<worker[w].job.msg, n>>].failed > 0

Reasons == SuspensionIsLogged /\ \A w \in Workers : ReasonLogged(w)

LEMMA ReasonsInit == Init => Reasons
  BY DEF Init, Reasons, SuspensionIsLogged, ReasonLogged, NoJob, Notes

\* The log only grows: what it proves of one handler it proves of the others.
LEMMA ReasonsMove ==
  ASSUME Types, Reasons, NEW w \in Workers, NEW new, worker' = [worker EXCEPT ![w] = new],
         \A x \in Messages \X Notes : logs[x].failed > 0 => logs'[x].failed > 0,
         \A n \in Webhooks : note'[n].status = "suspended" =>
            \/ note[n].status = "suspended"
            \/ \E m \in Messages : logs[<<m, n>>].failed > 0,
         new.pc = "suspend" => \A n \in new.failed : logs'[<<new.job.msg, n>>].failed > 0
  PROVE  Reasons'
  <1>0. WorkerTypes
    BY TypesSplit
  <1>1. SuspensionIsLogged'
    BY DEF Reasons, SuspensionIsLogged, Notes
  <1>2. ASSUME NEW v \in Workers PROVE ReasonLogged(v)'
    <2>1. CASE v = w
      BY <1>0, <2>1 DEF ReasonLogged, WorkerTypes
    <2>2. CASE v # w
      <3>1. worker'[v] = worker[v] /\ ReasonLogged(v)
        BY <1>0, <2>2 DEF WorkerTypes, Reasons
      <3>2. worker[v].pc = "suspend" =>
              worker[v].job.msg \in Messages /\ worker[v].failed \subseteq Notes
        BY <1>0 DEF WorkerTypes, Payload, Job, Notes
      <3> QED
        BY <3>1, <3>2 DEF ReasonLogged
    <2> QED
      BY <2>1, <2>2
  <1> QED
    BY <1>1, <1>2 DEF Reasons

LEMMA ReasonsStep ==
  ASSUME Types, Reasons, [Next]_vars
  PROVE  Reasons'
  <1>0. WorkerTypes /\ OtherTypes
    BY TypesSplit
  <1>1. CASE UNCHANGED <<worker, note, logs>>
    BY <1>1 DEF Reasons, SuspensionIsLogged, ReasonLogged
  <1>2. ASSUME NEW n \in Notes, NEW b \in BOOLEAN, UpdateNotification(n, b)
        PROVE  Reasons'
    <2>1. \A p \in Notes : note'[p].status = "suspended" => note[p].status = "suspended"
      BY <1>0, <1>2 DEF UpdateNotification, OtherTypes
    <2> QED
      BY <1>2, <2>1 DEF UpdateNotification, Reasons, SuspensionIsLogged, ReasonLogged, Notes
  <1>3. CASE WorkerCrash
    BY <1>3 DEF WorkerCrash, Reasons, SuspensionIsLogged, ReasonLogged, NoJob
  <1>4. ASSUME NEW w \in Workers, Consume(w) \/ Work(w)
        PROVE  Reasons'
    <2> DEFINE t == worker[w]
    <2>1. t \in Job /\ (t.pc # "idle" => t.job \in Payload /\ t.job.msg \in Messages)
      BY <1>0 DEF WorkerTypes, Payload
    <2>2. \A new : UNCHANGED <<note, logs>> /\ Hold(w, new) /\ new.pc # "suspend" => Reasons'
      BY ReasonsMove DEF Hold
    <2>3. NoJob.pc # "suspend"
      BY DEF NoJob
    <2>4. UNCHANGED <<note, logs>> /\ (Nack(w) \/ Ack(w)) => Reasons'
      BY <2>2, <2>3 DEF Nack, Ack
    <2>5. CASE Consume(w)
      <3>1. PICK x \in Payload : Hold(w, [NoJob EXCEPT !.pc = "find", !.job = x])
        BY <2>5 DEF Consume
      <3>2. [NoJob EXCEPT !.pc = "find", !.job = x].pc # "suspend"
        BY DEF NoJob
      <3> QED
        BY <2>2, <2>5, <3>1, <3>2 DEF Consume
    <2>6. CASE FindEvent(w)
      <3>1. \A D, H : [t EXCEPT !.pc = "discord", !.discord = D, !.hooks = H].pc # "suspend"
        BY <2>1 DEF Job
      <3> QED
        BY <2>2, <2>3, <2>4, <2>6, <3>1 DEF FindEvent
    <2>7. CASE DispatchDiscord(w)
      <3>1. [t EXCEPT !.pc = "webhooks"].pc # "suspend"
        BY <2>1 DEF Job
      <3>2. \A d, ok : [t EXCEPT !.pc = "log", !.cur = d, !.sent = ok,
                                 !.discord = @ \ {d}].pc # "suspend"
        BY <2>1 DEF Job
      <3> QED
        BY <2>2, <2>7, <3>1, <3>2 DEF DispatchDiscord
    <2>8. CASE PostWebhooks(w)
      <3>1. \A F : [t EXCEPT !.pc = "logHooks", !.failed = F].pc # "suspend"
        BY <2>1 DEF Job
      <3> QED
        BY <2>2, <2>4, <2>8, <3>1 DEF PostWebhooks
    <2>9. ASSUME NEW m, NEW S, NEW F, logs' = Logged(m, S, F)
          PROVE  /\ \A x \in Messages \X Notes : logs[x].failed > 0 => logs'[x].failed > 0
                 /\ m \in Messages => \A n \in F \cap Notes : logs'[<<m, n>>].failed > 0
      BY <1>0, <2>9 DEF Logged, LogEntries, OtherTypes
    <2>10. CASE LogDiscord(w)
      <3>1. [t EXCEPT !.pc = "discord", !.cur = Null].pc # "suspend"
        BY <2>1 DEF Job
      <3>2. UNCHANGED note
        BY <2>10 DEF LogDiscord
      <3>3. CASE Nack(w) /\ UNCHANGED logs
        BY <2>4, <3>2, <3>3
      <3>4. CASE /\ logs' = Logged(t.job.msg, IF t.sent THEN {t.cur} ELSE {},
                                              IF t.sent THEN {} ELSE {t.cur})
                 /\ Hold(w, [t EXCEPT !.pc = "discord", !.cur = Null])
        <4>1. \A x \in Messages \X Notes : logs[x].failed > 0 => logs'[x].failed > 0
          BY <2>9, <3>4
        <4> QED
          BY <3>1, <3>2, <3>4, <4>1, ReasonsMove DEF Hold
      <3> QED
        BY <2>10, <3>3, <3>4 DEF LogDiscord
    <2>11. CASE LogWebhooks(w)
      <3> DEFINE new == [t EXCEPT !.pc = "suspend"]
      <3>1. new.job = t.job /\ new.failed = t.failed /\ t.failed \subseteq Notes
        BY <2>1 DEF Job, Notes
      <3>2. UNCHANGED note /\ t.pc = "logHooks"
        BY <2>11 DEF LogWebhooks
      <3>3. CASE Nack(w) /\ UNCHANGED logs
        BY <2>4, <3>2, <3>3
      <3>4. CASE /\ logs' = Logged(t.job.msg, t.hooks \ t.failed, t.failed)
                 /\ Hold(w, NoJob) \/ Hold(w, new)
        <4> HIDE DEF new
        <4>1. /\ \A x \in Messages \X Notes : logs[x].failed > 0 => logs'[x].failed > 0
              /\ \A n \in t.failed : logs'[<<t.job.msg, n>>].failed > 0
          BY <2>1, <2>9, <3>1, <3>2, <3>4
        <4>2. CASE Hold(w, NoJob)
          BY <2>3, <3>2, <4>1, <4>2, ReasonsMove DEF Hold
        <4>3. CASE Hold(w, new)
          BY <3>1, <3>2, <4>1, <4>3, ReasonsMove DEF Hold
        <4> QED
          BY <3>4, <4>2, <4>3
      <3> QED
        BY <2>11, <3>3, <3>4 DEF LogWebhooks, Ack
    <2>12. CASE SuspendWebhooks(w)
      <3>1. UNCHANGED logs /\ t.pc = "suspend"
        BY <2>12 DEF SuspendWebhooks
      <3>2. CASE Nack(w) /\ UNCHANGED note
        BY <2>4, <3>1, <3>2
      <3>3. CASE /\ note' = [n \in Notes |-> IF n \in t.failed
                                  THEN [note[n] EXCEPT !.status = "suspended"] ELSE note[n]]
                 /\ Hold(w, NoJob)
        <4>1. \A n \in t.failed : logs[<<t.job.msg, n>>].failed > 0
          BY <3>1 DEF Reasons, ReasonLogged
        <4>2. \A n \in Webhooks : note'[n].status = "suspended" =>
                 \/ note[n].status = "suspended"
                 \/ \E m \in Messages : logs[<<m, n>>].failed > 0
          BY <2>1, <3>1, <3>3, <4>1 DEF Notes
        <4> QED
          BY <2>3, <3>1, <3>3, <4>2, ReasonsMove DEF Hold
      <3> QED
        BY <2>12, <3>2, <3>3 DEF SuspendWebhooks
    <2> QED
      BY <1>4, <2>5, <2>6, <2>7, <2>8, <2>10, <2>11, <2>12 DEF Work
  <1>5. ASSUME NEW q \in Requests, Receive(q) \/ (\E m \in Messages : Deliver(q, m))
        PROVE  UNCHANGED <<worker, note, logs>>
    BY <1>5 DEF Receive, MarkIfNew, HandleEvent, Publish, Deliver, delivery
  <1>6. (\E m \in Messages : ExpireKey(m)) \/ ReceiverCrash \/ Send \/ UNCHANGED vars
          => UNCHANGED <<worker, note, logs>>
    BY DEF ExpireKey, ReceiverCrash, Send, SendNotification, SuspendNotification, vars, delivery
  <1> QED
    BY <1>1, <1>2, <1>3, <1>4, <1>5, <1>6 DEF Next

\* Every suspended webhook has the failed post in its log: the entries are written
\* before the suspension, and a failure between the two keeps them.
THEOREM SuspensionsAreLogged == Spec => []SuspensionIsLogged
  <1>1. Types /\ Reasons /\ [Next]_vars => (Types /\ Reasons)'
    BY TypesStep, ReasonsStep
  <1>2. Reasons => SuspensionIsLogged
    BY DEF Reasons
  <1> QED
    BY TypesInit, ReasonsInit, <1>1, <1>2, PTL DEF Spec

-----------------------------------------------------------------------------
(* A failed post is followed up                                             *)

Suited(n, x) == n \in Filtered => x.game

\* The handler will post to the webhook, or has and will suspend it.
Follows(w, n) ==
  LET t == worker[w]
  IN  \/ t.pc = "find" /\ Suited(n, t.job)
      \/ t.pc \in {"discord", "log", "webhooks"} /\ n \in t.hooks
      \/ t.pc \in {"logHooks", "suspend"} /\ n \in t.failed

Pursued(n) ==
  \/ note[n].status = "suspended"
  \/ note[n].disabled
  \/ \E x \in Payload : streamQ[x] > 0 /\ Suited(n, x)
  \/ \E w \in Workers : Follows(w, n)

\* A handler fails where it posts, and posts what its payload suits.
Listed(w) ==
  /\ worker[w].failed \subseteq worker[w].hooks
  /\ worker[w].pc = "find" => worker[w].failed = {}
  /\ \A n \in worker[w].hooks : Suited(n, worker[w].job)

Pursuit == (\A n \in hist.broken : Pursued(n)) /\ \A w \in Workers : Listed(w)

LEMMA PursuitInit == Init => Pursuit
  BY DEF Init, Pursuit, Listed, NoJob

\* What one handler does: what it stops following is back in the queue or is off,
\* what it takes from the queue it follows.
LEMMA PursuitMove ==
  ASSUME Types, Pursuit, NEW w \in Workers, NEW new, worker' = [worker EXCEPT ![w] = new],
         \A n \in Notes : note[n].status = "suspended" => note'[n].status = "suspended",
         \A n \in Notes : note[n].disabled => note'[n].disabled,
         \A n \in hist'.broken : n \in hist.broken \/ Pursued(n)',
         \A n \in hist.broken : Follows(w, n) => Pursued(n)' \/ n \notin hist'.broken,
         \A n \in hist.broken, x \in Payload : streamQ[x] > 0 /\ Suited(n, x) => Pursued(n)',
         Listed(w)'
  PROVE  Pursuit'
  <1>0. WorkerTypes /\ hist \in History
    BY TypesSplit DEF Types
  <1>1. \A v \in Workers : v # w => worker'[v] = worker[v]
    BY <1>0 DEF WorkerTypes
  <1>2. ASSUME NEW n \in hist'.broken PROVE Pursued(n)'
    <2>1. CASE n \in hist.broken
      <3>1. Pursued(n) /\ n \in Notes
        BY <1>0, <2>1 DEF Pursuit, History, Notes
      <3>2. ASSUME NEW v \in Workers, v # w, Follows(v, n) PROVE Pursued(n)'
        BY <1>1, <3>2 DEF Pursued, Follows
      <3>3. CASE note[n].status = "suspended" \/ note[n].disabled
        BY <3>1, <3>3 DEF Pursued
      <3> QED
        BY <1>2, <2>1, <3>1, <3>2, <3>3 DEF Pursued
    <2> QED
      BY <1>2, <2>1
  <1>3. ASSUME NEW v \in Workers PROVE Listed(v)'
    BY <1>1 DEF Pursuit, Listed
  <1> QED
    BY <1>2, <1>3 DEF Pursuit

LEMMA PursuitWork ==
  ASSUME Types, Pursuit, NEW w \in Workers, Consume(w) \/ Work(w)
  PROVE  Pursuit'
  <1> DEFINE t == worker[w]
  <1>0. WorkerTypes /\ OtherTypes /\ hist \in History
    BY TypesSplit DEF Types
  <1>1. t \in Job /\ (t.pc # "idle" => t.job \in Payload) /\ Listed(w)
    BY <1>0 DEF WorkerTypes, Pursuit
  <1>2. hist.broken \subseteq Webhooks /\ Webhooks \subseteq Notes
    BY <1>0 DEF History, Notes
  <1>3. NoJob.pc = "idle" /\ NoJob.hooks = {} /\ NoJob.failed = {}
    BY DEF NoJob
  <1>4. ASSUME Hold(w, NoJob) PROVE Listed(w)' /\ worker' = [worker EXCEPT ![w] = NoJob]
    BY <1>0, <1>3, <1>4 DEF Hold, Listed, WorkerTypes
  <1>5. ASSUME Nack(w), t.pc # "idle", UNCHANGED note PROVE Pursuit'
    <2>1. hist'.broken = hist.broken /\ Hold(w, NoJob)
      BY <1>0, <1>5 DEF Nack, History
    <2>2. streamQ'[t.job] > 0 /\ \A x \in Payload : streamQ[x] > 0 => streamQ'[x] > 0
      BY <1>0, <1>1, <1>5 DEF Nack, Put, WorkerTypes
    <2>3. \A n \in hist.broken : Follows(w, n) => Pursued(n)'
      BY <1>1, <1>5, <2>2 DEF Follows, Pursued, Listed
    <2>4. \A n \in hist.broken, x \in Payload : streamQ[x] > 0 /\ Suited(n, x) => Pursued(n)'
      BY <2>2 DEF Pursued, Suited
    <2> QED
      BY <1>4, <1>5, <2>1, <2>3, <2>4, PursuitMove
  <1>6. ASSUME UNCHANGED streamQ
        PROVE  \A n \in hist.broken, x \in Payload : streamQ[x] > 0 /\ Suited(n, x) => Pursued(n)'
    BY <1>6 DEF Pursued, Suited
  \* An acknowledgement by a handler that follows nothing any more.
  <1>7. ASSUME Ack(w), t.pc # "idle", UNCHANGED <<note, streamQ>>,
               \A n \in hist.broken : ~Follows(w, n)
        PROVE  Pursuit'
    <2>1. hist'.broken = hist.broken /\ Hold(w, NoJob)
      BY <1>0, <1>7 DEF Ack, History
    <2> QED
      BY <1>4, <1>6, <1>7, <2>1, PursuitMove
  \* A handler that goes on and follows what it followed.
  <1>8. ASSUME NEW new, Hold(w, new), UNCHANGED <<note, streamQ>>, hist'.broken = hist.broken,
               \A n \in hist.broken : Follows(w, n) => Pursued(n)', Listed(w)'
        PROVE  Pursuit'
    BY <1>6, <1>8, PursuitMove DEF Hold
  <1>9. CASE Consume(w)
    <2>1. PICK x \in Payload : /\ streamQ[x] > 0
                               /\ streamQ' = Take(streamQ, x)
                               /\ Hold(w, [NoJob EXCEPT !.pc = "find", !.job = x])
      BY <1>9 DEF Consume
    <2> DEFINE new == [NoJob EXCEPT !.pc = "find", !.job = x]
    <2>2. new.job = x /\ new.pc = "find" /\ new.hooks = {} /\ new.failed = {}
      BY DEF NoJob
    <2> HIDE DEF new
    <2>3. worker' = [worker EXCEPT ![w] = new] /\ worker'[w] = new
      BY <1>0, <2>1 DEF Hold, WorkerTypes, new
    <2>4. UNCHANGED <<note, hist>> /\ t.pc = "idle"
      BY <1>9 DEF Consume
    <2>5. \A y \in Payload : y # x /\ streamQ[y] > 0 => streamQ'[y] > 0
      BY <1>0, <2>1 DEF Take, WorkerTypes
    <2>6. \A n \in hist.broken, y \in Payload : streamQ[y] > 0 /\ Suited(n, y) => Pursued(n)'
      BY <2>2, <2>3, <2>5 DEF Pursued, Follows, Suited
    <2>7. Listed(w)' /\ \A n \in hist.broken : ~Follows(w, n)
      BY <2>2, <2>3, <2>4 DEF Listed, Follows
    <2> QED
      BY <2>3, <2>4, <2>6, <2>7, PursuitMove
  <1>10. CASE FindEvent(w)
    <2> DEFINE to == Destinations(t.job)
               new == [t EXCEPT !.pc = "discord", !.discord = to \cap Discords,
                                !.hooks = to \cap Webhooks]
    <2>1. t.pc = "find" /\ UNCHANGED note
      BY <1>10 DEF FindEvent
    <2>2. CASE Hold(w, new) /\ UNCHANGED <<streamQ, faults, hist>>
      <3>1. /\ new.job = t.job /\ new.pc = "discord" /\ new.hooks = to \cap Webhooks
            /\ new.failed = {}
        BY <1>1, <2>1 DEF Job, Listed
      <3> HIDE DEF new
      <3>2. worker'[w] = new
        BY <1>0, <2>2 DEF Hold, WorkerTypes
      <3>3. Listed(w)'
        BY <3>1, <3>2 DEF Listed, Suited, Destinations
      <3>4. \A n \in hist.broken : Follows(w, n) => Pursued(n)'
        <4> SUFFICES ASSUME NEW n \in hist.broken, Follows(w, n),
                            ~(note[n].status = "suspended"), ~note[n].disabled
                     PROVE  Pursued(n)'
          BY <2>1 DEF Pursued
        <4>1. Suited(n, t.job)
          BY <2>1 DEF Follows
        <4>2. n \in Notes /\ n \in Webhooks /\ note[n].status = "active"
          BY <1>0, <1>2 DEF OtherTypes
        <4>3. n \in to
          BY <4>1, <4>2 DEF Destinations, Listening, Suited
        <4> QED
          BY <3>1, <3>2, <4>2, <4>3 DEF Pursued, Follows
      <3> QED
        BY <1>8, <2>1, <2>2, <3>3, <3>4
    <2>3. CASE Hold(w, NoJob) /\ hist'.broken = {}
      <3>1. \A v \in Workers : Listed(v)'
        <4>1. worker' = [worker EXCEPT ![w] = NoJob] /\ Listed(w)'
          BY <1>4, <2>3
        <4>2. \A v \in Workers : v # w => worker'[v] = worker[v]
          BY <1>0, <4>1 DEF WorkerTypes
        <4> QED
          BY <4>1, <4>2 DEF Pursuit, Listed
      <3> QED
        BY <2>3, <3>1 DEF Pursuit
    <2>4. CASE Nack(w)
      BY <1>5, <2>1, <2>4
    <2>5. hist' = [hist EXCEPT !.acked = @ \cup {t.job.msg},
                               !.owed[t.job.msg] = {}, !.broken = {}] => hist'.broken = {}
      BY <1>0 DEF History
    <2> QED
      BY <1>10, <2>2, <2>3, <2>4, <2>5 DEF FindEvent
  <1>11. CASE DispatchDiscord(w)
    <2>1. t.pc = "discord" /\ UNCHANGED <<note, streamQ>>
      BY <1>11 DEF DispatchDiscord
    <2>2. PICK new : /\ Hold(w, new) /\ new.job = t.job /\ new.pc \in {"log", "webhooks"}
                     /\ new.hooks = t.hooks /\ new.failed = t.failed
      <3>1. LET new == [t EXCEPT !.pc = "webhooks"]
            IN  /\ new.job = t.job /\ new.pc = "webhooks"
                /\ new.hooks = t.hooks /\ new.failed = t.failed
        BY <1>1 DEF Job
      <3>3. CASE t.discord = {}
        BY <1>11, <3>1, <3>3 DEF DispatchDiscord
      <3>4. CASE t.discord # {}
        <4>1. PICK d \in t.discord, ok \in BOOLEAN :
                Hold(w, [t EXCEPT !.pc = "log", !.cur = d, !.sent = ok, !.discord = @ \ {d}])
          BY <1>11, <3>4 DEF DispatchDiscord
        <4> DEFINE moved == [t EXCEPT !.pc = "log", !.cur = d, !.sent = ok, !.discord = @ \ {d}]
        <4>2. /\ moved.job = t.job /\ moved.pc = "log"
              /\ moved.hooks = t.hooks /\ moved.failed = t.failed
          BY <1>1 DEF Job
        <4>3. Hold(w, moved)
          BY <4>1
        <4> HIDE DEF moved
        <4> QED
          BY <4>2, <4>3
      <3> QED
        BY <3>3, <3>4
    <2>3. worker'[w] = new
      BY <1>0, <2>2 DEF Hold, WorkerTypes
    <2>4. hist'.broken = hist.broken
      BY <1>0, <1>11 DEF DispatchDiscord, History
    <2>5. Listed(w)' /\ \A n \in hist.broken : Follows(w, n) => Pursued(n)'
      BY <1>1, <2>1, <2>2, <2>3 DEF Listed, Suited, Follows, Pursued
    <2> QED
      BY <1>8, <2>1, <2>2, <2>4, <2>5
  <1>12. CASE LogDiscord(w)
    <2>1. t.pc = "log" /\ UNCHANGED note
      BY <1>12 DEF LogDiscord
    <2> DEFINE new == [t EXCEPT !.pc = "discord", !.cur = Null]
    <2>2. CASE Hold(w, new) /\ UNCHANGED <<streamQ, faults, hist>>
      <3>1. /\ new.job = t.job /\ new.pc = "discord" /\ new.hooks = t.hooks
            /\ new.failed = t.failed
        BY <1>1 DEF Job
      <3> HIDE DEF new
      <3>2. worker'[w] = new
        BY <1>0, <2>2 DEF Hold, WorkerTypes
      <3>3. Listed(w)' /\ \A n \in hist.broken : Follows(w, n) => Pursued(n)'
        BY <1>1, <2>1, <3>1, <3>2 DEF Listed, Suited, Follows, Pursued
      <3> QED
        BY <1>8, <2>1, <2>2, <3>3
    <2> QED
      BY <1>5, <1>12, <2>1, <2>2 DEF LogDiscord
  <1>13. CASE PostWebhooks(w)
    <2>1. t.pc = "webhooks" /\ UNCHANGED <<note, streamQ>>
      BY <1>13 DEF PostWebhooks
    <2>2. CASE t.hooks = {}
      BY <1>7, <1>13, <2>1, <2>2 DEF PostWebhooks, Follows
    <2>3. CASE t.hooks # {}
      <3>1. PICK F \in SUBSET t.hooks :
              /\ Hold(w, [t EXCEPT !.pc = "logHooks", !.failed = F])
              /\ hist' = [hist EXCEPT !.attempts = Attempted(t.hooks, t.job.msg),
                                      !.broken = (@ \ t.hooks) \cup F]
        BY <1>13, <2>3 DEF PostWebhooks
      <3> DEFINE new == [t EXCEPT !.pc = "logHooks", !.failed = F]
      <3>2. new.job = t.job /\ new.pc = "logHooks" /\ new.hooks = t.hooks /\ new.failed = F
        BY <1>1 DEF Job
      <3> HIDE DEF new
      <3>3. worker'[w] = new /\ worker' = [worker EXCEPT ![w] = new]
        BY <1>0, <3>1 DEF Hold, WorkerTypes, new
      <3>4. hist'.broken = (hist.broken \ t.hooks) \cup F
        BY <1>0, <3>1 DEF History
      <3>5. \A n \in F : Pursued(n)'
        BY <3>2, <3>3 DEF Pursued, Follows
      <3>6. \A n \in hist.broken : Follows(w, n) => Pursued(n)' \/ n \notin hist'.broken
        BY <2>1, <3>4, <3>5 DEF Follows
      <3>7. Listed(w)'
        BY <1>1, <3>2, <3>3 DEF Listed, Suited
      <3> QED
        BY <1>6, <2>1, <3>3, <3>4, <3>5, <3>6, <3>7, PursuitMove
    <2> QED
      BY <2>2, <2>3
  <1>14. CASE LogWebhooks(w)
    <2>1. t.pc = "logHooks" /\ UNCHANGED note
      BY <1>14 DEF LogWebhooks
    <2> DEFINE new == [t EXCEPT !.pc = "suspend"]
    <2>2. CASE Hold(w, new) /\ UNCHANGED <<streamQ, hist>>
      <3>1. new.job = t.job /\ new.pc = "suspend" /\ new.hooks = t.hooks /\ new.failed = t.failed
        BY <1>1 DEF Job
      <3> HIDE DEF new
      <3>2. worker'[w] = new
        BY <1>0, <2>2 DEF Hold, WorkerTypes
      <3>3. Listed(w)' /\ \A n \in hist.broken : Follows(w, n) => Pursued(n)'
        BY <1>1, <2>1, <3>1, <3>2 DEF Listed, Suited, Follows, Pursued
      <3> QED
        BY <1>8, <2>1, <2>2, <3>3
    <2>3. CASE Ack(w) /\ t.failed = {} /\ UNCHANGED streamQ
      BY <1>7, <2>1, <2>3 DEF Follows
    <2> QED
      BY <1>5, <1>14, <2>1, <2>2, <2>3 DEF LogWebhooks
  <1>15. CASE SuspendWebhooks(w)
    <2>1. t.pc = "suspend"
      BY <1>15 DEF SuspendWebhooks
    <2>2. CASE /\ note' = [n \in Notes |-> IF n \in t.failed
                                  THEN [note[n] EXCEPT !.status = "suspended"] ELSE note[n]]
               /\ Hold(w, NoJob)
               /\ hist' = [hist EXCEPT !.acked = @ \cup {t.job.msg},
                                       !.owed = [k \in Messages |-> @[k] \ t.failed]]
               /\ UNCHANGED <<streamQ, faults>>
      <3>1. hist'.broken = hist.broken
        BY <1>0, <2>2 DEF History
      <3>2. /\ \A n \in t.failed \cap Notes : note'[n].status = "suspended"
            /\ \A n \in Notes : note[n].status = "suspended" => note'[n].status = "suspended"
            /\ \A n \in Notes : note[n].disabled => note'[n].disabled
        BY <1>0, <2>2 DEF OtherTypes
      <3>3. \A n \in hist.broken : Follows(w, n) => Pursued(n)'
        BY <1>2, <2>1, <3>2 DEF Follows, Pursued
      <3> QED
        BY <1>4, <1>6, <2>2, <3>1, <3>2, <3>3, PursuitMove
    <2> QED
      BY <1>5, <1>15, <2>1, <2>2 DEF SuspendWebhooks
  <1> QED
    BY <1>9, <1>10, <1>11, <1>12, <1>13, <1>14, <1>15 DEF Work

LEMMA PursuitStep ==
  ASSUME Types, Pursuit, [Next]_vars
  PROVE  Pursuit'
  <1>0. WorkerTypes /\ OtherTypes /\ hist \in History
    BY TypesSplit DEF Types
  <1>1. ASSUME UNCHANGED <<worker, note>>, hist'.broken = hist.broken,
               \A x \in Payload : streamQ[x] > 0 => streamQ'[x] > 0
        PROVE  Pursuit'
    BY <1>1 DEF Pursuit, Pursued, Follows, Listed, Suited
  <1>2. ASSUME NEW k \in Notes, NEW b \in BOOLEAN, UpdateNotification(k, b)
        PROVE  Pursuit'
    <2>1. hist'.broken = hist.broken \ {k}
      BY <1>0, <1>2 DEF UpdateNotification, History
    <2>2. \A n \in Notes : n # k => note'[n] = note[n]
      BY <1>0, <1>2 DEF UpdateNotification, OtherTypes
    <2>3. hist.broken \subseteq Notes
      BY <1>0 DEF History, Notes
    <2> QED
      BY <1>2, <2>1, <2>2, <2>3 DEF UpdateNotification, Pursuit, Pursued, Follows, Listed, Suited
  <1>3. CASE WorkerCrash
    <2>1. hist'.broken = hist.broken /\ UNCHANGED note
      BY <1>0, <1>3 DEF WorkerCrash, History
    <2>2. ASSUME NEW x \in Payload, streamQ[x] > 0 \/ \E w \in Workers : worker[w].job = x
          PROVE  streamQ'[x] > 0
      <3> DEFINE held == {w \in Workers : worker[w].job = x}
      <3>1. streamQ'[x] = streamQ[x] + Cardinality(held)
        BY <1>3 DEF WorkerCrash
      <3>2. IsFiniteSet(held) /\ Cardinality(held) \in Nat
        BY PipelineConstants, FS_Subset, FS_CardinalityType
      <3>3. held # {} => Cardinality(held) > 0
        BY <3>2, FS_EmptySet
      <3>4. streamQ[x] > 0 \/ held # {}
        BY <2>2
      <3> HIDE DEF held
      <3> QED
        BY <1>0, <3>1, <3>2, <3>3, <3>4 DEF WorkerTypes
    <2>3. ASSUME NEW n \in hist.broken PROVE Pursued(n)'
      <3>1. Pursued(n)
        BY DEF Pursuit
      <3>2. ASSUME NEW w \in Workers, Follows(w, n) PROVE Pursued(n)'
        <4>1. Listed(w) /\ (worker[w].pc # "idle" => worker[w].job \in Payload)
          BY <1>0 DEF Pursuit, WorkerTypes
        <4>2. worker[w].job \in Payload /\ Suited(n, worker[w].job)
          BY <3>2, <4>1 DEF Follows, Listed
        <4> QED
          BY <2>2, <4>2 DEF Pursued, Suited
      <3> QED
        BY <2>1, <2>2, <3>1, <3>2 DEF Pursued, Suited
    <2>4. \A w \in Workers : Listed(w)'
      BY <1>3 DEF WorkerCrash, Listed, NoJob
    <2> QED
      BY <2>1, <2>3, <2>4 DEF Pursuit
  <1>4. ASSUME NEW q \in Requests, Receive(q) \/ (\E m \in Messages : Deliver(q, m))
        PROVE  Pursuit'
    <2>1. UNCHANGED <<worker, note>> /\ hist'.broken = hist.broken
      BY <1>0, <1>4 DEF Receive, MarkIfNew, HandleEvent, Publish, Stop, Deliver, delivery, History
    <2>2. \A x \in Payload : streamQ[x] > 0 => streamQ'[x] > 0
      BY <1>0, <1>4 DEF Receive, MarkIfNew, HandleEvent, Publish, Put, Deliver, WorkerTypes
    <2> QED
      BY <1>1, <2>1, <2>2
  <1>5. ASSUME (\E m \in Messages : ExpireKey(m)) \/ ReceiverCrash \/ Send \/ UNCHANGED vars
        PROVE  Pursuit'
    <2>1. UNCHANGED <<worker, note, streamQ>> /\ hist'.broken = hist.broken
      BY <1>0, <1>5 DEF ExpireKey, ReceiverCrash, Stop, Send, SendNotification, SuspendNotification, vars, delivery, History
    <2> QED
      BY <1>1, <2>1
  <1> QED
    BY <1>2, <1>3, <1>4, <1>5, PursuitWork DEF Next

\* A webhook whose last post failed, and whose event is still there, is suspended
\* or switched off, or the worker is still at it.
THEOREM FailuresSuspend == Spec => []FailedIsSuspended
  <1>1. Types /\ Pursuit /\ [Next]_vars => (Types /\ Pursuit)'
    BY TypesStep, PursuitStep
  <1>2. Pursuit => FailedIsSuspended
    BY DEF Pursuit, Pursued, Follows, FailedIsSuspended
  <1> QED
    BY TypesInit, PursuitInit, <1>1, <1>2, PTL DEF Spec

-----------------------------------------------------------------------------
(* Nobody is attempted again without a reason                               *)

\* The handler may still attempt to deliver event m to n.
Yet(w, m, n) ==
  LET t == worker[w]
  IN  /\ t.pc # "idle" /\ t.job.msg = m
      /\ \/ t.pc = "find"
         \/ t.pc \in {"discord", "log"} /\ n \in t.discord
         \/ t.pc \in {"discord", "log", "webhooks"} /\ n \in t.hooks

Pending(m, n) == {w \in Workers : Yet(w, m, n)}

Waiting(m) == streamQ[[msg |-> m, game |-> TRUE]] + streamQ[[msg |-> m, game |-> FALSE]]

\* The attempts made, and those that messages held and queued may still lead to,
\* were each paid for by a publication or a requeue.
Budget(m, n) ==
  hist.attempts[<<m, n>>] + Cardinality(Pending(m, n)) + Waiting(m)
    <= hist.ingested[m] + hist.requeued[m]

Paid == \A m \in Messages, n \in Notes : Budget(m, n)

LEMMA SubsetSize ==
  ASSUME NEW S \in SUBSET Workers, NEW T \in SUBSET Workers, NEW w \in Workers
  PROVE  /\ Cardinality(S) \in Nat
         /\ S \subseteq T => Cardinality(S) <= Cardinality(T)
         /\ S \subseteq T /\ w \in T /\ w \notin S => Cardinality(S) <= Cardinality(T) - 1
         /\ S \subseteq T \cup {w} => Cardinality(S) <= Cardinality(T) + 1
  <1>1. IsFiniteSet(S) /\ IsFiniteSet(T) /\ Cardinality(S) \in Nat /\ Cardinality(T) \in Nat
    BY PipelineConstants, FS_Subset, FS_CardinalityType
  <1>2. S \subseteq T => Cardinality(S) <= Cardinality(T)
    BY <1>1, FS_Subset
  <1>3. ASSUME S \subseteq T, w \in T, w \notin S PROVE Cardinality(S) <= Cardinality(T) - 1
    <2>1. IsFiniteSet(T \ {w}) /\ Cardinality(T \ {w}) = Cardinality(T) - 1
      BY <1>1, <1>3, FS_RemoveElement
    <2>2. S \subseteq T \ {w}
      BY <1>3
    <2> QED
      BY <2>1, <2>2, FS_Subset
  <1>4. ASSUME S \subseteq T \cup {w} PROVE Cardinality(S) <= Cardinality(T) + 1
    <2>1. IsFiniteSet(T \cup {w}) /\ Cardinality(T \cup {w}) <= Cardinality(T) + 1
      <3>1. Cardinality(T \cup {w}) = IF w \in T THEN Cardinality(T) ELSE Cardinality(T) + 1
        BY <1>1, FS_AddElement
      <3>2. IsFiniteSet(T \cup {w})
        BY <1>1, FS_AddElement
      <3> QED
        BY <1>1, <3>1, <3>2
    <2>2. Cardinality(S) <= Cardinality(T \cup {w}) /\ Cardinality(T \cup {w}) \in Nat
      BY <1>4, <2>1, FS_Subset, FS_CardinalityType
    <2> QED
      BY <1>1, <2>1, <2>2
  <1> QED
    BY <1>1, <1>2, <1>3, <1>4

LEMMA PaidInit == Init => Paid
  <1> SUFFICES ASSUME Init, NEW m \in Messages, NEW n \in Notes PROVE Budget(m, n)
    BY DEF Paid
  <1>1. Pending(m, n) = {}
    BY DEF Init, Pending, Yet, NoJob
  <1>2. Waiting(m) = 0
    BY DEF Init, Waiting, Payload
  <1>3. hist.attempts[<<m, n>>] = 0 /\ hist.ingested[m] = 0 /\ hist.requeued[m] = 0
    BY DEF Init
  <1> QED
    BY <1>1, <1>2, <1>3, FS_EmptySet DEF Budget

LEMMA Counts ==
  ASSUME Types, NEW m \in Messages, NEW n \in Notes
  PROVE  /\ hist.attempts[<<m, n>>] \in Nat /\ hist.ingested[m] \in Nat
         /\ hist.requeued[m] \in Nat /\ Waiting(m) \in Nat
  <1>1. WorkerTypes /\ hist \in History
    BY TypesSplit DEF Types
  <1>2. [msg |-> m, game |-> TRUE] \in Payload /\ [msg |-> m, game |-> FALSE] \in Payload
    BY DEF Payload
  <1>3. \A x \in Payload : streamQ[x] \in Nat
    BY <1>1 DEF WorkerTypes
  <1>4. Waiting(m) \in Nat
    <2>1. /\ streamQ[[msg |-> m, game |-> TRUE]] \in Nat
          /\ streamQ[[msg |-> m, game |-> FALSE]] \in Nat
      BY <1>2, <1>3
    <2> QED
      BY <2>1 DEF Waiting
  <1>5. <<m, n>> \in Messages \X Notes
    OBVIOUS
  <1> QED
    BY <1>1, <1>4, <1>5 DEF History

\* One handler's step keeps the books: it makes no attempt and returns at most what
\* it pays for, or uses up the attempt it might make, or takes a message.
LEMMA BudgetMove ==
  ASSUME Types, Types', NEW w \in Workers, NEW new, worker' = [worker EXCEPT ![w] = new],
         NEW m \in Messages, NEW n \in Notes, Budget(m, n),
         hist'.ingested[m] = hist.ingested[m],
         \/ /\ hist'.attempts[<<m, n>>] = hist.attempts[<<m, n>>]
            /\ Yet(w, m, n)' => Yet(w, m, n)
            /\ \/ Waiting(m)' = Waiting(m) /\ hist'.requeued[m] = hist.requeued[m]
               \/ Waiting(m)' = Waiting(m) + 1 /\ hist'.requeued[m] = hist.requeued[m] + 1
         \/ /\ hist'.attempts[<<m, n>>] = hist.attempts[<<m, n>>] + 1
            /\ Yet(w, m, n) /\ ~Yet(w, m, n)'
            /\ Waiting(m)' = Waiting(m) /\ hist'.requeued[m] = hist.requeued[m]
         \/ /\ hist'.attempts[<<m, n>>] = hist.attempts[<<m, n>>]
            /\ Waiting(m)' = Waiting(m) - 1 /\ hist'.requeued[m] = hist.requeued[m]
  PROVE  Budget(m, n)'
  <1> DEFINE S == Pending(m, n)'
             T == Pending(m, n)
  <1>0. worker \in [Workers -> Job]
    BY TypesSplit DEF WorkerTypes
  <1>1. \A v \in Workers : v # w => (Yet(v, m, n)' <=> Yet(v, m, n))
    BY <1>0 DEF Yet
  <1>2. S \in SUBSET Workers /\ T \in SUBSET Workers /\ S \subseteq T \cup {w}
    BY <1>1 DEF Pending
  <1>3. /\ (Yet(w, m, n)' => Yet(w, m, n)) => S \subseteq T
        /\ Yet(w, m, n) => w \in T
        /\ ~Yet(w, m, n)' => w \notin S
    BY <1>1 DEF Pending
  <1>4. /\ hist.attempts[<<m, n>>] \in Nat /\ hist.ingested[m] \in Nat
        /\ hist.requeued[m] \in Nat /\ Waiting(m) \in Nat
    BY Counts
  <1>5. hist.attempts[<<m, n>>] + Cardinality(T) + Waiting(m) <= hist.ingested[m] + hist.requeued[m]
    BY DEF Budget
  <1> HIDE DEF S, T
  <1>6. /\ Cardinality(S) \in Nat /\ Cardinality(T) \in Nat
        /\ S \subseteq T => Cardinality(S) <= Cardinality(T)
        /\ S \subseteq T /\ w \in T /\ w \notin S => Cardinality(S) <= Cardinality(T) - 1
        /\ Cardinality(S) <= Cardinality(T) + 1
    BY <1>2, SubsetSize
  <1>7. hist'.attempts[<<m, n>>] + Cardinality(S) + Waiting(m)' <= hist'.ingested[m] + hist'.requeued[m]
    BY <1>3, <1>4, <1>5, <1>6
  <1> QED
    BY <1>7 DEF Budget, S

\* A step of the queue by one message of event x.msg is one of Waiting(x.msg).
LEMMA WaitingStep ==
  ASSUME Types, NEW x \in Payload, NEW m \in Messages
  PROVE  /\ streamQ' = Put(streamQ, x) =>
              Waiting(m)' = IF x.msg = m THEN Waiting(m) + 1 ELSE Waiting(m)
         /\ streamQ' = Take(streamQ, x) =>
              Waiting(m)' = IF x.msg = m THEN Waiting(m) - 1 ELSE Waiting(m)
         /\ UNCHANGED streamQ => Waiting(m)' = Waiting(m)
  <1> DEFINE known == [msg |-> m, game |-> TRUE]
             unknown == [msg |-> m, game |-> FALSE]
  <1>1. known \in Payload /\ unknown \in Payload
    BY DEF Payload
  <1>2. streamQ \in [Payload -> Nat]
    BY TypesSplit DEF WorkerTypes
  <1>3. IF x.msg = m THEN x = known \/ x = unknown ELSE x # known /\ x # unknown
    BY DEF Payload
  <1>4. known # unknown
    OBVIOUS
  <1>5. Waiting(m) = streamQ[known] + streamQ[unknown]
        /\ Waiting(m)' = streamQ'[known] + streamQ'[unknown]
    BY DEF Waiting
  <1> HIDE DEF known, unknown
  <1>6. streamQ[known] \in Nat /\ streamQ[unknown] \in Nat
    BY <1>1, <1>2
  <1>7. ASSUME streamQ' = Put(streamQ, x)
        PROVE  Waiting(m)' = IF x.msg = m THEN Waiting(m) + 1 ELSE Waiting(m)
    <2>1. \A y \in Payload : streamQ'[y] = IF y = x THEN streamQ[y] + 1 ELSE streamQ[y]
      BY <1>2, <1>7 DEF Put
    <2> QED
      BY <1>1, <1>3, <1>4, <1>5, <1>6, <2>1
  <1>8. ASSUME streamQ' = Take(streamQ, x)
        PROVE  Waiting(m)' = IF x.msg = m THEN Waiting(m) - 1 ELSE Waiting(m)
    <2>1. \A y \in Payload : streamQ'[y] = IF y = x THEN streamQ[y] - 1 ELSE streamQ[y]
      BY <1>2, <1>8 DEF Take
    <2> QED
      BY <1>1, <1>3, <1>4, <1>5, <1>6, <2>1
  <1> QED
    BY <1>5, <1>7, <1>8

LEMMA PaidWork ==
  ASSUME Types, Types', Paid, NEW w \in Workers, Consume(w) \/ Work(w)
  PROVE  Paid'
  <1> DEFINE t == worker[w]
  <1>0. WorkerTypes /\ OtherTypes /\ hist \in History
    BY TypesSplit DEF Types
  <1> SUFFICES ASSUME NEW m \in Messages, NEW n \in Notes PROVE Budget(m, n)'
    BY DEF Paid
  <1>1. Budget(m, n) /\ t \in Job /\ (t.pc # "idle" => t.job \in Payload /\ t.job.msg \in Messages)
    BY <1>0 DEF WorkerTypes, Payload, Paid
  <1>2. hist'.ingested[m] = hist.ingested[m]
    BY <1>0, <1>1 DEF Consume, Work, FindEvent, DispatchDiscord, LogDiscord, PostWebhooks,
                      LogWebhooks, SuspendWebhooks, Ack, Nack, History
  <1>3. <<m, n>> \in Messages \X Notes
    OBVIOUS
  <1>4. UNCHANGED streamQ => Waiting(m)' = Waiting(m)
    BY DEF Waiting
  \* Steps that keep the queue, and attempt nothing.
  <1>5. ASSUME NEW new, Hold(w, new), UNCHANGED streamQ,
               hist'.attempts = hist.attempts, hist'.requeued = hist.requeued,
               Yet(w, m, n)' => Yet(w, m, n)
        PROVE  Budget(m, n)'
    BY <1>1, <1>2, <1>4, <1>5, BudgetMove DEF Hold
  <1>6. ASSUME Hold(w, NoJob) PROVE ~Yet(w, m, n)'
    BY <1>0, <1>6 DEF Hold, NoJob, Yet, WorkerTypes
  <1>7. ASSUME Ack(w), UNCHANGED streamQ PROVE Budget(m, n)'
    <2>1. hist'.attempts = hist.attempts /\ hist'.requeued = hist.requeued
      BY <1>0, <1>7 DEF Ack, History
    <2> QED
      BY <1>5, <1>6, <1>7, <2>1 DEF Ack
  <1>8. ASSUME Nack(w), t.pc # "idle" PROVE Budget(m, n)'
    <2>1. /\ hist'.attempts = hist.attempts
          /\ hist'.requeued[m] = IF t.job.msg = m THEN hist.requeued[m] + 1 ELSE hist.requeued[m]
      BY <1>0, <1>1, <1>8 DEF Nack, History
    <2>2. Waiting(m)' = IF t.job.msg = m THEN Waiting(m) + 1 ELSE Waiting(m)
      BY <1>1, <1>8, WaitingStep DEF Nack
    <2>3. worker' = [worker EXCEPT ![w] = NoJob] /\ ~Yet(w, m, n)'
      BY <1>6, <1>8 DEF Nack, Hold
    <2> QED
      BY <1>1, <1>2, <2>1, <2>2, <2>3, BudgetMove
  <1>9. CASE Consume(w)
    <2>1. PICK x \in Payload : /\ streamQ' = Take(streamQ, x)
                               /\ Hold(w, [NoJob EXCEPT !.pc = "find", !.job = x])
      BY <1>9 DEF Consume
    <2> DEFINE new == [NoJob EXCEPT !.pc = "find", !.job = x]
    <2>2. new.job = x
      BY DEF NoJob
    <2> HIDE DEF new
    <2>3. worker' = [worker EXCEPT ![w] = new] /\ worker'[w] = new
      BY <1>0, <2>1 DEF Hold, WorkerTypes, new
    <2>4. UNCHANGED hist
      BY <1>9 DEF Consume
    <2>5. CASE x.msg = m
      <3>1. Waiting(m)' = Waiting(m) - 1
        BY <2>1, <2>5, WaitingStep
      <3> QED
        BY <1>1, <2>3, <2>4, <3>1, BudgetMove
    <2>6. CASE x.msg # m
      <3>1. Waiting(m)' = Waiting(m)
        BY <2>1, <2>6, WaitingStep
      <3>2. ~Yet(w, m, n)'
        BY <2>2, <2>3, <2>6 DEF Yet
      <3> QED
        BY <1>1, <2>3, <2>4, <3>1, <3>2, BudgetMove
    <2> QED
      BY <2>5, <2>6
  <1>10. CASE FindEvent(w)
    <2> DEFINE to == Destinations(t.job)
               new == [t EXCEPT !.pc = "discord", !.discord = to \cap Discords,
                                !.hooks = to \cap Webhooks]
    <2>1. t.pc = "find"
      BY <1>10 DEF FindEvent
    <2>2. CASE Hold(w, new) /\ UNCHANGED <<streamQ, faults, hist>>
      <3>1. new.job = t.job
        BY <1>1 DEF Job
      <3> HIDE DEF new
      <3>2. worker'[w] = new
        BY <1>0, <2>2 DEF Hold, WorkerTypes
      <3>3. Yet(w, m, n)' => Yet(w, m, n)
        BY <2>1, <3>1, <3>2 DEF Yet
      <3> QED
        BY <1>5, <2>2, <3>3
    <2>3. CASE /\ Hold(w, NoJob)
               /\ hist' = [hist EXCEPT !.acked = @ \cup {t.job.msg}, !.owed[t.job.msg] = {},
                                       !.broken = {}]
               /\ UNCHANGED <<streamQ, faults>>
      <3>1. hist'.attempts = hist.attempts /\ hist'.requeued = hist.requeued
        BY <1>0, <2>3 DEF History
      <3> QED
        BY <1>5, <1>6, <2>3, <3>1
    <2> QED
      BY <1>8, <1>10, <2>1, <2>2, <2>3 DEF FindEvent
  <1>11. CASE LogDiscord(w)
    <2>1. t.pc = "log"
      BY <1>11 DEF LogDiscord
    <2> DEFINE new == [t EXCEPT !.pc = "discord", !.cur = Null]
    <2>2. CASE Hold(w, new) /\ UNCHANGED <<streamQ, faults, hist>>
      <3>1. new.job = t.job /\ new.pc = "discord" /\ new.hooks = t.hooks /\ new.discord = t.discord
        BY <1>1 DEF Job
      <3> HIDE DEF new
      <3>2. worker'[w] = new
        BY <1>0, <2>2 DEF Hold, WorkerTypes
      <3>3. Yet(w, m, n)' => Yet(w, m, n)
        BY <2>1, <3>1, <3>2 DEF Yet
      <3> QED
        BY <1>5, <2>2, <3>3
    <2> QED
      BY <1>8, <1>11, <2>1, <2>2 DEF LogDiscord
  <1>12. CASE LogWebhooks(w)
    <2>1. t.pc = "logHooks"
      BY <1>12 DEF LogWebhooks
    <2> DEFINE new == [t EXCEPT !.pc = "suspend"]
    <2>2. CASE Hold(w, new) /\ UNCHANGED <<streamQ, hist>>
      <3>1. new.pc = "suspend"
        BY <1>1 DEF Job
      <3> HIDE DEF new
      <3>2. worker'[w] = new
        BY <1>0, <2>2 DEF Hold, WorkerTypes
      <3>3. ~Yet(w, m, n)'
        BY <3>1, <3>2 DEF Yet
      <3> QED
        BY <1>5, <2>2, <3>3
    <2> QED
      BY <1>7, <1>8, <1>12, <2>1, <2>2 DEF LogWebhooks
  <1>13. CASE SuspendWebhooks(w)
    <2>1. t.pc = "suspend"
      BY <1>13 DEF SuspendWebhooks
    <2>2. CASE /\ Hold(w, NoJob) /\ UNCHANGED <<streamQ, faults>>
               /\ hist' = [hist EXCEPT !.acked = @ \cup {t.job.msg},
                                       !.owed = [k \in Messages |-> @[k] \ t.failed]]
      <3>1. hist'.attempts = hist.attempts /\ hist'.requeued = hist.requeued
        BY <1>0, <2>2 DEF History
      <3> QED
        BY <1>5, <1>6, <2>2, <3>1
    <2> QED
      BY <1>8, <1>13, <2>1, <2>2 DEF SuspendWebhooks
  \* An attempt for the notifications in A uses up those the handler had yet to make.
  <1>14. ASSUME NEW new, Hold(w, new), UNCHANGED streamQ, NEW A \in SUBSET Notes,
                hist'.attempts = Attempted(A, t.job.msg), hist'.requeued = hist.requeued,
                Yet(w, m, n)' => Yet(w, m, n),
                t.job.msg = m /\ n \in A => Yet(w, m, n) /\ ~Yet(w, m, n)'
         PROVE  Budget(m, n)'
    <2>1. worker' = [worker EXCEPT ![w] = new] /\ Waiting(m)' = Waiting(m)
      BY <1>4, <1>14 DEF Hold
    <2>2. hist'.attempts[<<m, n>>] = hist.attempts[<<m, n>>] + IF m = t.job.msg /\ n \in A THEN 1 ELSE 0
      BY <1>3, <1>14 DEF Attempted
    <2>3. hist.attempts[<<m, n>>] \in Nat
      BY Counts
    <2> QED
      <3>1. CASE m = t.job.msg /\ n \in A
        <4>1. hist'.attempts[<<m, n>>] = hist.attempts[<<m, n>>] + 1
          BY <2>2, <3>1
        <4> QED
          BY <1>1, <1>2, <1>14, <2>1, <3>1, <4>1, BudgetMove
      <3>2. CASE ~(m = t.job.msg /\ n \in A)
        <4>1. hist'.attempts[<<m, n>>] = hist.attempts[<<m, n>>]
          BY <2>2, <2>3, <3>2
        <4> QED
          BY <1>1, <1>2, <1>14, <2>1, <4>1, BudgetMove
      <3> QED
        BY <3>1, <3>2
  <1>15. CASE DispatchDiscord(w)
    <2>1. t.pc = "discord" /\ UNCHANGED streamQ
      BY <1>15 DEF DispatchDiscord
    <2>2. CASE t.discord = {}
      <3> DEFINE new == [t EXCEPT !.pc = "webhooks"]
      <3>1. new.job = t.job /\ new.pc = "webhooks" /\ new.hooks = t.hooks
        BY <1>1 DEF Job
      <3>2. Hold(w, new) /\ UNCHANGED hist
        BY <1>15, <2>2 DEF DispatchDiscord
      <3> HIDE DEF new
      <3>3. worker'[w] = new
        BY <1>0, <3>2 DEF Hold, WorkerTypes
      <3>4. Yet(w, m, n)' => Yet(w, m, n)
        BY <2>1, <3>1, <3>3 DEF Yet
      <3> QED
        BY <1>5, <2>1, <3>2, <3>4
    <2>3. CASE t.discord # {}
      <3>1. PICK d \in t.discord, ok \in BOOLEAN :
              /\ Hold(w, [t EXCEPT !.pc = "log", !.cur = d, !.sent = ok, !.discord = @ \ {d}])
              /\ hist' = [hist EXCEPT !.attempts = Attempted({d}, t.job.msg)]
        BY <1>15, <2>3 DEF DispatchDiscord
      <3> DEFINE new == [t EXCEPT !.pc = "log", !.cur = d, !.sent = ok, !.discord = @ \ {d}]
      <3>2. /\ new.job = t.job /\ new.pc = "log" /\ new.hooks = t.hooks
            /\ new.discord = t.discord \ {d}
        BY <1>1 DEF Job
      <3> HIDE DEF new
      <3>3. worker'[w] = new /\ Hold(w, new)
        BY <1>0, <3>1 DEF Hold, WorkerTypes, new
      <3>4. hist'.attempts = Attempted({d}, t.job.msg) /\ hist'.requeued = hist.requeued
        BY <1>0, <3>1 DEF History
      <3>5. d \in Discords /\ d \notin t.hooks /\ {d} \in SUBSET Notes
        BY <1>1, PipelineConstants DEF Job, Notes
      <3>6. Yet(w, m, n)' => Yet(w, m, n)
        BY <2>1, <3>2, <3>3 DEF Yet
      <3>7. t.job.msg = m /\ n \in {d} => Yet(w, m, n) /\ ~Yet(w, m, n)'
        BY <2>1, <3>2, <3>3, <3>5 DEF Yet
      <3> QED
        BY <1>14, <2>1, <3>3, <3>4, <3>5, <3>6, <3>7
    <2> QED
      BY <2>2, <2>3
  <1>16. CASE PostWebhooks(w)
    <2>1. t.pc = "webhooks" /\ UNCHANGED streamQ
      BY <1>16 DEF PostWebhooks
    <2>2. CASE t.hooks = {}
      BY <1>7, <1>16, <2>1, <2>2 DEF PostWebhooks
    <2>3. CASE t.hooks # {}
      <3>1. PICK F \in SUBSET t.hooks :
              /\ Hold(w, [t EXCEPT !.pc = "logHooks", !.failed = F])
              /\ hist' = [hist EXCEPT !.attempts = Attempted(t.hooks, t.job.msg),
                                      !.broken = (@ \ t.hooks) \cup F]
        BY <1>16, <2>3 DEF PostWebhooks
      <3> DEFINE new == [t EXCEPT !.pc = "logHooks", !.failed = F]
      <3>2. new.pc = "logHooks"
        BY <1>1 DEF Job
      <3> HIDE DEF new
      <3>3. worker'[w] = new /\ Hold(w, new)
        BY <1>0, <3>1 DEF Hold, WorkerTypes, new
      <3>4. hist'.attempts = Attempted(t.hooks, t.job.msg) /\ hist'.requeued = hist.requeued
        BY <1>0, <3>1 DEF History
      <3>5. t.hooks \in SUBSET Notes
        BY <1>1 DEF Job, Notes
      <3>6. ~Yet(w, m, n)' /\ (t.job.msg = m /\ n \in t.hooks => Yet(w, m, n))
        BY <2>1, <3>2, <3>3 DEF Yet
      <3> QED
        BY <1>14, <2>1, <3>3, <3>4, <3>5, <3>6
    <2> QED
      BY <2>2, <2>3
  <1> QED
    BY <1>9, <1>10, <1>11, <1>12, <1>13, <1>15, <1>16 DEF Work

LEMMA PaidStep ==
  ASSUME Types, Types', Paid, [Next]_vars
  PROVE  Paid'
  <1>0. ReceiverTypes /\ WorkerTypes /\ OtherTypes /\ hist \in History
    BY TypesSplit DEF Types
  <1>1. ASSUME UNCHANGED <<worker, streamQ>>, hist'.attempts = hist.attempts,
               hist'.ingested = hist.ingested, hist'.requeued = hist.requeued
        PROVE  Paid'
    BY <1>1 DEF Paid, Budget, Pending, Yet, Waiting
  <1>2. CASE UNCHANGED vars \/ Send \/ \E m \in Messages : ExpireKey(m)
    BY <1>1, <1>2 DEF vars, Send, SendNotification, SuspendNotification, ExpireKey, delivery
  <1>3. ASSUME NEW n \in Notes, NEW b \in BOOLEAN, UpdateNotification(n, b)
        PROVE  Paid'
    <2>1. /\ hist'.attempts = hist.attempts /\ hist'.ingested = hist.ingested
          /\ hist'.requeued = hist.requeued
      BY <1>0, <1>3 DEF UpdateNotification, History
    <2> QED
      BY <1>1, <1>3, <2>1 DEF UpdateNotification
  <1>4. ASSUME Stop, UNCHANGED <<worker, streamQ>> PROVE Paid'
    <2>1. /\ hist'.attempts = hist.attempts /\ hist'.ingested = hist.ingested
          /\ hist'.requeued = hist.requeued
      BY <1>0, <1>4 DEF Stop, History
    <2> QED
      BY <1>1, <1>4, <2>1
  <1>5. CASE ReceiverCrash
    BY <1>4, <1>5 DEF ReceiverCrash, delivery
  <1>6. ASSUME NEW q \in Requests, Publish(q) PROVE Paid'
    <2> DEFINE k == request[q].msg
               x == [msg |-> k, game |-> request[q].game]
    <2>1. x \in Payload /\ x.msg = k /\ k \in Messages /\ UNCHANGED worker
      BY <1>0, <1>6 DEF Publish, Payload, ReceiverTypes, delivery
    <2>2. CASE /\ streamQ' = Put(streamQ, x)
               /\ hist' = [hist EXCEPT !.ingested[x.msg] = @ + 1, !.owed[x.msg] = Destinations(x)]
      <3> HIDE DEF x, k
      <3> SUFFICES ASSUME NEW m \in Messages, NEW n \in Notes PROVE Budget(m, n)'
        BY DEF Paid
      <3>1. /\ hist'.attempts = hist.attempts /\ hist'.requeued = hist.requeued
            /\ hist'.ingested = [hist.ingested EXCEPT ![k] = @ + 1]
        BY <1>0, <2>1, <2>2 DEF History
      <3>2. hist'.ingested[m] = IF k = m THEN hist.ingested[m] + 1 ELSE hist.ingested[m]
        BY <1>0, <2>1, <3>1 DEF History
      <3>3. Waiting(m)' = IF k = m THEN Waiting(m) + 1 ELSE Waiting(m)
        BY <2>1, <2>2, WaitingStep
      <3>4. Pending(m, n)' = Pending(m, n)
        BY <2>1 DEF Pending, Yet
      <3>5. Cardinality(Pending(m, n)) \in Nat
        BY PipelineConstants, FS_Subset, FS_CardinalityType DEF Pending
      <3>6. /\ hist.attempts[<<m, n>>] \in Nat /\ hist.ingested[m] \in Nat
            /\ hist.requeued[m] \in Nat /\ Waiting(m) \in Nat
        BY Counts
      <3>7. hist.attempts[<<m, n>>] + Cardinality(Pending(m, n)) + Waiting(m)
              <= hist.ingested[m] + hist.requeued[m]
        BY DEF Paid, Budget
      <3>8. hist'.attempts[<<m, n>>] + Cardinality(Pending(m, n)) + Waiting(m)'
              <= hist'.ingested[m] + hist'.requeued[m]
        BY <3>1, <3>2, <3>3, <3>5, <3>6, <3>7
      <3> QED
        BY <3>4, <3>8 DEF Budget
    <2> QED
      BY <1>4, <1>6, <2>1, <2>2 DEF Publish
  <1>7. ASSUME NEW q \in Requests, Receive(q) \/ (\E m \in Messages : Deliver(q, m))
        PROVE  Paid'
    <2>1. CASE Publish(q)
      BY <1>6, <2>1
    <2> QED
      BY <1>1, <1>7, <2>1 DEF Receive, MarkIfNew, HandleEvent, Deliver, delivery
  <1>8. CASE WorkerCrash
    <2> SUFFICES ASSUME NEW m \in Messages, NEW n \in Notes PROVE Budget(m, n)'
      BY DEF Paid
    <2> DEFINE known == [msg |-> m, game |-> TRUE]
               unknown == [msg |-> m, game |-> FALSE]
               K == {w \in Workers : worker[w].job = known}
               U == {w \in Workers : worker[w].job = unknown}
               B == {w \in Workers : worker[w].job # Null /\ worker[w].job.msg = m}
    <2>1. known \in Payload /\ unknown \in Payload /\ known # unknown
      BY DEF Payload
    <2>2. K \subseteq B /\ U \subseteq B /\ K \cap U = {}
      BY <2>1, PipelineConstants
    <2>3. streamQ'[known] = streamQ[known] + Cardinality(K)
          /\ streamQ'[unknown] = streamQ[unknown] + Cardinality(U)
      BY <1>8, <2>1 DEF WorkerCrash
    <2>4. /\ hist'.attempts = hist.attempts /\ hist'.ingested = hist.ingested
          /\ hist'.requeued[m] = hist.requeued[m] + Cardinality(B)
      BY <1>0, <1>8 DEF WorkerCrash, History
    <2>5. Pending(m, n)' = {}
      BY <1>8 DEF WorkerCrash, Pending, Yet, NoJob
    <2>6. Waiting(m) = streamQ[known] + streamQ[unknown]
          /\ Waiting(m)' = streamQ'[known] + streamQ'[unknown]
      BY DEF Waiting
    <2>7. streamQ[known] \in Nat /\ streamQ[unknown] \in Nat
      BY <1>0, <2>1 DEF WorkerTypes
    <2>8. /\ IsFiniteSet(B) /\ IsFiniteSet(K) /\ IsFiniteSet(U)
      BY PipelineConstants, FS_Subset
    <2> HIDE DEF K, U, B, known, unknown
    <2>9. /\ Cardinality(K) \in Nat /\ Cardinality(U) \in Nat /\ Cardinality(B) \in Nat
          /\ Cardinality(K) + Cardinality(U) <= Cardinality(B)
      <3>1. /\ Cardinality(K) \in Nat /\ Cardinality(U) \in Nat /\ Cardinality(B) \in Nat
        BY <2>8, FS_CardinalityType
      <3>2. Cardinality(K \cup U) = Cardinality(K) + Cardinality(U) - Cardinality(K \cap U)
        BY <2>8, FS_Union
      <3>3. Cardinality(K \cap U) = 0
        BY <2>2, FS_EmptySet
      <3>4. Cardinality(K \cup U) <= Cardinality(B)
        BY <2>2, <2>8, FS_Subset
      <3> QED
        BY <3>1, <3>2, <3>3, <3>4
    <2>10. /\ hist.attempts[<<m, n>>] \in Nat /\ hist.ingested[m] \in Nat
           /\ hist.requeued[m] \in Nat /\ Cardinality(Pending(m, n)) \in Nat
      BY Counts, PipelineConstants, FS_Subset, FS_CardinalityType DEF Pending
    <2>11. hist.attempts[<<m, n>>] + Cardinality(Pending(m, n)) + Waiting(m)
             <= hist.ingested[m] + hist.requeued[m]
      BY DEF Paid, Budget
    <2>12. hist'.attempts[<<m, n>>] + 0 + Waiting(m)' <= hist'.ingested[m] + hist'.requeued[m]
      BY <2>3, <2>4, <2>6, <2>7, <2>9, <2>10, <2>11
    <2>13. Cardinality(Pending(m, n)') = 0
      BY <2>5, FS_EmptySet
    <2> QED
      BY <2>12, <2>13 DEF Budget
  <1> QED
    BY <1>2, <1>3, <1>5, <1>7, <1>8, PaidWork DEF Next

\* A destination is attempted at most once for each time its event was published or
\* requeued: a handler never attempts a notification twice, a retry or not.
THEOREM RepeatsArePaidFor == Spec => []NoSpuriousRepeat
  <1>1. Types /\ Paid /\ [Next]_vars => (Types /\ Paid)'
    BY TypesStep, PaidStep
  <1>2. ASSUME Types, Paid PROVE NoSpuriousRepeat
    <2> SUFFICES ASSUME NEW x \in Messages \X Notes
                 PROVE  hist.attempts[x] <= hist.ingested[x[1]] + hist.requeued[x[1]]
      BY DEF NoSpuriousRepeat
    <2> DEFINE m == x[1]
               n == x[2]
    <2>1. m \in Messages /\ n \in Notes /\ x = <<m, n>>
      OBVIOUS
    <2> HIDE DEF m, n
    <2>2. Budget(m, n)
      BY <1>2, <2>1 DEF Paid
    <2>3. Cardinality(Pending(m, n)) \in Nat
      BY PipelineConstants, FS_Subset, FS_CardinalityType DEF Pending
    <2>4. /\ hist.attempts[<<m, n>>] \in Nat /\ hist.ingested[m] \in Nat
          /\ hist.requeued[m] \in Nat /\ Waiting(m) \in Nat
      BY <1>2, <2>1, Counts
    <2>5. hist.attempts[<<m, n>>] <= hist.ingested[m] + hist.requeued[m]
      BY <2>2, <2>3, <2>4 DEF Budget
    <2> QED
      BY <2>1, <2>5 DEF m
  <1> QED
    BY TypesInit, PaidInit, <1>1, <1>2, PTL DEF Spec

-----------------------------------------------------------------------------
(* The pipeline implements Delivery                                          *)

Has(job, m) == job # Null /\ job.msg = m

Held(m) == {w \in Workers : Has(worker[w].job, m)}

One(b) == IF b THEN 1 ELSE 0

\* What was published waits, is held, or is done with: one copy, in one place.
Custody(m) ==
  Waiting(m) + Cardinality(Held(m)) + One(m \in hist.acked) = hist.ingested[m]

\* Twitch has finished with what was dropped and has no key any more.
Forgotten(m) ==
  m \in hist.dropped \ marked =>
    twitch[m].sends = MaxSends /\ \A q \in Requests : request[q].msg # m

Care ==
  /\ \A w \in Workers : worker[w].pc = "idle" => worker[w].job = Null
  /\ \A m \in Messages :
       /\ Custody(m)
       /\ hist.ingested[m] = 0 => hist.requeued[m] = 0
       /\ Forgotten(m)

-----------------------------------------------------------------------------
(* What a handler's step is to the event it holds                           *)

Moves(w, new) ==
  /\ worker' = [worker EXCEPT ![w] = new]
  /\ new.pc = "idle" => new.job = Null

Takes(w) ==
  /\ worker[w].pc = "idle"
  /\ \E x \in Payload :
       /\ streamQ[x] > 0
       /\ streamQ' = Take(streamQ, x)
       /\ \E new : Moves(w, new) /\ new.job = x
  /\ UNCHANGED hist

GoesOn(w) ==
  /\ worker[w].pc # "idle"
  /\ \E new : Moves(w, new) /\ new.job = worker[w].job
  /\ UNCHANGED streamQ
  /\ hist'.acked = hist.acked /\ hist'.requeued = hist.requeued /\ hist'.owed = hist.owed
  /\ \/ hist'.attempts = hist.attempts
     \/ \E N \in SUBSET Notes :
          /\ hist'.attempts = Attempted(N, worker[w].job.msg)
          /\ \A n \in N : Yet(w, worker[w].job.msg, n)

Returns(w) ==
  /\ worker[w].pc # "idle"
  /\ Moves(w, NoJob)
  /\ streamQ' = Put(streamQ, worker[w].job)
  /\ hist' = [hist EXCEPT !.requeued[worker[w].job.msg] = @ + 1]

Ends(w) ==
  /\ worker[w].pc # "idle"
  /\ Moves(w, NoJob)
  /\ UNCHANGED streamQ
  /\ hist'.acked = hist.acked \cup {worker[w].job.msg}
  /\ hist'.requeued = hist.requeued /\ hist'.attempts = hist.attempts
  /\ \A m \in Messages : hist'.owed[m] \subseteq hist.owed[m]

LEMMA HandlerSteps ==
  ASSUME Types, NEW w \in Workers, Consume(w) \/ Work(w)
  PROVE  /\ Takes(w) \/ GoesOn(w) \/ Returns(w) \/ Ends(w)
         /\ UNCHANGED receiver
         /\ hist'.ingested = hist.ingested /\ hist'.dropped = hist.dropped
  <1> DEFINE t == worker[w]
  <1>0. WorkerTypes /\ hist \in History /\ worker \in [Workers -> Job]
    BY TypesSplit DEF Types, WorkerTypes
  <1>1. /\ UNCHANGED receiver
        /\ hist'.ingested = hist.ingested /\ hist'.dropped = hist.dropped
    <2>1. UNCHANGED receiver
      BY DEF Consume, Work, FindEvent, DispatchDiscord, LogDiscord, PostWebhooks,
             LogWebhooks, SuspendWebhooks
    <2>2. hist'.ingested = hist.ingested /\ hist'.dropped = hist.dropped
      BY <1>0 DEF Consume, Work, FindEvent, DispatchDiscord, LogDiscord, PostWebhooks,
                  LogWebhooks, SuspendWebhooks, Ack, Nack, History
    <2> QED
      BY <2>1, <2>2
  <1>2. t \in Job /\ (t.pc # "idle" => t.job \in Payload /\ t.job.msg \in Messages)
    BY <1>0 DEF WorkerTypes, Payload
  <1>3. Hold(w, NoJob) => Moves(w, NoJob)
    BY DEF Hold, Moves, NoJob
  <1>4. ASSUME NEW new, Hold(w, new), new.pc # "idle" PROVE Moves(w, new)
    BY <1>4 DEF Hold, Moves
  <1>5. ASSUME Ack(w), UNCHANGED streamQ, t.pc # "idle" PROVE Ends(w)
    <2>1. /\ hist'.acked = hist.acked \cup {t.job.msg}
          /\ hist'.requeued = hist.requeued /\ hist'.attempts = hist.attempts
          /\ hist'.owed = hist.owed
      BY <1>0, <1>5 DEF Ack, History
    <2> QED
      BY <1>3, <1>5, <2>1 DEF Ack, Ends
  <1>6. ASSUME Nack(w), t.pc # "idle" PROVE Returns(w)
    BY <1>3, <1>6 DEF Nack, Returns
  <1>7. ASSUME NEW new, Hold(w, new), new.pc # "idle", new.job = t.job, t.pc # "idle",
               UNCHANGED <<streamQ, hist>>
        PROVE  GoesOn(w)
    BY <1>4, <1>7 DEF GoesOn
  <1>8. CASE Consume(w)
    <2>1. PICK x \in Payload : /\ streamQ[x] > 0 /\ streamQ' = Take(streamQ, x)
                               /\ Hold(w, [NoJob EXCEPT !.pc = "find", !.job = x])
      BY <1>8 DEF Consume
    <2> DEFINE new == [NoJob EXCEPT !.pc = "find", !.job = x]
    <2>2. new.pc = "find" /\ new.job = x
      BY DEF NoJob
    <2> HIDE DEF new
    <2>3. Moves(w, new)
      BY <1>4, <2>1, <2>2 DEF new
    <2> QED
      BY <1>1, <1>8, <2>1, <2>2, <2>3 DEF Takes, Consume
  <1>9. CASE FindEvent(w)
    <2> DEFINE to == Destinations(t.job)
               new == [t EXCEPT !.pc = "discord", !.discord = to \cap Discords,
                                !.hooks = to \cap Webhooks]
    <2>1. t.pc = "find"
      BY <1>9 DEF FindEvent
    <2>2. new.pc = "discord" /\ new.job = t.job
      BY <1>2 DEF Job
    <2>3. CASE Nack(w)
      BY <1>1, <1>6, <2>1, <2>3
    <2>4. CASE Hold(w, new) /\ UNCHANGED <<streamQ, hist>>
      BY <1>1, <1>7, <2>1, <2>2, <2>4
    <2>5. CASE /\ Hold(w, NoJob) /\ UNCHANGED streamQ
               /\ hist' = [hist EXCEPT !.acked = @ \cup {t.job.msg},
                                       !.owed[t.job.msg] = {}, !.broken = {}]
      <3>1. /\ hist'.acked = hist.acked \cup {t.job.msg}
            /\ hist'.requeued = hist.requeued /\ hist'.attempts = hist.attempts
            /\ hist'.owed = [hist.owed EXCEPT ![t.job.msg] = {}]
        BY <1>0, <2>5 DEF History
      <3>2. \A m \in Messages : hist'.owed[m] \subseteq hist.owed[m]
        BY <1>0, <3>1 DEF History
      <3> QED
        BY <1>1, <1>3, <2>1, <2>5, <3>1, <3>2 DEF Ends
    <2> QED
      BY <1>9, <2>3, <2>4, <2>5 DEF FindEvent
  <1>10. CASE DispatchDiscord(w)
    <2> DEFINE next(d, ok) == [t EXCEPT !.pc = "log", !.cur = d, !.sent = ok,
                                        !.discord = @ \ {d}]
               last == [t EXCEPT !.pc = "webhooks"]
    <2>1. t.pc = "discord"
      BY <1>10 DEF DispatchDiscord
    <2>2. CASE Hold(w, last) /\ UNCHANGED hist
      <3>1. last.pc = "webhooks" /\ last.job = t.job
        BY <1>2 DEF Job
      <3> QED
        BY <1>1, <1>7, <1>10, <2>1, <2>2, <3>1 DEF DispatchDiscord
    <2>3. ASSUME NEW d \in t.discord, NEW ok \in BOOLEAN, Hold(w, next(d, ok)),
                 hist' = [hist EXCEPT !.attempts = Attempted({d}, t.job.msg)]
          PROVE  GoesOn(w)
      <3>1. next(d, ok).pc = "log" /\ next(d, ok).job = t.job
        BY <1>2 DEF Job
      <3>2. Moves(w, next(d, ok))
        BY <1>4, <2>3, <3>1
      <3>3. d \in Notes /\ Yet(w, t.job.msg, d)
        BY <1>2, <2>1, <2>3 DEF Job, Notes, Yet
      <3>4. /\ hist'.acked = hist.acked /\ hist'.requeued = hist.requeued
            /\ hist'.owed = hist.owed
            /\ hist'.attempts = Attempted({d}, t.job.msg)
        BY <1>0, <2>3 DEF History
      <3>5. UNCHANGED streamQ
        BY <1>10 DEF DispatchDiscord
      <3>6. \E N \in SUBSET Notes : /\ hist'.attempts = Attempted(N, t.job.msg)
                                    /\ \A n \in N : Yet(w, t.job.msg, n)
        <4>1. {d} \in SUBSET Notes
          BY <3>3
        <4>2. \A n \in {d} : Yet(w, t.job.msg, n)
          BY <3>3
        <4> QED
          BY <3>4, <4>1, <4>2
      <3>7. \E new : Moves(w, new) /\ new.job = t.job
        BY <3>1, <3>2
      <3> QED
        BY <2>1, <3>4, <3>5, <3>6, <3>7 DEF GoesOn
    <2>4. CASE t.discord = {}
      BY <1>10, <2>2, <2>4 DEF DispatchDiscord
    <2>5. CASE t.discord # {}
      <3>1. PICK d \in t.discord :
              /\ Hold(w, next(d, TRUE)) \/ Hold(w, next(d, FALSE))
              /\ hist' = [hist EXCEPT !.attempts = Attempted({d}, t.job.msg)]
        BY <1>10, <2>5 DEF DispatchDiscord
      <3> QED
        BY <1>1, <2>3, <3>1
    <2> QED
      BY <2>4, <2>5
  <1>11. CASE LogDiscord(w)
    <2> DEFINE new == [t EXCEPT !.pc = "discord", !.cur = Null]
    <2>1. t.pc = "log"
      BY <1>11 DEF LogDiscord
    <2>2. new.pc = "discord" /\ new.job = t.job
      BY <1>2 DEF Job
    <2>3. CASE Nack(w)
      BY <1>1, <1>6, <2>1, <2>3
    <2>4. CASE Hold(w, new) /\ UNCHANGED <<streamQ, hist>>
      BY <1>1, <1>7, <2>1, <2>2, <2>4
    <2> QED
      BY <1>11, <2>3, <2>4 DEF LogDiscord
  <1>12. CASE PostWebhooks(w)
    <2>1. t.pc = "webhooks" /\ UNCHANGED streamQ
      BY <1>12 DEF PostWebhooks
    <2>2. CASE t.hooks = {}
      BY <1>1, <1>5, <1>12, <2>1, <2>2 DEF PostWebhooks
    <2>3. CASE t.hooks # {}
      <3>1. PICK F \in SUBSET t.hooks :
              /\ Hold(w, [t EXCEPT !.pc = "logHooks", !.failed = F])
              /\ hist' = [hist EXCEPT !.attempts = Attempted(t.hooks, t.job.msg),
                                      !.broken = (@ \ t.hooks) \cup F]
        BY <1>12, <2>3 DEF PostWebhooks
      <3> DEFINE new == [t EXCEPT !.pc = "logHooks", !.failed = F]
      <3>2. new.pc = "logHooks" /\ new.job = t.job
        BY <1>2 DEF Job
      <3>3. Moves(w, new)
        BY <1>4, <3>1, <3>2
      <3>4. t.hooks \in SUBSET Notes /\ \A n \in t.hooks : Yet(w, t.job.msg, n)
        BY <1>2, <2>1 DEF Job, Notes, Yet
      <3>5. /\ hist'.acked = hist.acked /\ hist'.requeued = hist.requeued
            /\ hist'.owed = hist.owed
            /\ hist'.attempts = Attempted(t.hooks, t.job.msg)
        BY <1>0, <3>1 DEF History
      <3>6. \E k : Moves(w, k) /\ k.job = t.job
        BY <3>2, <3>3
      <3> QED
        BY <1>1, <2>1, <3>4, <3>5, <3>6 DEF GoesOn
    <2> QED
      BY <2>2, <2>3
  <1>13. CASE LogWebhooks(w)
    <2> DEFINE new == [t EXCEPT !.pc = "suspend"]
    <2>1. t.pc = "logHooks"
      BY <1>13 DEF LogWebhooks
    <2>2. new.pc = "suspend" /\ new.job = t.job
      BY <1>2 DEF Job
    <2>3. CASE Nack(w)
      BY <1>1, <1>6, <2>1, <2>3
    <2>4. CASE Ack(w) /\ UNCHANGED streamQ
      BY <1>1, <1>5, <2>1, <2>4
    <2>5. CASE Hold(w, new) /\ UNCHANGED <<streamQ, hist>>
      BY <1>1, <1>7, <2>1, <2>2, <2>5
    <2> QED
      BY <1>13, <2>3, <2>4, <2>5 DEF LogWebhooks
  <1>14. CASE SuspendWebhooks(w)
    <2>1. t.pc = "suspend"
      BY <1>14 DEF SuspendWebhooks
    <2>2. CASE Nack(w)
      BY <1>1, <1>6, <2>1, <2>2
    <2>3. CASE /\ Hold(w, NoJob) /\ UNCHANGED streamQ
               /\ hist' = [hist EXCEPT !.acked = @ \cup {t.job.msg},
                                       !.owed = [m \in Messages |-> @[m] \ t.failed]]
      <3>1. /\ hist'.acked = hist.acked \cup {t.job.msg}
            /\ hist'.requeued = hist.requeued /\ hist'.attempts = hist.attempts
            /\ hist'.owed = [m \in Messages |-> hist.owed[m] \ t.failed]
        BY <1>0, <2>3 DEF History
      <3> QED
        BY <1>1, <1>3, <2>1, <2>3, <3>1 DEF Ends
    <2> QED
      BY <1>14, <2>2, <2>3 DEF SuspendWebhooks
  <1> QED
    BY <1>8, <1>9, <1>10, <1>11, <1>12, <1>13, <1>14 DEF Work

-----------------------------------------------------------------------------
(* Every event is in one place                                              *)

LEMMA CareInit == Init => Care
  <1> SUFFICES ASSUME Init PROVE Care
    OBVIOUS
  <1>1. \A w \in Workers : worker[w].job = Null
    BY DEF Init, NoJob
  <1> SUFFICES ASSUME NEW m \in Messages
               PROVE  /\ Custody(m) /\ Forgotten(m)
                      /\ hist.ingested[m] = 0 => hist.requeued[m] = 0
    BY <1>1 DEF Care
  <1>2. Held(m) = {}
    BY <1>1 DEF Held, Has
  <1>3. Waiting(m) = 0
    BY DEF Init, Waiting, Payload
  <1>4. hist.acked = {} /\ hist.dropped = {} /\ hist.ingested[m] = 0 /\ hist.requeued[m] = 0
    BY DEF Init
  <1> QED
    BY <1>2, <1>3, <1>4, FS_EmptySet DEF Custody, Forgotten, One

LEMMA CareTypes ==
  ASSUME Types, NEW m \in Messages
  PROVE  /\ IsFiniteSet(Held(m)) /\ Cardinality(Held(m)) \in Nat
         /\ Waiting(m) \in Nat
         /\ hist.ingested[m] \in Nat /\ hist.requeued[m] \in Nat
  <1>1. IsFiniteSet(Held(m)) /\ Cardinality(Held(m)) \in Nat
    BY PipelineConstants, FS_Subset, FS_CardinalityType DEF Held
  <1>2. hist \in History /\ WorkerTypes
    BY TypesSplit DEF Types
  <1>3. [msg |-> m, game |-> TRUE] \in Payload /\ [msg |-> m, game |-> FALSE] \in Payload
    BY DEF Payload
  <1>4. Waiting(m) \in Nat
    <2>1. /\ streamQ[[msg |-> m, game |-> TRUE]] \in Nat
          /\ streamQ[[msg |-> m, game |-> FALSE]] \in Nat
      BY <1>2, <1>3 DEF WorkerTypes
    <2> QED
      BY <2>1 DEF Waiting
  <1> QED
    BY <1>1, <1>2, <1>4 DEF History

\* What a handler takes up or lays down is counted.
LEMMA HeldMove ==
  ASSUME Types, NEW w \in Workers, NEW new, worker' = [worker EXCEPT ![w] = new],
         NEW m \in Messages
  PROVE  Cardinality(Held(m)') =
           Cardinality(Held(m)) + One(Has(new.job, m)) - One(Has(worker[w].job, m))
  <1>1. worker \in [Workers -> Job]
    BY TypesSplit DEF WorkerTypes
  <1>2. worker'[w] = new /\ \A v \in Workers : v # w => worker'[v] = worker[v]
    BY <1>1
  <1>3. w \in Held(m) <=> Has(worker[w].job, m)
    BY DEF Held
  <1>4. w \in Held(m)' <=> Has(new.job, m)
    BY <1>2 DEF Held, Has
  <1>5. \A v \in Workers : v # w => (v \in Held(m)' <=> v \in Held(m))
    BY <1>2 DEF Held, Has
  <1>6. Held(m) \subseteq Workers /\ Held(m)' \subseteq Workers
    BY DEF Held
  <1>7. IsFiniteSet(Held(m)) /\ Cardinality(Held(m)) \in Nat
    BY CareTypes
  <1>8. CASE Has(new.job, m) /\ Has(worker[w].job, m)
    <2>1. Held(m)' = Held(m)
      BY <1>3, <1>4, <1>5, <1>6, <1>8
    <2> QED
      BY <1>7, <1>8, <2>1 DEF One
  <1>9. CASE Has(new.job, m) /\ ~Has(worker[w].job, m)
    <2>1. Held(m)' = Held(m) \cup {w} /\ w \notin Held(m)
      BY <1>3, <1>4, <1>5, <1>6, <1>9
    <2>2. Cardinality(Held(m)') = Cardinality(Held(m)) + 1
      BY <1>7, <2>1, FS_AddElement
    <2> QED
      BY <1>7, <1>9, <2>2 DEF One
  <1>10. CASE ~Has(new.job, m) /\ Has(worker[w].job, m)
    <2>1. Held(m)' = Held(m) \ {w} /\ w \in Held(m)
      BY <1>3, <1>4, <1>5, <1>6, <1>10
    <2>2. Cardinality(Held(m)') = Cardinality(Held(m)) - 1
      BY <1>7, <2>1, FS_RemoveElement
    <2> QED
      BY <1>7, <1>10, <2>2 DEF One
  <1>11. CASE ~Has(new.job, m) /\ ~Has(worker[w].job, m)
    <2>1. Held(m)' = Held(m)
      BY <1>3, <1>4, <1>5, <1>6, <1>11
    <2> QED
      BY <1>7, <1>11, <2>1 DEF One
  <1> QED
    BY <1>8, <1>9, <1>10, <1>11

\* What a handler holds was published, and is not done with.
LEMMA HeldIsOpen ==
  ASSUME Types, Gate, Care, NEW m \in Messages
  PROVE  /\ hist.ingested[m] \in {0, 1}
         /\ Cardinality(Held(m)) \in {0, 1}
         /\ (Held(m) # {} \/ Waiting(m) > 0) => hist.ingested[m] = 1 /\ m \notin hist.acked
         /\ (Held(m) = {} /\ Waiting(m) = 0) => (m \in hist.acked <=> hist.ingested[m] = 1)
         /\ Held(m) # {} => Cardinality(Held(m)) = 1
         /\ Held(m) = {} => Cardinality(Held(m)) = 0
  <1>1. Custody(m) /\ Once(m)
    BY DEF Care, Gate
  <1>2. hist.ingested[m] \in {0, 1}
    BY <1>1 DEF Once
  <1>3. /\ IsFiniteSet(Held(m)) /\ Cardinality(Held(m)) \in Nat
        /\ Waiting(m) \in Nat /\ One(m \in hist.acked) \in {0, 1}
    <2>1. One(m \in hist.acked) \in {0, 1}
      BY DEF One
    <2> QED
      BY <2>1, CareTypes
  <1>4. Held(m) = {} <=> Cardinality(Held(m)) = 0
    BY <1>3, FS_EmptySet
  <1>5. Waiting(m) + Cardinality(Held(m)) + One(m \in hist.acked) = hist.ingested[m]
    BY <1>1 DEF Custody
  <1>6. m \in hist.acked <=> One(m \in hist.acked) = 1
    BY DEF One
  <1> QED
    BY <1>2, <1>3, <1>4, <1>5, <1>6

-----------------------------------------------------------------------------
(* What a step of the receiver is to an event                               *)

Taken(m) == \E q \in Requests : Past(q, m)

SameTaken(M) == \A m \in M : Taken(m)' <=> Taken(m)
SameAnswers == \A m \in Messages : twitch'[m].answered = twitch[m].answered

Stays ==
  /\ UNCHANGED <<hist, streamQ>>
  /\ SameTaken(Messages)
  /\ \/ SameAnswers
     \/ \E k \in Messages :
          /\ k \in marked \/ Taken(k)
          /\ \A m \in Messages : twitch'[m].answered <=> (twitch[m].answered \/ m = k)

Admits ==
  /\ UNCHANGED <<hist, streamQ>>
  /\ SameAnswers
  /\ \E k \in Messages :
       /\ hist.ingested[k] = 0 /\ k \notin hist.dropped
       /\ ~Taken(k) /\ Taken(k)'
       /\ SameTaken(Messages \ {k})

Publishes ==
  /\ SameAnswers
  /\ \E x \in Payload :
       /\ streamQ' = Put(streamQ, x)
       /\ hist' = [hist EXCEPT !.ingested[x.msg] = @ + 1, !.owed[x.msg] = Destinations(x)]
       /\ Taken(x.msg) /\ ~Taken(x.msg)'
       /\ SameTaken(Messages \ {x.msg})

Stops ==
  /\ UNCHANGED streamQ
  /\ SameAnswers
  /\ hist' = [hist EXCEPT !.dropped = @ \cup {m \in Messages : Taken(m)}]
  /\ \A m \in Messages : ~Taken(m)'

LEMMA StopSteps ==
  ASSUME Types, Gate, Care, Stop, UNCHANGED <<twitch, marked, streamQ>>
  PROVE  Stops /\ \A m \in Messages : Forgotten(m)'
  <1> DEFINE lost == {request[q].msg : q \in {r \in Requests :
                                               request[r].pc \in {"call", "publish"}}}
  <1>1. hist \in History /\ hist' = [hist EXCEPT !.dropped = @ \cup lost]
    BY DEF Types, Stop
  <1>2. \A q \in Requests : request'[q].pc = "idle" /\ request'[q].msg = Null
    BY DEF Stop, NoRequest
  <1>3. lost = {m \in Messages : Taken(m)}
    BY TypesSplit DEF ReceiverTypes, Taken, Past
  <1>4. \A m \in Messages : m # Null /\ ~Taken(m)'
    BY <1>2, PipelineConstants DEF Taken, Past
  <1> HIDE DEF lost
  <1>5. hist'.dropped = hist.dropped \cup lost
    BY <1>1 DEF History
  <1>6. ASSUME NEW m \in Messages PROVE Forgotten(m)'
    <2>1. Forgotten(m) /\ Unmarked(m)
      BY DEF Care, Gate
    <2>2. m \in lost => m \in marked
      BY <1>3, <2>1 DEF Taken, Past, Unmarked
    <2> QED
      BY <1>2, <1>4, <1>5, <2>1, <2>2 DEF Forgotten
  <1> QED
    BY <1>1, <1>3, <1>4, <1>6 DEF Stops, SameAnswers

LEMMA ReceiverSteps ==
  ASSUME Types, Gate, Care, NEW q \in Requests,
         Receive(q) \/ (\E m \in Messages : Deliver(q, m))
  PROVE  /\ Stays \/ Admits \/ Publishes \/ Stops
         /\ UNCHANGED worker
         /\ \A m \in Messages : Forgotten(m)'
  <1>0. ReceiverTypes /\ hist \in History
    BY TypesSplit DEF Types
  <1> DEFINE k == request[q].msg
  <1>1. \A m \in Messages : Once(m) /\ Unmarked(m) /\ Forgotten(m) /\ m # Null
    BY PipelineConstants DEF Gate, Care
  <1>2. request[q].pc # "idle" => k \in Messages
    BY <1>0 DEF ReceiverTypes
  <1>3. ASSUME NEW j \in Messages, Answer(j)
        PROVE  /\ \A m \in Messages : twitch'[m].sends = twitch[m].sends
               /\ \/ SameAnswers
                  \/ \A m \in Messages : twitch'[m].answered <=> (twitch[m].answered \/ m = j)
    <2>1. CASE UNCHANGED twitch
      BY <2>1 DEF SameAnswers
    <2>2. CASE twitch' = [twitch EXCEPT ![j].answered = TRUE]
      <3>1. \A m \in Messages :
              /\ twitch'[m].sends = twitch[m].sends
              /\ m # j => twitch'[m].answered = twitch[m].answered
        BY <1>0, <2>2 DEF ReceiverTypes
      <3>2. twitch'[j].answered = TRUE
        BY <1>0, <2>2 DEF ReceiverTypes
      <3>3. \A m \in Messages : twitch'[m].answered <=> (twitch[m].answered \/ m = j)
        BY <3>1, <3>2
      <3> QED
        BY <3>1, <3>3
    <2> QED
      BY <1>3, <2>1, <2>2 DEF Answer
  <1>4. ASSUME NEW new, request' = [request EXCEPT ![q] = new]
        PROVE  /\ \A r \in Requests : r # q => request'[r] = request[r]
               /\ request'[q] = new
    BY <1>0, <1>4 DEF ReceiverTypes
  \* A request that ends without an event to answer for.
  <1>5. ASSUME request' = [request EXCEPT ![q] = NoRequest], request[q].pc = "dedup"
        PROVE  /\ SameTaken(Messages)
               /\ \A m \in Messages : \A r \in Requests :
                    request[r].msg # m => request'[r].msg # m
    BY <1>1, <1>4, <1>5 DEF SameTaken, Taken, Past, NoRequest
  <1>6. ASSUME NEW j \in Messages, Deliver(q, j)
        PROVE  Stays /\ UNCHANGED worker /\ \A m \in Messages : Forgotten(m)'
    <2>1. /\ request[q].pc = "idle" /\ twitch[j].sends # MaxSends
          /\ request' = [request EXCEPT ![q] = [pc |-> "dedup", msg |-> j, game |-> FALSE]]
          /\ UNCHANGED <<marked, hist, streamQ, worker>>
      BY <1>0, <1>6, PipelineConstants DEF Deliver, ReceiverTypes, delivery
    <2>2. SameTaken(Messages)
      BY <1>4, <2>1 DEF SameTaken, Taken, Past
    <2>3. \A m \in Messages :
            /\ twitch'[m].answered = twitch[m].answered
            /\ m # j => twitch'[m] = twitch[m]
      BY <1>0, <1>6 DEF Deliver, ReceiverTypes
    <2>4. ASSUME NEW m \in Messages PROVE Forgotten(m)'
      BY <1>1, <1>4, <2>1, <2>3 DEF Forgotten
    <2> QED
      BY <2>1, <2>2, <2>3, <2>4 DEF Stays, SameAnswers
  <1>7. CASE MarkIfNew(q)
    <2>1. /\ request[q].pc = "dedup" /\ k \in Messages
          /\ UNCHANGED <<hist, streamQ, worker>>
      BY <1>2, <1>7 DEF MarkIfNew, delivery
    <2>2. CASE /\ k \in marked
               /\ request' = [request EXCEPT ![q] = NoRequest]
               /\ Answer(k)
               /\ UNCHANGED <<marked, faults>>
      <3>1. \A m \in Messages : Forgotten(m)'
        BY <1>1, <1>3, <1>5, <2>1, <2>2 DEF Forgotten
      <3> QED
        BY <1>3, <1>5, <2>1, <2>2, <3>1 DEF Stays
    <2>3. CASE /\ k \notin marked
               /\ marked' = marked \cup {k}
               /\ request' = [request EXCEPT ![q].pc = "call"]
               /\ UNCHANGED <<twitch, faults>>
      <3>1. request'[q].pc = "call" /\ request'[q].msg = k
        BY <1>0, <2>3 DEF ReceiverTypes
      <3>2. \A r \in Requests : r # q => request'[r] = request[r]
        BY <1>0, <2>3 DEF ReceiverTypes
      <3>0. PICK j \in Messages : j = k
        BY <2>1
      <3>3. Taken(j)' /\ SameTaken(Messages \ {j})
        BY <2>1, <3>0, <3>1, <3>2 DEF SameTaken, Taken, Past
      <3>4. hist.ingested[j] = 0 /\ ~Taken(j) /\ j \notin hist.dropped
        BY <1>1, <2>1, <2>3, <3>0 DEF Unmarked, Forgotten, Taken
      <3>5. \A m \in Messages : Forgotten(m)'
        BY <1>1, <2>1, <2>3, <3>1, <3>2 DEF Forgotten
      <3>6. Admits
        BY <2>1, <2>3, <3>3, <3>4 DEF Admits, SameAnswers
      <3> QED
        BY <2>1, <3>5, <3>6
    <2>4. CASE /\ request' = [request EXCEPT ![q] = NoRequest]
               /\ UNCHANGED <<twitch, marked>>
      <3>1. \A m \in Messages : Forgotten(m)'
        BY <1>1, <1>5, <2>1, <2>4 DEF Forgotten
      <3> QED
        BY <1>5, <2>1, <2>4, <3>1 DEF Stays, SameAnswers
    <2> QED
      BY <1>7, <2>2, <2>3, <2>4 DEF MarkIfNew
  <1>8. CASE HandleEvent(q)
    <2>1. /\ request[q].pc = "call" /\ Answer(k) /\ k \in Messages
          /\ UNCHANGED <<marked, hist, streamQ, worker>>
      BY <1>2, <1>8 DEF HandleEvent, delivery
    <2>2. PICK known \in BOOLEAN :
            request' = [request EXCEPT ![q] = [pc |-> "publish", msg |-> k, game |-> known]]
      BY <1>8 DEF HandleEvent
    <2>3. \A r \in Requests : request'[r].msg = request[r].msg
      BY <1>4, <2>2
    <2>4. SameTaken(Messages)
      <3>1. \A r \in Requests : \A m \in Messages : Past(r, m)' <=> Past(r, m)
        BY <1>4, <2>1, <2>2 DEF Past
      <3> QED
        BY <3>1 DEF SameTaken, Taken
    <2>5. Taken(k)
      BY <2>1 DEF Taken, Past
    <2>6. \A m \in Messages : Forgotten(m)'
      BY <1>1, <1>3, <2>1, <2>3 DEF Forgotten
    <2> QED
      BY <1>3, <2>1, <2>4, <2>5, <2>6 DEF Stays
  <1>9. CASE Publish(q)
    <2> DEFINE x == [msg |-> k, game |-> request[q].game]
    <2>1. /\ request[q].pc = "publish" /\ UNCHANGED <<twitch, marked, worker>>
          /\ x \in Payload /\ x.msg = k /\ k \in Messages
      BY <1>0, <1>2, <1>9 DEF Publish, ReceiverTypes, Payload, delivery
    <2>2. CASE Stop /\ UNCHANGED streamQ
      BY <2>1, <2>2, StopSteps
    <2>3. CASE /\ request' = [request EXCEPT ![q] = NoRequest]
               /\ streamQ' = Put(streamQ, x)
               /\ hist' = [hist EXCEPT !.ingested[x.msg] = @ + 1, !.owed[x.msg] = Destinations(x)]
      <3>1. hist'.dropped = hist.dropped
        BY <1>0, <2>3 DEF History
      <3>2. Past(q, k) /\ \A r \in Requests : Past(r, k) => r = q
        BY <1>1, <2>1 DEF Past, Once
      <3>0. PICK y \in Payload : y = x
        BY <2>1
      <3>3. Taken(y.msg) /\ ~Taken(y.msg)' /\ SameTaken(Messages \ {y.msg})
        <4>1. \A m \in Messages : ~Past(q, m)'
          BY <1>1, <1>4, <2>3 DEF Past, NoRequest
        <4>2. \A m \in Messages : \A r \in Requests : r # q => (Past(r, m)' <=> Past(r, m))
          BY <1>4, <2>3 DEF Past
        <4>3. \A m \in Messages \ {y.msg} : ~Past(q, m)
          BY <2>1, <3>0 DEF Past
        <4>4. y.msg = k /\ y.msg \in Messages
          BY <2>1, <3>0
        <4>5. Taken(y.msg)
          BY <3>2, <4>4 DEF Taken
        <4>6. ~Taken(y.msg)'
          BY <3>2, <4>1, <4>2, <4>4 DEF Taken
        <4>7. SameTaken(Messages \ {y.msg})
          BY <4>1, <4>2, <4>3 DEF SameTaken, Taken
        <4> QED
          BY <4>5, <4>6, <4>7
      <3>4. \A r \in Requests, m \in Messages : request[r].msg # m => request'[r].msg # m
        BY <1>1, <1>4, <2>3 DEF NoRequest
      <3>5. \A m \in Messages : Forgotten(m)'
        BY <1>1, <2>1, <3>1, <3>4 DEF Forgotten
      <3>6. Publishes
        <4>1. /\ streamQ' = Put(streamQ, y)
              /\ hist' = [hist EXCEPT !.ingested[y.msg] = @ + 1, !.owed[y.msg] = Destinations(y)]
          BY <2>3, <3>0
        <4>2. SameAnswers
          BY <2>1 DEF SameAnswers
        <4> QED
          BY <3>3, <4>1, <4>2 DEF Publishes
      <3> QED
        BY <2>1, <3>5, <3>6
    <2> QED
      BY <1>9, <2>2, <2>3 DEF Publish
  <1> QED
    BY <1>6, <1>7, <1>8, <1>9 DEF Receive

-----------------------------------------------------------------------------
(* The invariant                                                            *)

LEMMA CareWork ==
  ASSUME Types, Gate, Care, NEW w \in Workers, Consume(w) \/ Work(w)
  PROVE  Care'
  <1> DEFINE job == worker[w].job
  <1>1. /\ Takes(w) \/ GoesOn(w) \/ Returns(w) \/ Ends(w)
        /\ UNCHANGED receiver
        /\ hist'.ingested = hist.ingested /\ hist'.dropped = hist.dropped
    BY HandlerSteps
  <1>2. worker \in [Workers -> Job] /\ hist \in History
    BY TypesSplit DEF Types, WorkerTypes
  <1>3. IF worker[w].pc = "idle" THEN job = Null
        ELSE job \in Payload /\ job # Null /\ job.msg \in Messages
    BY TypesSplit, PipelineConstants DEF WorkerTypes, Payload, Care
  <1>4. ASSUME NEW new, Moves(w, new)
        PROVE  \A v \in Workers : worker'[v].pc = "idle" => worker'[v].job = Null
    BY <1>2, <1>4 DEF Moves, Care
  <1>5. \A v \in Workers : worker'[v].pc = "idle" => worker'[v].job = Null
    BY <1>1, <1>4 DEF Takes, GoesOn, Returns, Ends
  <1>6. SUFFICES ASSUME NEW m \in Messages
                 PROVE  Custody(m)' /\ (hist'.ingested[m] = 0 => hist'.requeued[m] = 0)
    BY <1>1, <1>5 DEF Care, Forgotten, receiver
  <1>7. /\ Waiting(m) + Cardinality(Held(m)) + One(m \in hist.acked) = hist.ingested[m]
        /\ hist.ingested[m] = 0 => hist.requeued[m] = 0
        /\ Waiting(m) \in Nat /\ Cardinality(Held(m)) \in Nat
        /\ hist.ingested[m] \in Nat /\ hist.requeued[m] \in Nat
    BY CareTypes DEF Care, Custody
  <1>8. One(TRUE) = 1 /\ One(FALSE) = 0 /\ One(m \in hist.acked) \in {0, 1}
    BY DEF One
  \* A handler with the event has it from a publication.
  <1>9. ASSUME worker[w].pc # "idle", job.msg = m
        PROVE  Has(job, m) /\ m \notin hist.acked /\ hist.ingested[m] = 1
    <2>1. Has(job, m) /\ w \in Held(m)
      BY <1>3, <1>9 DEF Has, Held
    <2> QED
      BY <2>1, HeldIsOpen
  <1>10. ASSUME NEW new, Moves(w, new)
         PROVE  Cardinality(Held(m)') =
                  Cardinality(Held(m)) + One(Has(new.job, m)) - One(Has(job, m))
    BY <1>10, HeldMove DEF Moves
  <1>11. ASSUME Waiting(m)' + Cardinality(Held(m)') + One(m \in hist'.acked) = hist'.ingested[m]
         PROVE  Custody(m)'
    BY <1>11 DEF Custody
  <1>12. UNCHANGED streamQ => Waiting(m)' = Waiting(m)
    BY DEF Waiting
  <1>13. ASSUME worker[w].pc # "idle", Moves(w, NoJob)
         PROVE  Cardinality(Held(m)') = Cardinality(Held(m)) - IF job.msg = m THEN 1 ELSE 0
    <2>1. One(Has(NoJob.job, m)) = 0
      BY DEF One, Has, NoJob
    <2>2. One(Has(job, m)) = IF job.msg = m THEN 1 ELSE 0
      BY <1>3, <1>13 DEF One, Has
    <2>3. Cardinality(Held(m)') = Cardinality(Held(m)) + One(Has(NoJob.job, m)) - One(Has(job, m))
      BY <1>10, <1>13
    <2> QED
      BY <1>7, <2>1, <2>2, <2>3
  <1>14. CASE Takes(w)
    <2>1. PICK x \in Payload : /\ streamQ' = Take(streamQ, x)
                               /\ \E new : Moves(w, new) /\ new.job = x
      BY <1>14 DEF Takes
    <2>2. PICK new : Moves(w, new) /\ new.job = x
      BY <2>1
    <2>3. Waiting(m)' = IF x.msg = m THEN Waiting(m) - 1 ELSE Waiting(m)
      BY <2>1, WaitingStep
    <2>4. Has(x, m) <=> x.msg = m
      BY PipelineConstants DEF Has
    <2>5. ~Has(job, m) /\ UNCHANGED hist
      BY <1>3, <1>14 DEF Takes, Has
    <2>6. One(Has(new.job, m)) = (IF x.msg = m THEN 1 ELSE 0) /\ One(Has(job, m)) = 0
      BY <2>2, <2>4, <2>5 DEF One
    <2>7. Cardinality(Held(m)') = Cardinality(Held(m)) + IF x.msg = m THEN 1 ELSE 0
      BY <1>7, <1>10, <2>2, <2>6
    <2>8. Waiting(m)' + Cardinality(Held(m)') = Waiting(m) + Cardinality(Held(m))
      BY <1>7, <2>3, <2>7
    <2> QED
      BY <1>7, <1>11, <2>5, <2>8
  <1>15. CASE GoesOn(w)
    <2>1. PICK new : Moves(w, new) /\ new.job = job
      BY <1>15 DEF GoesOn
    <2>2. /\ Waiting(m)' = Waiting(m)
          /\ hist'.acked = hist.acked /\ hist'.requeued = hist.requeued
      BY <1>12, <1>15 DEF GoesOn
    <2>3. One(Has(job, m)) \in {0, 1}
      BY DEF One
    <2>4. Cardinality(Held(m)') = Cardinality(Held(m))
      BY <1>7, <1>10, <2>1, <2>3
    <2> QED
      BY <1>1, <1>7, <1>11, <2>2, <2>4
  <1>16. CASE Returns(w)
    <2>1. /\ worker[w].pc # "idle" /\ Moves(w, NoJob)
          /\ streamQ' = Put(streamQ, job)
          /\ hist' = [hist EXCEPT !.requeued[job.msg] = @ + 1]
      BY <1>16 DEF Returns
    <2>2. /\ hist'.acked = hist.acked
          /\ hist'.requeued = [hist.requeued EXCEPT ![job.msg] = @ + 1]
      BY <1>2, <2>1 DEF History
    <2>3. Waiting(m)' = IF job.msg = m THEN Waiting(m) + 1 ELSE Waiting(m)
      BY <1>3, <2>1, WaitingStep
    <2>4. Cardinality(Held(m)') = Cardinality(Held(m)) - IF job.msg = m THEN 1 ELSE 0
      BY <1>13, <2>1
    <2>6. Waiting(m)' + Cardinality(Held(m)') = Waiting(m) + Cardinality(Held(m))
      BY <1>7, <2>3, <2>4
    <2>7. hist'.ingested[m] = 0 => hist'.requeued[m] = 0
      BY <1>1, <1>2, <1>7, <1>9, <2>1, <2>2 DEF History
    <2> QED
      BY <1>1, <1>7, <1>11, <2>2, <2>6, <2>7
  <1>17. CASE Ends(w)
    <2>1. /\ worker[w].pc # "idle" /\ Moves(w, NoJob) /\ Waiting(m)' = Waiting(m)
          /\ hist'.acked = hist.acked \cup {job.msg} /\ hist'.requeued = hist.requeued
      BY <1>12, <1>17 DEF Ends
    <2>2. Cardinality(Held(m)') = Cardinality(Held(m)) - IF job.msg = m THEN 1 ELSE 0
      BY <1>13, <2>1
    <2>3. One(m \in hist'.acked) = One(m \in hist.acked) + IF job.msg = m THEN 1 ELSE 0
      BY <1>9, <2>1 DEF One
    <2>5. Waiting(m)' + Cardinality(Held(m)') + One(m \in hist'.acked) =
            Waiting(m) + Cardinality(Held(m)) + One(m \in hist.acked)
      BY <1>7, <1>8, <2>1, <2>2, <2>3
    <2> QED
      BY <1>1, <1>7, <1>11, <2>1, <2>5
  <1> QED
    BY <1>1, <1>14, <1>15, <1>16, <1>17

\* The parts of the state that Custody does not depend on may change.
LEMMA CareFrame ==
  ASSUME Care, UNCHANGED <<worker, streamQ>>, \A m \in Messages : Forgotten(m)',
         hist'.acked = hist.acked, hist'.ingested = hist.ingested,
         hist'.requeued = hist.requeued
  PROVE  Care'
  BY DEF Care, Custody, Waiting, Held, Has

LEMMA CareReceive ==
  ASSUME Types, Gate, Care, NEW q \in Requests,
         Receive(q) \/ (\E m \in Messages : Deliver(q, m))
  PROVE  Care'
  <1>1. /\ Stays \/ Admits \/ Publishes \/ Stops
        /\ UNCHANGED worker
        /\ \A m \in Messages : Forgotten(m)'
    BY ReceiverSteps
  <1>2. hist \in History
    BY DEF Types
  <1>3. CASE Stays \/ Admits
    BY <1>1, <1>3, CareFrame DEF Stays, Admits
  <1>4. CASE Stops
    <2>1. /\ hist'.acked = hist.acked /\ hist'.ingested = hist.ingested
          /\ hist'.requeued = hist.requeued /\ UNCHANGED streamQ
      BY <1>2, <1>4 DEF Stops, History
    <2> QED
      BY <1>1, <2>1, CareFrame
  <1>5. CASE Publishes
    <2>1. PICK x \in Payload :
            /\ streamQ' = Put(streamQ, x)
            /\ hist' = [hist EXCEPT !.ingested[x.msg] = @ + 1, !.owed[x.msg] = Destinations(x)]
      BY <1>5 DEF Publishes
    <2>2. x.msg \in Messages
      BY DEF Payload
    <2>3. /\ hist'.acked = hist.acked /\ hist'.requeued = hist.requeued
          /\ hist'.ingested = [hist.ingested EXCEPT ![x.msg] = @ + 1]
      BY <1>2, <2>1 DEF History
    <2>4. ASSUME NEW m \in Messages
          PROVE  Custody(m)' /\ (hist'.ingested[m] = 0 => hist'.requeued[m] = 0)
      <3>1. Waiting(m)' = IF x.msg = m THEN Waiting(m) + 1 ELSE Waiting(m)
        BY <2>1, WaitingStep
      <3>2. hist'.ingested[m] = IF x.msg = m THEN hist.ingested[m] + 1 ELSE hist.ingested[m]
        BY <1>2, <2>2, <2>3 DEF History
      <3>3. Held(m)' = Held(m)
        BY <1>1 DEF Held, Has
      <3>4. /\ Waiting(m) + Cardinality(Held(m)) + One(m \in hist.acked) = hist.ingested[m]
            /\ hist.ingested[m] = 0 => hist.requeued[m] = 0
            /\ Waiting(m) \in Nat /\ Cardinality(Held(m)) \in Nat
            /\ hist.ingested[m] \in Nat
        BY CareTypes DEF Care, Custody
      <3>5. One(m \in hist.acked) \in {0, 1} /\ One(m \in hist'.acked) = One(m \in hist.acked)
        BY <2>3 DEF One
      <3>6. Waiting(m)' + Cardinality(Held(m)') + One(m \in hist'.acked) = hist'.ingested[m]
        BY <3>1, <3>2, <3>3, <3>4, <3>5
      <3>7. hist'.ingested[m] = 0 => hist'.requeued[m] = 0
        BY <2>3, <3>2, <3>4
      <3> QED
        BY <3>6, <3>7 DEF Custody
    <2> QED
      BY <1>1, <2>4 DEF Care
  <1> QED
    BY <1>1, <1>3, <1>4, <1>5

\* A restart hands back what the workers held.
LEMMA CareCrash ==
  ASSUME Types, Gate, Care, WorkerCrash
  PROVE  Care' /\ \A m \in Messages : hist'.requeued[m] = hist.requeued[m] + Cardinality(Held(m))
  <1>0. WorkerTypes /\ hist \in History
    BY TypesSplit DEF Types
  <1>1. /\ hist'.acked = hist.acked /\ hist'.ingested = hist.ingested
        /\ hist'.dropped = hist.dropped
        /\ hist'.requeued = [m \in Messages |-> hist.requeued[m] + Cardinality(Held(m))]
    BY <1>0 DEF WorkerCrash, History, Held, Has
  <1>2. \A w \in Workers : worker'[w].pc = "idle" /\ worker'[w].job = Null
    BY DEF WorkerCrash, NoJob
  <1>3. ASSUME NEW m \in Messages
        PROVE  Custody(m)' /\ (hist'.ingested[m] = 0 => hist'.requeued[m] = 0)
    <2> DEFINE known == [msg |-> m, game |-> TRUE]
               unknown == [msg |-> m, game |-> FALSE]
               K == {w \in Workers : worker[w].job = known}
               U == {w \in Workers : worker[w].job = unknown}
    <2>1. known \in Payload /\ unknown \in Payload /\ known # unknown
          /\ \A x \in Payload : x.msg = m => x = known \/ x = unknown
      BY DEF Payload
    <2>2. Held(m) = K \cup U /\ K \cap U = {}
      <3>1. \A w \in Workers : worker[w].job # Null => worker[w].job \in Payload
        BY <1>0 DEF WorkerTypes, Care
      <3>2. known # Null /\ unknown # Null /\ known.msg = m /\ unknown.msg = m
        BY <2>1, PipelineConstants
      <3>3. \A w \in Workers :
              Has(worker[w].job, m) <=> worker[w].job = known \/ worker[w].job = unknown
        BY <2>1, <3>1, <3>2 DEF Has
      <3> HIDE DEF known, unknown
      <3>4. Held(m) = K \cup U
        BY <3>3 DEF Held
      <3>5. K \cap U = {}
        BY <2>1
      <3> QED
        BY <3>4, <3>5
    <2>3. streamQ'[known] = streamQ[known] + Cardinality(K)
          /\ streamQ'[unknown] = streamQ[unknown] + Cardinality(U)
      BY <2>1 DEF WorkerCrash
    <2>4. Waiting(m) = streamQ[known] + streamQ[unknown]
          /\ Waiting(m)' = streamQ'[known] + streamQ'[unknown]
      BY DEF Waiting
    <2>5. streamQ[known] \in Nat /\ streamQ[unknown] \in Nat
      BY <1>0, <2>1 DEF WorkerTypes
    <2>6. /\ IsFiniteSet(K) /\ IsFiniteSet(U)
          /\ Cardinality(K) \in Nat /\ Cardinality(U) \in Nat
      BY PipelineConstants, FS_Subset, FS_CardinalityType
    <2> HIDE DEF K, U, known, unknown
    <2>7. Cardinality(Held(m)) = Cardinality(K) + Cardinality(U)
      <3>1. Cardinality(K \cup U) = Cardinality(K) + Cardinality(U) - Cardinality(K \cap U)
        BY <2>6, FS_Union
      <3>2. Cardinality(K \cap U) = 0
        BY <2>2, FS_EmptySet
      <3> QED
        BY <2>2, <2>6, <3>1, <3>2
    <2>8. Held(m)' = {}
      BY <1>2 DEF Held, Has
    <2>9. Cardinality(Held(m)') = 0
      BY <2>8, FS_EmptySet
    <2>10. /\ Waiting(m) + Cardinality(Held(m)) + One(m \in hist.acked) = hist.ingested[m]
           /\ hist.ingested[m] = 0 => hist.requeued[m] = 0
           /\ hist.requeued[m] \in Nat
      BY CareTypes DEF Care, Custody
    <2>11. One(m \in hist.acked) \in {0, 1} /\ One(m \in hist'.acked) = One(m \in hist.acked)
      BY <1>1 DEF One
    <2>12. Waiting(m)' + Cardinality(Held(m)') + One(m \in hist'.acked) = hist'.ingested[m]
      BY <1>1, <2>3, <2>4, <2>5, <2>6, <2>7, <2>9, <2>10, <2>11
    <2>13. hist.ingested[m] = 0 => Cardinality(Held(m)) = 0
      <3>1. Waiting(m) \in Nat /\ Cardinality(Held(m)) \in Nat
        BY CareTypes
      <3> QED
        BY <2>10, <2>11, <3>1
    <2>14. hist'.requeued[m] = hist.requeued[m] + Cardinality(Held(m))
      BY <1>1
    <2>15. hist'.ingested[m] = hist.ingested[m]
      BY <1>1
    <2>16. hist'.ingested[m] = 0 => hist'.requeued[m] = 0
      BY <2>10, <2>13, <2>14, <2>15
    <2>17. Custody(m)'
      BY <2>12 DEF Custody
    <2> QED
      BY <2>16, <2>17
  <1>4. \A m \in Messages : Forgotten(m)'
    <2>1. UNCHANGED receiver
      BY DEF WorkerCrash
    <2> QED
      BY <1>1, <2>1 DEF Care, Forgotten, receiver
  <1> QED
    BY <1>1, <1>2, <1>3, <1>4 DEF Care

LEMMA CareStep ==
  ASSUME Types, Gate, Care, [Next]_vars
  PROVE  Care'
  <1>0. ReceiverTypes /\ hist \in History
    BY TypesSplit DEF Types
  <1>1. ASSUME UNCHANGED <<receiver, worker, streamQ>>, hist'.acked = hist.acked,
               hist'.ingested = hist.ingested, hist'.dropped = hist.dropped,
               hist'.requeued = hist.requeued
        PROVE  Care'
    BY <1>1, CareFrame DEF Care, Forgotten, receiver
  <1>2. CASE UNCHANGED vars
    BY <1>1, <1>2 DEF vars, receiver
  <1>3. CASE Send
    BY <1>1, <1>3 DEF Send, SendNotification, SuspendNotification
  <1>4. ASSUME NEW n \in Notes, NEW b \in BOOLEAN, UpdateNotification(n, b)
        PROVE  Care'
    <2>1. /\ hist'.acked = hist.acked /\ hist'.ingested = hist.ingested
          /\ hist'.dropped = hist.dropped /\ hist'.requeued = hist.requeued
      BY <1>0, <1>4 DEF UpdateNotification, History
    <2> QED
      BY <1>1, <1>4, <2>1 DEF UpdateNotification
  <1>5. ASSUME NEW k \in Messages, ExpireKey(k)
        PROVE  Care'
    <2>1. \A m \in Messages : Forgotten(m)'
      BY <1>5 DEF ExpireKey, Care, Forgotten
    <2> QED
      BY <1>5, <2>1, CareFrame DEF ExpireKey, delivery
  <1>6. CASE ReceiverCrash
    <2>1. Stops /\ \A m \in Messages : Forgotten(m)'
      BY <1>6, StopSteps DEF ReceiverCrash
    <2>2. /\ hist'.acked = hist.acked /\ hist'.ingested = hist.ingested
          /\ hist'.requeued = hist.requeued
      BY <1>0, <2>1 DEF Stops, History
    <2> QED
      BY <1>6, <2>1, <2>2, CareFrame DEF ReceiverCrash, delivery
  <1> QED
    BY <1>2, <1>3, <1>4, <1>5, <1>6, CareReceive, CareWork, CareCrash DEF Next

-----------------------------------------------------------------------------
(* Where an event stands                                                    *)

Place(m) ==
  IF hist.ingested[m] = 1 THEN (IF m \in hist.acked THEN "done" ELSE "waiting")
  ELSE IF Taken(m) THEN "taken"
  ELSE IF m \in hist.dropped THEN "lost"
  ELSE "new"

\* What Stage reads off queue and handlers, the record says as well.
LEMMA StageIsPlace ==
  ASSUME Types, Gate, Care, NEW m \in Messages
  PROVE  Stage(m) = Place(m)
  <1>0. WorkerTypes /\ hist \in History
    BY TypesSplit DEF Types
  <1> DEFINE known == [msg |-> m, game |-> TRUE]
             unknown == [msg |-> m, game |-> FALSE]
  <1>1. known \in Payload /\ unknown \in Payload /\ known.msg = m /\ unknown.msg = m
        /\ \A x \in Payload : x.msg = m => x = known \/ x = unknown
    BY DEF Payload
  <1>2. Waiting(m) = streamQ[known] + streamQ[unknown]
    BY DEF Waiting
  <1> HIDE DEF known, unknown
  <1>3. \A w \in Workers : worker[w].job # Null => worker[w].job \in Payload
    BY <1>0 DEF WorkerTypes, Care
  <1>4. InCare(m) <=> Waiting(m) > 0 \/ Held(m) # {}
    <2>1. streamQ[known] \in Nat /\ streamQ[unknown] \in Nat
      BY <1>0, <1>1 DEF WorkerTypes
    <2>2. (\E x \in Payload : x.msg = m /\ streamQ[x] > 0) <=> Waiting(m) > 0
      BY <1>1, <1>2, <2>1
    <2>3. (\E x \in Payload : x.msg = m /\ \E w \in Workers : worker[w].job = x) <=> Held(m) # {}
      BY <1>3, PipelineConstants DEF Held, Has
    <2> QED
      BY <2>2, <2>3 DEF InCare
  <1>5. PastDedup(m) # {} <=> Taken(m)
    BY DEF PastDedup, Taken, Past
  <1>6. /\ hist.ingested[m] \in {0, 1}
        /\ InCare(m) => hist.ingested[m] = 1 /\ m \notin hist.acked
        /\ ~InCare(m) => (m \in hist.acked <=> hist.ingested[m] = 1)
    <2>1. Waiting(m) \in Nat
      BY CareTypes
    <2> QED
      BY <1>4, <2>1, HeldIsOpen
  <1>7. hist.ingested[m] = 1 => ~Taken(m)
    BY DEF Gate, Once, Taken
  <1> QED
    BY <1>5, <1>6, <1>7 DEF Stage, Place

-----------------------------------------------------------------------------
(* Every step is one of Delivery                                            *)

Everything == Types /\ Gate /\ Care /\ Route /\ Paid

LEMMA Placed == Everything => \A m \in Messages : Stage(m) = Place(m)
  BY StageIsPlace DEF Everything

LEMMA Stages ==
  ASSUME Everything, Everything'
  PROVE  \A m \in Messages : Stage(m) = Place(m) /\ Stage(m)' = Place(m)'
  <1>1. (Everything => \A m \in Messages : Stage(m) = Place(m))'
    BY Placed, PTL
  <1> QED
    BY Placed, <1>1

LEMMA Nothing ==
  ASSUME \A m \in Messages : Stage(m)' = Stage(m), SameAnswers,
         hist'.owed = hist.owed, hist'.attempts = hist.attempts,
         hist'.ingested = hist.ingested, hist'.requeued = hist.requeued
  PROVE  UNCHANGED Promise!vars
  BY DEF Promise!vars, SameAnswers

LEMMA WorkDelivers ==
  ASSUME Everything, Everything', NEW w \in Workers, Consume(w) \/ Work(w)
  PROVE  [Promise!Next]_(Promise!vars)
  <1> DEFINE job == worker[w].job
  <1>1. /\ Takes(w) \/ GoesOn(w) \/ Returns(w) \/ Ends(w)
        /\ UNCHANGED receiver
        /\ hist'.ingested = hist.ingested /\ hist'.dropped = hist.dropped
    BY HandlerSteps DEF Everything
  <1>2. hist \in History /\ WorkerTypes
    BY TypesSplit DEF Types, Everything
  <1>3. SameAnswers /\ SameTaken(Messages)
    BY <1>1 DEF receiver, SameAnswers, SameTaken, Taken, Past
  <1>4. \A m \in Messages : Stage(m) = Place(m) /\ Stage(m)' = Place(m)'
    BY Stages
  <1>5. hist'.acked = hist.acked => \A m \in Messages : Stage(m)' = Stage(m)
    BY <1>1, <1>3, <1>4 DEF Place, SameTaken
  \* The event a handler holds waits.
  <1>6. ASSUME worker[w].pc # "idle"
        PROVE  /\ job.msg \in Messages /\ hist.ingested[job.msg] = 1
               /\ Stage(job.msg) = "waiting"
    <2>1. job \in Payload /\ job.msg \in Messages
      BY <1>2, <1>6 DEF WorkerTypes, Payload
    <2>2. w \in Held(job.msg)
      BY <2>1, PipelineConstants DEF Held, Has
    <2>3. hist.ingested[job.msg] = 1 /\ job.msg \notin hist.acked
      BY <2>1, <2>2, HeldIsOpen DEF Everything
    <2> QED
      BY <1>4, <2>1, <2>3 DEF Place
  <1>7. CASE Takes(w)
    <2>1. UNCHANGED hist
      BY <1>7 DEF Takes
    <2> QED
      BY <1>3, <1>5, <2>1, Nothing
  <1>8. CASE GoesOn(w)
    <2>1. /\ worker[w].pc # "idle"
          /\ hist'.acked = hist.acked /\ hist'.requeued = hist.requeued
          /\ hist'.owed = hist.owed
      BY <1>8 DEF GoesOn
    <2>2. CASE hist'.attempts = hist.attempts
      BY <1>1, <1>3, <1>5, <2>1, <2>2, Nothing
    <2>3. ASSUME NEW N \in SUBSET Notes, hist'.attempts = Attempted(N, job.msg),
                 \A n \in N : Yet(w, job.msg, n)
          PROVE  Promise!Next
      <3>1. PICK m \in Messages : m = job.msg
        BY <1>6, <2>1
      <3>2. \A n \in N : hist.attempts[<<m, n>>] < hist.ingested[m] + hist.requeued[m]
        <4> SUFFICES ASSUME NEW n \in N
                     PROVE  hist.attempts[<<m, n>>] < hist.ingested[m] + hist.requeued[m]
          OBVIOUS
        <4>1. n \in Notes /\ Budget(m, n)
          BY DEF Everything, Paid
        <4>2. /\ hist.attempts[<<m, n>>] \in Nat /\ hist.ingested[m] \in Nat
              /\ hist.requeued[m] \in Nat /\ Waiting(m) \in Nat
          BY <4>1, Counts DEF Everything
        <4>3. {} \in SUBSET Workers /\ Pending(m, n) \in SUBSET Workers /\ w \in Pending(m, n)
          BY <2>3, <3>1 DEF Pending
        <4>4. Cardinality(Pending(m, n)) \in Nat /\ 0 <= Cardinality(Pending(m, n)) - 1
          BY <4>3, SubsetSize, FS_EmptySet
        <4> QED
          BY <4>1, <4>2, <4>4 DEF Budget
      <3>3. Promise!Attempt(m, N)
        <4>1. Stage(m) = "waiting"
          BY <1>6, <2>1, <3>1
        <4>2. hist'.attempts = [x \in Messages \X Notes |->
                 hist.attempts[x] + IF x[1] = m /\ x[2] \in N THEN 1 ELSE 0]
          BY <2>3, <3>1 DEF Attempted
        <4>3. \A k \in Messages : Stage(k)' = Stage(k)
          BY <1>5, <2>1
        <4> QED
          BY <1>1, <1>3, <2>1, <3>2, <4>1, <4>2, <4>3 DEF Promise!Attempt, SameAnswers
      <3> QED
        BY <3>3 DEF Promise!Next
    <2> QED
      BY <1>8, <2>2, <2>3 DEF GoesOn
  <1>9. CASE Returns(w)
    <2>1. worker[w].pc # "idle" /\ hist' = [hist EXCEPT !.requeued[job.msg] = @ + 1]
      BY <1>9 DEF Returns
    <2>2. /\ hist'.acked = hist.acked /\ hist'.owed = hist.owed
          /\ hist'.attempts = hist.attempts
          /\ hist'.requeued = [hist.requeued EXCEPT ![job.msg] = @ + 1]
      BY <1>2, <2>1 DEF History
    <2>3. PICK m \in Messages : m = job.msg
      BY <1>6, <2>1
    <2>4. \A k \in Messages : hist'.requeued[k] = IF k = m THEN hist.requeued[k] + 1 ELSE hist.requeued[k]
      BY <1>2, <2>2, <2>3 DEF History
    <2>5. Stage(m) = "waiting" /\ \A k \in Messages : Stage(k)' = Stage(k)
      BY <1>5, <1>6, <2>1, <2>2, <2>3
    <2>6. \A k \in Messages : hist.ingested[k] \in Nat /\ hist.requeued[k] \in Nat
      BY <1>2 DEF History
    <2>7. \A k \in Messages : hist'.ingested[k] + hist'.requeued[k] =
            IF k \in {m} THEN hist.ingested[k] + hist.requeued[k] + 1
            ELSE hist.ingested[k] + hist.requeued[k]
      BY <1>1, <2>4, <2>6
    <2>8. Promise!Repeat({m})
      BY <1>3, <2>2, <2>5, <2>7 DEF Promise!Repeat, SameAnswers
    <2>9. {m} \in SUBSET Messages
      OBVIOUS
    <2> QED
      BY <2>8, <2>9 DEF Promise!Next
  <1>10. CASE Ends(w)
    <2>1. /\ worker[w].pc # "idle"
          /\ hist'.acked = hist.acked \cup {job.msg}
          /\ hist'.requeued = hist.requeued /\ hist'.attempts = hist.attempts
          /\ \A m \in Messages : hist'.owed[m] \subseteq hist.owed[m]
      BY <1>10 DEF Ends
    <2>2. PICK m \in Messages : m = job.msg
      BY <1>6, <2>1
    <2>3. Stage(m) = "waiting" /\ hist.ingested[m] = 1
      BY <1>6, <2>1, <2>2
    <2>4. Stage(m)' = "done"
      BY <1>1, <1>4, <2>1, <2>2, <2>3 DEF Place
    <2>5. \A k \in Messages : k # m => Stage(k)' = Stage(k)
      BY <1>1, <1>3, <1>4, <2>1, <2>2 DEF Place, SameTaken
    <2>6. NobodySkipped'
      BY DEF Everything, Route
    <2>7. \A n \in hist'.owed[m] : hist.attempts[<<m, n>>] > 0
      BY <2>1, <2>2, <2>6 DEF NobodySkipped
    <2>8. Promise!Become(m, "waiting", "done")
      BY <2>3, <2>4, <2>5 DEF Promise!Become
    <2>9. Promise!OwedLess
      BY <2>1 DEF Promise!OwedLess
    <2>10. Promise!Finish(m)
      BY <1>1, <1>3, <2>1, <2>7, <2>8, <2>9 DEF Promise!Finish, SameAnswers
    <2> QED
      BY <2>10 DEF Promise!Next
  <1> QED
    BY <1>1, <1>7, <1>8, <1>9, <1>10

LEMMA StopDelivers ==
  ASSUME Everything, Everything', Stops
  PROVE  Promise!Next
  <1>1. hist \in History
    BY DEF Types, Everything
  <1>2. /\ hist'.dropped = hist.dropped \cup {m \in Messages : Taken(m)}
        /\ hist'.acked = hist.acked /\ hist'.ingested = hist.ingested
        /\ hist'.requeued = hist.requeued /\ hist'.attempts = hist.attempts
        /\ hist'.owed = hist.owed
    BY <1>1 DEF Stops, History
  <1>3. \A m \in Messages :
          Stage(m)' = IF Stage(m) = "taken" THEN "lost" ELSE Stage(m)
    <2> SUFFICES ASSUME NEW m \in Messages
                 PROVE  Stage(m)' = IF Stage(m) = "taken" THEN "lost" ELSE Stage(m)
      OBVIOUS
    <2>1. Stage(m) = Place(m) /\ Stage(m)' = Place(m)'
      BY Stages
    <2>2. ~Taken(m)'
      BY DEF Stops
    <2> QED
      BY <1>2, <2>1, <2>2 DEF Place
  <1>4. Promise!Lose
    BY <1>2, <1>3 DEF Promise!Lose, Stops, SameAnswers
  <1> QED
    BY <1>4 DEF Promise!Next

LEMMA ReceiverDelivers ==
  ASSUME Everything, Everything', NEW q \in Requests,
         Receive(q) \/ (\E m \in Messages : Deliver(q, m))
  PROVE  [Promise!Next]_(Promise!vars)
  <1>1. Stays \/ Admits \/ Publishes \/ Stops
    BY ReceiverSteps DEF Everything
  <1>2. hist \in History
    BY DEF Types, Everything
  <1>3. \A m \in Messages : Stage(m) = Place(m) /\ Stage(m)' = Place(m)'
    BY Stages
  <1>4. CASE Stays
    <2>1. UNCHANGED hist /\ \A m \in Messages : Stage(m)' = Stage(m)
      BY <1>3, <1>4 DEF Stays, Place, SameTaken
    <2>2. CASE SameAnswers
      BY <2>1, <2>2, Nothing
    <2>3. ASSUME NEW k \in Messages, k \in marked \/ Taken(k),
                 \A m \in Messages : twitch'[m].answered <=> (twitch[m].answered \/ m = k)
          PROVE  Promise!Next
      <3>1. Accounted(k) /\ hist.ingested[k] \in {0, 1}
        BY HeldIsOpen DEF Everything, Gate
      <3>2. hist.ingested[k] = 1 \/ Taken(k) \/ k \in hist.dropped
        BY <2>3, <3>1 DEF Accounted, Taken
      <3>3. Stage(k) # "new"
        BY <1>3, <3>2 DEF Place
      <3>4. {m \in Messages : twitch[m].answered}' = {m \in Messages : twitch[m].answered} \cup {k}
        BY <2>3
      <3>5. Promise!Answer(k)
        BY <2>1, <3>3, <3>4 DEF Promise!Answer
      <3> QED
        BY <3>5 DEF Promise!Next
    <2> QED
      BY <1>4, <2>2, <2>3 DEF Stays
  <1>5. CASE Admits
    <2>1. PICK k \in Messages : /\ hist.ingested[k] = 0 /\ k \notin hist.dropped
                                /\ ~Taken(k) /\ Taken(k)'
                                /\ SameTaken(Messages \ {k})
      BY <1>5 DEF Admits
    <2>2. UNCHANGED hist /\ SameAnswers
      BY <1>5 DEF Admits
    <2>3. Stage(k) = "new" /\ Stage(k)' = "taken"
      BY <1>3, <2>1, <2>2 DEF Place
    <2>4. \A m \in Messages : m # k => Stage(m)' = Stage(m)
      BY <1>3, <2>1, <2>2 DEF Place, SameTaken
    <2>5. Promise!Become(k, "new", "taken")
      BY <2>3, <2>4 DEF Promise!Become
    <2>6. Promise!Accept(k)
      BY <2>2, <2>5 DEF Promise!Accept, SameAnswers
    <2> QED
      BY <2>6 DEF Promise!Next
  <1>6. CASE Publishes
    <2>1. PICK x \in Payload :
            /\ hist' = [hist EXCEPT !.ingested[x.msg] = @ + 1, !.owed[x.msg] = Destinations(x)]
            /\ Taken(x.msg) /\ ~Taken(x.msg)'
            /\ SameTaken(Messages \ {x.msg})
      BY <1>6 DEF Publishes
    <2>2. PICK k \in Messages : k = x.msg
      BY DEF Payload
    <2>3. Taken(k) /\ ~Taken(k)' /\ SameTaken(Messages \ {k})
      BY <2>1, <2>2
    <2>4. /\ hist'.acked = hist.acked /\ hist'.requeued = hist.requeued
          /\ hist'.attempts = hist.attempts /\ hist'.dropped = hist.dropped
          /\ hist'.ingested = [hist.ingested EXCEPT ![k] = @ + 1]
          /\ hist'.owed = [hist.owed EXCEPT ![k] = Destinations(x)]
      BY <1>2, <2>1, <2>2 DEF History
    <2>5. hist.ingested[k] = 0 /\ hist.requeued[k] = 0 /\ k \notin hist.acked
      <3>1. hist.ingested[k] = 0
        BY <2>3 DEF Everything, Gate, Once, Taken
      <3>2. hist.requeued[k] = 0
        BY <3>1 DEF Everything, Care
      <3>3. k \notin hist.acked
        BY <3>1, HeldIsOpen, CareTypes DEF Everything
      <3> QED
        BY <3>1, <3>2, <3>3
    <2>6. hist'.ingested[k] = 1 /\ \A m \in Messages : m # k => hist'.ingested[m] = hist.ingested[m]
      BY <1>2, <2>4, <2>5 DEF History
    <2>7. Stage(k) = "taken" /\ Stage(k)' = "waiting"
      BY <1>3, <2>3, <2>4, <2>5, <2>6 DEF Place
    <2>8. \A m \in Messages : m # k => Stage(m)' = Stage(m)
      BY <1>3, <2>3, <2>4, <2>6 DEF Place, SameTaken
    <2>9. Promise!Become(k, "taken", "waiting")
      BY <2>7, <2>8 DEF Promise!Become
    <2>10. \E N \in SUBSET Notes : hist'.owed = [hist.owed EXCEPT ![k] = N]
      BY <2>4 DEF Destinations, Listening
    <2>11. \A m \in Messages : hist'.ingested[m] + hist'.requeued[m] =
             IF m = k THEN 1 ELSE hist.ingested[m] + hist.requeued[m]
      BY <2>4, <2>5, <2>6
    <2>12. Promise!Enqueue(k)
      BY <1>6, <2>4, <2>9, <2>10, <2>11 DEF Promise!Enqueue, Publishes, SameAnswers
    <2> QED
      BY <2>12 DEF Promise!Next
  <1> QED
    BY <1>1, <1>4, <1>5, <1>6, StopDelivers

LEMMA DeliversStep ==
  ASSUME Everything, Everything', [Next]_vars
  PROVE  [Promise!Next]_(Promise!vars)
  <1>0. hist \in History
    BY DEF Types, Everything
  <1>1. \A m \in Messages : Stage(m) = Place(m) /\ Stage(m)' = Place(m)'
    BY Stages
  <1>2. ASSUME UNCHANGED request, hist'.ingested = hist.ingested, hist'.acked = hist.acked,
               hist'.dropped = hist.dropped
        PROVE  \A m \in Messages : Stage(m)' = Stage(m)
    BY <1>1, <1>2 DEF Place, Taken, Past
  <1>3. CASE UNCHANGED vars \/ Send \/ \E m \in Messages : ExpireKey(m)
    <2>1. UNCHANGED <<twitch, request, hist>>
      BY <1>3 DEF vars, Send, SendNotification, ExpireKey, receiver
    <2>2. (\A m \in Messages : Stage(m)' = Stage(m)) /\ SameAnswers
      BY <1>2, <2>1 DEF SameAnswers
    <2>3. UNCHANGED Promise!vars
      BY <2>1, <2>2, Nothing
    <2> QED
      BY <2>3
  <1>4. ASSUME NEW n \in Notes, NEW b \in BOOLEAN, UpdateNotification(n, b)
        PROVE  Promise!Next
    <2>1. /\ hist'.ingested = hist.ingested /\ hist'.acked = hist.acked
          /\ hist'.dropped = hist.dropped /\ hist'.requeued = hist.requeued
          /\ hist'.attempts = hist.attempts
          /\ hist'.owed = [m \in Messages |-> IF b THEN hist.owed[m] \ {n} ELSE hist.owed[m]]
          /\ UNCHANGED <<twitch, request>>
      BY <1>0, <1>4 DEF UpdateNotification, History, receiver
    <2>2. \A m \in Messages : Stage(m)' = Stage(m)
      BY <1>2, <2>1
    <2>3. Promise!OwedLess
      BY <2>1 DEF Promise!OwedLess
    <2>4. Promise!Release
      BY <2>1, <2>2, <2>3 DEF Promise!Release
    <2> QED
      BY <2>4 DEF Promise!Next
  <1>5. CASE ReceiverCrash
    <2>1. Stops
      BY <1>5, StopSteps DEF ReceiverCrash, Everything
    <2> QED
      BY <2>1, StopDelivers
  <1>6. CASE WorkerCrash
    <2> DEFINE M == {m \in Messages : Held(m) # {}}
    <2>1. \A m \in Messages : hist'.requeued[m] = hist.requeued[m] + Cardinality(Held(m))
      BY <1>6, CareCrash DEF Everything
    <2>2. /\ hist'.ingested = hist.ingested /\ hist'.acked = hist.acked
          /\ hist'.dropped = hist.dropped /\ hist'.attempts = hist.attempts
          /\ hist'.owed = hist.owed
          /\ UNCHANGED <<twitch, request>>
      BY <1>0, <1>6 DEF WorkerCrash, History, receiver
    <2>3. \A m \in Messages : Stage(m)' = Stage(m)
      BY <1>2, <2>2
    <2>4. \A m \in M : Stage(m) = "waiting"
      BY <1>1, HeldIsOpen DEF Everything, Place
    <2>5. \A m \in Messages : Cardinality(Held(m)) = IF m \in M THEN 1 ELSE 0
      BY HeldIsOpen DEF Everything
    <2>6. \A m \in Messages : hist.ingested[m] \in Nat /\ hist.requeued[m] \in Nat
      BY <1>0 DEF History
    <2> HIDE DEF M
    <2>7. \A m \in Messages : hist'.ingested[m] + hist'.requeued[m] =
            IF m \in M THEN hist.ingested[m] + hist.requeued[m] + 1
            ELSE hist.ingested[m] + hist.requeued[m]
      BY <2>1, <2>2, <2>5, <2>6
    <2>8. PICK N \in SUBSET Messages : N = M
      BY DEF M
    <2>9. Promise!Repeat(N)
      BY <2>2, <2>3, <2>4, <2>7, <2>8 DEF Promise!Repeat
    <2> QED
      BY <2>9 DEF Promise!Next
  <1>7. ASSUME NEW q \in Requests, (\E m \in Messages : Deliver(q, m)) \/ Receive(q)
        PROVE  [Promise!Next]_(Promise!vars)
    BY <1>7, ReceiverDelivers
  <1>8. ASSUME NEW w \in Workers, Consume(w) \/ Work(w)
        PROVE  [Promise!Next]_(Promise!vars)
    BY <1>8, WorkDelivers
  <1>9. CASE UNCHANGED vars
    BY <1>3, <1>9
  <1>10. CASE Next
    BY <1>3, <1>4, <1>5, <1>6, <1>7, <1>8, <1>10 DEF Next
  <1> QED
    BY <1>9, <1>10

LEMMA DeliversInit ==
  ASSUME Init
  PROVE  Promise!Init
  <1>1. \A m \in Messages : Stage(m) = "new"
    <2>1. \A w \in Workers : worker[w].job = Null
      BY DEF Init, NoJob
    <2>2. \A m \in Messages : ~InCare(m)
      BY <2>1, PipelineConstants DEF Init, InCare
    <2>3. \A m \in Messages : PastDedup(m) = {}
      BY DEF Init, PastDedup, NoRequest
    <2> QED
      BY <2>2, <2>3 DEF Init, Stage
  <1> QED
    BY <1>1 DEF Init, Promise!Init

\* The receiver, the queue, the worker and their restarts keep the promise of Delivery:
\* an event is taken once, is in one place until it is done, reaches everyone who
\* listened all the while, and nobody more often than it was handed out; it is lost
\* only between the mark and the queue.
THEOREM PipelineDelivers == Spec => Delivers
  <1>1. Init => Everything
    BY TypesInit, GateInit, CareInit, RouteInit, PaidInit DEF Everything
  <1>2. Everything /\ [Next]_vars => Everything'
    BY TypesStep, GateStep, CareStep, RouteStep, PaidStep DEF Everything
  <1>3. Everything /\ Everything' /\ [Next]_vars => [Promise!Next]_(Promise!vars)
    BY DeliversStep
  <1>4. Init => Promise!Init
    BY DeliversInit
  <1> QED
    BY <1>1, <1>2, <1>3, <1>4, PTL DEF Spec, Delivers, Promise!Spec

=============================================================================
