--------------------------- MODULE PipelineDelivery ---------------------------
(***************************************************************************)
(* The event pipeline as an implementation of Delivery.  Where an event      *)
(* stands is read off the queue, the workers and the receiver; the record of *)
(* the past tells only what is done from what was lost or never came.        *)
(***************************************************************************)
EXTENDS EventPipeline

\* The event is in stream.events or a worker holds it.
InCare(m) ==
  \E x \in Payload : x.msg = m /\ (streamQ[x] > 0 \/ \E w \in Workers : worker[w].job = x)

Stage(m) ==
  CASE InCare(m) -> "waiting"
    [] ~InCare(m) /\ PastDedup(m) # {} -> "taken"
    [] ~InCare(m) /\ PastDedup(m) = {} /\ m \in hist.acked -> "done"
    [] ~InCare(m) /\ PastDedup(m) = {} /\ m \in hist.dropped \ hist.acked -> "lost"
    [] OTHER -> "new"

Promise == INSTANCE Delivery WITH
  stage <- [m \in Messages |-> Stage(m)],
  answered <- {m \in Messages : twitch[m].answered},
  owed <- hist.owed,
  tried <- hist.attempts,
  rounds <- [m \in Messages |-> hist.ingested[m] + hist.requeued[m]]

-----------------------------------------------------------------------------
(* Properties                                                               *)

\* "Guaranteed delivery", as far as the receiver, the worker, the two queues and their
\* restarts keep it: every step of theirs is one of Delivery or changes nothing of it.
Delivers == Promise!Spec
=============================================================================
