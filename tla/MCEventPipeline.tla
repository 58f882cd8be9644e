--------------------------- MODULE MCEventPipeline ---------------------------
(* Model values and small sets for the run of EventPipeline. *)
EXTENDS PipelineDelivery

CONSTANTS m1, d1, h1, q1, q2, w1, w2

OneMessage == {m1}
OneDiscord == {d1}
OneWebhook == {h1}
TwoRequests == {q1, q2}
TwoWorkers == {w1, w2}
FilteredDiscord == {d1}
=============================================================================
