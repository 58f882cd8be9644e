SPECIFICATION FairSpec
INVARIANTS   SuspensionIsLogged IngestedOnce  NoSpuriousRepeat
  
CHECK_DEADLOCK FALSE
CONSTANTS
  m1 = m1
  d1 = d1
  h1 = h1
  q1 = q1
  q2 = q2
  w1 = w1
  w2 = w2
  Null = Null
  Messages <- OneMessage
  Discords <- OneDiscord
  Webhooks <- OneWebhook
  Filtered <- FilteredDiscord
  Requests <- TwoRequests
  Workers <- TwoWorkers
  Events = {"expire", "lose_response", "redis_fails", "broker_fails", "receiver_crash", "unmatched", "db_fails", "worker_crash", "post_fails", "update"}
  MaxSends = 3
  MaxFaults = 2
