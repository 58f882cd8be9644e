SPECIFICATION FairSpec
CONSTANTS
  st1 = st1
  online1 = online1
  offline1 = offline1
  own = own
  a1 = a1
  Null = Null
  Streamers <- OneStreamer
  Slots <- OneSlot
  StreamerOf <- MCStreamerOf
  Online <- OneSlot
  Apps <- TwoApps
  AppStatus <- MCAppStatus
  MaxCost <- MCMaxCost
  Costs <- ZeroOrOne
  CostBound = 1
  Notes = {n1}
  Paid = {n1}
  Tasks = {p1}
  Ops = {"admin", "sync"}
  Events = {"challenge", "challenge_fails"}
  MaxRows = 1
  MaxSubs = 2
PROPERTIES CancelledIsRevoked
CHECK_DEADLOCK FALSE
