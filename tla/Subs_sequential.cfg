SPECIFICATION Spec
CONSTANTS
  st1 = st1
  online1 = online1
  offline1 = offline1
  own = own
  a1 = a1
  Null = Null
  Streamers <- OneStreamer
  Slots <- TwoSlots
  StreamerOf <- MCStreamerOf
  Online <- OneSlot
  Apps <- TwoApps
  AppStatus <- MCAppStatus
  MaxCost <- MCMaxCost
  Costs <- ZeroOrOne
  CostBound = 1
  Notes = {n1, n2}
  Paid = {n1}
  Tasks = {p1}
  Ops = {"create", "remove", "delete", "link", "personal", "unlink", "tokenCron"}
  Events = {"withdraw", "challenge"}
  MaxRows = 2
  MaxSubs = 3
INVARIANTS  LedgerSettled NoLeak OnItsApp
CHECK_DEADLOCK FALSE
