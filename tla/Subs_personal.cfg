SPECIFICATION Spec
CONSTANTS
  st1 = st1
  online1 = online1
  offline1 = offline1
  own = own
  a1 = a1
  Null = Null
  Streamers <- OneStreamer
  Slots <- OneSlot
  StreamerOf <- MCStreamerOf
  Online <- OneSlot
  Apps <- TwoApps
  AppStatus <- MCAppStatus
  MaxCost <- MCMaxCost
  Costs <- ZeroOrOne
  CostBound = 1
  Notes = {n1}
  Paid = {n1}
  Tasks = {p1, p2}
  Ops = {"create", "link", "unlink"}
  Events = {"register_fails", "delete_fails", "crash"}
  MaxRows = 1
  MaxSubs = 3
SYMMETRY SymmetricTasks
INVARIANTS CapacityBounded
PROPERTIES MakeBeforeBreak
CHECK_DEADLOCK FALSE
