SPECIFICATION Spec
INVARIANTS TypeOK NoOverdraft 
SYMMETRY SymmetricTasks
CHECK_DEADLOCK FALSE
CONSTANTS
  u1 = u1
  g1 = g1
  t1 = t1
  t2 = t2
  Null = Null
  Users <- OneUser
  Guilds <- OneGuild
  Tasks <- TwoTasks
  Ops = {"create", "visit", "balance", "personal", "login", "delete", "admin", "update"}
  Start = 1
  StartGuild = 1
  Price = 1
  Amounts = {0}
  MaxNotes = 2
  MaxRows = 1
  MaxEdits = 1
