SPECIFICATION MCSpec
INVARIANT AnswersAreRecent
PROPERTIES LeavesWithinReach AtomicUnlessRaced
SYMMETRY Symmetric
CHECK_DEADLOCK FALSE
CONSTANTS
  u1 = u1
  u2 = u2
  top = top
  manager = manager
  low = low
  Users = {u1, u2}
  RoleIds = {top, manager, low}
  Requests = {r1, r2}
  Permissions <- AllPermissions
  Forms <- MCForms
  Assignments <- MCAssignments
  Seed <- MCSeed
  SeedOf <- MCSeedOf
  MaxWrites = 3
  Null = Null
  Callers = {c1, c2}
  Flags = {"ADMINISTRATOR", "MANAGE_GUILD"}
  Standings <- MCStandings
  Absent = Absent
  Unlinked = Unlinked
  NoFlag = NoFlag
  GuildsTTL = 1
  AccessTTL = 2
  MaxLoad = 1
  MaxChanges = 1
