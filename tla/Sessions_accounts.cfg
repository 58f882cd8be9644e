SPECIFICATION Spec
INVARIANTS LogoutHolds CanLogInUnlessStale AsDecided
PROPERTIES EndedStaysEnded BlockHolds
SYMMETRY SymmetricAccounts
CHECK_DEADLOCK FALSE
CONSTANTS
  u1 = u1
  u2 = u2
  d1 = d1
  Users <- OneUser
  Mails = {m1}
  Accounts <- OneAccount
  MailOf <- MCMailOf
  Roles = {p1}
  Requests = {r1, r2}
  Events = {"crash"}
  AccessTTL = 1
  RefreshTTL = 3
  MaxSessions = 1
  MaxTokens = 2
  Instants = {1, 4, 8}
  Null = Null
