SPECIFICATION Spec
INVARIANTS NothingStuck RefreshesBounded
PROPERTIES RetrySuffices
SYMMETRY SymmetricCalls
CHECK_DEADLOCK FALSE
CONSTANTS
  Calls = {c1, c2, c3}
  Editors = {e1}
  Events = {"fetch_fails", "revoke", "crash"}
  MaxTokens = 3
  MaxBlind = 2
  Null = Null
