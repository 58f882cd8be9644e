SPECIFICATION Spec
INVARIANTS CreatedOnce AcceptedAsShown ListInStep ChannelsInStep
SYMMETRY SymmetricBot
CHECK_DEADLOCK FALSE
CONSTANTS
  k1 = k1
  c0 = c0
  c1 = c1
  p1 = p1
  p2 = p2
  g1 = g1
  g2 = g2
  h1 = h1
  h2 = h2
  Null = Null
  NoKey = NoKey
  Tokens = {k1}
  Contents = {c0, c1}
  Default = c0
  Presses = {p1, p2}
  Guilds = {g1, g2}
  Handlers = {h1, h2}
  MaxMoves = 2
  Watched = {g1}
