SPECIFICATION Spec
CONSTANTS
  a1 = a1  a2 = a2
  e1 = e1  e2 = e2  e3 = e3
  k1 = k1  k2 = k2  k3 = k3
  x1 = x1  x2 = x2  x3 = x3
  b1 = b1  b2 = b2
  v1 = v1  v2 = v2
  c1 = c1  c2 = c2
  None = None
  Accounts = {a1}
  Executions = {e1, e2}
  Confirmations = {}
  Deliveries = {}
  Blocks = {b1}
  Versions = {v1}
  Ordinals = {0}
  Anchor <- SeparateMessages
  LocalBlocks = {}
  MaxMarkers = 9
  Callers = {c1, c2}
  MaxWork = 2
  MaxEpoch = 0
  MaxDoc = 0
  MaxExpired = 0
SYMMETRY Symmetry
INVARIANTS NoReplayInLaterWork
