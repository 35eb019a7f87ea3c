SPECIFICATION Spec
CONSTANTS
  w1 = w1  w2 = w2
  deep = deep  open = open
  None = None
  Workers = {w1, w2}
  Slots = {open}
  Deep = {}
  MaxAttempts = 2
  MaxClaims = 1
  MaxCrashes = 0
SYMMETRY Symmetry
INVARIANTS CommittedResultRecovered
