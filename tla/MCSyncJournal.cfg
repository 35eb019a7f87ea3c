SPECIFICATION FairSpec
CONSTANTS
  d1 = d1  d2 = d2
  None = None
  Device = {d1, d2}
  Conversation = {c1}
  Shop = {s1}
  MaxEntries = 3
  MaxBatch = 2
  MaxChanges = 2
  MaxFaults = 2
  MaxReads = 1
  MaxRevoked = 1
INVARIANTS TypeOK BeliefWasServed LatestChangeKept
PROPERTIES BeliefForward ImplementsRegister ChangesSettle
CHECK_DEADLOCK FALSE
