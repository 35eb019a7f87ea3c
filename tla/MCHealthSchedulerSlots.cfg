SPECIFICATION FairSpec
CONSTANTS
  w1 = w1  w2 = w2
  deep = deep  open = open
  None = None
  Workers = {w1, w2}
  Slots = {deep, open}
  Deep = {deep}
  MaxAttempts = 3
  MaxClaims = 2
  MaxCrashes = 1
CONSTRAINT OneSlot
INVARIANTS TypeOK OneSend SuccessIsComplete
PROPERTIES SettledStays RunsSettle DeepResultsLinked
