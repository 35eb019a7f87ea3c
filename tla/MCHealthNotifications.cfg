SPECIFICATION Spec
CONSTANTS
  w1 = w1  w2 = w2
  None = None
  Workers = {w1, w2}
  Results <- MCResults
  MaxSlots = 2
  MaxAttempts = 2
  MaxClaims = 3
  MaxRuns = 4
  MaxTroubles = 2
SYMMETRY Symmetry
CONSTRAINT OneInstance
INVARIANTS TypeOK NewestDecisiveKept IncidentIsCurrent MaintenanceIsQuiet AlertResumed SeverityTold
PROPERTIES RetriesBounded SettledStays
CHECK_DEADLOCK FALSE
