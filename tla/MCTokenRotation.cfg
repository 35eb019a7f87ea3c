SPECIFICATION FairSpec
CONSTANTS
  s1 = s1  s2 = s2
  t1 = t1  t2 = t2  t3 = t3  t4 = t4
  k1 = k1  k2 = k2  k3 = k3
  None = None
  Sessions = {s1, s2}
  Tokens = {t1, t2, t3, t4}
  Keys = {k1, k2, k3}
  MaxTroubles = 2
CONSTRAINT SecondIsShort
INVARIANTS TypeOK Recoverable HonestSessionKept
PROPERTIES RotationEnds
CHECK_DEADLOCK FALSE
