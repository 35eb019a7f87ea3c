SPECIFICATION FairSpec
CONSTANTS
  quota = quota  result = result  access = access
  None = None
  Deadline = {quota}
  Immediate = {result}
  Kept = {access}
  Watched = {access}
  Order <- OneOfEach
  MaxWait = 1
  Retry = 1
  Lease = 1
  MaxTroubles = 1
INVARIANTS TypeOK NothingForgotten BackoffKept
PROPERTY WorkIsServed
