CONSTANTS
  Proc = {p1, p2, p3}
  Interval = 3
  CreateDelay = 1
  MaxSkew = 1
  MaxTime = 5
  None = None
SPECIFICATION FairSpec
INVARIANT TypeOK
INVARIANT StampInv
PROPERTY RateLimited
PROPERTY FreshStampKept
PROPERTY NoStampBlocks
