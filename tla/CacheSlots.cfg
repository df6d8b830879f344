CONSTANTS
  Attempt = {a1, a2}
  MaxSlots = 3
  Faults = FALSE
  SquattersLeave = FALSE
  None = None
SPECIFICATION FairSpec
CHECK_DEADLOCK FALSE
INVARIANT OneCacheVolume
PROPERTY FailsOnlyWhenFull
PROPERTY GateOpens
