CONSTANTS
  Attempt = {a1}
  MaxSlots = 1
  SquattersLeave = TRUE
  None = None
  Pass = {q1, q2}
  Unlucky = {q1}
  Pruner = {q1}
  Stuck = {s1}
  Repo = {r1, r2}
  Foreign = Foreign
  ReapMax = 1
  TerminalGrace = 1
  SeedTimeout = 1
  PruneTimeout = 1
  RunningMaxAge = 2
  Lag = 0
SPECIFICATION FairSpec
INVARIANT TypeOK
INVARIANT PrunesWhatItListed
PROPERTY CacheSpec
PROPERTY SparesAwaited
PROPERTY LeakedHelpersGo
