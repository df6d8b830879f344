CONSTANTS
  Attempt = {a1, a2, a3}
  MaxSlots = 2
  Faults = TRUE
  SquattersLeave = TRUE
  None = None
SPECIFICATION Spec
SYMMETRY AttemptSymmetry
INVARIANT TypeOK
INVARIANT MountInv
INVARIANT RunnerMountsOwnCache
INVARIANT RunsOnWholeTree
PROPERTY SeedsOnlyCaches
