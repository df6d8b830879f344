CONSTANTS
  g1 = g1
  g2 = g2
  p1 = p1
  p2 = p2
  x1 = x1
  x2 = x2
  c1 = c1
  c2 = c2
  None = None
  Gen = {g1, g2}
  Proc = {p1, p2}
  Name = {x1}
  Controller = {c1, c2}
  InstanceName <- AllToX1
  ControllerID <- AllToC1
  ControllerOf <- ProcsToC1
  DindMode <- NoDind
  InflightGrace = 1
  ExitedGrace = 1
  Calls = {"create", "delete", "list"}
  IPv6Rejected = FALSE
  MaxMishaps = 0
SPECIFICATION CollectSpec
SYMMETRY OneNameSymmetry
INVARIANT TypeOK
INVARIANT OwnershipInv
PROPERTY SparesLaterClaim
PROPERTY ClaimGoesLast
PROPERTY CollectsWhatIsDue
PROPERTY ClaimIsLock
