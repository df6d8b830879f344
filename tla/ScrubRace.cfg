CONSTANTS
  Cred = {f1, f2}
  Token = token
  MaxRetries = 1
  TailLines = 2
  Followed <- FollowedModes
SPECIFICATION ReportFairSpec
CHECK_DEADLOCK FALSE
INVARIANT NoCredentialsLeft
