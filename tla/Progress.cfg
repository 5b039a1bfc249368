SPECIFICATION FairSpec
CONSTANTS
  r1 = r1
  r2 = r2
  r3 = r3
  s1 = s1
  s2 = s2
  NoOne = NoOne
  Replicas = {r1, r2}
  Subjects = {s1}
  Duty <- ProgressDuty
  AllowDuplicateCerts = FALSE
  RevokeOnAutoRenew = TRUE
  SupersedeAfter = 1
  MaxRequests = 4
  MaxFaults = 0
PROPERTY OperationsReturn
PROPERTY SupersededIsRevoked
PROPERTY RevocationPropagates
