SPECIFICATION Spec
CONSTANTS
  r1 = r1
  r2 = r2
  r3 = r3
  s1 = s1
  s2 = s2
  NoOne = NoOne
  Replicas = {r1}
  Subjects = {s1}
  Duty <- GenerateDuty
  AllowDuplicateCerts = FALSE
  RevokeOnAutoRenew = TRUE
  SupersedeAfter = 0
  MaxRequests = 4
  MaxFaults = 1
INVARIANT EvictBlocksIssuance
