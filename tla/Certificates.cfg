\* All operations, with failures, lock timeouts and crashes.
SPECIFICATION Spec
CONSTANTS
  r1 = r1
  r2 = r2
  r3 = r3
  s1 = s1
  s2 = s2
  NoOne = NoOne
  Replicas = {r1, r2}
  Subjects = {s1}
  Duty <- SplitDuty
  AllowDuplicateCerts = FALSE
  RevokeOnAutoRenew = TRUE
  SupersedeAfter = 1
  MaxRequests = 3
  MaxFaults = 2
INVARIANT TypeOK
INVARIANT SignsOnlyPendingRequests
INVARIANT CRLNumberNamesContent
PROPERTY CRLOnlyGrows
PROPERTY SupersededReachesCRL
