\* What the subject lock and the CRL lock achieve as long as nothing fails.
SPECIFICATION EitherSpec
CONSTANTS
  r1 = r1
  r2 = r2
  r3 = r3
  s1 = s1
  s2 = s2
  NoOne = NoOne
  Replicas = {r1, r2, r3}
  Subjects = {s1, s2}
  Duty <- SupersedeDuty
  AllowDuplicateCerts = FALSE
  RevokeOnAutoRenew = TRUE
  SupersedeAfter = 1
  MaxRequests = 4
  MaxFaults = 0
SYMMETRY SubjectSymmetry
INVARIANT SnapshotsAreCurrent
INVARIANT CleanRevokesAll
INVARIANT RenewalHonoursRevocation
INVARIANT OneLiveCertificate
INVARIANT StoredIsLatest
