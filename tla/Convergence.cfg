\* What the jobs bring about, under fairness.
SPECIFICATION FairSpec
CONSTANTS
  s1 = s1
  s2 = s2
  h1 = h1
  h2 = h2
  c1 = c1
  c2 = c2
  p1 = p1
  p2 = p2
  q1 = q1
  Certs = {s1}
  Hashes = {h1}
  Clients = {c1}
  Passes = {p1}
  Polls = {q1}
  Slots = 1
  MaxCRL = 2
  MaxEpoch = 1
  MaxFaults = 1
  MaxRestarts = 1
PROPERTY IndexConverges
PROPERTY RevocationArrives
PROPERTY OperationCompletes
