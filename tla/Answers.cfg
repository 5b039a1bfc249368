\* Answers and index passes, with changes here and at a peer.
SPECIFICATION EitherSpec
SYMMETRY Symmetry
CONSTANTS
  s1 = s1
  s2 = s2
  h1 = h1
  h2 = h2
  c1 = c1
  c2 = c2
  p1 = p1
  p2 = p2
  q1 = q1
  Certs = {s1, s2}
  Hashes = {h1}
  Clients = {c1, c2}
  Passes = {p1, p2}
  Polls = {q1}
  Slots = 1
  MaxCRL = 3
  MaxEpoch = 2
  MaxFaults = 1
  MaxRestarts = 1
INVARIANT TypeOK
INVARIANT CacheVouches
INVARIANT SlotsAccounted
PROPERTY CRLAdvances
PROPERTY IndexNeverForgets
PROPERTY PrunedStaysOut
