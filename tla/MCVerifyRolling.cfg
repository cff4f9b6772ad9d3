CONSTANTS
  Requests = {r1, r2, r3}
  Tokens = {r1, r2, r3}
  Agents = {a1}
  Subjects = {a1, i1}
  Targets = {}
  Nonces = {n1, n2, n3}
  Hashes = {h1, h2}
  a1 = a1
  i1 = i1
  n1 = n1
  n2 = n2
  n3 = n3
  h1 = h1
  h2 = h2
  NoHash = NoHash
  NoIssuer = NoIssuer
  Calls <- RollingCalls
  Day = 2
  Grace = 1
  FutureSkew = 1
  MaxSpan = 3
  MinTrust = 0
  NonceTTL = 3
  MaxNonces = 3
  Durations = {1}
  LocalOnly = TRUE
  MaxStaleness = 1
  MaxClock = 3
SPECIFICATION Spec
SYMMETRY RequestSymmetry
INVARIANT RollingLimitHolds
CHECK_DEADLOCK FALSE
