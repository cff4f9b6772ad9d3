CONSTANTS
  Requests = {r1, r2}
  Tokens = {r1, r2}
  Agents = {a1}
  Subjects = {a1, i1}
  Targets = {}
  Nonces = {n1, n2}
  Hashes = {h1, h2}
  a1 = a1
  i1 = i1
  n1 = n1
  n2 = n2
  n3 = n3
  h1 = h1
  h2 = h2
  NoHash = NoHash
  NoIssuer = NoIssuer
  Calls <- LongestCalls
  Day = 2
  Grace = 1
  FutureSkew = 1
  MaxSpan = 3
  MinTrust = 0
  NonceTTL = 3
  MaxNonces = 2
  Durations = {1}
  LocalOnly = TRUE
  MaxStaleness = 1
  MaxClock = 4
SPECIFICATION Spec
SYMMETRY RequestSymmetry
INVARIANT EnvelopeAllowedOnce
CHECK_DEADLOCK FALSE
