CONSTANTS
  Requests = {r1, r2}
  Tokens = {r1, r2}
  Agents = {a1}
  Subjects = {a1, i1}
  Targets = {i1}
  Nonces = {n1, n2, n3}
  Hashes = {h1, h2}
  Frameworks = {f1}
  NoFramework = NoFramework
  NoAgent = NoAgent
  Keys = {k1, k2}
  NoKey = NoKey
  a1 = a1
  i1 = i1
  n1 = n1
  n2 = n2
  n3 = n3
  k1 = k1
  k2 = k2
  f1 = f1
  h1 = h1
  h2 = h2
  NoHash = NoHash
  NoIssuer = NoIssuer
  Envelopes <- IssuerEnvelopes
  Bodies = {}
  Calls <- IssuerCalls
  Day = 1
  Grace = 1
  FutureSkew = 1
  MaxSpan = 3
  MinTrust = 0
  NonceTTL = 3
  MaxNonces = 3
  Durations = {1}
  LocalOnly = TRUE
  MaxStaleness = 1
  MaxClock = 1
  MaxOrders = 2
  MaxRestarts = 0
SPECIFICATION GatewaySpec
INVARIANT
  IssuerCheckedAtEveryTier
CHECK_DEADLOCK FALSE
