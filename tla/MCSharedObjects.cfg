CONSTANTS
  Subjects = {s1}
  Nonces = {n1, n2, n3}
  NonceTTL = 2
  MaxNonces = 2
  Durations = {1, 2}
  LocalOnly = TRUE
  MaxStaleness = 1
  MaxAccepted = 5
  Agents = {a1, a2}
  Tokens = {t1, t2, t3}
  Hashes = {h1}
  NoHash = NoHash
  Day = 2
  Amounts = {1, 2}
  Limits = {0, 3}
  MaxLag = 0
  MaxClock = 4
SPECIFICATION BothSpec
SYMMETRY ObjectSymmetry
INVARIANTS
  TypeOK
  CacheIsRecentSuffix
  RefusedExactlyWhileOrdered
  LedgerTypeOK
  LedgerIsRecentPart
PROPERTIES
  CacheImplementsGuard
  LedgerImplementsWindow
