CONSTANTS
  Requests = {r1, r2}
  Tokens = {r1, r2}
  Nonces = {r1, r2}
  Callers = {r1, r2}
  Agents = {a1}
  Observed = {a1}
  Subjects = {a1, i1}
  Issuers = {i1}
  Targets = {}
  Hashes = {h1}
  a1 = a1
  i1 = i1
  NoHash = NoHash
  NoIssuer = NoIssuer
  NoClaim = NoClaim
  NoObservation = NoObservation
  NoTier = NoTier
  Functions <- SomeFunctions
  Claims <- SomeClaims
  Observations <- SomeObservations
  Calls <- SomeCalls
  Hooks = {c1}
  Entrants = {c1}
  MaxEvents = 1
  MaxCallbacks = 2
  MaxClears = 1
  TTL = 1
  DayLength = 1
  Day = 1
  Skew = 0
  Grace = 0
  FutureSkew = 1
  MaxSpan = 3
  MaxObservationAge = 1
  StaleAfter = 0
  DriftPercent = 2
  ZeroTolerance = 10
  BackingFloor = 100
  Precision = 100
  MinTrust = 0
  NonceTTL = 3
  MaxNonces = 2
  Durations = {1}
  LocalOnly = TRUE
  MaxStaleness = 1
  MaxClock = 1
SPECIFICATION WrappedSpec
SYMMETRY CallSymmetry
INVARIANTS
  ValueMovesOnEvidence
  MovedMoneyIsCounted
  CountersMatchEvents
  HooksHearEveryEvent
  OutcomeReachesCaller
PROPERTY
  KeepsContract
CHECK_DEADLOCK FALSE
