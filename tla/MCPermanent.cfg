CONSTANTS
  Subjects = {s1}
  Nonces = {n1, n2, n3}
  NonceTTL = 2
  MaxNonces = 2
  Durations = {1, 2}
  LocalOnly = TRUE
  MaxStaleness = 1
  MaxClock = 4
  MaxAccepted = 5
SPECIFICATION Spec
PROPERTY PermanentUntilReinstated
