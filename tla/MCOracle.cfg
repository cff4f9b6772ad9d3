CONSTANTS
  m3 = m3
  m6 = m6
  c001 = c001
  c003 = c003
  c004 = c004
  Syncs = {s1, s2}
  Maturities = {m3, m6}
  Assets = {c001, c003, c004}
  Lagging = c003
  TenorOf <- DemoTenorOf
  Seed <- DemoSeed
  YieldOf <- DemoYields
  DriftPercent = 2
  ZeroTolerance = 10
  Lookups = {l1, l2}
  Tenors = {t1}
  TTL = 1
  LastYear = 2
  LastDay = 2
  MaxClock = 2
SPECIFICATION FairBothSpec
CHECK_DEADLOCK FALSE
INVARIANTS
  AnswerIsRecent
  UntroubledAnswerIsNewest
  OneFaultIsSurvived
  ScenariosSurviveSync
  SyncedTogether
PROPERTIES
  EveryLookupEnds
  OracleImplementsService
