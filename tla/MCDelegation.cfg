CONSTANTS
  p = p
  a = a
  buy = buy
  sell = sell
  bond = bond
  bill = bill
  us = us
  eu = eu
  Agents = {p, a}
  MaxSaves = 3
  Absent = Absent
  Torn = Torn
  None = None
  Blank = Blank
  Actions <- MCActions
  Classes <- MCClasses
  Places <- MCPlaces
  Ids <- MCIds
  Grants <- MCGrants
  Requests <- MCRequests
  Skew = 1
  MaxDepth = 2
  Lifetimes = {None, 0}
  Leads = {0, 2}
  MaxLinks = 2
  MaxClock = 1
SPECIFICATION BothSpec
CHECK_DEADLOCK FALSE
INVARIANTS
  AuthorityOnlyNarrows
  FaithfulChainAccepted
  SavedIsLoaded
  NoLaterKey
