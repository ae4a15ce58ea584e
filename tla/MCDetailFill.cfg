SPECIFICATION FairSpec
CONSTANTS
  Clients <- MCClients
  Resources <- MCResources
  Limit <- MCLimit
  Reserve = 2
  MaxOthers <- MCOthers
  PRs = {1, 2}
  Batch = 1
  Repeaters = {a}
  LimitOf <- MCLimitOf
  MaxFaults = 1
  a = a
  b = b
INVARIANTS
  FillTypeOK
  ReserveKept
PROPERTIES
  EventuallyFilled
