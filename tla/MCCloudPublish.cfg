CONSTANTS
  p1 = p1
  p2 = p2
  Publishers <- TwoPublishers
  Contracts <- OlderAndCurrent
  RowBytes <- TwoDataSets
  BatchRows = 2
  RequestBytes = 3
  Incomplete <- SecondVersion
  Attempts = 2
  MaxLag = 1
  MaxVersion = 2
  MaxRuns = 3
  MaxFaults = 1
SPECIFICATION FairSpec
INVARIANTS
  TypeOK
  FailureHasCause
PROPERTIES
  PublicationKeepsPromise
  EveryRunEnds
CHECK_DEADLOCK FALSE
