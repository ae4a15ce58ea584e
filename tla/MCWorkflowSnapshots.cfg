CONSTANTS
  w1 = w1
  w2 = w2
  s1 = s1
  s2 = s2
  blank = blank
  Blank = blank
  Malformed <- BlankOnly
  Runs <- TwoRuns
  Syncers <- TwoSyncers
  MaxSiblings = 2
  MaxListed = 2
  MaxClock = 2
  MaxChanges = 3
  MaxSequence = 3
SYMMETRY Symmetry
SPECIFICATION Spec
INVARIANTS
  TypeOK
  TombstonesOutlastOlderLists
PROPERTIES
  StoredRunsOnlyAdvance
  CurrentObservationLands
CHECK_DEADLOCK FALSE
