CONSTANTS
  r1 = r1
  r2 = r2
  Threads <- ThreeThreads
  Runners <- TwoRunners
  MaxRuns = 2
  MaxEdits = 2
SYMMETRY Symmetry
SPECIFICATION Spec
INVARIANTS
  TypeOK
  DecisionsHold
  RepresentativesHold
PROPERTIES
  RunsKeepTheirScope
CHECK_DEADLOCK FALSE
