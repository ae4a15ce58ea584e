CONSTANTS
  p1 = p1
  p2 = p2
  model = model
  other = other
  summary = summary
  Threads <- TwoThreads
  Procs <- TwoProcesses
  Configs <- ThreeConfigs
  Unsupported <- TitleSummary
  Commands <- AllCommands
  BatchSizes <- OneOrTwo
  MaxAttempts = 2
  MaxText = 2
  MaxEdits = 1
  MaxRuns = 2
  MaxFaults = 1
SPECIFICATION Spec
SYMMETRY Symmetry
INVARIANTS
  TypeOK
  MembersAndTargetsAreCurrent
  NoRowDroppedSilently
PROPERTIES
  RetiresOnlyClosedThreads
CHECK_DEADLOCK FALSE
