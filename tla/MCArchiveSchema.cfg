CONSTANTS
  p1 = p1
  p2 = p2
  comments = comments
  files = files
  Blank = Blank
  Malformed <- EmptySource
  Procs <- TwoProcesses
  Families <- TwoFamilies
  Archives <- AllArchives
  MaxSource = 2
  MaxSequence = 3
  MaxCommands = 3
  MaxKills = 1
SPECIFICATION Spec
SYMMETRY Symmetry
INVARIANTS
  TypeOK
  GenerationsAreUnique
  UndisturbedOpenSucceeds
  ConvergedNeedsNoRepair
PROPERTIES
  FencesOnlyAdvance
CHECK_DEADLOCK FALSE
