CONSTANTS
  p1 = p1
  p2 = p2
  comments = comments
  files = files
  Blank = Blank
  Malformed <- EmptySource
  Procs <- OneProcess
  Families <- TwoFamilies
  Archives <- OnlyPresent
  MaxSource = 2
  MaxSequence = 3
  MaxCommands = 4
  MaxKills = 0
SPECIFICATION Spec
INVARIANTS
  TruncationRemembered
CHECK_DEADLOCK FALSE
