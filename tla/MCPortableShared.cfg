CONSTANTS
  p1 = p1
  p2 = p2
  Procs <- TwoProcesses
  None = None
  Torn = Torn
  Absent = Absent
  WithManifest = TRUE
  MayForget = FALSE
  MaxPublishes = 3
  MaxCommits = 1
  MaxKills = 1
  MaxCrashes = 0
SYMMETRY Symmetry
SPECIFICATION Spec
INVARIANTS
  MirrorKnownGood
