CONSTANTS
  p1 = p1
  p2 = p2
  Procs <- OneProcess
  None = None
  Torn = Torn
  Absent = Absent
  WithManifest = TRUE
  MayForget = TRUE
  MaxPublishes = 3
  MaxCommits = 1
  MaxKills = 1
  MaxCrashes = 2

SPECIFICATION FairSpec
INVARIANTS
  TypeOK
  SettledMirrorIsCurrent
PROPERTIES
  ReadsAnswer
  EventuallyFresh
