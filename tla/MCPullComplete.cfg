CONSTANTS
  t1 = t1
  s1 = s1
  s2 = s2
  r1 = r1
  r2 = r2
  blank = blank
  Blank = blank
  NoRow = NoRow
  Malformed <- BlankOnly
  Threads <- OneThread
  PullRequests <- OneThread
  Syncers <- TwoSyncers
  Rows <- TwoRows
  DraftRows <- SecondRow
  RowsCarryDraft = TRUE
  SyncOptions <- CompleteOptions
  DetailsMayFail = FALSE
  MaxClock = 2
  MaxEdits = 2
  MaxSequence = 3
SYMMETRY SyncerSymmetry
SPECIFICATION Spec
INVARIANTS
  FreshRevisionDescribesArchive
CHECK_DEADLOCK FALSE
