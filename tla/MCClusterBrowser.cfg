SPECIFICATION Spec
CONSTANTS
  Repos = {"first", "other"}
  Clusters <- BrowsedClusters
  RepoOf <- BrowsedRepoOf
  Members <- BrowsedMembers
  Matching <- BrowsedMatching
  Published <- CopiedClusters
  Limits = {0, 1}
  MaxKeys = 2
  MaxEdits = 1
  MaxLoads = 1
INVARIANTS
  TypeOK
  ShowsOneStore
PROPERTIES
  SelectionFollowsUser
  RefreshIsCurrent
  ConfirmsWhatItNamed
