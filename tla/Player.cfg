CONSTANTS
  Nodes = {1, 2}
  Urls = {1}
  Url <- MCUrl
  Prefetch = {2}
  Continue = {1}
  TransIn = {1}
  Addresses = {1, 2, 3}
  MaxCommands = 3
  MaxPosts = 1
  MaxBatch = 1
  MaxDestroys = 2
SPECIFICATION FairSpec
INVARIANTS TypeOK PlayablesOwned KeepsPlaying StopsClean
PROPERTY StopReturns
CHECK_DEADLOCK FALSE
