SPECIFICATION FairSpec
CONSTANTS
  a = a
  b = b
  c = c
  External = External
  NoCommit = NoCommit
  Client = {a, b}
  Founders = {a, b}
  Kinds = {}
  Echo = FALSE
  LoseReplies = FALSE
  Overwrite = FALSE
  MaxPastEpochs = 1
  MaxEpoch = 2
  MaxCommits = 3
  MaxProposals = 0
  MaxApps = 2
  MaxRows = 3
  MaxDups = 0
  MaxCrashes = 0
INVARIANTS BufferReplayed CommitsDecryptable
PROPERTIES BufferedReachesApp Converges
CHECK_DEADLOCK FALSE
