SPECIFICATION Spec
CONSTANTS
  a = a
  b = b
  c = c
  External = External
  NoCommit = NoCommit
  Client = {a, b}
  Founders = {a, b}
  Kinds = {}
  Echo = TRUE
  LoseReplies = TRUE
  Overwrite = FALSE
  MaxPastEpochs = 1
  MaxEpoch = 2
  MaxCommits = 2
  MaxProposals = 0
  MaxApps = 1
  MaxRows = 1
  MaxDups = 0
  MaxCrashes = 0
INVARIANTS BufferReplayed
CHECK_DEADLOCK FALSE
