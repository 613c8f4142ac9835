SPECIFICATION Spec
CONSTANTS
  a = a
  b = b
  c = c
  External = External
  NoCommit = NoCommit
  Client = {a, b}
  Founders = {a, b}
  Kinds = {"remove"}
  Echo = TRUE
  LoseReplies = TRUE
  Overwrite = FALSE
  MaxPastEpochs = 1
  MaxEpoch = 2
  MaxCommits = 2
  MaxProposals = 0
  MaxApps = 1
  MaxRows = 2
  MaxDups = 2
  MaxCrashes = 1
INVARIANTS TypeOK EpochAgreement AppAtMostOnce
PROPERTIES DurableUntilError
SYMMETRY Symmetry
CHECK_DEADLOCK FALSE
