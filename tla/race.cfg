SPECIFICATION Spec
CONSTANTS
  a = a
  b = b
  c = c
  External = External
  NoCommit = NoCommit
  Client = {a, b, c}
  Founders = {a, b}
  Kinds = {"add", "external", "update"}
  Echo = FALSE
  LoseReplies = TRUE
  Overwrite = FALSE
  MaxPastEpochs = 1
  MaxEpoch = 2
  MaxCommits = 4
  MaxProposals = 1
  MaxApps = 0
  MaxRows = 0
  MaxDups = 0
  MaxCrashes = 0
INVARIANTS EpochAgreement
PROPERTIES LocalProposalsRenewed
CHECK_DEADLOCK FALSE
