SPECIFICATION FairJoinSpec
CONSTANTS
  a = a
  b = b
  External = External
  NoCommit = NoCommit
  Client = {a, b}
  Joiner = a
  Other = b
  MaxPastEpochs = 1
  Overwrite = FALSE
  MaxRows = 6
  EchoJoin = TRUE
  EpochBound = 3
  JoinBound = 2
  AppBound = 1
  CrashBound = 1
INVARIANTS JoinTypeOK JoinAgreement
PROPERTIES MergeCompletes
CHECK_DEADLOCK FALSE
