SPECIFICATION FairSpec
CONSTANTS
  shell = shell
  file = file
  NoKey = NoKey
  Tool = {shell}
  Registered = {shell}
  Key = {file}
  Requests <- Commands
  FailureThreshold = 1
  Leased = TRUE
  MaxConcurrency = 2
  MaxRecovery = 1
  Setup = {"blocks", "asks", "resolver", "detector", "memory", "reflector"}
  Batches <- UpToTwo
INVARIANTS
  ExitsAreAccounted
  FirstErrorEndsBatch
PROPERTIES
  CancelEndsBatch
  BatchEnds
  BreakersRecover
