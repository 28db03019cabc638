SPECIFICATION FairSpec
CONSTANTS
  Model = {primary, backup}
  ClientModel = primary
  NoModel = NoModel
  TripThreshold = 2
  RecoverySuccessesNeeded = 2
  MaxFailCount = 2
  MaxChain = 2
  HostCalls = {"original", "chain", "judge", "force"}
  MaxRetries = 2
  RateRetries = 3
  MaxTimeouts = 3
  Paced = TRUE
  MaxPieces = 2
INVARIANTS
  ActiveIsFirstUsable
  RequestsWithinBudget
  AnswerIsWhole
  StopsListening
PROPERTIES
  OnlyTheServerIsBlamed
  ClosesAfterAStreak
  PrimaryIsProbed
  TurnEnds
  CancelEndsTurn
