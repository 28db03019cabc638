SPECIFICATION FairSpec
CONSTANTS
  CallId = {c1}
  t = t
  u = u
  None = None
  Text <- SaysAndSteer
  Steers <- Steer
  Tokens <- NoTokens
  Policies <- TightOnly
  RunPolicy <- Tight
  Registries <- KnownOrNot
  MaxMessages = 7
  Ratio = 1000
  Skews = {0, 2}
  Overhead = 1
  Transients = {0, 2}
  Light = 4
  Heavy = 4
  PruneLine = 12
  Switches = {FALSE, TRUE}
  Features = {"prune", "followup"}
  MaxRuns = 1
INVARIANTS
  AssembledForWhatIsSent
  TurnsBracketed
  RequestsBounded
  AnchorFollowsFeed
PROPERTIES
  CancelEndsRuns
  RunsEnd
