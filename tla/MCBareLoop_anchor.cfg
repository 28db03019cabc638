SPECIFICATION LoopSpec
CONSTANTS
  CallId = {c1}
  t = t
  u = u
  None = None
  Text <- SaysAndSteer
  Steers <- NoSteer
  Tokens <- NoTokens
  Policies <- TightOnly
  RunPolicy <- Tight
  Registries <- Known
  MaxMessages = 5
  Ratio = 1000
  Skews = {0}
  Overhead = 1
  Transients = {0}
  Light = 3
  Heavy = 3
  PruneLine = 12
  Switches = {FALSE}
  Features = {}
  MaxRuns = 2
INVARIANTS
  AnchorStandsForTheWire
