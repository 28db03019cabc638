SPECIFICATION Spec
CONSTANTS
  CallId = {c1, c2}
  Text = {t}
  Tokens <- ThreeTokens
  Policies <- TwoPolicies
  Registries <- SomeKnown
  MaxMessages = 5
SYMMETRY CallSymmetry
INVARIANTS
  HistoryCoherent
  RequestCoherent
  OpenCallsAreInFlight
PROPERTIES
  SalvageCostsOneTurn
