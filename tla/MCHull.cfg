CONSTANTS
  h1 = h1
  h2 = h2
  r1 = r1
  r2 = r2
  Ids <- MCIds
  Hulls <- MCHulls
  Roots <- MCRoots
  Data <- MCData
  Gate <- MCGate
  NoRoot = NoRoot
  EpochCap = 2
  RegisteredCap = 2
  MaxSettles = 3
  HullId = h1
  MaxInbox = 2
SPECIFICATION Spec
INVARIANTS
  ServedTreeIsRegistered
  ReportedIsSettled
  CounterNeverAhead
  AnswersMatch
PROPERTY OnlyPeeksHoldTheMutex
