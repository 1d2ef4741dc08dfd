CONSTANTS
  h1 = h1
  h2 = h2
  h3 = h3
  r1 = r1
  r2 = r2
  goodData = goodData
  badData = badData
  crashData = crashData
  i1 = i1
  i2 = i2
  i3 = i3
  i4 = i4
  i5 = i5
  Ids <- MCIds
  Hulls <- MCHulls
  Roots <- MCRoots
  Data <- MCData
  Gate <- MCGate
  NoRoot = NoRoot
  EpochCap = 2
  RegisteredCap = 2
  MaxSettles = 6
SPECIFICATION Spec
INVARIANT HistorySound
PROPERTY ImplementsLedger
SYMMETRY MCSymmetry
