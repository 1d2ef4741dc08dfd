CONSTANTS
  SdkRoots = {r1, r2}
  NoteIds = {1, 2, 3}
  SettledIdsCap = 2
  MaxRoots = 1
  MaxAccepted = 4
  Builds = {b1, b2}
  Dirs = {d1}
  Nothing = nothing
  Torn = torn
  NoApp = noapp
  MaxData = 1
  MaxUses = 2
  GraftNames <- MCGraftNames
  Versions = {1, 2}
  BlockMarkers = {"imports", "state", "peek"}
  HandEditMarkers = {"state"}
  Contributes <- MCContributes
  ImportsOf <- MCImportsOf
  HasEffect <- MCHasEffect
  Libs = {"merkle", "gates"}
  NoFile = nofile
  MaxEdits = 3
  PollInterval = 2
  AcceptTimeout = 4
  MaxClock = 8
  OtherTags = {}
  Nil = nil
  RulesCap = 3
  RulesPerCauseCap = 1
  MaxInits = 4
  MaxTicks = 2
  OurCoins = {c1, c2}
  TheirCoins = {s1}
  Worth <- MCWorth
  LockRoots = {l1, l2}
  MaxLines = 2
  MaxFee = 1
  Causes = {"c", "d"}
  EffectTags = {"x", "y"}
  MaxCommands = 2
  MaxEffects = 2
  ChannelCap = 2
  KernelNames = {"app", "k1", "k2"}
  AppKernel = "app"
  Unnamed = unnamed
  NoKernel = nokernel
  MaxRenames = 3
  Phrases = {"words", "demo"}
  Endpoints = {e1}
  Localhost = localhost
  DemoKey <- MCDemoKey
  Accounts = {0, 1}
  Unset = unset
  Messages = {"m1", "m2"}
  Callers = {a1, a2}
  IssuedAt <- MCIssuedAt
  Expires <- MCExpires
  MaxWindow = 3
  MaxStall = 1
  MaxTime = 6
  Compositions <- MCCompositions
  HeldNouns <- MCHeldNouns
  Fits <- GraftFits
  Default <- GraftDefault
  Asked <- MCAsked
  U64Cap = 5
  HalfBits = 2
  Half = 4
  WordSize = 16
  PRIME = 13
  GenX <- MCGenX
  GenY <- MCGenY
  GOrder = 7
  CurveError = curveerror
  Limbs = 2
  LookupTable <- MCLookupTable
  MdsRow <- MCMdsRow
  RoundConstants <- MCRoundConstants
  BytesPerBelt = 2
  ByteBase = 3
  SecretKeys <- MCSecretKeys
  Digests <- MCDigests
  Garbled <- MCGarbled
  NoSignature = nosignature
  Seeds <- MCSeeds
  HmacOf <- MCHmacOf
  MasterKey <- MCMasterKey
  HardenedBit = 6
  CoinTypes = {1, 2}
  AccountNumbers = {0, 1, 6}
  Indices = {0, 1, 6}
  Roles <- MCRoles
  NoKey = nokey
  LintGrafts <- MCLintGrafts
  PokeTags <- MCPokeTags
  StateFields <- MCStateFields
  CauseType <- MCCauseType
  HasPeek <- MCHasPeek
  GraftLibs <- MCGraftLibs
  CommonFiles = {"wrapper"}
  LibImports <- MCLibImports
  LocalTypes <- MCLocalTypes
  OwnTags = {"note", "ping"}
  OwnFields = {"settle", "x"}
  OwnRefs <- MCOwnRefs
  Own = own
  LintTomls <- MCLintTomls
  LintOverrides <- MCLintOverrides
  MaxLintEdits = 2
  ChainBlocks <- MCChainBlocks
  TxWires <- MCTxWires
  WireNotes <- MCWireNotes
  FieldSize = 4
  HashLimbs = 2
  MaxMoves = 2
SPECIFICATION MCSpec
CHECK_DEADLOCK FALSE
INVARIANT PureLayout
