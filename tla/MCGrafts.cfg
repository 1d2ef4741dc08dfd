CONSTANTS
  Nouns = {n1, n2}
  Malformed = malformed
  QueueCap = 3
  FirstId = 0
  MaxPushes = 5
  BatchCap = 3
  MaxAdds = 5
  RetentionCap = 3
  FirstSeq = 0
  MaxLogged = 5
  Pubkeys = {p1, p2, p3}
  Perms = {r1, r2, r3}
  RolesCap = 2
  PermsPerRoleCap = 2
  KvKeys = {k1, k2}
  Values = {v1, v2}
  StoreCap = 1
  RecordKeys = {k1, k2}
  RecordsCap = 1
  MaxFeed = 5
  Names = {c1, c2, c3}
  CountersCap = 2
  Bex64 = 3
  Settable = {1, 2, 3, 5}
  RootHulls = {h1, h2, h3}
  Data = {"d1", "d2", "d3"}
  HashLeaf <- MCHashLeaf
  RootsCap = 2
  LogBodies = {n1, malformed}
  MaxAudits = 3
  DataSets <- MCDataSets
  DepthCap = 3
  GuardRoots = 1
  NoTree = notree
  NoClaim = noclaim
  FieldLists <- MCFieldLists
  KeyCommits <- MCKeyCommits
  Colon = 9
  GateTables <- MCGateTables
  NoneSet = noneset
  Attestations <- MCAttestations
  Ranges <- MCRanges
  Keys = {k1, k2, k3, k4}
  Params <- MCParams
  Prime = 4
  MaxHeight = 6
  s1 = s1
  s2 = s2
  s3 = s3
  LockedNotes <- MCLockedNotes
  SpendKeys = {s1, s2, s3}
  CoinbaseWait = 1
  WantedSeeds <- MCWantedSeeds
  Preimages <- MCPreimages
  Bythos = 1
  BaseFee = 2
  InputFeeDivisor = 4
  LeastFee = 6
  WitnessLeaves = 9
  MaxPage = 2
SPECIFICATION MCSpec
INVARIANTS
  QueueFaithful
  IntentsConserved
  NewestKept
  EffectsTellAll
  RecordLife
  IncrementsCountOn
  ToldStaysTrue
  LogTellsStores
  ProofsTell
  GatesBind
  LocksBind
  WitnessesDecide
  FeeStands
PROPERTY NotStranded
