SPECIFICATION FairSpec
CONSTANTS
  o1 = o1
  o2 = o2
  o3 = o3
  Outs <- Outputs
  Coinbase = {}
  Maturity = 2
  Chains <- Branches
  Null = Null
  Gap = 1
  Window = 2
  Chunk = 2
  FromHeights = {0, 4}
  Supplied = {}
  Feeding = FALSE
  Hashless = FALSE
  Interfering = FALSE
  MaxSends = 0
  MaxReorgs = 2
  MaxFaults = 0
  MaxRestarts = 1
INVARIANTS
  TypeOK
  OneChainScanned
  OutputsFollowBlocks
PROPERTIES
  ResolvedFollowsNode
  SyncSettles
  Heals
