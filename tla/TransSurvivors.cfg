SPECIFICATION Spec
CONSTANTS
  o1 = o1
  o2 = o2
  o3 = o3
  Outs <- Outputs
  Coinbase = {}
  Maturity = 2
  Chains <- Orphaned
  Null = Null
  Gap = 0
  Window = 3
  Chunk = 2
  FromHeights = {0}
  Supplied = {}
  Feeding = FALSE
  Hashless = FALSE
  Interfering = FALSE
  MaxSends = 0
  MaxReorgs = 1
  MaxFaults = 0
  MaxRestarts = 0
PROPERTIES
  SelfHeals
