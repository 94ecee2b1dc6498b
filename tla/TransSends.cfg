SPECIFICATION Spec
CONSTANTS
  o1 = o1
  o2 = o2
  o3 = o3
  Outs <- Outputs
  Coinbase = {o2}
  Maturity = 2
  Chains <- Orphaned
  Null = Null
  Gap = 0
  Window = 2
  Chunk = 3
  FromHeights = {0}
  Supplied = {o1}
  Feeding = TRUE
  Hashless = FALSE
  Interfering = TRUE
  MaxSends = 2
  MaxReorgs = 1
  MaxFaults = 1
  MaxRestarts = 0
INVARIANTS
  SavedStateLoads
  WindowTrue
  OpenSendsHold
