SPECIFICATION FairSpec
CONSTANTS
  a = a
  b = b
  c = c
  d = d
  Txs <- Transactions
  Mine <- Paying
  SpendsOf <- Inputs
  Chains <- Apart
  Checkpoints <- Anchors
  Activation = 2
  BirthHeight = 3
  BatchSize = 2
  Concurrency = 1
  NoRoot = NoRoot
  Feeding = FALSE
  Disciplined = TRUE
  MaxReorgs = 2
  MaxFaults = 1
  MaxRestarts = 1
INVARIANTS
  NotesExact
PROPERTIES
  SyncSettles
  Recovers
