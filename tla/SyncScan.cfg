SPECIFICATION Spec
CONSTANTS
  a = a
  b = b
  c = c
  d = d
  Txs <- Transactions
  Mine <- Paying
  SpendsOf <- Inputs
  Chains <- Branches
  Checkpoints <- Bundled
  Activation = 2
  BirthHeight = 0
  BatchSize = 3
  Concurrency = 2
  NoRoot = NoRoot
  Feeding = TRUE
  Disciplined = FALSE
  MaxReorgs = 3
  MaxFaults = 2
  MaxRestarts = 0
INVARIANTS
  TypeOK
  TreeIsReal
  NotesExact
PROPERTIES
  SyncNeverForgets
  ResolvedIsCurrent
