SPECIFICATION FairClient
CONSTANTS
  r1 = r1
  r2 = r2
  Requests = {r1, r2}
  Unreadable = Unreadable
  Batches = {r2}
  Foreign = Foreign
  NotAnObject = NotAnObject
  MaxElements = 3
  MaxRestarts = 2
  MaxFaults = 1
INVARIANTS
  TypeOK
  RefusedOnlyForCause
  NeverMisattributed
  WholeIsDelivered
  RunOnce
PROPERTIES
  HeaderHeals
