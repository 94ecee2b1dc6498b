SPECIFICATION Spec
CONSTANTS
  Notes = {n1}
  Txs = {t1, t2}
  Callers = {c1}
  None = None
  MaxAddresses = 0
  MaxUpsets = 1
  MaxRestarts = 1
  Careful = TRUE
SYMMETRY Symmetric
INVARIANTS
  IInv
  AttributionKept
  NoNoteLost
  NoLeakedReservation
PROPERTIES
  SpentStaysSpent
