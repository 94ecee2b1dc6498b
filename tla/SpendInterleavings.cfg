SPECIFICATION Spec
CONSTANTS
  Notes = {n1, n2}
  Txs = {t1, t2}
  Callers = {c1, c2}
  None = None
  MaxAddresses = 1
  MaxUpsets = 0
  MaxRestarts = 0
  Careful = FALSE
SYMMETRY Symmetric
INVARIANTS
  InFlightNeverOffered
  NoDoubleSpend
  AutoReleasedNeverHeld
PROPERTIES
  KeepsLedger
