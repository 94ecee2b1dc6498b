SPECIFICATION Spec
CONSTANTS
  Notes = {n1}
  Txs = {t1}
  Callers = {c1}
  None = None
  MaxAddresses = 3
  MaxUpsets = 0
  MaxRestarts = 0
  Careful = FALSE
INVARIANTS
  AddressesFresh
