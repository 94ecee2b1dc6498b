SPECIFICATION Spec
CONSTANTS
  r1 = r1
  r2 = r2
  Requests = {r1, r2}
  Unreadable = Unreadable
  MaxRestarts = 1
  MaxFaults = 0
INVARIANTS
  RetriedWhenChanged
