SPECIFICATION FairSpec
CONSTANTS
  n1 = n1
  n2 = n2
  Notes = {n1, n2}
  Amount <- Equal
  None = None
  Effects = {"returns", "throws", "stops", "starts"}
  MaxBlocks = 4
  MaxFaults = 1
INVARIANTS
  TypeOK
  NoteOnce
  HashCovered
PROPERTIES
  NothingDueAfterStop
  CatchesUp
