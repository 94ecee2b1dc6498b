SPECIFICATION Spec
CONSTANTS
  Coins = {c1, c2, c3, c4}
  Values <- Worths
  Amounts <- Requested
  Rates = {9, 10, 100, 2000}
  DUST_NOTE_SATS = 384000
  WideCount = 3
  MAX_STANDARD_TX_SIZE = 600
  MaxSafe = 1000000
INVARIANTS
  RefusesOnlyTheUnpayable
  LargestFirstIsBest
  FeeIsFair
CHECK_DEADLOCK FALSE
