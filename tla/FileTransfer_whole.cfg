SPECIFICATION Spec
CONSTANTS
  Transfers = {t1}
  Size = 2
  HighCap = 2
  FileCap = 2
  WireCap = 1
INVARIANTS WholeIsNotRejected
