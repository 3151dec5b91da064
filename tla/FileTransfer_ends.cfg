SPECIFICATION FairSpec
CONSTANTS
  Transfers = {t1}
  Size = 2
  HighCap = 2
  FileCap = 1
  WireCap = 1
INVARIANTS DirsAreHeld DialogsAreHeld AnnouncedComplete OrphansStayEmpty
PROPERTIES ImplementsReceipt TransfersEnd
