SPECIFICATION FairSpec
CONSTANTS
  Sessions = {s1, s2}
  Callers = {c1, c2}
  NoSession = NoSession
INVARIANTS SettledAgrees
PROPERTIES ImplementsOneSession ClosedFreesSlot
