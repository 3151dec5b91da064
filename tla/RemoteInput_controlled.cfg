SPECIFICATION FairSpec
CONSTANTS
  Readers = {r1}
  Monitors = {m1}
  Handlers = {h1, h2}
  Inputs = {shift, button}
  Modifiers = {shift}
  NoOwner = NoOwner
INVARIANTS
  DownIsTracked HeldIsWatched ModifierReleaseDue
PROPERTIES
  SilenceReleases SilenceEndsControl
