SPECIFICATION Spec
CONSTANTS
  MouseCap = 2
  HighCap = 1
  AudioCap = 2
  FileCap = 1
INVARIANTS FreshAfterDrain LossClosesSession
