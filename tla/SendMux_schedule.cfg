SPECIFICATION FairSpec
CONSTANTS
  MouseCap = 2
  HighCap = 3
  AudioCap = 3
  FileCap = 2
  Burst = 3
  AudioBurst = 2
INVARIANTS KeystrokesWaitBriefly AudioWakes
PROPERTIES LanesProgress
