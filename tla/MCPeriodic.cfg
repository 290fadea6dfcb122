SPECIFICATION Spec
CONSTANTS
  MicrosPerSec = 2
  NanosPerMicro = 2
  Instructions <- MCInstructions
  Starts <- MCStarts
  MaxRounds = 2
  MaxSecs = 3
INVARIANTS
  NoDrift
  WorkMeasured
  SampleInRound
CHECK_DEADLOCK FALSE
