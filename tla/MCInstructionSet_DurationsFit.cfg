SPECIFICATION Spec
CONSTANTS
  Programs <- IterateReadFiles
  Durations = {1, 2}
INVARIANT DurationsFit
CHECK_DEADLOCK FALSE
