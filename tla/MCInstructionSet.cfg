SPECIFICATION Spec
CONSTANTS
  Programs <- MCPrograms
  Durations = {1, 2}
INVARIANTS
  DurationIsSum
  DurationPerCycle
  OverrunsExactly
  ItemsRepeatAsSeeded
  MappingsAsFreed
  SlicesMatch
CHECK_DEADLOCK FALSE
