CONSTANTS
  N = 3
  Repeat = 2
  ChildRepeat <- MCChildRepeat
SPECIFICATION FairSpec
INVARIANTS BarrierLive SamplesComplete ChildrenIdle
PROPERTIES ImplementsForkJoin Termination
CHECK_DEADLOCK FALSE
