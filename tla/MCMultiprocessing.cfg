CONSTANTS
  N = 4
  MsgLen = 3
  Capacity = 1
  FailPoints <- AnyFailure
SPECIFICATION FairSpec
INVARIANTS DestroyAfterUse ResultsFaithful
PROPERTIES ImplementsForkJoin Completes ManagerEnds
CHECK_DEADLOCK FALSE
