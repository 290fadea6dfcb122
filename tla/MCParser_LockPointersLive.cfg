CONSTANTS
  NoName = NoName
  MutexNames = {lock1}
  Names = {absolute_path, lock1, fd}
  AbsolutePath = absolute_path
  MaxThreadId = 2
SPECIFICATION Spec
INVARIANT LockPointersLive
CHECK_DEADLOCK FALSE
