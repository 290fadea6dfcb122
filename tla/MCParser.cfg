CONSTANTS
  NoName = NoName
  MutexNames = {absolute_path, fd}
  Names = {absolute_path, fd}
  AbsolutePath = absolute_path
  MaxThreadId = 4
SPECIFICATION Spec
INVARIANTS NoAliasing
PROPERTY InnerSeesOuter
CHECK_DEADLOCK FALSE
