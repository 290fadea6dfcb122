SPECIFICATION Spec
CONSTANTS
  p1 = p1
  p2 = p2
  Pids = {p1, p2}
  Fds = {3, 4}
  MaxLines = 5
SYMMETRY PidSymmetry
CHECK_DEADLOCK FALSE
INVARIANTS OwnFilesReplayed FaithfulUnlessShared BrokenCallsLost
