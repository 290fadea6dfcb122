SPECIFICATION FairSpec
CONSTANTS
  Benches <- MCBenches
  MaxProcesses = 6
CHECK_DEADLOCK FALSE
INVARIANTS ReportsPrinted CleanUpAfterMain TitleSafe
PROPERTIES AllEnd
