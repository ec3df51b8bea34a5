SPECIFICATION FairSpec
CONSTANTS
  t1 = t1
  t2 = t2
  Thread = {t1, t2}
  N = 6
  Starts = {0, 1, 2, 4, 5}
  Flow <- Loops
  Patch = {0, 1, 2}
  MAX_BP = 4
  KEIL = TRUE
  Commands = 3
CHECK_DEADLOCK FALSE
INVARIANTS
  FilterOfOwnAddress
  RearmedOutsideWindow
PROPERTIES
  ControlFlowKept
  FilteredBeforeExecution
  WindowCloses
