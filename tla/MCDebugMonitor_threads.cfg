SPECIFICATION FairSpec
CONSTANTS
  t1 = t1
  t2 = t2
  Shell = shell
  Thread = {t1, t2}
  N = 6
  Patchable = {1, 2, 4}
  Target = 5
  Return = 0
INVARIANTS
  FpbOffExactlyWhileStepping
  StepEventIsNotMistaken
  RepeatedOnlyAfterForeignStep
PROPERTIES
  MissedOnlyInForeignWindow
  WindowCloses
  PatchedThreadProgresses
  OneInstructionPerPass
