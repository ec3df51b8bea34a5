SPECIFICATION Spec
CONSTANTS
  Program <- ShiftOver
  PrologueLen = 26
  EpilogueLen = 8
  B4Above = 20
  CondRange <- RealCond
  LongRange <- RealLong
  BranchRange <- RealBranch
  FarRange <- RealLong
  BufferLen = 2048
  Before = 0
CHECK_DEADLOCK FALSE
INVARIANT
  PrePassCalculatesOffsets
