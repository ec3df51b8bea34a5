SPECIFICATION Spec
CONSTANTS
  Program <- SmallPrograms
  PrologueLen = 2
  EpilogueLen = 2
  B4Above = 3
  CondRange <- SmallCond
  LongRange <- SmallLong
  BranchRange <- SmallLong
  FarRange <- SmallLong
  BufferLen = 44
  Before = 0
CHECK_DEADLOCK FALSE
INVARIANTS
  BranchesLand
  LongProgramsAgree
