SPECIFICATION Spec
CONSTANTS
  Bits = 8
  Values <- Boundary
  Immediates <- Constants
  Placements <- Placed
  Offsets <- LoadOffsets
  imm5 = 3
  imm8 = 15
  imm12 = 63
  Other = 23130
CHECK_DEADLOCK FALSE
INVARIANTS
  JumpsAgree
  WideOpsAgree
  ShiftsAgree
  LowHalvesAgree
  LoadsAgree
  CallsPassArguments
  OthersUntouched
