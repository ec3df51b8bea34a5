SPECIFICATION Spec
CONSTANTS
  Bits = 8
  Values <- Boundary
  Immediates <- Constants
  Placements <- PlacedTwo
  Offsets <- LoadOffsets
  imm5 = 3
  imm8 = 15
  imm12 = 63
  Other = 23130
CHECK_DEADLOCK FALSE
INVARIANT
  LowOnlyIfHighEqual
