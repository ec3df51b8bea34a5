SPECIFICATION Spec
CONSTANTS
  n1 = n1
  n2 = n2
  n3 = n3
  local = local
  lfixed = lfixed
  NoPatch = NoPatch
  Junk = Junk
  Patch = {n1, n2, n3, local, lfixed}
  LocalDynamic = local
  LocalFixed = lfixed
  NetAddr <- NoAddr
  LocalAddr <- LocalOne
  FixedId <- NoIds
  Thumb32 <- Wide
  MAX_DP_NUM = 1
  MAX_BP = 2
  HaltingDebug = FALSE
  Slots = 4
  INIT_SIZE = 2
  MAP_GROW = 2
  GarbageEq <- ZeroedHeap
SYMMETRY Net
CHECK_DEADLOCK FALSE
INVARIANT
  NoUseAfterReset
