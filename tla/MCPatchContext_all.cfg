SPECIFICATION Spec
CONSTANTS
  n1 = n1
  n2 = n2
  n3 = n3
  local = local
  lfixed = lfixed
  NoPatch = NoPatch
  Junk = Junk
  Patch = {n1, n2, n3, local, lfixed}
  LocalDynamic = local
  LocalFixed = lfixed
  NetAddr <- NetSmall
  LocalAddr <- LocalSmall
  FixedId <- Ids
  Thumb32 <- Wide
  MAX_DP_NUM = 1
  MAX_BP = 2
  HaltingDebug = FALSE
  Slots = 3
  INIT_SIZE = 1
  MAP_GROW = 1
  GarbageEq <- AnyGarbage
SYMMETRY Net
CHECK_DEADLOCK FALSE
INVARIANTS
  PointerListedOnce
  RightPatchAtBreakpoint
  ExceptionWalkSafe
  FixedPatchMatches
  
PROPERTY
  InstalledPatchIsFound
