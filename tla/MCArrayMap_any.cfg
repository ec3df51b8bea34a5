SPECIFICATION Spec
CONSTANTS
  Slots = 4
  INIT_SIZE = 2
  MAP_GROW = 1
  Junk = Junk
  GarbageEq <- AnyGarbage
  Key <- Keys3
  Val = {v1, v2}
INVARIANTS
  TypeOK
  TailSorted
  GetReturnsOwnValue
  GetReturnsLatest
