CONSTANTS
  Prog = {"f", "g"}
  Lib = {"l", "m"}
  MAX_ITERS = 1
  MaxCount = 5
  SHELL_BUFFER_SIZE = 6
  max_args = 2
  Piece <- Pieces
  patch_list <- LocalList
  fixed_list <- FixedList
  test_funcs <- VmList
SPECIFICATION FairSpec
PROPERTIES ExceededFilterDrops
CHECK_DEADLOCK FALSE
