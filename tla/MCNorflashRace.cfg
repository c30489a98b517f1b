SPECIFICATION Spec
CONSTANTS
  MODULES = 2
  SECTORS = 1
  CELLS = 1
  Bits = {}
  OPRA_NUM = 3
  BUFFER_NUM = 1
  EraseLens = {1}
  Flushers = {IDLE, ota, log}
  FLASH_SUSPEND = TRUE
  MULTI_FLASH = FALSE
  CP_USER = TRUE
  IDLE = IDLE
  NULL = NULL
SYMMETRY FlusherSymmetry
CHECK_DEADLOCK FALSE
INVARIANTS
  SuspendedAgrees
