SPECIFICATION Spec
CONSTANTS
  MODULES = 2
  SECTORS = 1
  CELLS = 1
  Bits = {b1}
  OPRA_NUM = 3
  BUFFER_NUM = 1
  EraseLens = {1}
  Flushers = {ota, log}
  FLASH_SUSPEND = TRUE
  MULTI_FLASH = TRUE
  CP_USER = FALSE
  IDLE = IDLE
  NULL = NULL
SYMMETRY FlusherSymmetry
INVARIANTS
  NoPanic
  SyncNotRefused

  
  
