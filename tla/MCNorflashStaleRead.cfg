SPECIFICATION Spec
CONSTANTS
  MODULES = 1
  SECTORS = 1
  CELLS = 2
  Bits = {b1}
  OPRA_NUM = 4
  BUFFER_NUM = 2
  EraseLens = {1}
  Flushers = {IDLE}
  FLASH_SUSPEND = TRUE
  MULTI_FLASH = FALSE
  CP_USER = FALSE
  IDLE = IDLE
  NULL = NULL
INVARIANTS
  ReadYourWrites
