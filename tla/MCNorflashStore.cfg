SPECIFICATION Spec
CONSTANTS
  MODULES = 1
  SECTORS = 2
  CELLS = 2
  Bits = {b1}
  OPRA_NUM = 3
  BUFFER_NUM = 1
  EraseLens = {1}
  Flushers = {IDLE}
  FLASH_SUSPEND = TRUE
  MULTI_FLASH = FALSE
  CP_USER = FALSE
  IDLE = IDLE
  NULL = NULL
PROPERTIES
  StoreRefined
  
  LockedNodeFrozen
