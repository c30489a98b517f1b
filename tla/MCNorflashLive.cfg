SPECIFICATION FairSpec
CONSTANTS
  MODULES = 2
  SECTORS = 2
  CELLS = 1
  Bits = {}
  OPRA_NUM = 3
  BUFFER_NUM = 1
  EraseLens = {1, 2}
  Flushers = {IDLE}
  FLASH_SUSPEND = TRUE
  MULTI_FLASH = FALSE
  CP_USER = TRUE
  IDLE = IDLE
  NULL = NULL
INVARIANTS
  PoolAccounted
PROPERTIES
  SuspendedCompletes
  QuietDrains
