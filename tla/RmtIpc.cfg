SPECIFICATION FairSpec
CONSTANTS
  Data = {m1, m2, m3}
  NULL = NULL
  HAL_RMT_IPC_MAX_SEND_REC_CNT = 3
INVARIANTS
  RecordsAccounted
  AnnouncedOnce
PROPERTIES
  ListFrozen
  ImplementsChannel
  EventuallyReleased
