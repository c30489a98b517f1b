SPECIFICATION FairSpec
CONSTANTS
  MULTI_FLASH = FALSE
  MaxVersion = 3
  MaxCuts = 2
  Blank = Blank
  Torn = Torn
INVARIANTS
  FlushedIsDurable
  QuietMeansSaved
PROPERTIES
  SyncSaves
