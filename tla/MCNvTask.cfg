SPECIFICATION FairSpec
CONSTANTS
  MULTI_FLASH = TRUE
  MaxVersion = 3
  MaxCuts = 2
  Blank = Blank
  Torn = Torn
PROPERTIES
  EventuallySaved
