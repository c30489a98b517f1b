SPECIFICATION FairSpec
CONSTANTS
    COUNT = 2
    SECTOR = 3
    SECTORS = 2
    OPRA = 2
    MULTI_FLASH = TRUE
    MaxLine = 2
    MaxLogged = 6
    MaxRestarts = 1
INVARIANTS
    OnlyWriterFills
    
    
    

    
    
CHECK_DEADLOCK FALSE
