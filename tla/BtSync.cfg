SPECIFICATION FairSpec
CONSTANTS
    MAX = 2
    Ops = {retrigger, volume, offset}
    VOLUME = volume
    STREAM = stream
    TIMEOUT = 3
    MAILS = 10
    MaxStarts = 3
    MaxSwitches = 1
INVARIANTS
    Watched
    
PROPERTIES
    
    ChannelsReturn
CHECK_DEADLOCK FALSE
