SPECIFICATION FairSpec
CONSTANTS
  Callers = {speech}
  Commands = {process, ping}
  Registered = {process}
  MaxCalls = 5
  MaxTimeouts = 2
  MaxNotifies = 1
CHECK_DEADLOCK FALSE
INVARIANTS
  WakeupComing
  SurplusBounded
  
PROPERTIES
  CallsReturn
