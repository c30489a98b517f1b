SPECIFICATION FairSpec
CONSTANTS
  HWTIMER_NUM = 3
  Ticks = {1, 3}
  LATENCY = 1
  MaxStops = 1
INVARIANTS
  TypeOK
  HeadArmed
  NoCollapse
  NeverEarly
  NeverLate
PROPERTIES
  EventuallyFires
