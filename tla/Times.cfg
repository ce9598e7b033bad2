\* One maintenance and a second of two ticks.
CONSTANTS
  NM = {n1}
  Second = 2
  Timeouts = {0, 1}
  Limits = {1, 2}
  Default = 2
  Nil = Nil
  MaxClock = 5
  MaxEdits = 1
  MaxFaults = 1
SPECIFICATION FairSpec
INVARIANT TypeOK
PROPERTIES WaitNotCutShort CollectedOnlyWhenStale WaitEnds 
CHECK_DEADLOCK FALSE
