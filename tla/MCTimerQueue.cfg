CONSTANTS
  MaxTimers = 3
  Delay <- Delays
  MaxLate = 1
SPECIFICATION FairSpec
INVARIANTS TypeOK RemovedIsSilent OncePerPass SleepIsShort
PROPERTIES PassEnds ArmedFires
