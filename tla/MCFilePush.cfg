CONSTANTS
  MaxSeeks = 3
  EofLimit = 2
SPECIFICATION FairSpec
INVARIANTS PausedIsQuiet SeekDropsOldData
PROPERTIES StopReturns SeekIsServed
CHECK_DEADLOCK FALSE
