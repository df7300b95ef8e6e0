SPECIFICATION Spec
CONSTANTS
  t1 = t1
  t2 = t2
  t3 = t3
  NoTimer = NoTimer
  Timers <- MCThree
  JustPlay <- MCThird
  Repeated <- MCOne
  Streams <- MCOne
  Events <- MCAll
  Begins <- MCAtOne
  Length = 2
  Day = 4
  PrepareTime = 1
  MinBackoff = 1
  MaxBackoff = 1
  RetryDelay = 1
  MountRetries = 0
  MaxWaitTime = 3
  KeepTime = 2
  MaxTime = 3
  MaxEdits = 2
  MaxClockSets = 1
INVARIANTS StartHasRecorder
CHECK_DEADLOCK FALSE
