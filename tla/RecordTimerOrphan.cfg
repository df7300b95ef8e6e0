SPECIFICATION Spec
CONSTANTS
  t1 = t1
  t2 = t2
  t3 = t3
  NoTimer = NoTimer
  Timers <- MCTimers
  JustPlay <- MCNone
  Repeated <- MCNone
  Streams <- MCNone
  Events <- MCDisabling
  Begins <- MCBegins
  Length = 2
  Day = 4
  PrepareTime = 1
  MinBackoff = 1
  MaxBackoff = 2
  RetryDelay = 1
  MountRetries = 1
  MaxWaitTime = 3
  KeepTime = 2
  MaxTime = 4
  MaxEdits = 2
  MaxClockSets = 0
PROPERTIES RemovedIsStopped
CHECK_DEADLOCK FALSE
