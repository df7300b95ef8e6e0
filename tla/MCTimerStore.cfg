SPECIFICATION StoreSpec
CONSTANTS
  t1 = t1
  t2 = t2
  NoTimer = NoTimer
  Timers <- MCTimers
  JustPlay <- MCNone
  Repeated <- MCOne
  Streams <- MCOther
  Events <- MCAll
  Begins <- MCBegins
  Length = 1
  Day = 2
  PrepareTime = 0
  MinBackoff = 1
  MaxBackoff = 2
  RetryDelay = 1
  MountRetries = 1
  MaxWaitTime = 3
  KeepTime = 1
  MaxTime = 2
  MaxEdits = 1
  MaxClockSets = 1
  Service <- MCService
  MaxCrashes = 1
  MaxSaveErrors = 1
INVARIANTS KnownIsStored  StoredOnce
PROPERTIES StaysInFile
CHECK_DEADLOCK FALSE
