SPECIFICATION FairSpec
CONSTANTS
  periodic = periodic
  once = once
  n1 = n1
  n2 = n2
  n3 = n3
  None = None
  Timers <- MCTimers
  Interval <- MCInterval
  SingleShot <- MCSingle
  Notifiers <- MCNotifiers
  Fd <- MCFd
  Waker = 9
  Ms = 2
  Delays = {2}
  Late = 1
  MaxOps = 2
INVARIANT WakesForTimer
PROPERTIES NoStaleCallback TimerIsServed ReadyIsServed TimeoutIsKept
CHECK_DEADLOCK FALSE
