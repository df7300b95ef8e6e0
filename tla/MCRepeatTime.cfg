SPECIFICATION Spec
CONSTANTS
  Hours = 4
  Week = 3
  Begins <- MCBegins
  Lengths <- MCLengths
  Nows <- MCNows
  FindRunningEvent = TRUE
  Missing <- MCMissing
INVARIANT FirstWanted
CHECK_DEADLOCK FALSE
