SPECIFICATION FairSpec
CONSTANTS
  x = x
  y = y
  z = z
  raw = raw
  u1 = u1
  u2 = u2
  a = a
  b = b
  c = c
  None = None
  Chans <- MCChans
  Raws = {raw}
  Users = {u1, u2}
  Tuners = {a, b}
  UserBands = {b}
  Tunes <- MCTunes
  RootOf <- MCRootOf
INVARIANTS UserKeepsTuner FedHasPower PromiseIsKept
PROPERTIES TunerIsClosed
