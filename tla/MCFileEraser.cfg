\* Two files, small or larger than two steps of truncating, two speeds
\* that do not divide each other, and a thread that cannot be created.
CONSTANTS
  Files = {f1, f2}
  NoFile = NoFile
  Quit = Quit
  Sizes = {1, 7}
  Speeds = {2, 3}
  MaxFailures = 1
SPECIFICATION FairSpec
INVARIANTS FatalOnlyRaced
PROPERTIES CallReturns SentIsHandled
CHECK_DEADLOCK FALSE
