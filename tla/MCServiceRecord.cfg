CONSTANTS
  PAT = 0
  Programs = {{1}, {1, 2}}
  NoProgram = NoProgram
  NotCached = NotCached
  Sorts = {"dvb", "stream"}
  Faults = {"misconfigured", "open", "demux", "recorder", "source", "read", "write", "broken"}
  MaxStarts = 2
  MaxEvents = 2
SPECIFICATION FairSpec
INVARIANTS RunsOnlyRecording RecordsProgram
PROPERTIES KeepsRecording JoinReturns WriteErrorEnds
CHECK_DEADLOCK FALSE
