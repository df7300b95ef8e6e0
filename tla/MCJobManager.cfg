SPECIFICATION FairSpec
CONSTANTS
  dvd = dvd
  two = two
  one = one
  NoJob = NoJob
  Jobs <- MCJobs
  Kinds <- MCKinds
  MaxRetries = 2
INVARIANTS OneTaskRuns QuestionIsAboutActive SuccessIsEarned Accounted
PROPERTIES QueueMoves
CHECK_DEADLOCK FALSE
