CONSTANTS
  Senders = {s1, s2}
  MaxSends = 3
SPECIFICATION FairPumpSpec
INVARIANTS NoUseAfterDelete
PROPERTIES ImplementsChannel DroppedIsDeleted
CHECK_DEADLOCK FALSE
