SPECIFICATION Spec
CONSTANTS
  Names = {n1}
  MaxArms = 3
  MaxMsgs = 3
INVARIANTS TypeOK PendingHasTimer LatestNotLost
PROPERTIES ClosedIsFinal EventuallyFlushed CloseCompletes
CHECK_DEADLOCK FALSE
