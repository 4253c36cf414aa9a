CONSTANTS
  Jobs = {j1}
  N = 2
  Requests = {r1, r2}
  Calls = {"create", "retry", "resume", "cancel"}
  None = None
  MaxQueue = 1
  MaxRestarts = 1
SPECIFICATION FairSpec
INVARIANT TypeOK
INVARIANT InOrder
INVARIANT CompletedInFull
INVARIANT RunningHasWorker
 
