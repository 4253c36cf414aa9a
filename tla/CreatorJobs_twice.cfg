CONSTANTS
  Jobs = {j1}
  N = 2
  Requests = {r1, r2}
  Calls = {"create"}
  None = None
  MaxQueue = 2
  MaxRestarts = 0
SPECIFICATION Spec
PROPERTY NoStageTwice
CHECK_DEADLOCK FALSE
