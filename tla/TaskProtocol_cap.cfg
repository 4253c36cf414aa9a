CONSTANTS
  Tasks = {t1, t2}
  Agents = {a1}
  Assignees = {}
  Verifiers = {v1}
  OwnerRequests = {}
  System = System
  None = None
  MaxActive = 1
  MaxRetries = 0
  AckDeadline = 0
  TaskTimeout = 0
  ReminderTimeout = 0
  DirectTimeout = 0
  MaxRestarts = 1
SPECIFICATION Spec
SYMMETRY Symmetry
INVARIANT CapOnClaims
