CONSTANTS
  Tasks = {t1}
  Agents = {a1, a2}
  Assignees = {a1, a2}
  Verifiers = {}
  OwnerRequests = {o1}
  System = System
  None = None
  MaxActive = 1
  MaxRetries = 2
  AckDeadline = 1
  TaskTimeout = 1
  ReminderTimeout = 1
  DirectTimeout = 1
  MaxRestarts = 0
SPECIFICATION Spec
SYMMETRY AgentSymmetry
INVARIANT TypeOK ClaimantHolds
PROPERTY DoneLeftOnlyByOwner AckBeatsDeadline ImplementsHold
