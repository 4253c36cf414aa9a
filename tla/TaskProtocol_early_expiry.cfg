CONSTANTS
  Tasks = {t1}
  Agents = {a1, a2}
  Assignees = {}
  Verifiers = {}
  OwnerRequests = {}
  System = System
  None = None
  MaxActive = 1
  MaxRetries = 3
  AckDeadline = 1
  TaskTimeout = 2
  ReminderTimeout = 1
  DirectTimeout = 1
  MaxRestarts = 0
SPECIFICATION Spec
PROPERTY ExpiryOnlyAfterTTL
