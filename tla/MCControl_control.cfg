CONSTANTS
  Threads = {x1, x2, x3}
  Agents = {a1, a2}
  None = None
  Scheduled = {s1}
  Conditional = {c1}
  MaxRetries = 1
  MaxPending = 2
  MaxRestarts = 1
SPECIFICATION ControlSpec
INVARIANT TypesOK
INVARIANT PhaseIsCarried
INVARIANT RetriesAreCopies
PROPERTY RestartEnds
PROPERTY DueComesToRun
