CONSTANTS
  d = d
  f = f
  Paths <- TwoPaths
  Under <- FileInDir
  Tasks = {t1, t2}
  Agents = {a1}
  Requests = {r1}
  TTLs = {1}
  None = None
  DiskFails = FALSE
  MaxRestarts = 1
  Threads = {x1}
  Workers = {w1, w2}
  MaxFailures = 2
  Cooldown = 1
  MaxDoublings = 1
SPECIFICATION GuardsSpec
SYMMETRY Symmetry
INVARIANT TypeOK
INVARIANT Exclusion
INVARIANT RespawnTypeOK
INVARIANT BreakerStops
INVARIANT CooldownHolds
PROPERTY LeaseHonoured
