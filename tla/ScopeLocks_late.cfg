CONSTANTS
  d = d
  f = f
  Paths <- TwoPaths
  Under <- FileInDir
  Tasks = {t1, t2}
  Agents = {a1, a2}
  Requests = {r1}
  TTLs = {1}
  None = None
  DiskFails = FALSE
  MaxRestarts = 1
SPECIFICATION Spec
PROPERTY GrantOnlyToHolder
