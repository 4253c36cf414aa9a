CONSTANTS
  a1 = a1
  o1 = o1
  t1 = t1
  System = System
  Threads = {x1, x2}
  Agents = {a1, a2}
  None = None
SPECIFICATION DeadlinesSpec
INVARIANT TypeOK
PROPERTY ShutdownIsCarried
PROPERTY ShutdownEnds
PROPERTY ClaimsAreAckedOrTaken
PROPERTY OverdueReachesOwner
