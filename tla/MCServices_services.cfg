CONSTANTS
  d = d
  t1 = t1
  a1 = a1
  r1 = r1
  Threads = {x1, x2}
  Requests = {q1, q2}
  Grants = {g1}
  Payloads = {p1, p2}
  MaxPending = 1
  MaxUses = 1
  None = None
  BufferMax = 1
  HistoryMax = 2
  Limit = 1
  MaxMessages = 2
  MaxDrops = 1
  Instances = {i1, i2}
  QueueMax = 2
  Pool = 2
  MaxFrames = 2
  MaxConns = 2
SPECIFICATION ServicesSpec
INVARIANT TypesOK
INVARIANT LimitsHold
INVARIANT ActsAsApproved
INVARIANT InOrderPerConnection
INVARIANT OneFramePerConnection
PROPERTY ImplementsMailbox
PROPERTY EveryMessageSettles
PROPERTY EachFrameOnce
PROPERTY FramesAreHandled
PROPERTY OrphanLocksExpire
