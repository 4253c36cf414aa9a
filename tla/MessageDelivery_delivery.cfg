CONSTANTS
  Agents = {a1}
  Senders = {s1, s2}
  Requests = {r1, r2}
  Modes = {"from", "limit", "fresh"}
  Cap = 2
  Keep = 1
  Limit = 1
  None = None
  MaxMessages = 3
  MaxRestarts = 1
SPECIFICATION Spec
SYMMETRY Symmetry
INVARIANT TypeOK
INVARIANT NoSkip
PROPERTY SendKeepsUnread
