CONSTANTS
  Agents = {a1}
  Senders = {s1, s2}
  Requests = {r1}
  Modes = {"plain", "from"}
  Cap = 9
  Keep = 9
  Limit = 1
  None = None
  MaxMessages = 3
  MaxRestarts = 0
SPECIFICATION Spec
SYMMETRY Symmetry
INVARIANT OthersRemain
