SPECIFICATION HandoffSpec
CONSTANTS
  q1 = q1
  q2 = q2
  q3 = q3
  q4 = q4
  b1 = b1
  r1 = r1
  r2 = r2
  r3 = r3
  Requests = {q1, q2, q3, q4}
  Orders = {q1, q2}
  Burns = {b1}
  Agents = {"a", "b"}
  Agent <- MCAgent
  Amount <- MCAmount
  Key <- MCKey
  Relayers = {r1, r2, r3}
  Threshold = 2
  MaxPending = 1
  DailyLimit = 2
  MaxTransfers = 2
  MaxDays = 1
  MaxReleases = 2
  MaxBatch = 2
SYMMETRY Symm
INVARIANTS
  HandoffTypeOK
  TransfersAgree
  LimitsHold
  OneLockPerOrder
  RowNeverAhead
PROPERTIES
  NothingIsTakenBack
