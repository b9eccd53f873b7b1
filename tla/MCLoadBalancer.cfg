SPECIFICATION Spec
SYMMETRY MCSymmetry
CONSTANTS
  Server = {0, 1}
  Key = {k1}
  Rank <- MCRank
  None = None
  Requester = {r1, r2}
  Operator = {o1}
  Administrator = {a1}
  MaxCalls <- MCOnce
  MaxOps = 1
  MaxForces = 1
  MaxStops = 1
CHECK_DEADLOCK FALSE
INVARIANTS
  TypeOK
  NoSessionLeftBehind
  RingServersUp
  SingleFailureMasked
