SPECIFICATION Spec
CONSTANTS
  Server = {0, 1}
  Key = {k1}
  Rank <- MCRank
  None = None
  Requester = {r1}
  Operator = {}
  Administrator = {}
  MaxCalls <- MCTwice
  MaxOps = 0
  MaxForces = 0
  MaxStops = 1
CHECK_DEADLOCK FALSE
INVARIANT
  FailoverIsNoted
