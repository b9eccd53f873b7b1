SPECIFICATION ClaimSpec
CONSTANTS
  k1 = k1
  k2 = k2
  None = None
  Server = {0, 1}
  Key = {k1}
  Rank <- MCRank
  DefaultTimeout = 1
  CustomTimeout <- MCShortTimeout
  MaxIdle = 2
  MaxHistory = 3
INVARIANT
  BlockHolds
