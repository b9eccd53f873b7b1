SPECIFICATION Spec
CONSTANTS
  k1 = k1
  k2 = k2
  None = None
  Server = {0, 1, 2}
  Key = {k1}
  Rank <- MCRank
  DefaultTimeout = 1
  CustomTimeout <- MCCustomTimeout
  MaxIdle = 3
  MaxHistory = 4
INVARIANTS
  TypeOK
  AuditTrail
  HonestAnswer
PROPERTIES
  StickyAffinity
  EntryLife
  KeepsPromise
