SPECIFICATION Spec
CONSTANTS
  c1 = c1
  c2 = c2
  Client = {c1}
  Window = 2
  MaxRequests = 2
  MaxQueue = 4
INVARIANT
  MemoryBounded
