SPECIFICATION Spec
CONSTANTS
  Server <- MCServer
  Key <- MCKey
  HashSize = 16
  VnodeHash <- MCVnodeHash
  KeyHash <- MCKeyHash
INVARIANTS
  TypeOK
  RingExact
  LookupIsClosest
PROPERTIES
  MinimalDisruption
  ImplementsAssignment
