SPECIFICATION Spec
CONSTANTS
  Window = 1
  MaxHosts = 1
  MaxPayload = 3
  MaxEntries = 3
  Requests <- MCRequests
INVARIANTS
  TypeOK
  VerdictJustified
PROPERTIES
  RoundTrip
  ImplementsLastSeen
