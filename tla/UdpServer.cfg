SPECIFICATION Spec
CONSTANT
  Threshold = 30
INVARIANT
  TypeOK
PROPERTIES
  NoPrematureTakeover
  OutageBounded
  ServiceResumes
  StandbyYields
