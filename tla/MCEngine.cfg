SPECIFICATION Spec
CONSTANTS
  None = None
  k1 = k1
  Server = {0, 1, 2}
  Key = {k1}
  MaxCount = 2
  MaxFailures = 2
CHECK_DEADLOCK FALSE
INVARIANTS
  TypeOK
  ServedJustified
  UnavailableJustified
  LogTellsOutcome
  FilesOpenThenClosed
PROPERTIES
  AnswersContinue
  RetriesConverge
