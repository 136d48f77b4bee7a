CONSTANTS
  Capacity = 3
  Delim <- MCDelim1
  Files <- MCFiles1
  IOErrors = TRUE
SPECIFICATION Spec
INVARIANTS TypeOK
PROPERTIES ImplementsRecordStream
