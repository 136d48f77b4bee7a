CONSTANTS
  Capacity = 8
  Delim <- MCDelim2
  Files <- MCFiles2
  IOErrors = FALSE
SPECIFICATION Spec
 
PROPERTIES ImplementsRecordStream
