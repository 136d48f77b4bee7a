\* Enclose/escape mode: the v2 reader may return the last record with
\* EndOfFile.
CONSTANTS
  SampleCount = 2
  SkipHeader = 1
  V2 = TRUE
  Files <- MCFiles
  IOErrors = FALSE
SPECIFICATION Spec
INVARIANTS SampleFaithful
