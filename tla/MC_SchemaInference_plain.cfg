\* Plain mode: a header, samples of two, read errors.
CONSTANTS
  SampleCount = 2
  SkipHeader = 1
  V2 = FALSE
  Files <- MCFiles
  IOErrors = TRUE
SPECIFICATION Spec
INVARIANTS TypeOK SampleFaithful
