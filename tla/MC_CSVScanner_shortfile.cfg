CONSTANTS
  NumFields <- MCNumFields
  Slots <- MCSlots
  ChunkSize <- MCChunkSize
  ReportMax <- MCReportMax
  MaxTimeouts = 0
  SkipHeader = 1
  Configs <- MCConfigsLoadV1
  Ranges <- MCRangesShortFile
  NoReader = NoReader
SPECIFICATION Spec
INVARIANTS ScanOutcome
