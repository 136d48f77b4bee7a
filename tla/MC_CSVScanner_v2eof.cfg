CONSTANTS
  NumFields <- MCNumFields
  Slots <- MCSlots
  ChunkSize <- MCChunkSize
  ReportMax <- MCReportMax
  MaxTimeouts = 0
  SkipHeader = 0
  Configs <- MCConfigsV2Load
  Ranges <- MCRangesShortLast
  NoReader = NoReader
SPECIFICATION Spec
INVARIANTS ScanOutcome
