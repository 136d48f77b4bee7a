CONSTANTS
  NumFields <- MCNumFields
  Slots <- MCSlots
  ChunkSize <- MCChunkSize
  ReportMax <- MCReportMax
  MaxTimeouts = 1
  SkipHeader = 0
  Configs <- MCConfigsV1
  Ranges <- MCRangesRows
  NoReader = NoReader
SPECIFICATION Spec
INVARIANTS TypeOK ChunkAligned ReportCap DeliveredInOrder ScanOutcome
PROPERTIES ScanTerminates OkChunkNonEmpty
