CONSTANTS
  NumFields <- MCNumFields
  Slots <- MCSlots
  ChunkSize <- MCChunkSize
  ReportMax <- MCReportMax
  MaxTimeouts = 1
  SkipHeader = 1
  Configs <- MCConfigsLoadV1
  Ranges <- MCRangesOneHeader
  NoReader = NoReader
SPECIFICATION Spec
INVARIANTS NoHeaderDelivered
