CONSTANTS
  NumFields <- MCNumFields
  Slots <- MCSlots
  ChunkSize <- MCChunkSize
  ReportMax <- MCReportMax
  MaxTimeouts = 0
  SkipHeader = 1
  Configs <- MCConfigsBoth
  Ranges <- MCRangesHeader
  NoReader = NoReader
SPECIFICATION Spec
INVARIANTS  ChunkAligned DeliveredInOrder NoHeaderDelivered
PROPERTIES ScanTerminates
