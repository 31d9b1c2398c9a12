SPECIFICATION OtaSpec
CONSTANTS
  AUTH_BYTES = 4
  ChunkSizes = {0, 1, 2, 9}
  ReadSizes <- Reads
  BufferSize = 12
  Top = 40
  MaxChunks = 3
CHECK_DEADLOCK FALSE
INVARIANTS
  OtaTypeOK
  Reassembled
