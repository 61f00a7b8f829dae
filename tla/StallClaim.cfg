\* Units of half a packet; a packet is two of them.
CONSTANTS
  BufferSize = 4
  PacketSize = 2
  DownloadSizes <- MCDownloadSizes
  UploadSizes <- MCUploadSizes
  StatusSize = 1
  MaxTransfers = 3
  MaxAborts = 0
  MaxResets = 0
  Polls = TRUE
SPECIFICATION EpSpec
INVARIANT OnlyUnknownStalled
CHECK_DEADLOCK FALSE
