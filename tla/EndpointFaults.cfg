\* Units of half a packet; a packet is two of them.
CONSTANTS
  BufferSize = 4
  PacketSize = 2
  DownloadSizes <- MCDownloadSizes
  UploadSizes <- MCUploadSizes
  StatusSize = 1
  MaxTransfers = 4
  MaxAborts = 1
  MaxResets = 1
  Polls = TRUE
SPECIFICATION EpSpec
INVARIANT BlockIntact
CHECK_DEADLOCK FALSE
