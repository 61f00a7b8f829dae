\* Units of half a packet; a packet is two of them.
CONSTANTS
  BufferSize = 6
  PacketSize = 2
  DownloadSizes <- MCDownloadSizes
  UploadSizes <- MCUploadSizes
  StatusSize = 1
  MaxTransfers = 4
  MaxAborts = 0
  MaxResets = 0
  Polls = TRUE
SPECIFICATION FairEp
INVARIANTS EpInv BlockIntact AnswerIntact AckMeansServed
PROPERTY HandlerReturns
CHECK_DEADLOCK FALSE
