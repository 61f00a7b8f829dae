\* 16 bytes of flash; 16 is the first address past it and 18 wraps.
CONSTANTS
  SmallSectors = 2
  SmallSize = 4
  LargeSectors = 1
  LargeSize = 8
  RowSize = 2
  BlockRows = 2
  AddrSpace = 20
  Blocks = {b1}
  Blank = Blank
  Zeros = Zeros
  Other = Other
  CommandWords = {0, 6, 9, 16}
  CommandSizes = {1, 5}
  UploadSizes = {1, 4}
  Spells <- MCSpells
  RomMayFail = TRUE
  MaxRequests = 4
SPECIFICATION MCSpec
INVARIANTS TypeOK StatusStateAgree OutcomeReported
CHECK_DEADLOCK FALSE
