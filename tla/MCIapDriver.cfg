\* A small sector of one block and a large one of two, two rows a block; 2 is
\* a row that is not the first of a sector (a copy there crosses into the next
\* sector), 5 is not the start of a row, 8 in the last sector, 12 past the end.
CONSTANTS
  SmallSectors = 1
  SmallSize = 4
  LargeSectors = 1
  LargeSize = 8
  RowSize = 2
  BlockRows = 2
  AddrSpace = 16
  Blocks = {b1}
  Blank = Blank
  Zeros = Zeros
  Other = Other
  CallAddresses = {2, 5, 8, 12}
  RomMayFail = TRUE
SPECIFICATION FairDriver
INVARIANTS DriverInv
PROPERTIES ImplementsService CallReturns InterruptServed
