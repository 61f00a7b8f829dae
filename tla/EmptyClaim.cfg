\* Two small sectors (one block each) below the image, one large sector and
\* a half for it; AppStart = 8 is the base of sector 2.
CONSTANTS
  SmallSectors = 2
  SmallSize = 4
  LargeSectors = 3
  LargeSize = 8
  RowSize = 2
  BlockRows = 2
  AddrSpace = 40
  b1 = b1
  b2 = b2
  Blocks = {b1, b2}
  Blank = Blank
  Zeros = Zeros
  Other = Other
  CommandWords = {0}
  CommandSizes = {5}
  UploadSizes = {4}
  Spells <- MCSpells
  RomMayFail = TRUE
  AppStart = 8
  Image <- MCImage
  MaxFaults = 2
SPECIFICATION SystemSpec
INVARIANT EmptyMeansBootloader
