----------------------------- MODULE FlashLayout -----------------------------
(***************************************************************************)
(* The on-chip flash as src/iap/iap.c sees it: the two runs of equally     *)
(* large sectors of flashLayout[], the address arithmetic of               *)
(* sector_by_address, and the answers of the ROM's in-application          *)
(* programming (IAP) entry point, which is not part of the repository.     *)
(*                                                                         *)
(* The flash is a function from rows to contents.  A row is what the ROM   *)
(* aligns a copy to; one DFU block (TransferSize bytes) covers             *)
(* BlockRows of them.  A row holds a member of Blocks (the whole of a      *)
(* block's data is one value: the ROM copies it in order), Blank (erased), *)
(* Zeros (a buffer that was only cleared) or Other (anything else: earlier *)
(* firmware, data programmed over other data, a row torn by a power loss). *)
(***************************************************************************)
EXTENDS Integers

CONSTANTS
    SmallSectors,  \* flashLayout[0].sectors: 16 on the LPC1788
    SmallSize,     \* flashLayout[0].size: 4096
    LargeSectors,  \* flashLayout[1].sectors: 14
    LargeSize,     \* flashLayout[1].size: 32768
    RowSize,       \* alignment of the destination of a copy: 256
    BlockRows,     \* rows in one DFU_TRANSFER_SIZE block: 512 / 256
    AddrSpace,     \* an address is a uint32_t: 2^32
    Blocks, Blank, Zeros, Other

ASSUME LayoutAssumption ==
    /\ SmallSectors \in Nat \ {0}
    /\ SmallSize \in Nat \ {0}
    /\ LargeSectors \in Nat \ {0}
    /\ LargeSize \in Nat \ {0}
    /\ RowSize \in Nat \ {0}
    /\ BlockRows \in Nat \ {0}
    /\ AddrSpace \in Nat \ {0}
    /\ SmallSize % RowSize = 0
    /\ LargeSize % RowSize = 0

ASSUME ContentAssumption ==
    /\ Blank \notin Blocks
    /\ Zeros \notin Blocks
    /\ Other \notin Blocks
    /\ Blank # Zeros /\ Blank # Other /\ Zeros # Other

SmallBytes == SmallSectors * SmallSize
FlashSize == SmallBytes + LargeSectors * LargeSize
TransferSize == BlockRows * RowSize

Sectors == 0 .. (SmallSectors + LargeSectors - 1)
Rows == 0 .. ((FlashSize \div RowSize) - 1)
Addresses == 0 .. (AddrSpace - 1)
Content == Blocks \cup {Blank, Zeros, Other}

(***************************************************************************)
(* The layout table, sector by sector.                                     *)
(***************************************************************************)
SectorSize(s) == IF s < SmallSectors THEN SmallSize ELSE LargeSize

SectorBase(s) == IF s < SmallSectors
                 THEN s * SmallSize
                 ELSE SmallBytes + (s - SmallSectors) * LargeSize

InSector(a, s) == SectorBase(s) <= a /\ a < SectorBase(s) + SectorSize(s)

\* The sector the driver computes from an address, in or out of the flash.
sector_by_address(address) ==
    IF address < SmallBytes
    THEN address \div SmallSize
    ELSE (address - SmallBytes) \div LargeSize + SmallSectors

-----------------------------------------------------------------------------
(***************************************************************************)
(* The ROM.                                                                *)
(***************************************************************************)

\* Rows and bytes a command reaches.
RowAddr(r) == r * RowSize
SectorRows(s) == {r \in Rows : InSector(RowAddr(r), s)}
WindowRows(address, n) == {r \in Rows : address <= RowAddr(r) /\ RowAddr(r) < address + n}

\* Programming clears bits: only an erased row takes the new data as it is.
Programmed(old, new) == IF old = Blank \/ old = new THEN new
                        ELSE IF Zeros \in {old, new} THEN Zeros ELSE Other

Erased(flash, s) == [r \in Rows |-> IF r \in SectorRows(s) THEN Blank ELSE flash[r]]

Written(flash, address, block) ==
    [r \in Rows |-> IF r \in WindowRows(address, TransferSize)
                    THEN Programmed(flash[r], block) ELSE flash[r]]

PrepareStatus(s) == IF s \in Sectors THEN "CMD_SUCCESS" ELSE "INVALID_SECTOR"

\* COPY_RAM_TO_FLASH of TransferSize bytes, prepared being the set of sectors
\* CMD_PREPARE_SECTORS has opened and no copy or erase has closed since.
CopyStatus(address, prepared) ==
    CASE address % RowSize # 0 -> "DST_ADDR_ERROR"
      [] address % RowSize = 0 /\ address + TransferSize > FlashSize -> "DST_ADDR_NOT_MAPPED"
      [] OTHER -> IF \A s \in Sectors : SectorRows(s) \cap WindowRows(address, TransferSize) # {}
                                           => s \in prepared
                  THEN "CMD_SUCCESS"
                  ELSE "SECTOR_NOT_PREPARED_FOR_WRITE_OPERATION"

\* BLANK_CHECK_SECTORS.
BlankCheckStatus(flash, s) ==
    IF s \notin Sectors THEN "INVALID_SECTOR"
    ELSE IF \A r \in SectorRows(s) : flash[r] = Blank THEN "CMD_SUCCESS"
    ELSE "SECTOR_NOT_BLANK"

\* What iap_blank_check answers for the sector of an address: TRUE when that
\* sector holds something.
iap_blank_check(flash, address) ==
    BlankCheckStatus(flash, sector_by_address(address)) = "SECTOR_NOT_BLANK"
=============================================================================
